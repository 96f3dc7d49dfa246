# Verification of the notification service

The service accepts notifications over HTTP, stores them in MySQL, and delivers
each one to an external target over HTTP, with bounded retries. A transactional
outbox, RabbitMQ delay queues, leases with fencing tokens, and a recovery loop
make it survive crashes, lost and duplicated messages, and slow workers. This
directory models that machinery in TLA+, checks it with TLC on small instances
and proves its safety properties with TLAPS for every instance.

All of it hangs on one number. `dispatch_generation` of a task is the identity of
its next attempt: every trigger names a generation, every transaction compares
it, and every transaction that makes a task wait again increments it and inserts
one outbox row for the new value. Most properties below say in one form or
another that this discipline holds whatever happens around it.

## Inventory

| component | state | operations | interacts through |
|---|---|---|---|
| business repository (`internal/repository/business`) | tables `notification_task`, `delivery_attempt`, `mq_outbox` | `Accept`, `Claim`, `Finish`, `DeferPending`, `Expired`, `RecoverLease`, `RecoverOutbox`, `Reconcile`, `ManualRetry`, `ClaimOutbox`, `Published`, `ReleaseOutbox` | called by everyone |
| retry policy (`internal/retry`) | none | `Schedule`, `UncertainAllowed` | called by worker and recovery |
| delivery worker (`internal/delivery`) | local variables of each `Process` call | `Process` | store, lock, quota, target, hook, policy |
| target adapter (`internal/target`) | cache of transports | `Deliver`, `Redact` | the external target |
| hooks (`internal/hook`) | none | `Evaluate` | decision of the adapter |
| lock (`internal/lock`) | one Redis key per notification | `Acquire`, release | worker |
| quota (`internal/quota`) | `Limiter` of a pod, Redis hashes and sorted sets | `Ingress`, `Acquire`, release | API, worker |
| dispatcher (`internal/outbox`) | the row being published | `Run` | store, RabbitMQ |
| RabbitMQ client (`internal/mq/rabbitmq`) | connection; broker queues | `Publish`, `Consume` | dispatcher, worker |
| recovery (`internal/recovery`) | none between rounds | `step` | store, policy |
| service and API (`internal/application`, `internal/api`) | none | `Accept`, `Retry`, batch, list | store, quota, worker (proxy mode) |
| configuration (`internal/config`, `cmd/notify-admin`) | current snapshot, history cache, secrets; control tables | `Reload`, `History`, `LoadSecrets`, `Watch`, apply | read by worker, recovery and API |
| process (`cmd/notifier`), health, auth | contexts, probes | start, drain | all |

What is hard: many processes run these transactions at once on copies of rows
they read earlier; every call may fail after it took effect; three clocks
(database, application, broker) and four timeouts (call 45 s, commit 5 s, lease
60 s, publish lease 30 s) must fit together; a trigger may be dropped for good
reasons (lock busy, early, stale) and only `Reconcile` brings it back. The list
`hazards` of `PROJECT.json` has each of these at its line.

What makes the parts correct:

* repository: one event and at most one attempt per generation, an exact attempt
  ledger, fencing, delivered is final, bounded cycles;
* policy: `Retry-After` and the configuration are respected, no needless wait,
  bounded requests, termination;
* worker: one request per generation whatever fails, no overlapping requests and
  no refused result as long as contexts are obeyed, success only on a complete
  response;
* dispatcher and broker: marked means received, one publisher per row, no early
  trigger;
* service: one notification per key whoever wins, a repeated request gets the
  original and never conflicts with itself, one manual retry per failure;
* quota: exact local counters, limits respected across pods, refusals are free;
* configuration: a call finds the secret of the snapshot it captured unless a
  newer revision came between, a revision of a target identifies its contents,
  pods catch up with the newest revision;
* the whole pipeline: whatever is lost, dropped or abandoned, a notification is
  delivered or fails in the end;
* process: a drain loses no message, cuts no call before its grace period is
  over, and ends.

## Modules

| module | models | lines it follows |
|---|---|---|
| `RetryPolicy` | `Schedule` and its parts, as operators | `retry/policy.go`, `config/model.go:116-125` |
| `RetryCycle` | one cycle of attempts decided by `Schedule` | `policy.go`, `worker.go`, `http.go` |
| `Store` | every transaction on the three tables, callers left open | `repository/business/*.go` |
| `Lifecycle` | abstract specification: the published state machine with generations | `docs/design.md` 2.4 |
| `StoreLifecycle` | the refinement mapping from `Store` to `Lifecycle` | |
| `Delivery` | concurrent `Process` calls, Redis lock, decisions, hooks, rounds of recovery, dispatchers; extends `Store` and `RetryPolicy` | `worker.go`, `http.go`, `evaluate.go`, `redis.go`, `loop.go` |
| `Dispatch` | dispatchers, broker, consumers; extends `Store` | `dispatcher.go`, `client.go` |
| `Submission` | concurrent submissions, batches and manual retries, reloads; extends `Store` | `application/service.go`, `application/retry.go`, `api/server.go` |
| `Quota` | limiters, Redis scripts, failures, restarts | `quota.go` |
| `Config` | revisions, the snapshot, secrets and history cache of pods, the watcher, calls that read them, restarts | `config/manager.go`, `notify-admin/main.go`, `002_control.sql` |
| `Progress` | the pipeline without clocks: dispatcher, broker, calls, recovery rounds, bounded faults, fairness | `loop.go`, `recovery.go`, `dispatcher.go`, `worker.go`, `outbox.go`, `delivery.go` |
| `Shutdown` | a pod from start to exit, the sessions of its consumer, its API and its dispatcher | `cmd/notifier/main.go`, `client.go:178-264` |
| `RetryCycle_proofs`, `Store_proofs`, `Delivery_proofs`, `Dispatch_proofs`, `Quota_proofs`, `Submission_proofs`, `Shutdown_proofs`, `Config_proofs` | theorems about the module of that name | |
| `MC_*` | values of the constants for TLC | |

`Store` has one action per transaction. A transaction that finds no matching row
returns `ErrState` and changes nothing, so its `WHERE` clause is the guard; the
clauses have names (`Claimable`, `Finishable`, ...) because `Delivery` follows
both outcomes. The variable `held` keeps every copy of a leased row that was ever
returned to a caller, and any caller may use any of them at any later time: this
one device covers stalls, crashes, late results, lost acknowledgements and
duplicate messages, without a model of the callers. `Delivery` and `Dispatch`
then say what the callers do with their time, and `UsesStore` checks that a
system of such callers is a behaviour of `Store`; in particular that what
`Schedule` grants satisfies `Schedulable`, the only thing `Store` assumes of it.
In `Delivery` the other parts of a recovery round and the dispatchers are the
actions of `Store` as they stand (`Outbox`), so that triggers are published,
abandoned and replaced while calls run; `Dispatch` has the steps of a dispatcher.

In `Submission` a request captures the configuration when it is authenticated and
keeps it, as the handler does. The lookup of the key, the quota and the insert
are separate steps, so requests with one key pass the lookup together and the
unique key decides; the loser looks again. `Hash` is taken after normalisation
and before the default mode is filled in (`service.go:53`). A consequence to know
of: a batch sets the mode of its items to `async` before they are hashed
(`server.go:193`), so a request sent alone without a mode and then as a batch
item with the same key is a different request, and conflicts.

`Delivery` and `Dispatch` have a variable `timely`, chosen at the start and never
changed: either every call ends with its context, or it may stall for any time.
The properties about leases that outlive contexts speak of the first case, all
others of both.

`Config` separates what the code separates: a call captures the active snapshot
and asks for the secret later, `History` looks into its cache, reads the database
and inserts under the lock again, and the watcher runs reloads and loads of
secrets one after the other. `Secret` is modelled by its name; the mounted
secrets of a pod are any set of names at any time. A document has targets, retry
policies and hooks; of the latter two only their revisions matter, to the
comparison of `notify-admin`.

`Progress` trades clocks for fairness. A task is due later, due, or due for more
than 60 seconds, which is all `Load` and `Reconcile` ask; a lease, a row or a key
has run out or not. `fresh[id]` is the set of the actors that work on the current
generation, so that a new generation is the empty set and generations need not
be counted. A step of time that the contexts of the code normally prevent (a
lease that runs out under a call, a trigger older than 60 seconds while it is
being handled) counts as a fault, like a crash, a lost message, a failed
publication, a refused quota, a failed round of recovery or a manual retry, and
there are at most `MaxFaults` of them; a busy, degraded or orphaned lock is no
fault and may happen any number of times.

`Shutdown` keeps the view of the broker (`unacked`, `gone`, `dead`) apart from
that of the client (`buffer`, `worker`), as a lost channel makes them differ. The
dispatcher is in it because a publication whose context ends closes the one
connection of the process (`client.go:135`), at the latest when the loops are
stopped at the beginning of a drain: the acknowledgements of calls that are
still running are then lost, and their messages come back to be dropped.

Each module holds, before some definitions, a mutated form of it (marked
"Mutant"): a plausible mistake in the code. Each property is violated when the
definition is replaced by one of these, so none holds for want of content.

Abstractions:

* times are small integers that keep the order and the sums of the real
  durations (for example call 1 + commit 1 < lease 3 for 45 + 5 < 60); the
  database clock is `now`, application clocks differ from it by up to `Skew`;
* identifiers and tokens are fresh numbers; requests, bodies and log lines are
  left out; a `Retry-After` header is its kind and its number;
* `SKIP LOCKED` and `ORDER BY ... LIMIT 1` become "any due row", a superset; the
  limits 100 and 1000 of the bulk statements become "any set";
* the request a client submits is a name; `normalize` is a function on names that
  makes two spellings equal and one malformed; a target's allowlist is a set of
  names; hashes do not collide;
* the non-locking subquery of `Reconcile` is evaluated atomically with its
  statement;
* the expiry of Redis keys other than the lock and the tokens has no effect on
  the scripts and is left out; quotas are the same for all targets except for
  their failure mode.

## Runs

| run | instance | shows |
|---|---|---|
| `retry_cycle` | 7 targets, 8 policies, headers below, at and above every limit, queues 1/2/4 | `RetryAfterHonoured`, `NoNeedlessWait`, `RequestsBounded`, `NoBlindResend`, and `CycleEnds` under fairness |
| `retry_after_overflow` | the same plus a number beyond int64 | **violation**, see below |
| `store` | 1 notification, 3 generations, 3 tokens, 5 instants; or 2 notifications and 2 keys, 2 generations, 2 tokens, 3 instants | nine properties of `Store`, and `ImplementsLifecycle` |
| `recovered_lease` | the same | **violation**, see below |
| `delivery` | 2 calls, 3 generations, 2 attempts, timely or not, the first trigger handled or lost | one request per generation, success was answered, `UsesStore`; when timely, requests do not overlap, results and locks are kept |
| `dispatch` | 2 dispatchers, timely or not | `PublishedWasReceived`, `TriggerIsNotEarly`; when timely, `OnePublisher` |
| `submission` | 3 requests: races for one key, alone and in batches, over two revisions; or a submission and two manual retries | `ReplaysAgree`, `NoSpuriousConflict`, `CreationIsReported`, `RetriesFenced` |
| `quota` | 2 pods, 2 targets, 3 deliveries | limits and counters |
| `config` | 1 pod, 1 call, 3 revisions out of 8 documents, 2 secrets, a cache of 2 | `SecretLostOnlyByReload`, `RevisionIdentifies`, and `CatchesUp` under fairness |
| `secret_rename` | the same | **violation**, see below |
| `progress` | 1 notification, 2 workers, 2 faults; or 2 notifications, 1 worker, 1 fault, the last attempt | `EventuallySettled` under fairness |
| `shutdown` | 2 workers, 2 messages (1 invalid), 1 request | `NoMessageLost`, `GraceIsGiven`, `AtMostOneLateCall`, and `Terminates` under fairness |

Why the bounds are enough. `MaxGen`, `MaxTokens` and `MaxCalls` bound how often
things happen: three generations let a trigger be superseded twice, so a stale
caller meets both its successor and the successor's successor; two attempts are
what overlap, overwriting and double counting need. `MaxTime` lets a lease
expire, be recovered, and the next attempt start. The constraint
`AcceptedAtOnce` places the first submission at time 0, as only differences of
times matter; `FirstTriggerIsLost` lets dispatchers and `Reconcile` act under the
calls where the first trigger was published and lost, which is the only thing
about the outbox that a call can see; `SecondIsShort` and `StalledIsShort` give two notifications, or
dispatchers that stall, fewer steps: notifications only meet in the bulk
statements and the unique key, and stalled dispatchers meet sooner; `RacesApart`
keeps the races of submissions and those of retries in separate behaviours, with
at most two batches, and lets workers act only where a retry can see it.
Three revisions let a pod that is behind be overtaken while it reloads. Two faults
let a repair fail once (a lost trigger whose replacement is lost, a round that
fails after a crash); `Shutdown` has no bounds except its sets, channels may be
lost and sessions restarted any number of times.
Symmetry permutes notifications, keys, dispatchers, pods and deliveries, only in
runs without liveness. Deadlock is checked in `config` and `progress`; elsewhere a
delivered notification rests, a process exits, and bounded models end.

Fairness, and why the code justifies it:

* `RetryCycle`: workers take due notifications (consumers run until shutdown, and
  `Reconcile` replaces lost triggers), the recovery loop settles expired leases
  every five seconds, and time passes. Answers of the target are not assumed to
  be fair: a target may never answer.
* `Progress`: the loops of the dispatcher and of recovery tick, consumers take
  messages that are ready, every call makes steps because its context ends it
  after 45 seconds, and time passes. Weak fairness is enough. Whatever may fail
  has no fairness, and only finitely many faults happen: no system settles
  anything under faults that never end.
* `Config`: the watcher makes its steps (weak); its `select` takes a ready case in
  the end, so loading secrets is not overtaken by reloads for ever, and the control
  database is not away for ever (strong).
* `Shutdown`: `main` makes its steps and the grace timer fires. Nothing is assumed
  of calls, requests, loops and the broker, so `Terminates` rests on the timer
  alone.

## Disagreements found

* `retry_after_overflow`: the comment of `Schedule` (`policy.go:14`) says that
  unsupported `Retry-After` delays terminate rather than violate it, and the
  design wants no retry before the allowed time. Delay-seconds that do not fit an
  `int64` fail to parse, are dropped, and the notification is retried after the
  ordinary delay.
* `recovered_lease`: the design (`docs/design.md:989`) restores every expired
  lease to `pending` with a new outbox row. The code asks `Schedule` first and
  moves the task to `failed`, without a row, when it refuses.

* `secret_rename`: the design (`docs/design.md:1348`) says that pods refresh by
  themselves and need no restart. `Reload` refuses a revision that needs a secret
  which is not in memory (`manager.go:60-66`), and `LoadSecrets` refuses secrets
  without one the active revision needs (`manager.go:125-131`). If a mount
  replaces the old secret by the new one, each waits for the other until the pod
  is restarted. `CatchesUp` states when pods do refresh: if at some point the
  mounted secrets satisfy both revisions.

Two more behaviours the models show, which no line of the repository denies: a
lease whose historical configuration can never be loaded holds up the recovery of
all others, because it is the first of every round; and a process that cannot
bind its port ends calls its consumer has already begun without a grace period.

## Theorems

Every invariant, action property and refinement that a passing run checks is also
a theorem: it holds for any number of notifications, keys, calls, dispatchers,
pods, targets, requests and workers, any durations and any bounds. What is left
to TLC is liveness. `PROJECT.json` lists the theorems with the property each
one states.

### What is assumed

The assumptions are `ASSUME`s of the modules, evaluated by TLC in every run.
Besides the types of the constants they say:

| assumption | says | because |
|---|---|---|
| `BucketsAssumption` | every queue has a route, and the delays of the queues ascend | the table of `policy.go` is written so |
| `PolicyAssumption` (`Delivery`), `SettleAssumption` (`Dispatch`) | policies have at most `MaxRetries` delays, and every instant `Schedule` can compute is one of `RetryTimes` | `validate.go` bounds policies; `Store` lets callers choose any instant of `RetryTimes` |
| `TimeoutAssumption` | lease and lock outlive call and commit | 60 s > 45 s + 5 s (`worker.go`, `delivery.go`, `redis.go`) |
| `PublishAssumption` | the lease of an outbox row outlives the context of its dispatcher | 30 s > 10 s (`outbox.go`, `dispatcher.go`) |
| `TokenAssumption` | a token in Redis outlives the delivery it was taken for | 60 s > 50 s (`quota.go`, `worker.go`) |
| `SubmissionAssumption` | a body has one item or is a batch of some, and a retry names a notification | the handlers reject anything else (`server.go`) |

`RetryAfterIsHonoured` has the hypothesis `HeadersParse`, which excludes exactly
the overflow reported above. The three timing assumptions matter only for the
properties that speak of timely calls, and for `ClusterConcurrency`.

### `RetryCycle_proofs`

`ScheduleContract` is proved by cases on the early returns of `Schedule`.
`RequestsAreBounded` follows from `BoundInv`: no more requests than counted
attempts, and a counter that stays within the policy while a retry is scheduled.
`ShortestWait` needs that the scan of the queues stops at the least sufficient
one, which is where the order of the queues is used. `NeverBlindlyResent` needs
`LostInv`: a cycle that is pending after a request with unknown outcome has a
target that allows the request to be repeated.

### `Store_proofs`

The properties are not inductive one by one: that a late `Finish` cannot hurt
depends on tokens being fresh, on old copies having old generations, and on the
ledger of attempts, all at once. The inductive invariant `IInv` has, for every
notification,

* `RowOK`: a task has a lease token exactly while it is in flight, and a pending
  task has room for one more attempt in its cycle;
* `AttemptsOK`: attempt `i` has number `i`, generations increase strictly along
  the ledger up to the task's (below it while the task is pending), only the last
  attempt can be open or a success, and it is so exactly when the task is in
  flight with this lease, or delivered;
* `EventsOK`: the generations of the outbox rows increase strictly up to the
  task's, and the last row of a pending task announces its generation;

and `HeldOK` for every copy ever handed out: its token is one of those issued, and it
is the row while the token is current. `InductiveStep` has one lemma per
family of actions (`ApiInv`, `ClaimInv`, `DeferInv`, `FinishFinalInv`,
`RecoverFailInv`, `RetryInv`, `ReconcileInv`, `DispatcherInv`,
`RecoverOutboxInv`). The eight invariants of the run are its corollaries.

`RecordsAreKept` and `LifecycleImplemented` look at steps. Every action is one of
a few shapes (`Shape`): a notification stays, waits for a new generation, is
claimed or is settled, or a set of them is superseded at once, as by `Reconcile`.
`StepShape` shows it for each action under `IInv`; the refinement then follows
from the shapes alone.

`TypeOK` of `Store` is proved (`TypeCorrect`) and not checked by a run.

### `Delivery_proofs` and `Dispatch_proofs`

Both extend `Store_proofs`. First, every step of the callers is a step of `Store`,
or leaves the tables alone, so `IInv` is kept and `StoreIsUsed` follows; for a
commit this needs `ResultOK`, that what the call holds is what `Schedule` granted
for the copy it has. Then `DInv` adds

* `CallOK`: a call that holds a lease has a copy from the store for its own
  generation, which is in the ledger; until it sends, nobody has sent for it;
* `Apart`: no two calls have the same lease or the same generation. These two do
  not mention time, hence `OneRequest` holds even if calls stall for ever;
* `TimeOK`: if contexts are obeyed, lease and lock run out only after the last
  instant of the call, which is its deadline plus the time for the commit.
  `NoOverlap`, `ResultIsKept` and `LockKept` rest on it. Rounds of recovery keep
  it: `RecoverLease` asks for an expired lease, `Reconcile` for a pending row.

`QInv` is alike: a dispatcher has a row and its own token, and before it marks the
row the broker has the message (`WorksOn`); leases of rows outlive contexts
(`InTime`). That no trigger is early is stated for a row, for the dispatcher that
has it and for its message (`RowOnTime`, `DispatcherOnTime`, `MessageOnTime`),
each only while its generation is the one that is waiting; older ones are dropped
by the worker.

### `Quota_proofs`

`QuotaInv` has three parts. `SlotInv` says that the counters of a pod are the
numbers of its holders, and that the entry of a target is the one all of its
holders refer to: a release works on the entry the delivery was given, which is
the one in the map although entries are deleted at zero and created again.
`TokenInv` says that every running delivery has a token whose score lies beyond
its deadline, and that the live tokens of a set respect its limit;
`ConcurrencyRespected` maps running deliveries into live tokens. `RateOK` says
that what was admitted in a window is at most what Redis has counted in it.

### `Submission_proofs`

`SubmissionInv` ties requests to rows: a key is in one row (`RowsOK`); what an
item was told is so (`AnswerOK`: an accepted item names a row with its key and
hash, a conflict a row with its key and another hash); a row has an item that made
it, which has been told or is being told (`OriginOK`); a manual retry that went
through has moved the generation it saw (`RetryOK`). Rows are never deleted, and
neither key nor hash of a row changes, so answers stay true. The proof uses an
invariant of its own for the rows and not `TypeOK` of `Store`, as hashes are
records of what was submitted here. TLC has checked `SubmissionInv` on the
instance of the run `submission`.

### `Shutdown_proofs` and `Config_proofs`

`NothingLost` needs that a worker about to acknowledge has handled its message,
and one about to reject has a message that does not decode (`LedgerInv`).
`GraceGiven` follows the chain of wait groups (`DrainInv`): a session that has
ended has no workers, a drained API has no requests, and `main` leaves only after
both. `OneLateCall` needs that a worker which has begun a late call does not get
back to where it would begin another (`LateInv`).

`RevisionsIdentify` is an induction on the documents: each is compared with its
predecessor only, and the order of revisions is transitive while the entry
stays. `SecretsStay` needs `SecretInv`: the active revision of a pod has its
secrets, whichever of a reload and a load of secrets came last; a watcher that is
reloading is about to activate a newer revision; and a call holds a revision that
was active here.

### Only model-checked

The liveness properties `CycleEnds`, `EventuallySettled`, `CatchesUp` and
`Terminates`, hence all of `Progress`: fairness and `ENABLED` are out of the
prover's reach. The runs `retry_after_overflow`, `recovered_lease` and
`secret_rename` are counterexamples.

## Not modelled, and the plan

In this order:

1. The pagination of `list` under concurrent inserts.
2. The address filter, JSON pointer injection and redaction of
   `internal/target` as operators against reference definitions.
3. The snapshot read of `Reconcile`'s subquery with two reconcilers at once.

Left out for good: JWT validation, parsing and validation of documents, health
probes and metrics, the mock target and the scripts. They are stateless data
processing or test tools.
