------------------------------- MODULE Store -------------------------------
(***************************************************************************)
(* internal/repository/business: the tables notification_task,             *)
(* delivery_attempt and mq_outbox, and the transactions on them.  Each     *)
(* transaction is one action: it locks or compare-and-sets the rows it     *)
(* touches and commits or rolls back as a whole.  A transaction whose      *)
(* WHERE clause matches no row returns ErrState and changes nothing; that  *)
(* is the action not being enabled (the predicates Claimable, Finishable,  *)
(* ... name the WHERE clauses for the modules that follow both outcomes).  *)
(*                                                                         *)
(* The callers (workers, recovery loops, dispatchers, the API) are left    *)
(* open: any caller may invoke any operation at any time, with any copy of *)
(* a notification or any publish token that was ever handed out.  This     *)
(* covers every interleaving, crash, delay and duplicate message.          *)
(*                                                                         *)
(* The database reads its own clock, now; the application reads clocks     *)
(* that may be off by up to Skew.                                          *)
(***************************************************************************)
EXTENDS Integers, Sequences

CONSTANTS
    Ids,            \* notifications
    Keys,           \* (client_id, client_idem_key) pairs
    Hashes,         \* request hashes
    DelayRoutes,    \* routing keys of the delay queues
    LeaseTTL,       \* 60 seconds: lease of an attempt
    PublishTTL,     \* 30 seconds: lease of an outbox row
    ReleaseDelay,   \* 2 seconds: pause after a failed publication
    StaleAfter,     \* 60 seconds: age at which a trigger counts as lost
    DeferDelay,     \* 5 seconds: pause when a quota is exhausted
    MaxRetries,     \* no policy has more delays than this
    Durations,      \* MaxDuration of the policies
    RetryTimes,     \* instants a policy may schedule a retry for
    Skew,           \* largest difference between application and database clock
    MaxTime,        \* bound: last instant
    MaxGen,         \* bound: generations of a notification
    MaxTokens       \* bound: lease and publish tokens handed out

ASSUME StoreAssumption ==
    /\ LeaseTTL \in Nat /\ PublishTTL \in Nat /\ ReleaseDelay \in Nat
    /\ StaleAfter \in Nat /\ DeferDelay \in Nat /\ MaxRetries \in Nat
    /\ Durations \subseteq Nat /\ RetryTimes \subseteq Int /\ Skew \in Nat
    /\ MaxTime \in Nat /\ MaxGen \in Nat /\ MaxTokens \in Nat
    /\ "dispatch" \notin DelayRoutes

VARIABLES
    task,       \* notification_task: one row per notification
    attempts,   \* delivery_attempt: rows of each notification, as inserted
    outbox,     \* mq_outbox: rows of each notification, as inserted
    held,       \* copies of in_flight rows returned by Claim or Expired
    tokens,     \* domain.NewID: tokens handed out so far, 1..tokens
    now         \* the database clock

vars == <<task, attempts, outbox, held, tokens, now>>
tables == <<task, attempts, outbox>>

Statuses == {"absent", "pending", "in_flight", "delivered", "failed"}
Actions == {"success", "retry", "fail"}
Results == {"started", "unknown"} \cup Actions
Routes == {"dispatch"} \cup DelayRoutes
NoKey == "none"
NoToken == 0
NoTime == -1

Task ==
    [status : Statuses, key : Keys \cup {NoKey}, hash : Hashes \cup {NoKey},
     attempts : Nat, cycle : Nat, gen : Nat, next : Int, deadline : Int,
     lease : Nat, until : Int]
Attempt == [no : Nat, gen : Nat, lease : Nat, result : Results]
Event ==
    [gen : Nat, route : Routes, avail : Int,
     status : {"pending", "publishing", "published"},
     token : Nat, until : Int, pub : Int]
Copy ==
    [id : Ids, gen : Nat, attempts : Nat, cycle : Nat, next : Int,
     deadline : Int, lease : Nat]

Absent ==
    [status |-> "absent", key |-> NoKey, hash |-> NoKey, attempts |-> 0,
     cycle |-> 0, gen |-> 0, next |-> NoTime, deadline |-> NoTime,
     lease |-> NoToken, until |-> NoTime]

(* time.Now() of some application process.                                 *)
AppNow == (now - Skew)..(now + Skew)

-----------------------------------------------------------------------------
(* insertEvent: a new outbox row, in the transaction of its task update.   *)
insertEvent(gen, route, available) ==
    [gen |-> gen, route |-> route, avail |-> available, status |-> "pending",
     token |-> NoToken, until |-> NoTime, pub |-> NoTime]

AddEvent(id, e) == outbox' = [outbox EXCEPT ![id] = Append(@, e)]

(* INSERT of the task under the unique key uk_client_idem and of its first *)
(* event.  With the key taken the transaction is rolled back and the row   *)
(* that has it is returned, or ErrConflict: nothing changes.               *)
Accept(id, key, hash, t, duration) ==
    /\ task[id].status = "absent"
    /\ \A other \in Ids : task[other].status # "absent" => task[other].key # key
    /\ MaxGen >= 1
    /\ task' = [task EXCEPT ![id] =
         [status |-> "pending", key |-> key, hash |-> hash, attempts |-> 0,
          cycle |-> 0, gen |-> 1, next |-> t, deadline |-> t + duration,
          lease |-> NoToken, until |-> NoTime]]
    /\ AddEvent(id, insertEvent(1, "dispatch", t))
    /\ UNCHANGED <<attempts, held, tokens, now>>

(* Mutant: Claim compares the generation but not the status.               *)
ClaimableInFlight(id, gen) == task[id].gen = gen /\ task[id].next <= now

Claimable(id, gen) ==
    /\ task[id].status = "pending"
    /\ task[id].gen = gen
    /\ task[id].next <= now

CopyOf(id, row) ==
    [id |-> id, gen |-> row.gen, attempts |-> row.attempts, cycle |-> row.cycle,
     next |-> row.next, deadline |-> row.deadline, lease |-> row.lease]

(* Mutant: the lease runs from the instant the attempt was due.            *)
LeasedFromNext(id, token) ==
    [task[id] EXCEPT !.status = "in_flight", !.lease = token,
                     !.until = task[id].next + LeaseTTL,
                     !.attempts = @ + 1, !.cycle = @ + 1]

Leased(id, token) ==
    [task[id] EXCEPT !.status = "in_flight", !.lease = token,
                     !.until = now + LeaseTTL, !.attempts = @ + 1, !.cycle = @ + 1]

(* The lease and the started attempt, in one transaction.  held keeps the  *)
(* copy the caller gets: it may use it at any later time.                  *)
Claim(id, gen) ==
    LET token == tokens + 1
        row == Leased(id, token)
    IN  /\ Claimable(id, gen)
        /\ tokens < MaxTokens
        /\ tokens' = token
        /\ task' = [task EXCEPT ![id] = row]
        /\ attempts' = [attempts EXCEPT ![id] = Append(@,
             [no |-> row.attempts, gen |-> row.gen, lease |-> token,
              result |-> "started"])]
        /\ held' = held \cup {CopyOf(id, row)}
        /\ UNCHANGED <<outbox, now>>

(* Mutant: the UPDATE names the notification only.                         *)
CloseEveryAttempt(n, result, onlyOpen) ==
    attempts' = [attempts EXCEPT ![n.id] =
        [i \in 1..Len(attempts[n.id]) |-> [attempts[n.id][i] EXCEPT !.result = result]]]

(* UPDATE delivery_attempt ... WHERE attempt_no=? AND lease_token=?        *)
CloseAttempt(n, result, onlyOpen) ==
    attempts' = [attempts EXCEPT ![n.id] =
        [i \in 1..Len(attempts[n.id]) |->
            IF /\ attempts[n.id][i].no = n.attempts
               /\ attempts[n.id][i].lease = n.lease
               /\ onlyOpen => attempts[n.id][i].result = "started"
            THEN [attempts[n.id][i] EXCEPT !.result = result]
            ELSE attempts[n.id][i]]]

Fenced(n) ==
    /\ task[n.id].status = "in_flight"
    /\ task[n.id].gen = n.gen
    /\ task[n.id].lease = n.lease

Finishable(n) == Fenced(n) /\ task[n.id].until > now

(* Mutant: lease_token is not reset.                                       *)
EndedWithLease(n, status, gen, next) ==
    [task[n.id] EXCEPT !.status = status, !.gen = gen, !.next = next, !.until = NoTime]

(* The row after an attempt has ended with this action.                    *)
Ended(n, status, gen, next) ==
    [task[n.id] EXCEPT !.status = status, !.gen = gen, !.next = next,
                       !.lease = NoToken, !.until = NoTime]

(* Finish with a final decision; the generation and next stay n's.         *)
FinishFinal(n, action) ==
    /\ Finishable(n)
    /\ action \in {"success", "fail"}
    /\ LET status == IF action = "success" THEN "delivered" ELSE "failed"
       IN  task' = [task EXCEPT ![n.id] = Ended(n, status, n.gen, n.next)]
    /\ CloseAttempt(n, action, FALSE)
    /\ UNCHANGED <<outbox, held, tokens, now>>

(* Finish with a retry: a new generation and the event that triggers it.   *)
FinishRetry(n, next, route, t) ==
    /\ Finishable(n)
    /\ n.gen < MaxGen
    /\ task' = [task EXCEPT ![n.id] = Ended(n, "pending", n.gen + 1, next)]
    /\ CloseAttempt(n, "retry", FALSE)
    /\ AddEvent(n.id, insertEvent(n.gen + 1, route, t))
    /\ UNCHANGED <<held, tokens, now>>

Deferrable(id, gen) == task[id].status = "pending" /\ task[id].gen = gen

(* Mutant: a deferral counts as an attempt of the cycle.                   *)
DeferCountsAttempt(id, gen, t) ==
    /\ Deferrable(id, gen)
    /\ gen < MaxGen
    /\ task' = [task EXCEPT ![id] =
         [@ EXCEPT !.gen = gen + 1, !.next = t + DeferDelay, !.cycle = @ + 1]]
    /\ AddEvent(id, insertEvent(gen + 1, "dispatch", t + DeferDelay))
    /\ UNCHANGED <<attempts, held, tokens, now>>

(* DeferPending: a new generation without an attempt.                      *)
DeferPending(id, gen, t) ==
    /\ Deferrable(id, gen)
    /\ gen < MaxGen
    /\ task' = [task EXCEPT ![id] =
         [@ EXCEPT !.gen = gen + 1, !.next = t + DeferDelay]]
    /\ AddEvent(id, insertEvent(gen + 1, "dispatch", t + DeferDelay))
    /\ UNCHANGED <<attempts, held, tokens, now>>

-----------------------------------------------------------------------------
(* Mutant: a lease is recovered before it has expired.                     *)
RecoverableEarly(n) == Fenced(n)

Recoverable(n) == Fenced(n) /\ task[n.id].until < now

(* RecoverLease where Schedule refused another attempt.                    *)
RecoverFail(n) ==
    /\ Recoverable(n)
    /\ n.gen < MaxGen
    /\ task' = [task EXCEPT ![n.id] = Ended(n, "failed", n.gen + 1, n.next)]
    /\ CloseAttempt(n, "unknown", TRUE)
    /\ UNCHANGED <<outbox, held, tokens, now>>

(* Mutant: the open attempt is left as it is.                              *)
RecoverLeavesAttempt(n, next, route, t) ==
    /\ Recoverable(n)
    /\ n.gen < MaxGen
    /\ task' = [task EXCEPT ![n.id] = Ended(n, "pending", n.gen + 1, next)]
    /\ AddEvent(n.id, insertEvent(n.gen + 1, route, t))
    /\ UNCHANGED <<attempts, held, tokens, now>>

(* RecoverLease where Schedule granted one.                                *)
RecoverRetry(n, next, route, t) ==
    /\ Recoverable(n)
    /\ n.gen < MaxGen
    /\ task' = [task EXCEPT ![n.id] = Ended(n, "pending", n.gen + 1, next)]
    /\ CloseAttempt(n, "unknown", TRUE)
    /\ AddEvent(n.id, insertEvent(n.gen + 1, route, t))
    /\ UNCHANGED <<held, tokens, now>>

(* The NOT EXISTS of Reconcile: this row may still bring a trigger.        *)
LiveTrigger(e, gen) ==
    /\ e.gen = gen
    /\ e.status # "published" \/ e.pub > now - StaleAfter

(* Mutant: Reconcile does not look at the status of the task.              *)
StaleInAnyStatus(id) ==
    /\ task[id].status # "absent"
    /\ task[id].next < now - StaleAfter
    /\ \A o \in 1..Len(outbox[id]) : ~LiveTrigger(outbox[id][o], task[id].gen)

Stale(id) ==
    /\ task[id].status = "pending"
    /\ task[id].next < now - StaleAfter
    /\ \A o \in 1..Len(outbox[id]) : ~LiveTrigger(outbox[id][o], task[id].gen)

(* Mutant: the lost trigger is sent again, for the same generation.        *)
ReconcileSameGeneration(S, t) ==
    /\ S # {}
    /\ \A id \in S : Stale(id)
    /\ outbox' = [id \in Ids |->
         IF id \in S
         THEN Append(outbox[id], insertEvent(task[id].gen, "dispatch", t))
         ELSE outbox[id]]
    /\ UNCHANGED <<task, attempts, held, tokens, now>>

(* One transaction over the stale tasks whose rows are not locked (SKIP    *)
(* LOCKED), at most a hundred of them: any non-empty set S.                *)
Reconcile(S, t) ==
    /\ S # {}
    /\ \A id \in S : Stale(id) /\ task[id].gen < MaxGen
    /\ task' = [id \in Ids |->
         IF id \in S THEN [task[id] EXCEPT !.gen = @ + 1] ELSE task[id]]
    /\ outbox' = [id \in Ids |->
         IF id \in S
         THEN Append(outbox[id], insertEvent(task[id].gen + 1, "dispatch", t))
         ELSE outbox[id]]
    /\ UNCHANGED <<attempts, held, tokens, now>>

(* Mutant: a delivered notification may be retried by hand.                *)
RetriableDelivered(id, gen) ==
    task[id].status \in {"failed", "delivered"} /\ task[id].gen = gen

(* Mutant: the generation the caller saw is not compared.                  *)
RetriableAnyGeneration(id, gen) == task[id].status = "failed"

Retriable(id, gen) == task[id].status = "failed" /\ task[id].gen = gen

(* Mutants: the event keeps the old generation; attempt_count is reset in  *)
(* place of cycle_attempt_count.                                           *)
ManualRetryOldEvent(id, gen, t, duration) ==
    /\ Retriable(id, gen)
    /\ gen < MaxGen
    /\ task' = [task EXCEPT ![id] =
         [@ EXCEPT !.status = "pending", !.gen = gen + 1, !.cycle = 0,
                   !.next = t, !.deadline = t + duration]]
    /\ AddEvent(id, insertEvent(gen, "dispatch", t))
    /\ UNCHANGED <<attempts, held, tokens, now>>

ManualRetryRenumbers(id, gen, t, duration) ==
    /\ Retriable(id, gen)
    /\ gen < MaxGen
    /\ task' = [task EXCEPT ![id] =
         [@ EXCEPT !.status = "pending", !.gen = gen + 1, !.attempts = 0,
                   !.next = t, !.deadline = t + duration]]
    /\ AddEvent(id, insertEvent(gen + 1, "dispatch", t))
    /\ UNCHANGED <<attempts, held, tokens, now>>

(* ManualRetry opens a new cycle with a new deadline.                      *)
ManualRetry(id, gen, t, duration) ==
    /\ Retriable(id, gen)
    /\ gen < MaxGen
    /\ task' = [task EXCEPT ![id] =
         [@ EXCEPT !.status = "pending", !.gen = gen + 1, !.cycle = 0,
                   !.next = t, !.deadline = t + duration]]
    /\ AddEvent(id, insertEvent(gen + 1, "dispatch", t))
    /\ UNCHANGED <<attempts, held, tokens, now>>

-----------------------------------------------------------------------------
SetEvent(id, o, e) == outbox' = [outbox EXCEPT ![id][o] = e]

Due(id, o) == outbox[id][o].status = "pending" /\ outbox[id][o].avail <= now

(* The first due row that no other transaction has locked: any due row.    *)
ClaimOutbox(id, o) ==
    /\ Due(id, o)
    /\ tokens < MaxTokens
    /\ tokens' = tokens + 1
    /\ SetEvent(id, o, [outbox[id][o] EXCEPT
         !.status = "publishing", !.token = tokens + 1, !.until = now + PublishTTL])
    /\ UNCHANGED <<task, attempts, held, now>>

Publishing(id, o, token) ==
    outbox[id][o].status = "publishing" /\ outbox[id][o].token = token

Published(id, o, token) ==
    /\ Publishing(id, o, token)
    /\ outbox[id][o].until > now
    /\ SetEvent(id, o, [outbox[id][o] EXCEPT
         !.status = "published", !.pub = now, !.token = NoToken, !.until = NoTime])
    /\ UNCHANGED <<task, attempts, held, tokens, now>>

ReleaseOutbox(id, o, token) ==
    /\ Publishing(id, o, token)
    /\ SetEvent(id, o, [outbox[id][o] EXCEPT
         !.status = "pending", !.avail = now + ReleaseDelay,
         !.token = NoToken, !.until = NoTime])
    /\ UNCHANGED <<task, attempts, held, tokens, now>>

(* Mutant: every row being published counts as abandoned.                  *)
AbandonedAtOnce(e) == e.status = "publishing"

Abandoned(e) == e.status = "publishing" /\ e.until < now

Rows == UNION {{id} \X (1..Len(outbox[id])) : id \in Ids}

(* One statement over abandoned rows, at most a thousand of them: any      *)
(* non-empty set R.                                                        *)
RecoverOutbox(R) ==
    /\ R # {}
    /\ \A x \in R : Abandoned(outbox[x[1]][x[2]])
    /\ outbox' = [id \in Ids |-> [o \in 1..Len(outbox[id]) |->
         IF <<id, o>> \in R
         THEN [outbox[id][o] EXCEPT !.status = "pending", !.token = NoToken,
                                    !.until = NoTime]
         ELSE outbox[id][o]]]
    /\ UNCHANGED <<task, attempts, held, tokens, now>>

Tick == now < MaxTime /\ now' = now + 1 /\ UNCHANGED <<tables, held, tokens>>

-----------------------------------------------------------------------------
Init ==
    /\ task = [id \in Ids |-> Absent]
    /\ attempts = [id \in Ids |-> <<>>]
    /\ outbox = [id \in Ids |-> <<>>]
    /\ held = {}
    /\ tokens = 0
    /\ now = 0

(* What RetryPolicy!Schedule grants (RetryCycle_proofs, ScheduleContract)  *)
Schedulable(n, next) == n.cycle \in 1..MaxRetries /\ next < n.deadline

ApiStep ==
    \E id \in Ids, t \in AppNow, duration \in Durations :
        \/ \E key \in Keys, hash \in Hashes : Accept(id, key, hash, t, duration)
        \/ \E gen \in 1..task[id].gen : ManualRetry(id, gen, t, duration)

WorkerStep ==
    \/ \E id \in Ids : \E gen \in 1..task[id].gen :
         \/ Claim(id, gen)
         \/ \E t \in AppNow : DeferPending(id, gen, t)
    \/ \E n \in held :
         \/ \E action \in {"success", "fail"} : FinishFinal(n, action)
         \/ \E next \in RetryTimes, route \in DelayRoutes, t \in AppNow :
              Schedulable(n, next) /\ FinishRetry(n, next, route, t)

LeaseStep ==
    \E n \in held :
        \/ RecoverFail(n)
        \/ \E next \in RetryTimes, route \in DelayRoutes, t \in AppNow :
             Schedulable(n, next) /\ RecoverRetry(n, next, route, t)

RepairStep ==
    \/ \E R \in SUBSET Rows : RecoverOutbox(R)
    \/ \E S \in SUBSET Ids, t \in AppNow : Reconcile(S, t)

RecoveryStep == LeaseStep \/ RepairStep

DispatcherStep ==
    \E id \in Ids : \E o \in 1..Len(outbox[id]) :
        \/ ClaimOutbox(id, o)
        \/ \E token \in 1..tokens : Published(id, o, token) \/ ReleaseOutbox(id, o, token)

Next == ApiStep \/ WorkerStep \/ RecoveryStep \/ DispatcherStep \/ Tick

Spec == Init /\ [][Next]_vars

-----------------------------------------------------------------------------
Attempted(id) == 1..Len(attempts[id])
Events(id) == 1..Len(outbox[id])

(* Every table holds rows of its type.                                     *)
TypeOK ==
    /\ task \in [Ids -> Task]
    /\ attempts \in [Ids -> Seq(Attempt)]
    /\ outbox \in [Ids -> Seq(Event)]
    /\ held \subseteq Copy
    /\ tokens \in Nat
    /\ now \in Nat

(* store.go:87, delivery.go:92, delivery.go:121, recovery.go:57,           *)
(* recovery.go:108, recovery.go:135: whoever moved a task into its current *)
(* pending generation also left the outbox row that triggers exactly this  *)
(* generation.                                                             *)
TriggerExists ==
    \A id \in Ids : task[id].status = "pending" =>
        \E o \in Events(id) : outbox[id][o].gen = task[id].gen

(* No two outbox rows trigger the same generation, and none triggers a     *)
(* generation the task has not reached: however Finish, DeferPending,      *)
(* RecoverLease, Reconcile and ManualRetry race, each generation is        *)
(* announced once.                                                         *)
OneEventPerGeneration ==
    \A id \in Ids :
        /\ \A o \in Events(id) : outbox[id][o].gen \in 1..task[id].gen
        /\ \A o, p \in Events(id) : outbox[id][o].gen = outbox[id][p].gen => o = p

(* delivery.go:21: duplicate, stale and concurrent triggers never lead to  *)
(* two attempts for one generation.                                        *)
OneAttemptPerGeneration ==
    \A id \in Ids : \A i, j \in Attempted(id) :
        attempts[id][i].gen = attempts[id][j].gen => i = j

(* delivery.go:36 under the unique key uk_attempt: attempt numbers are     *)
(* 1, 2, ... without a gap or a repetition, and attempt_count counts them. *)
AttemptLedger ==
    \A id \in Ids :
        /\ Len(attempts[id]) = task[id].attempts
        /\ \A i \in Attempted(id) : attempts[id][i].no = i

(* delivery.go:65, recovery.go:38: an attempt is open exactly while its    *)
(* lease is the task's lease; every other attempt has been given a result. *)
OpenAttemptIsLeased ==
    \A id \in Ids : \A i \in Attempted(id) :
        attempts[id][i].result = "started" <=>
            /\ task[id].status = "in_flight"
            /\ i = task[id].attempts
            /\ attempts[id][i].lease = task[id].lease
            /\ attempts[id][i].gen = task[id].gen

(* delivery.go:55-65: a task is delivered exactly when its last attempt    *)
(* succeeded, and nothing was attempted after a success.                   *)
SuccessIsFinal ==
    \A id \in Ids : \A i \in Attempted(id) :
        attempts[id][i].result = "success" <=>
            task[id].status = "delivered" /\ i = task[id].attempts

(* delivery.go:65: whoever still holds the current lease token holds a     *)
(* copy that agrees with the row, so what it computed from the copy        *)
(* (attempt number, position in the retry policy) is not stale.            *)
HolderIsCurrent ==
    \A n \in held : task[n.id].lease = n.lease =>
        /\ task[n.id].status = "in_flight"
        /\ n = CopyOf(n.id, task[n.id])

(* policy.go:23 with delivery.go:21 and recovery.go:121: an automatic      *)
(* cycle makes at most one attempt more than the policy has delays.        *)
CycleBounded == \A id \in Ids : task[id].cycle <= MaxRetries + 1

(* recovery.go:49 AND finished_at IS NULL, outbox.go:35: what has been     *)
(* recorded stays: a closed attempt keeps its result, a published row      *)
(* stays published, delivered is final, generations only grow.             *)
RecordsStand ==
    [][\A id \in Ids :
        /\ task'[id].gen >= task[id].gen
        /\ task[id].status = "delivered" => task'[id] = task[id]
        /\ \A i \in Attempted(id) :
             attempts[id][i].result # "started" => attempts'[id][i] = attempts[id][i]
        /\ \A o \in Events(id) :
             outbox[id][o].status = "published" => outbox'[id][o] = outbox[id][o]]_vars

(* docs/design.md:989, Lease Recovery: "restore to pending, advance the    *)
(* generation and create a new Outbox" - so a task whose last attempt was  *)
(* closed as unknown is not failed.                                        *)
RecoveredLeaseIsPending ==
    \A id \in Ids : task[id].attempts > 0 =>
        ~(/\ attempts[id][task[id].attempts].result = "unknown"
          /\ task[id].status = "failed")
=============================================================================
