----------------------------- MODULE Submission -----------------------------
(***************************************************************************)
(* internal/application and internal/api/server.go on top of Store: single *)
(* and batch submissions and manual retries run concurrently, next to the  *)
(* workers that end deliveries and to reloads of the configuration.  A     *)
(* request reads the configuration once, when it is authenticated, and     *)
(* keeps it; the lookup of its key, the quota and the insert are separate  *)
(* steps.  A database or Redis call may fail, with the transaction         *)
(* committed or not.  Nothing obliges a request to go on: one that takes   *)
(* no further step stands for a process that died there.                   *)
(*                                                                         *)
(* A submission is [key, target, mode, content].  content stands for the   *)
(* request as the client spelled it, Normal for what normalize makes of it *)
(* (Malformed if it returns an error).  A key is a pair of client and      *)
(* Idempotency-Key.                                                        *)
(***************************************************************************)
EXTENDS Store

CONSTANTS
    Requests,       \* bound: API requests, 1..N; each is received once
    Bodies,         \* what a request may ask: see Body
    ClientOf,       \* the client of each key
    Normal,         \* normalize, on the contents that occur
    Malformed,
    Snapshots       \* successive revisions of the configuration

ASSUME SubmissionAssumption ==
    /\ Requests \subseteq Nat
    /\ \A b \in Bodies : b.kind \in {"single", "batch", "retry"}
    /\ \A b \in Bodies : b.kind = "single" => Len(b.items) = 1
    /\ \A b \in Bodies : b.kind = "batch" => Len(b.items) > 0
    /\ \A b \in Bodies : b.id \in Ids \cup {NoKey} /\ (b.kind = "retry" => b.id \in Ids)
    /\ \A b \in Bodies : Len(b.items) \in Nat
    /\ Len(Snapshots) > 0 /\ Len(Snapshots) \in Nat

VARIABLES
    req,        \* the requests: where each one is, and its local variables
    origin,     \* columns of notification_task that Store leaves out
    batches,    \* notification_batch: the requests that created a row
    conf        \* Manager.current: position in Snapshots

svars == <<vars, req, origin, batches, conf>>

NoBody == [kind |-> "none", client |-> "none", items |-> <<>>, id |-> NoKey]
NewRequest ==
    [pc |-> "new", body |-> NoBody, snap |-> 0, item |-> 1, id |-> NoKey, gen |-> 0,
     results |-> <<>>]
NoOrigin == [target |-> NoKey, mode |-> "", batch |-> 0, by |-> <<0, 0>>]

At(r, pc) == req[r].pc = pc
Goto(r, pc) == req' = [req EXCEPT ![r].pc = pc]
Snap(r) == Snapshots[req[r].snap]

(* A batch takes no proxy items and makes all others asynchronous.         *)
Item(r) ==
    LET s == req[r].body.items[req[r].item] IN
    IF req[r].body.kind = "batch" THEN [s EXCEPT !.mode = "async"] ELSE s

(* normalize: one form for all spellings of a request.                     *)
normalize(r) == Normal[Item(r).content]

Invalid(r) ==
    \/ normalize(r) = Malformed
    \/ req[r].body.kind = "batch" /\ req[r].body.items[req[r].item].mode = "proxy"

(* Submission.Mode once the default is known.                              *)
ModeOf(r) == IF Item(r).mode = "" THEN Snap(r).default[Item(r).target] ELSE Item(r).mode

(* Mutant: the hash covers the mode the configuration fills in.            *)
HashOfMode(r) ==
    [target |-> Item(r).target, mode |-> ModeOf(r), content |-> normalize(r)]

(* The SHA-256 of the normalised submission, taken before the mode is      *)
(* filled in; distinct submissions have distinct hashes.                   *)
Hash(r) ==
    [target |-> Item(r).target, mode |-> Item(r).mode, content |-> normalize(r)]

(* Allowed: the target exists, the client may use it, and it is enabled.   *)
Allowed(r, target) ==
    LET s == Snap(r) IN
    target \in s.enabled /\ target \in s.clients[req[r].body.client]

(* Store.ByKey.                                                            *)
HasKey(id, key) == task[id].status # "absent" /\ task[id].key = key
ByKey(key) == {id \in Ids : HasKey(id, key)}

-----------------------------------------------------------------------------
Result(code, id) == [code |-> code, id |-> id]
Failed(code) == Result(code, NoKey)

(* One item is done; a batch goes on with the next one whatever happened.  *)
Conclude(r, result) ==
    LET q == req[r]
        last == q.item = Len(q.body.items) \/ q.body.kind = "retry"
    IN  req' = [req EXCEPT ![r] = [q EXCEPT
            !.results = Append(@, result),
            !.item = IF last THEN @ ELSE @ + 1,
            !.pc = IF last THEN "done" ELSE "lookup"]]

(* Mutant: whoever has the key is returned.                                *)
ReplayUnchecked(r, id) == Result("accepted", id)

(* The notification that has the key: the original or ErrConflict.         *)
Replay(r, id) ==
    IF task[id].hash = Hash(r) THEN Result("accepted", id) ELSE Failed("conflict")

-----------------------------------------------------------------------------
Receive(r) ==
    /\ At(r, "new") /\ \A q \in Requests : q < r => ~At(q, "new")
    /\ \E b \in Bodies :
         LET pc == CASE b.kind = "single" -> "lookup"
                     [] b.kind = "batch" -> "envelope"
                     [] b.kind = "retry" -> "load"
         IN  req' = [req EXCEPT ![r] = [@ EXCEPT
                 !.pc = pc, !.body = b, !.snap = conf, !.id = b.id]]
    /\ UNCHANGED <<vars, origin, batches, conf>>

(* Ingress for the envelope of a batch, then CreateBatch, whose            *)
(* acknowledgement may be lost.                                            *)
OpenBatch(r) ==
    /\ At(r, "envelope")
    /\ batches' = batches \cup {r}
    /\ Goto(r, "lookup") \/ Goto(r, "done")
    /\ UNCHANGED <<vars, origin, conf>>

(* Refused by the quota, or a dependency is away: nothing is stored.       *)
BatchRefused(r) ==
    /\ At(r, "envelope")
    /\ Goto(r, "done")
    /\ UNCHANGED <<vars, origin, batches, conf>>

(* Service.Accept up to the lookup of the key.                             *)
RejectInvalid(r) ==
    /\ At(r, "lookup") /\ Invalid(r)
    /\ Conclude(r, Failed("invalid"))
    /\ UNCHANGED <<vars, origin, batches, conf>>

LookupHit(r) ==
    /\ At(r, "lookup") /\ ~Invalid(r)
    /\ \E id \in ByKey(Item(r).key) : Conclude(r, Replay(r, id))
    /\ UNCHANGED <<vars, origin, batches, conf>>

(* The checks on the captured snapshot, for a key that is not there yet:   *)
(* Allowed, the target's methods, paths and headers, and the mode.         *)
Admissible(r) ==
    /\ Allowed(r, Item(r).target)
    /\ normalize(r) \in Snap(r).accepts[Item(r).target]
    /\ ModeOf(r) = "proxy" => Item(r).target \in Snap(r).proxy

LookupMiss(r) ==
    /\ At(r, "lookup") /\ ~Invalid(r)
    /\ ByKey(Item(r).key) = {}
    /\ IF Admissible(r) THEN Goto(r, "quota") ELSE Conclude(r, Failed("refused"))
    /\ UNCHANGED <<vars, origin, batches, conf>>

Admitted(r) ==
    /\ At(r, "quota")
    /\ Goto(r, "insert")
    /\ UNCHANGED <<vars, origin, batches, conf>>

QuotaRefused(r) ==
    /\ req[r].pc \in {"quota", "retryQuota"}
    /\ Conclude(r, Failed("quota"))
    /\ UNCHANGED <<vars, origin, batches, conf>>

Insertion(r, id) ==
    /\ \E t \in AppNow, duration \in Durations : Accept(id, Item(r).key, Hash(r), t, duration)
    /\ origin' = [origin EXCEPT ![id] =
         [target |-> Item(r).target, mode |-> ModeOf(r),
          batch |-> IF req[r].body.kind = "batch" THEN r ELSE 0,
          by |-> <<r, req[r].item>>]]

(* Mutant: the quota is asked for what has been inserted.                  *)
InsertBeforeQuota(r) ==
    /\ At(r, "insert")
    /\ \E id \in Ids : Insertion(r, id)
    /\ Goto(r, "quota")
    /\ UNCHANGED <<batches, conf>>

(* The row and its event are committed: the client is told, or a proxy     *)
(* call is made first, or the acknowledgement is lost.                     *)
Insert(r) ==
    /\ At(r, "insert")
    /\ \E id \in Ids :
         /\ Insertion(r, id)
         /\ \/ IF ModeOf(r) = "proxy"
               THEN req' = [req EXCEPT ![r].pc = "proxy", ![r].id = id]
               ELSE Conclude(r, Result("accepted", id))
            \/ Conclude(r, Failed("unavailable"))
    /\ UNCHANGED <<batches, conf>>

(* MySQL error 1062 on uk_client_idem, rollback, and the second lookup.    *)
Duplicate(r) ==
    /\ At(r, "insert")
    /\ ByKey(Item(r).key) # {}
    /\ Goto(r, "reread")
    /\ UNCHANGED <<vars, origin, batches, conf>>

Reread(r) ==
    /\ At(r, "reread")
    /\ \E id \in ByKey(Item(r).key) : Conclude(r, Replay(r, id))
    /\ UNCHANGED <<vars, origin, batches, conf>>

(* The proxy call has run Worker.Process (steps of Deliveries).            *)
ProxyReturns(r) ==
    /\ At(r, "proxy")
    /\ Conclude(r, Result("accepted", req[r].id))
    /\ UNCHANGED <<vars, origin, batches, conf>>

-----------------------------------------------------------------------------
(* Service.Retry up to the state check: Get sees the client's rows only.   *)
Visible(r, id) == task[id].status # "absent" /\ ClientOf[task[id].key] = req[r].body.client

LoadVerdict(r) ==
    LET id == req[r].id IN
    IF ~Snap(r).manualRetry[req[r].body.client] THEN "refused"
    ELSE IF ~Visible(r, id) THEN "notFound"
    ELSE IF ~Allowed(r, origin[id].target) THEN "refused"
    ELSE IF task[id].status # "failed" THEN "state"
    ELSE "ok"

RetryLoad(r) ==
    /\ At(r, "load")
    /\ IF LoadVerdict(r) = "ok"
       THEN req' = [req EXCEPT ![r].pc = "retryQuota", ![r].gen = task[req[r].id].gen]
       ELSE Conclude(r, Failed(LoadVerdict(r)))
    /\ UNCHANGED <<vars, origin, batches, conf>>

(* Ingress, then the historical configuration for the new deadline.        *)
RetryAdmitted(r) ==
    /\ At(r, "retryQuota")
    /\ Goto(r, "retry")
    /\ UNCHANGED <<vars, origin, batches, conf>>

Retry(r) ==
    /\ At(r, "retry")
    /\ \E t \in AppNow, duration \in Durations : ManualRetry(req[r].id, req[r].gen, t, duration)
    /\ Goto(r, "fresh") \/ Conclude(r, Failed("unavailable"))
    /\ UNCHANGED <<origin, batches, conf>>

RetryStale(r) ==
    /\ At(r, "retry")
    /\ ~Retriable(req[r].id, req[r].gen)
    /\ Conclude(r, Failed("state"))
    /\ UNCHANGED <<vars, origin, batches, conf>>

(* The handler reads the row again for its answer.                         *)
RetryFresh(r) ==
    /\ At(r, "fresh")
    /\ Conclude(r, Result("accepted", req[r].id))
    /\ UNCHANGED <<vars, origin, batches, conf>>

-----------------------------------------------------------------------------
(* A dependency fails, or the 40 second context of the request is over,    *)
(* before the step had any effect.                                         *)
Unavailable(r) ==
    /\ \/ At(r, "lookup") /\ ~Invalid(r)
       \/ req[r].pc \in {"quota", "insert", "reread", "retryQuota", "retry", "fresh"}
       \/ At(r, "load") /\ Snap(r).manualRetry[req[r].body.client]
    /\ Conclude(r, Failed("unavailable"))
    /\ UNCHANGED <<vars, origin, batches, conf>>

(* Workers: what becomes of a notification, as far as requests can tell.   *)
Deliveries ==
    /\ \/ \E id \in Ids : Claim(id, task[id].gen)
       \/ \E n \in held, action \in {"success", "fail"} : FinishFinal(n, action)
    /\ UNCHANGED <<req, origin, batches, conf>>

(* Manager.Reload refuses a revision that is lower than the current one.   *)
Reload ==
    /\ \E rev \in (conf + 1)..Len(Snapshots) : conf' = rev
    /\ UNCHANGED <<vars, req, origin, batches>>

RequestStep(r) ==
    \/ Receive(r) \/ OpenBatch(r) \/ BatchRefused(r)
    \/ RejectInvalid(r) \/ LookupHit(r) \/ LookupMiss(r) \/ Admitted(r) \/ QuotaRefused(r)
    \/ Insert(r) \/ Duplicate(r) \/ Reread(r) \/ ProxyReturns(r)
    \/ RetryLoad(r) \/ RetryAdmitted(r) \/ Retry(r) \/ RetryStale(r) \/ RetryFresh(r)
    \/ Unavailable(r)

SInit ==
    /\ Init
    /\ req = [r \in Requests |-> NewRequest]
    /\ origin = [id \in Ids |-> NoOrigin]
    /\ batches = {}
    /\ conf = 1

SNext == (\E r \in Requests : RequestStep(r)) \/ Deliveries \/ Reload

SSpec == SInit /\ [][SNext]_svars

-----------------------------------------------------------------------------
(* Items that have a result, what the client meant by item i of request r, *)
(* and when two submissions ask for the same thing.                        *)
Answered(code) ==
    UNION {{<<r, i>> : i \in {j \in DOMAIN req[r].results : req[r].results[j].code = code}} :
             r \in {q \in Requests : req[q].body.kind # "retry"}}

ResultOf(x) == req[x[1]].results[x[2]]

Meant(x) ==
    LET b == req[x[1]].body IN
    IF b.kind = "batch" THEN [b.items[x[2]] EXCEPT !.mode = "async"] ELSE b.items[x[2]]

SameRequest(s, t) ==
    /\ s.target = t.target /\ s.mode = t.mode
    /\ Normal[s.content] = Normal[t.content]

(* service.go:62, store.go:78: all submissions of a key that were accepted *)
(* name one notification, which was made from the same request, whoever    *)
(* won the race for the unique key.                                        *)
ReplaysAgree ==
    \A x \in Answered("accepted") :
        LET id == ResultOf(x).id IN
        /\ task[id].key = Meant(x).key
        /\ SameRequest(Meant(x), Meant(origin[id].by))
        /\ \A y \in Answered("accepted") :
             Meant(y).key = Meant(x).key => ResultOf(y).id = id

(* service.go:53: a repeated request never conflicts with itself, however  *)
(* it is spelled and whatever default mode the configuration had in        *)
(* between: a conflict means that the key stands for another request.      *)
NoSpuriousConflict ==
    \A x \in Answered("conflict") : \E id \in ByKey(Meant(x).key) :
        ~SameRequest(Meant(x), Meant(origin[id].by))

(* service.go:90-105, server.go:184: the item that created a notification  *)
(* is told so, or that a dependency failed, or nothing: never that it was  *)
(* rejected, and in a batch never in the place of another item.            *)
CreationIsReported ==
    \A id \in Ids : task[id].status # "absent" =>
        LET r == origin[id].by[1]
            i == origin[id].by[2]
        IN  i \in DOMAIN req[r].results =>
                req[r].results[i] \in {Result("accepted", id), Failed("unavailable")}

(* recovery.go:121, api/openapi.yaml:131 "Concurrent retries are fenced by *)
(* generation": a failure is retried by hand at most once; of two requests *)
(* that saw the same failed generation one is accepted.                    *)
RetriesFenced ==
    \A r, q \in {p \in Requests : /\ req[p].body.kind = "retry"
                                 /\ req[p].results # <<>>
                                 /\ req[p].results[1].code = "accepted"} :
        /\ task[req[r].id].gen > req[r].gen
        /\ r # q /\ req[r].id = req[q].id => req[r].gen # req[q].gen
=============================================================================
