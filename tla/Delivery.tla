------------------------------ MODULE Delivery ------------------------------
(***************************************************************************)
(* internal/delivery/worker.go on top of Store and RetryPolicy: calls of   *)
(* Worker.Process run concurrently, each started by a message (first,      *)
(* duplicate or redelivered) or by a proxy request, next to the API, the   *)
(* recovery loop and the dispatchers.  A call keeps what it read from the  *)
(* database, takes the Redis lock and the quota, claims, sends, and        *)
(* commits; between any two of these steps other calls and loops run, and  *)
(* it may return an error or crash.                                        *)
(*                                                                         *)
(* Every call is a member of 1..MaxCalls and runs once.  A call that finds *)
(* the notification in another generation or status, or not yet due,       *)
(* returns nil and is not a step.                                          *)
(***************************************************************************)
EXTENDS Store, RetryPolicy

CONSTANTS
    Target, Policy,     \* historical configuration of the notifications
    Headers,            \* Retry-After headers the target may send
    ProcessTimeout,     \* 45 seconds: context of a call
    CommitTimeout,      \* 5 seconds: context of its last transaction
    LockTTL,            \* 60 seconds: expiry of the Redis key
    MaxCalls            \* bound: calls of Process

ASSUME DeliveryAssumption ==
    /\ ProcessTimeout \in Nat /\ CommitTimeout \in Nat /\ LockTTL \in Nat
    /\ MaxCalls \in Nat
    /\ {BucketRoutes[b] : b \in 1..Len(BucketRoutes)} \subseteq DelayRoutes

(* Policies are validated, and fit the tables of Store.                    *)
ASSUME PolicyAssumption ==
    /\ Policy \in [delays : Seq(Nat \ {0}), respectRetryAfter : BOOLEAN]
    /\ Len(Policy.delays) <= MaxRetries
    /\ \A t \in (-Skew)..(MaxTime + Skew), b \in 1..Len(Buckets) :
         t + Buckets[b] \in RetryTimes

(* 60 > 45 + 5: lease and lock outlive the call that took them.            *)
ASSUME TimeoutAssumption ==
    /\ LeaseTTL > ProcessTimeout + CommitTimeout
    /\ LockTTL > ProcessTimeout + CommitTimeout

VARIABLES
    timely,     \* whether a call returns when its context expires; never changes
    call,       \* the calls: where each one is, and its local variables
    lock,       \* Redis: the key notify:lock:<id>, its token and expiry
    sent,       \* history: requests that left for the target
    answered    \* history: attempts for which a complete answer arrived

dvars == <<vars, timely, call, lock, sent, answered>>
Calls == 1..MaxCalls

NoCall == 0
NoCopy ==
    [id |-> NoKey, gen |-> 0, attempts |-> 0, cycle |-> 0, next |-> NoTime,
     deadline |-> NoTime, lease |-> NoToken]
NoResult == [action |-> "", next |-> ZeroTime, route |-> ""]
NewCall ==
    [pc |-> "new", id |-> NoKey, gen |-> 0, due |-> NoTime, policyErr |-> FALSE,
     expired |-> FALSE, locked |-> FALSE, n |-> NoCopy, d |-> NoResult]

Running(c) == call[c].pc \notin {"new", "done"}
At(c, pc) == call[c].pc = pc
Goto(c, pc) == call' = [call EXCEPT ![c].pc = pc]

-----------------------------------------------------------------------------
(* Mutant: SET without NX.                                                 *)
LockAlwaysFree(id) == TRUE

(* lock.Redis: SET NX with an expiry, and DEL of the caller's own token.   *)
LockFree(id) == lock[id].by = NoCall \/ lock[id].until <= now

SetNX(id, c) == lock' = [lock EXCEPT ![id] = [by |-> c, until |-> now + LockTTL]]

Unlock(id, c) ==
    IF lock[id].by = c
    THEN lock' = [lock EXCEPT ![id] = [by |-> NoCall, until |-> NoTime]]
    ELSE UNCHANGED lock

(* The call is over.  Its deferred release runs, unless Redis is away.     *)
Return(c) ==
    /\ call' = [call EXCEPT ![c] = [NewCall EXCEPT !.pc = "done"]]
    /\ \/ call[c].locked /\ Unlock(call[c].id, c)
       \/ UNCHANGED lock
    /\ UNCHANGED <<sent, answered>>

-----------------------------------------------------------------------------
(* Load, the checks on what it returned, and application.Allowed on the    *)
(* latest configuration.                                                   *)
Start(c, id, gen) ==
    /\ At(c, "new") /\ \A b \in 1..(c - 1) : ~At(b, "new")
    /\ Deferrable(id, gen)
    /\ \E t \in AppNow, policyErr \in BOOLEAN :
         /\ t >= task[id].next
         /\ call' = [call EXCEPT ![c] = [@ EXCEPT
              !.pc = "lock", !.id = id, !.gen = gen, !.due = now + ProcessTimeout,
              !.policyErr = policyErr, !.expired = t >= task[id].deadline]]
    /\ UNCHANGED <<vars, lock, sent, answered>>

(* Lock acquired; or an error, with or without the key being set: the call *)
(* goes on without the lock.                                               *)
Locked(c) ==
    /\ At(c, "lock")
    /\ \/ /\ LockFree(call[c].id)
          /\ SetNX(call[c].id, c)
          /\ \E known \in BOOLEAN :
               call' = [call EXCEPT ![c].pc = "gate", ![c].locked = known]
       \/ Goto(c, "gate") /\ UNCHANGED lock
    /\ UNCHANGED <<vars, sent, answered>>

(* Another call has the lock: the message is dropped.                      *)
LockBusy(c) ==
    /\ At(c, "lock")
    /\ ~LockFree(call[c].id)
    /\ Return(c)
    /\ UNCHANGED vars

(* The quota is not asked for a call that cannot send anyway.              *)
Gated(c) == At(c, "gate") /\ Goto(c, "claim") /\ UNCHANGED <<vars, lock, sent, answered>>

GateRefuses(c) ==
    /\ At(c, "gate")
    /\ ~call[c].policyErr /\ ~call[c].expired
    /\ \E t \in AppNow : DeferPending(call[c].id, call[c].gen, t)
    /\ Return(c)

ClaimCall(c) ==
    /\ At(c, "claim")
    /\ Claim(call[c].id, call[c].gen)
    /\ call' = [call EXCEPT ![c].pc = "claimed",
                            ![c].n = CopyOf(call[c].id, task'[call[c].id])]
    /\ UNCHANGED <<lock, sent, answered>>

-----------------------------------------------------------------------------
(* The decisions of HTTP.Deliver once the request has left.  complete: a   *)
(* whole response was read and its hash recorded.                          *)
Decision(action, uncertain, complete, h) ==
    [action |-> action, uncertain |-> uncertain, complete |-> complete, retryAfter |-> h]

NetworkError == Decision("retry", TRUE, FALSE, NoHeader)
PermanentError == Decision("fail", FALSE, FALSE, NoHeader)
ReadError(h) == Decision("retry", TRUE, FALSE, h)
TooLarge(h) == Decision("fail", FALSE, FALSE, h)
Response(action, h) == Decision(action, FALSE, TRUE, h)

Deliver ==
    {NetworkError, PermanentError}
        \cup {ReadError(h) : h \in Headers} \cup {TooLarge(h) : h \in Headers}
        \cup {Response(action, h) : action \in Actions, h \in Headers}

(* What the CEL program of the target may return, or no program at all.    *)
Verdicts == {"none", "success", "retry", "fail", "report", "invalid"}

(* Mutant: a hook judges failed transfers too.                             *)
EvaluateIncomplete(d, verdict) ==
    IF verdict \in {"none", "report"} THEN d
    ELSE IF verdict = "invalid" THEN [d EXCEPT !.action = "fail"]
    ELSE [d EXCEPT !.action = verdict]

(* hook.Evaluate: a hook only judges complete responses.                   *)
Evaluate(d, verdict) ==
    IF ~d.complete \/ verdict \in {"none", "report"} THEN d
    ELSE IF verdict = "invalid" THEN [d EXCEPT !.action = "fail"]
    ELSE [d EXCEPT !.action = verdict]

Judged == {Evaluate(d, verdict) : d \in Deliver, verdict \in Verdicts}

(* What Schedule makes of the decision; only a retry asks it.              *)
Scheduled(n, d, t) ==
    LET s == Schedule(n, Target, Policy, d, t) IN
    IF d.action = "retry"
    THEN [action |-> s.action, next |-> s.next, route |-> s.route]
    ELSE [NoResult EXCEPT !.action = d.action]

Decided(c, result) ==
    call' = [call EXCEPT ![c].pc = "commit", ![c].d = result,
                         ![c].due = now + CommitTimeout]

(* Blocked by the latest configuration, without a secret, past the         *)
(* deadline, or rejected by Deliver before it connects: nothing is sent.   *)
FailUnsent(c) ==
    /\ At(c, "claimed")
    /\ Decided(c, [NoResult EXCEPT !.action = "fail"])
    /\ UNCHANGED <<vars, lock, sent, answered>>

Send(c) ==
    /\ At(c, "claimed")
    /\ ~call[c].policyErr
    /\ \E t \in AppNow : t < call[c].n.deadline
    /\ Goto(c, "http")
    /\ sent' = sent \cup {[id |-> call[c].id, gen |-> call[c].gen, by |-> c]}
    /\ UNCHANGED <<vars, lock, answered>>

Answer(c, d) ==
    /\ At(c, "http")
    /\ \E t \in AppNow : Decided(c, Scheduled(call[c].n, d, t))
    /\ answered' = IF d.complete
                   THEN answered \cup {[id |-> call[c].id, no |-> call[c].n.attempts]}
                   ELSE answered
    /\ UNCHANGED <<vars, lock, sent>>

Commit(c) ==
    LET n == call[c].n
        d == call[c].d
    IN  /\ At(c, "commit")
        /\ IF d.action = "retry"
           THEN \E t \in AppNow : FinishRetry(n, d.next, d.route, t)
           ELSE FinishFinal(n, d.action)
        /\ Return(c)

(* ErrState of a transaction: the call returns without having changed it.  *)
Refuse(c) ==
    /\ \/ At(c, "gate") /\ ~Deferrable(call[c].id, call[c].gen)
       \/ At(c, "claim") /\ ~Claimable(call[c].id, call[c].gen)
       \/ At(c, "commit") /\ ~Finishable(call[c].n)
    /\ Return(c)
    /\ UNCHANGED vars

(* Any other error of a store call, its context having expired or the      *)
(* acknowledgement of its commit being lost included.                      *)
Abort(c) == Running(c) /\ ~At(c, "http") /\ Return(c) /\ UNCHANGED vars

(* The process dies: nothing is released.                                  *)
Crash(c) ==
    /\ Running(c)
    /\ call' = [call EXCEPT ![c] = [NewCall EXCEPT !.pc = "done"]]
    /\ UNCHANGED <<vars, lock, sent, answered>>

-----------------------------------------------------------------------------
(* recovery.Loop: Expired, Schedule and RecoverLease for one of the rows.  *)
LeaseExpired == Decision("retry", TRUE, FALSE, NoHeader)

Recover(n) ==
    /\ \E t \in AppNow :
         LET s == Scheduled(n, LeaseExpired, t) IN
         IF s.action = "retry" THEN RecoverRetry(n, s.next, s.route, t) ELSE RecoverFail(n)
    /\ UNCHANGED <<call, lock, sent, answered>>

(* The rest of a round of the loop, and the dispatchers on whose rows it   *)
(* works: triggers are published and lost, and replaced under the calls.   *)
Outbox ==
    /\ RepairStep \/ DispatcherStep
    /\ UNCHANGED <<call, lock, sent, answered>>

(* The API: a submission, or a manual retry.                               *)
Api ==
    /\ ApiStep
    /\ UNCHANGED <<call, lock, sent, answered>>

(* Contexts bound every call: when timely, none outlives its own.          *)
Clock ==
    /\ timely => \A c \in Calls : Running(c) => now < call[c].due
    /\ Tick
    /\ UNCHANGED <<call, lock, sent, answered>>

DInit ==
    /\ Init
    /\ timely \in BOOLEAN
    /\ call = [c \in Calls |-> NewCall]
    /\ lock = [id \in Ids |-> [by |-> NoCall, until |-> NoTime]]
    /\ sent = {}
    /\ answered = {}

Process(c) ==
    \/ \E id \in Ids : \E o \in Events(id) : Start(c, id, outbox[id][o].gen)
    \/ Locked(c) \/ LockBusy(c)
    \/ Gated(c) \/ GateRefuses(c)
    \/ ClaimCall(c)
    \/ FailUnsent(c) \/ Send(c)
    \/ \E d \in Judged : Answer(c, d)
    \/ Commit(c) \/ Refuse(c)
    \/ Abort(c) \/ Crash(c)

DNext ==
    /\ \/ Api
       \/ \E c \in Calls : Process(c)
       \/ \E n \in held : Recover(n)
       \/ Outbox
       \/ Clock
    /\ UNCHANGED timely

DSpec == DInit /\ [][DNext]_dvars

-----------------------------------------------------------------------------
(* worker.go:88, delivery.go:21: duplicate and redelivered messages, proxy *)
(* calls and recovered leases send one request per generation, with the    *)
(* Redis lock lost, expired or degraded, and with stalled calls.           *)
OneRequestPerGeneration ==
    \A r, s \in sent : r.id = s.id /\ r.gen = s.gen => r = s

(* worker.go:39, delivery.go:21: as long as calls return when their        *)
(* context expires, two requests for a notification never overlap, not     *)
(* even when a lease is recovered: it outlives the call that holds it.     *)
RequestsDoNotOverlap ==
    timely => \A b, c \in Calls : At(b, "http") /\ At(c, "http") /\ call[b].id = call[c].id => b = c

(* worker.go:125-127, delivery.go:65: a call that reaches its commit in    *)
(* time still holds the lease, whatever recovery did meanwhile: the result *)
(* of a request is refused only if its call stalled.                       *)
TimelyResultIsKept ==
    timely => \A c \in Calls : At(c, "commit") => Finishable(call[c].n)

(* redis.go:20,28: as long as calls return when their context expires, one *)
(* that was told it has the lock keeps it until it returns: it neither     *)
(* expires under it nor is released by another call.                       *)
LockIsKept ==
    timely => \A c \in Calls : Running(c) /\ call[c].locked =>
        lock[call[c].id].by = c /\ lock[call[c].id].until > now

(* evaluate.go:20, http.go:216-231: an attempt is a success only if a      *)
(* complete response to that attempt was read.                             *)
SuccessWasAnswered ==
    \A id \in Ids : \A i \in Attempted(id) :
        attempts[id][i].result = "success" => [id |-> id, no |-> i] \in answered

(* Process and the recovery loop use the store only as Store allows        *)
(* (worker.go:35-137, loop.go:39-71): in particular what Schedule grants   *)
(* is Schedulable, so everything proved of Store holds of this system.     *)
(* It is Spec, written so that TLC asks for Next only where vars change.   *)
UsesStore == Init /\ [][vars' # vars /\ Next]_vars
=============================================================================
