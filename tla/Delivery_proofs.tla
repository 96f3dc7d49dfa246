-------------------------- MODULE Delivery_proofs --------------------------
(* Concurrent calls of Worker.Process, the recovery loop and the API use   *)
(* the store as Store allows, so what Store_proofs shows holds of them;    *)
(* and the lease fences calls off from each other.                         *)
EXTENDS Delivery, Store_proofs

Pcs == {"new", "lock", "gate", "claim", "claimed", "http", "commit", "done"}
Result ==
    [action : {"", "success", "retry", "fail"}, next : Int, route : DelayRoutes \cup {""}]
CallRecord ==
    [pc : Pcs, id : Ids \cup {NoKey}, gen : Nat, due : Int, policyErr : BOOLEAN,
     expired : BOOLEAN, locked : BOOLEAN, n : Copy \cup {NoCopy}, d : Result]
LockRecord == [by : Calls \cup {NoCall}, until : Int]

DType ==
    /\ timely \in BOOLEAN
    /\ call \in [Calls -> CallRecord]
    /\ lock \in [Ids -> LockRecord]
    /\ now <= MaxTime

(* From its claim to its end a call has a lease.                           *)
Holds(c) == call[c].pc \in {"claimed", "http", "commit"}

(* A result that may be written: what Schedule granted, or a success that  *)
(* the target has confirmed.                                               *)
ResultOK(k) ==
    /\ k.d.action \in Actions
    /\ k.d.action = "retry" =>
         Schedulable(k.n, k.d.next) /\ k.d.next \in RetryTimes /\ k.d.route \in DelayRoutes
    /\ k.d.action = "success" => [id |-> k.id, no |-> k.n.attempts] \in answered

(* A call that holds a lease has a copy from the store for the generation  *)
(* it was started for; until it sends, nobody has sent for that one.       *)
CallOK(c) ==
    /\ At(c, "new") => ~call[c].locked
    /\ Running(c) => call[c].id \in Ids
    /\ Holds(c) => /\ call[c].n \in held /\ call[c].n.id = call[c].id
                   /\ call[c].n.gen = call[c].gen
                   /\ call[c].gen \in attemptedBar[call[c].id]
    /\ At(c, "claimed") => \A r \in sent : ~(r.id = call[c].id /\ r.gen = call[c].gen)
    /\ At(c, "commit") => ResultOK(call[c])

(* The latest instant at which a call still runs.                          *)
LastInstant(k) == IF k.pc = "commit" THEN k.due ELSE k.due + CommitTimeout

(* As long as contexts are obeyed, lease and lock outlive the call.        *)
TimeOK(c) ==
    Running(c) =>
        /\ call[c].pc # "commit" => call[c].due <= now + ProcessTimeout
        /\ timely =>
             /\ now <= call[c].due
             /\ Holds(c) => /\ Fenced(call[c].n)
                            /\ task[call[c].id].until > LastInstant(call[c])
             /\ call[c].locked => /\ lock[call[c].id].by = c
                                  /\ lock[call[c].id].until > LastInstant(call[c])

(* No two calls share a lease, or a generation.                            *)
Apart(b, c) ==
    Holds(b) /\ Holds(c) =>
        /\ call[b].n.lease # call[c].n.lease
        /\ call[b].id = call[c].id => call[b].gen # call[c].gen

SentOK == \A r \in sent : r.id \in Ids /\ r.gen \in attemptedBar[r.id]

DInv ==
    /\ IInv /\ DType
    /\ \A c \in Calls : CallOK(c) /\ TimeOK(c)
    /\ \A b, c \in Calls : b # c => Apart(b, c)
    /\ SentOK
    /\ OneRequestPerGeneration
    /\ SuccessWasAnswered
-----------------------------------------------------------------------------
(* What Schedule grants is Schedulable *)

Granted(n, s) ==
    Schedulable(n, s.next) /\ s.next \in RetryTimes /\ s.route \in DelayRoutes

LEMMA RefusedIs ==
    ASSUME NEW reason
    PROVE  /\ Refused(reason).action = "fail" /\ Refused(reason).next = ZeroTime
           /\ Refused(reason).route = ""
  BY DEF Refused

LEMMA ScheduleInGrants ==
    ASSUME NEW n, n.deadline \in Int, n.cycle \in 1..MaxRetries, NEW delay,
           NEW t \in (-Skew)..(MaxTime + Skew)
    PROVE  LET s == ScheduleIn(n, delay, t) IN
           \/ s.action = "fail" /\ s.next = ZeroTime /\ s.route = ""
           \/ s.action = "retry" /\ s.next \in Int /\ Granted(n, s)
  <1>1. CASE ~\E b \in 1..Len(Buckets) : StopsAt(delay, b)
    BY <1>1, RefusedIs DEF ScheduleIn
  <1>2. CASE \E b \in 1..Len(Buckets) : StopsAt(delay, b)
    <2>. DEFINE b == CHOOSE c \in 1..Len(Buckets) : StopsAt(delay, c)
                next == t + Buckets[b]
                granted == [action |-> "retry", reason |-> "", next |-> next,
                            route |-> BucketRoutes[b]]
    <2>1. b \in 1..Len(Buckets)
      BY <1>2
    <2>2. ScheduleIn(n, delay, t) =
            IF next >= n.deadline THEN Refused("retry_deadline_exceeded") ELSE granted
      BY <1>2 DEF ScheduleIn
    <2>. HIDE DEF b
    <2>3. next \in RetryTimes /\ next \in Int
      BY <2>1, PolicyAssumption, StoreAssumption
    <2>4. BucketRoutes[b] \in DelayRoutes
      BY <2>1, DeliveryAssumption, BucketsAssumption
    <2>5. granted.action = "retry" /\ granted.next = next /\ granted.route = BucketRoutes[b]
      OBVIOUS
    <2>. HIDE DEF granted
    <2>6. CASE next >= n.deadline
      BY <2>2, <2>6, RefusedIs
    <2>7. CASE ~(next >= n.deadline)
      <3>1. ScheduleIn(n, delay, t) = granted /\ next < n.deadline
        BY <2>2, <2>3, <2>7
      <3>2. Granted(n, granted)
        BY <2>3, <2>4, <2>5, <3>1 DEF Granted, Schedulable
      <3>. QED
        BY <2>3, <2>5, <3>1, <3>2
    <2>. QED
      BY <2>6, <2>7
  <1>. QED
    BY <1>1, <1>2

LEMMA ScheduleGrants ==
    ASSUME NEW n, n.deadline \in Int, n.cycle \in Nat, NEW d,
           NEW t \in (-Skew)..(MaxTime + Skew)
    PROVE  LET s == Schedule(n, Target, Policy, d, t) IN
           \/ s.action = "fail" /\ s.next = ZeroTime /\ s.route = ""
           \/ s.action = "retry" /\ s.next \in Int /\ Granted(n, s)
  <1>. DEFINE s == Schedule(n, Target, Policy, d, t)
  <1>1. CASE \E reason : s = Refused(reason)
    BY <1>1, RefusedIs
  <1>2. CASE ~\E reason : s = Refused(reason)
    <2>1. /\ s = ScheduleIn(n, Delay(Policy, d.retryAfter, n.cycle, t), t)
          /\ ~(n.cycle < 1 \/ n.cycle > Len(Policy.delays))
      BY <1>2 DEF Schedule
    <2>2. Len(Policy.delays) \in Nat /\ Len(Policy.delays) <= MaxRetries /\ MaxRetries \in Nat
      BY PolicyAssumption, StoreAssumption
    <2>3. n.cycle \in 1..MaxRetries
      BY <2>1, <2>2
    <2>. HIDE DEF s
    <2>. QED
      BY <2>1, <2>3, ScheduleInGrants DEF s
  <1>. QED
    BY <1>1, <1>2

LEMMA NoResultType ==
    /\ NoResult \in Result
    /\ \A a \in {"", "success", "retry", "fail"} :
         [NoResult EXCEPT !.action = a] \in Result /\ [NoResult EXCEPT !.action = a].action = a
  <1>1. ZeroTime \in Int
    BY DEF ZeroTime
  <1>2. NoResult \in Result
    BY <1>1 DEF NoResult, Result
  <1>3. ASSUME NEW r \in Result, NEW a \in {"", "success", "retry", "fail"}
        PROVE  [r EXCEPT !.action = a] \in Result /\ [r EXCEPT !.action = a].action = a
    BY DEF Result
  <1>. QED
    BY <1>2, <1>3

(* What a call, or the recovery loop, makes of a decision.                 *)
LEMMA ScheduledGrants ==
    ASSUME NEW n \in Copy, NEW d, d.action \in Actions,
           now \in Nat, now <= MaxTime, NEW t \in AppNow
    PROVE  LET s == Scheduled(n, d, t) IN
           /\ s \in Result /\ s.action \in Actions
           /\ s.action = "retry" => Granted(n, s)
           /\ s.action = "success" => d.action = "success"
  <1>. DEFINE s == Schedule(n, Target, Policy, d, t)
              r == [action |-> s.action, next |-> s.next, route |-> s.route]
  <1>1. t \in (-Skew)..(MaxTime + Skew)
    BY StoreAssumption DEF AppNow
  <1>2. n.deadline \in Int /\ n.cycle \in Nat
    BY DEF Copy
  <1>3. \/ s.action = "fail" /\ s.next = ZeroTime /\ s.route = ""
        \/ s.action = "retry" /\ s.next \in Int /\ Granted(n, s)
    BY <1>1, <1>2, ScheduleGrants
  <1>4. CASE d.action = "retry"
    <2>1. Scheduled(n, d, t) = r
      BY <1>4 DEF Scheduled
    <2>. HIDE DEF s
    <2>2. r.action = s.action /\ r.next = s.next /\ r.route = s.route
      OBVIOUS
    <2>z. ZeroTime \in Int
      BY DEF ZeroTime
    <2>3. /\ s.action \in {"", "success", "retry", "fail"} /\ s.next \in Int
          /\ s.route \in DelayRoutes \cup {""}
      BY <1>3, <2>z DEF Granted
    <2>4. r \in Result
      BY <2>3 DEF Result
    <2>. HIDE DEF r
    <2>. QED
      BY <1>3, <2>1, <2>2, <2>4 DEF Granted, Actions
  <1>5. CASE d.action # "retry"
    <2>. DEFINE q == [NoResult EXCEPT !.action = d.action]
    <2>1. Scheduled(n, d, t) = q
      BY <1>5 DEF Scheduled
    <2>2. q.action = d.action /\ q \in Result
      BY NoResultType DEF Actions
    <2>. HIDE DEF q
    <2>. QED
      BY <1>5, <2>1, <2>2
  <1>. QED
    BY <1>4, <1>5

(* hook.Evaluate and HTTP.Deliver: a success has been confirmed by a       *)
(* complete response.                                                      *)
LEMMA JudgedIs ==
    ASSUME NEW d \in Judged
    PROVE  d.action \in Actions /\ (d.action = "success" => d.complete)
  <1>1. PICK e \in Deliver, verdict \in Verdicts : d = Evaluate(e, verdict)
    BY DEF Judged
  <1>2. ASSUME NEW action \in Actions, NEW u \in BOOLEAN, NEW k \in BOOLEAN, NEW h,
               e = Decision(action, u, k, h), action = "success" => k
        PROVE  d.action \in Actions /\ (d.action = "success" => d.complete)
    <2>1. /\ e.action = action /\ e.complete = k
          /\ \A a : [e EXCEPT !.action = a].action = a /\ [e EXCEPT !.action = a].complete = k
      BY <1>2 DEF Decision
    <2>. QED
      BY <1>1, <1>2, <2>1 DEF Evaluate, Verdicts, Actions
  <1>. DEFINE G == d.action \in Actions /\ (d.action = "success" => d.complete)
              A == {NetworkError, PermanentError}
              B == {ReadError(h) : h \in Headers}
              C == {TooLarge(h) : h \in Headers}
              D == {Response(action, h) : action \in Actions, h \in Headers}
  <1>3. "retry" \in Actions /\ "fail" \in Actions
    BY DEF Actions
  <1>4. e \in A => G
    BY <1>2, <1>3 DEF NetworkError, PermanentError
  <1>5. e \in B => G
    BY <1>2, <1>3 DEF ReadError
  <1>6. e \in C => G
    BY <1>2, <1>3 DEF TooLarge
  <1>7. e \in D => G
    <2> SUFFICES ASSUME e \in D PROVE G
      OBVIOUS
    <2>1. PICK action \in Actions, h \in Headers : e = Response(action, h)
      OBVIOUS
    <2>. QED
      BY <1>2, <2>1 DEF Response
  <1>8. Deliver = A \cup B \cup C \cup D
    BY DEF Deliver
  <1>. HIDE DEF A, B, C, D, G
  <1>9. G
    BY <1>1, <1>4, <1>5, <1>6, <1>7, <1>8
  <1>. QED
    BY <1>9 DEF G
-----------------------------------------------------------------------------
(* The calls use the store as Store allows *)

LEMMA PendingGeneration ==
    ASSUME IInv, NEW id \in Ids, task[id].status = "pending"
    PROVE  task[id].gen \in 1..task[id].gen
  <1>1. EventsOK(task[id], outbox[id]) /\ Len(outbox[id]) \in Nat /\ task[id].gen \in Nat
    BY DEF IInv, TaskOK, TypeOK, Task
  <1>. QED
    BY <1>1 DEF EventsOK

(* The steps that leave the tables alone.                                  *)
LocalStep(c) ==
    \/ \E id \in Ids : \E o \in Events(id) : Start(c, id, outbox[id][o].gen)
    \/ Locked(c) \/ LockBusy(c) \/ Gated(c)
    \/ FailUnsent(c) \/ Send(c)
    \/ \E d \in Judged : Answer(c, d)
    \/ Refuse(c) \/ Abort(c) \/ Crash(c)

LEMMA ProcessCases ==
    ASSUME NEW c, Process(c)
    PROVE  LocalStep(c) \/ GateRefuses(c) \/ ClaimCall(c) \/ Commit(c)
  BY Zenon DEF Process, LocalStep

LEMMA LocalKeepsStore == ASSUME NEW c, LocalStep(c) PROVE UNCHANGED vars
  BY Zenon DEF LocalStep, Start, Locked, LockBusy, Gated, FailUnsent, Send, Answer, Refuse,
              Abort, Crash

LEMMA DInvParts ==
    ASSUME DInv
    PROVE  /\ IInv /\ TypeOK /\ DType /\ now \in Nat /\ now <= MaxTime
           /\ \A c \in Calls : CallOK(c) /\ TimeOK(c) /\ call[c] \in CallRecord
           /\ \A n \in held : n \in Copy
  BY DEF DInv, IInv, TypeOK, DType

LEMMA DeliveryUses == ASSUME DInv, [DNext]_dvars PROVE [Next]_vars
  <1>0. IInv /\ now \in Nat /\ now <= MaxTime /\ \A n \in held : n \in Copy
    BY DInvParts
  <1>1. CASE Api
    BY <1>1 DEF Api, Next
  <1>2. ASSUME NEW c \in Calls, GateRefuses(c) PROVE Next
    <2>1. PICK t \in AppNow : DeferPending(call[c].id, call[c].gen, t)
      BY <1>2 DEF GateRefuses
    <2>2. call[c].id \in Ids
      BY <1>2, DInvParts DEF CallOK, Running, GateRefuses, At
    <2>3. task[call[c].id].status = "pending" /\ call[c].gen = task[call[c].id].gen
      BY <2>1 DEF DeferPending, Deferrable
    <2>4. call[c].gen \in 1..task[call[c].id].gen
      BY <1>0, <2>2, <2>3, PendingGeneration
    <2>. QED
      BY <2>1, <2>2, <2>4 DEF Next, WorkerStep
  <1>3. ASSUME NEW c \in Calls, ClaimCall(c) PROVE Next
    <2>1. Claim(call[c].id, call[c].gen)
      BY <1>3 DEF ClaimCall
    <2>2. call[c].id \in Ids
      BY <1>3, DInvParts DEF CallOK, Running, ClaimCall, At
    <2>3. task[call[c].id].status = "pending" /\ call[c].gen = task[call[c].id].gen
      BY <2>1 DEF Claim, Claimable
    <2>4. call[c].gen \in 1..task[call[c].id].gen
      BY <1>0, <2>2, <2>3, PendingGeneration
    <2>. QED
      BY <2>1, <2>2, <2>4 DEF Next, WorkerStep
  <1>4. ASSUME NEW c \in Calls, Commit(c) PROVE Next
    <2>. DEFINE n == call[c].n
                d == call[c].d
    <2>1. n \in held /\ ResultOK(call[c])
      BY <1>4, DInvParts DEF CallOK, Holds, Commit, At
    <2>2. CASE d.action = "retry"
      <3>1. PICK t \in AppNow : FinishRetry(n, d.next, d.route, t)
        BY <1>4, <2>2 DEF Commit
      <3>2. Schedulable(n, d.next) /\ d.next \in RetryTimes /\ d.route \in DelayRoutes
        BY <2>1, <2>2 DEF ResultOK
      <3>. QED
        BY <2>1, <3>1, <3>2 DEF Next, WorkerStep
    <2>3. CASE d.action # "retry"
      <3>1. FinishFinal(n, d.action) /\ d.action \in {"success", "fail"}
        BY <1>4, <2>1, <2>3 DEF Commit, FinishFinal
      <3>. QED
        BY <2>1, <3>1 DEF Next, WorkerStep
    <2>. QED
      BY <2>2, <2>3
  <1>5. ASSUME NEW n \in held, Recover(n) PROVE Next
    <2>1. PICK t \in AppNow :
            IF Scheduled(n, LeaseExpired, t).action = "retry"
            THEN RecoverRetry(n, Scheduled(n, LeaseExpired, t).next,
                              Scheduled(n, LeaseExpired, t).route, t)
            ELSE RecoverFail(n)
      BY <1>5 DEF Recover
    <2>. DEFINE s == Scheduled(n, LeaseExpired, t)
    <2>2. LeaseExpired.action \in Actions
      BY DEF LeaseExpired, Decision, Actions
    <2>3. s.action = "retry" => Granted(n, s)
      BY <1>0, <2>1, <2>2, ScheduledGrants
    <2>. HIDE DEF s
    <2>4. CASE s.action = "retry"
      <3>1. RecoverRetry(n, s.next, s.route, t)
        BY <2>1, <2>4 DEF s
      <3>. QED
        BY <2>1, <2>3, <2>4, <3>1 DEF Next, RecoveryStep, LeaseStep, Granted
    <2>5. CASE s.action # "retry"
      <3>1. RecoverFail(n)
        BY <2>1, <2>5 DEF s
      <3>. QED
        BY <3>1 DEF Next, RecoveryStep, LeaseStep
    <2>. QED
      BY <2>4, <2>5
  <1>6. CASE Clock
    BY <1>6 DEF Clock, Next
  <1>7. CASE UNCHANGED dvars
    BY <1>7 DEF dvars
  <1>8. ASSUME NEW c \in Calls, LocalStep(c) PROVE UNCHANGED vars
    BY <1>8, LocalKeepsStore
  <1>9. CASE \E c \in Calls : Process(c)
    BY <1>2, <1>3, <1>4, <1>8, <1>9, ProcessCases
  <1>10. CASE Outbox
    BY <1>10 DEF Outbox, Next, RecoveryStep
  <1>. QED
    BY <1>1, <1>5, <1>6, <1>7, <1>9, <1>10 DEF DNext
-----------------------------------------------------------------------------
(* Calls that do not move *)

LEMMA AttemptedGrows ==
    ASSUME IInv, [Next]_vars, NEW id \in Ids
    PROVE  attemptedBar[id] \subseteq attemptedBar'[id]
  <1>1. Stays(id) \/ Waits(id) \/ Claims(id) \/ Settles(id)
    BY StepShape DEF Shape
  <1>. QED
    BY <1>1, StaysBar, WaitsBar, ClaimsBar, SettlesBar

(* A call that stands still keeps its part of the invariant if nobody      *)
(* takes its lease or its lock, and nobody sends in its place.             *)
LEMMA CallFrame ==
    ASSUME DInv, NEW c \in Calls, call'[c] = call[c], timely' = timely,
           held \subseteq held', answered \subseteq answered',
           now' \in Nat, now' >= now,
           \A id \in Ids : attemptedBar[id] \subseteq attemptedBar'[id],
           At(c, "claimed") =>
             \A r \in sent' \ sent : ~(r.id = call[c].id /\ r.gen = call[c].gen),
           timely /\ Running(c) => now' <= call[c].due,
           timely /\ Holds(c) => task'[call[c].id] = task[call[c].id],
           timely /\ Running(c) /\ call[c].locked => lock'[call[c].id] = lock[call[c].id]
    PROVE  CallOK(c)' /\ TimeOK(c)'
  <1>0. /\ CallOK(c) /\ TimeOK(c) /\ call[c] \in CallRecord /\ now \in Nat
        /\ Holds(c) => Running(c)
    BY DInvParts DEF Holds, Running
  <1>1. CallOK(c)'
    <2>1. ResultOK(call[c]) => ResultOK(call[c])'
      BY DEF ResultOK
    <2>2. Holds(c) => call[c].gen \in attemptedBar'[call[c].id]
      BY <1>0 DEF CallOK
    <2>3. At(c, "claimed") => \A r \in sent' : ~(r.id = call[c].id /\ r.gen = call[c].gen)
      BY <1>0 DEF CallOK
    <2>4. Holds(c) => call[c].n \in held'
      BY <1>0 DEF CallOK
    <2>. QED
      BY <1>0, <2>1, <2>2, <2>3, <2>4 DEF CallOK, Running, Holds, At, ResultOK
  <1>2. TimeOK(c)'
    <2> SUFFICES ASSUME Running(c)
                 PROVE  /\ call[c].pc # "commit" => call[c].due <= now' + ProcessTimeout
                        /\ timely =>
                             /\ now' <= call[c].due
                             /\ Holds(c) => /\ Fenced(call[c].n)'
                                            /\ task'[call[c].id].until > LastInstant(call[c])
                             /\ call[c].locked =>
                                  /\ lock'[call[c].id].by = c
                                  /\ lock'[call[c].id].until > LastInstant(call[c])
      BY DEF TimeOK, Running, Holds, Fenced, LastInstant
    <2>1. call[c].due \in Int /\ ProcessTimeout \in Nat
      BY <1>0, DeliveryAssumption DEF CallRecord
    <2>2. call[c].pc # "commit" => call[c].due <= now' + ProcessTimeout
      BY <1>0, <2>1 DEF TimeOK
    <2>3. timely /\ Holds(c) => Fenced(call[c].n)'
      BY <1>0 DEF TimeOK, CallOK, Fenced
    <2>. QED
      BY <1>0, <2>2, <2>3 DEF TimeOK
  <1>. QED
    BY <1>1, <1>2

(* A step in which at most the call m moves.                               *)
LEMMA StepInv ==
    ASSUME DInv, [Next]_vars, DType', timely' = timely, NEW m \in Calls \cup {NoCall},
           held \subseteq held', answered \subseteq answered', now' >= now,
           \A c \in Calls \ {m} :
             /\ call'[c] = call[c]
             /\ At(c, "claimed") =>
                  \A r \in sent' \ sent : ~(r.id = call[c].id /\ r.gen = call[c].gen)
             /\ timely /\ Running(c) => now' <= call[c].due
             /\ timely /\ Holds(c) => task'[call[c].id] = task[call[c].id]
             /\ timely /\ Running(c) /\ call[c].locked =>
                  lock'[call[c].id] = lock[call[c].id],
           m \in Calls => /\ CallOK(m)' /\ TimeOK(m)'
                          /\ \A b \in Calls \ {m} : Apart(b, m)',
           SentOK', OneRequestPerGeneration', SuccessWasAnswered'
    PROVE  DInv'
  <1>1. IInv' /\ now' \in Nat
    BY InductiveStep DEF DInv, IInv, TypeOK
  <1>2. \A id \in Ids : attemptedBar[id] \subseteq attemptedBar'[id]
    BY AttemptedGrows DEF DInv
  <1>3. \A c \in Calls \ {m} : CallOK(c)' /\ TimeOK(c)'
    BY <1>1, <1>2, CallFrame
  <1>4. ASSUME NEW b \in Calls, NEW c \in Calls, b # c PROVE Apart(b, c)'
    <2>1. CASE b # m /\ c # m
      BY <1>4, <2>1 DEF DInv, Apart, Holds
    <2>2. CASE b = m \/ c = m
      <3>1. b = m => Apart(c, b)'
        BY <1>4
      <3>2. c = m => Apart(b, c)'
        BY <1>4
      <3>3. Apart(c, b)' => Apart(b, c)'
        BY DEF Apart
      <3>. QED
        BY <2>2, <3>1, <3>2, <3>3
    <2>. QED
      BY <2>1, <2>2
  <1>. QED
    BY <1>1, <1>3, <1>4 DEF DInv

-----------------------------------------------------------------------------
(* Steps that leave the tables alone *)

LEMMA LocalInv ==
    ASSUME DInv, UNCHANGED <<vars, timely>>, NEW c \in Calls, NEW new \in CallRecord,
           call' = [call EXCEPT ![c] = new], lock' \in [Ids -> LockRecord],
           \A b \in Calls \ {c} : timely /\ Running(b) /\ call[b].locked =>
             lock'[call[b].id] = lock[call[b].id],
           answered \subseteq answered',
           \/ sent' = sent
           \/ /\ At(c, "claimed")
              /\ sent' = sent \cup {[id |-> call[c].id, gen |-> call[c].gen, by |-> c]},
           CallOK(c)', TimeOK(c)',
           new.pc \in {"claimed", "http", "commit"} =>
             Holds(c) /\ new.n = call[c].n /\ new.id = call[c].id /\ new.gen = call[c].gen
    PROVE  DInv'
  <1>0. /\ task' = task /\ attempts' = attempts /\ held' = held /\ now' = now
        /\ attemptedBar' = attemptedBar /\ now \in Nat
        /\ \A b \in Calls : CallOK(b) /\ TimeOK(b)
    BY DInvParts DEF vars, attemptedBar, Attempted
  <1>1. call'[c] = new /\ \A b \in Calls \ {c} : call'[b] = call[b]
    BY DEF DInv, DType
  <1>2. DType'
    BY <1>0 DEF DInv, DType
  <1>3. ASSUME NEW b \in Calls \ {c} PROVE Apart(b, c)'
    <2>1. Apart(b, c)
      BY DEF DInv
    <2>. QED
      BY <1>1, <2>1 DEF Apart, Holds
  <1>4. ASSUME NEW b \in Calls \ {c}, At(b, "claimed"), NEW r \in sent' \ sent
        PROVE  ~(r.id = call[b].id /\ r.gen = call[b].gen)
    <2>1. /\ At(c, "claimed") /\ r = [id |-> call[c].id, gen |-> call[c].gen, by |-> c]
          /\ Holds(b) /\ Holds(c)
      BY <1>4 DEF Holds, At
    <2>2. Apart(b, c)
      BY DEF DInv
    <2>. QED
      BY <2>1, <2>2 DEF Apart
  <1>5. SentOK'
    <2>1. At(c, "claimed") => call[c].id \in Ids /\ call[c].gen \in attemptedBar[call[c].id]
      BY <1>0 DEF CallOK, Running, Holds, At
    <2>2. ASSUME NEW r \in sent' PROVE r.id \in Ids /\ r.gen \in attemptedBar'[r.id]
      <3>1. CASE r \in sent
        BY <1>0, <3>1 DEF DInv, SentOK
      <3>2. CASE r \notin sent
        <4>1. At(c, "claimed") /\ r = [id |-> call[c].id, gen |-> call[c].gen, by |-> c]
          BY <3>2
        <4>. QED
          BY <1>0, <2>1, <4>1
      <3>. QED
        BY <3>1, <3>2
    <2>. QED
      BY <2>2 DEF SentOK
  <1>6. OneRequestPerGeneration'
    <2>1. CASE sent' = sent
      BY <2>1 DEF DInv, OneRequestPerGeneration
    <2>2. CASE /\ At(c, "claimed")
               /\ sent' = sent \cup {[id |-> call[c].id, gen |-> call[c].gen, by |-> c]}
      <3>. DEFINE q == [id |-> call[c].id, gen |-> call[c].gen, by |-> c]
      <3>1. \A r \in sent : ~(r.id = call[c].id /\ r.gen = call[c].gen)
        BY <1>0, <2>2 DEF CallOK
      <3>2. q.id = call[c].id /\ q.gen = call[c].gen /\ sent' = sent \cup {q}
        BY <2>2
      <3>. HIDE DEF q
      <3>3. \A r, s \in sent : r.id = s.id /\ r.gen = s.gen => r = s
        BY DEF DInv, OneRequestPerGeneration
      <3>. QED
        BY <3>1, <3>2, <3>3 DEF OneRequestPerGeneration
    <2>. QED
      BY <2>1, <2>2
  <1>7. SuccessWasAnswered'
    BY <1>0 DEF DInv, SuccessWasAnswered, Attempted
  <1>8. ASSUME NEW b \in Calls \ {c}, timely, Running(b) PROVE now' <= call[b].due
    BY <1>0, <1>8 DEF TimeOK
  <1>9. now' >= now
    BY <1>0
  <1>10. [Next]_vars
    OBVIOUS
  <1>. QED
    BY <1>0, <1>1, <1>2, <1>3, <1>4, <1>5, <1>6, <1>7, <1>8, <1>9, <1>10, StepInv

(* A call that is over.                                                    *)
Done == [NewCall EXCEPT !.pc = "done"]

LEMMA NewCallType ==
    /\ NewCall \in CallRecord /\ NewCall.pc = "new" /\ ~NewCall.locked
    /\ Done \in CallRecord /\ Done.pc = "done"
  <1>1. /\ NoTime \in Int /\ NoResult \in Result /\ "new" \in Pcs /\ "done" \in Pcs
        /\ 0 \in Nat
    BY NoResultType, NullTypes DEF Pcs
  <1>2. NewCall \in CallRecord /\ NewCall.pc = "new" /\ ~NewCall.locked
    BY <1>1 DEF NewCall, CallRecord
  <1>3. ASSUME NEW k \in CallRecord, NEW pc \in Pcs
        PROVE  [k EXCEPT !.pc = pc] \in CallRecord /\ [k EXCEPT !.pc = pc].pc = pc
    BY DEF CallRecord
  <1>. QED
    BY <1>1, <1>2, <1>3 DEF Done

(* A call that is over has nothing that others could disturb.              *)
LEMMA DoneOK ==
    ASSUME NEW c \in Calls, call'[c].pc = "done"
    PROVE  CallOK(c)' /\ TimeOK(c)' /\ \A b \in Calls : Apart(b, c)'
  BY DEF CallOK, TimeOK, Apart, Running, Holds, At

(* The deferred release takes no other call's lock.                        *)
LEMMA ReturnEffect ==
    ASSUME DInv, NEW c \in Calls, Running(c), Return(c)
    PROVE  /\ call' = [call EXCEPT ![c] = Done] /\ call' \in [Calls -> CallRecord]
           /\ call'[c].pc = "done" /\ \A b \in Calls \ {c} : call'[b] = call[b]
           /\ lock' \in [Ids -> LockRecord]
           /\ \A b \in Calls \ {c} : timely /\ Running(b) /\ call[b].locked =>
                lock'[call[b].id] = lock[call[b].id]
           /\ sent' = sent /\ answered' = answered
  <1>1. /\ call' = [call EXCEPT ![c] = Done] /\ sent' = sent /\ answered' = answered
        /\ call \in [Calls -> CallRecord] /\ lock \in [Ids -> LockRecord]
        /\ call[c].id \in Ids
    BY DInvParts DEF Return, Done, CallOK, DType
  <1>2. call' \in [Calls -> CallRecord] /\ call'[c].pc = "done"
    BY <1>1, NewCallType
  <1>3. \A b \in Calls \ {c} : call'[b] = call[b]
    BY <1>1
  <1>. DEFINE free == [by |-> NoCall, until |-> NoTime]
  <1>4. free \in LockRecord
    BY NullTypes DEF LockRecord
  <1>. HIDE DEF free
  <1>5. \/ lock' = lock
        \/ lock[call[c].id].by = c /\ lock' = [lock EXCEPT ![call[c].id] = free]
    BY DEF Return, Unlock, free
  <1>6. lock' \in [Ids -> LockRecord]
    BY <1>1, <1>4, <1>5
  <1>7. ASSUME NEW b \in Calls \ {c}, timely, Running(b), call[b].locked
        PROVE  lock'[call[b].id] = lock[call[b].id]
    <2>1. call[b].id \in Ids /\ lock[call[b].id].by = b
      BY <1>7, DInvParts DEF CallOK, TimeOK
    <2>. QED
      BY <1>1, <1>5, <2>1
  <1>. QED
    BY <1>1, <1>2, <1>3, <1>6, <1>7

LEMMA ReturnInv ==
    ASSUME DInv, UNCHANGED <<vars, timely>>, NEW c \in Calls, Running(c), Return(c)
    PROVE  DInv'
  <1>1. Done \in CallRecord /\ Done.pc \notin {"claimed", "http", "commit"}
    BY NewCallType
  <1>2. CallOK(c)' /\ TimeOK(c)'
    BY ReturnEffect, DoneOK
  <1>. QED
    BY <1>1, <1>2, ReturnEffect, LocalInv

LEMMA CrashInv ==
    ASSUME DInv, UNCHANGED timely, NEW c \in Calls, Crash(c)
    PROVE  DInv'
  <1>1. Done \in CallRecord /\ Done.pc \notin {"claimed", "http", "commit"}
    BY NewCallType
  <1>2. /\ call' = [call EXCEPT ![c] = Done] /\ UNCHANGED <<vars, timely>>
        /\ lock' = lock /\ sent' = sent /\ answered' = answered
    BY Zenon DEF Crash, Done
  <1>3. lock \in [Ids -> LockRecord] /\ call'[c].pc = "done"
    BY <1>2, NewCallType DEF DInv, DType
  <1>4. CallOK(c)' /\ TimeOK(c)'
    BY <1>3, DoneOK
  <1>. QED
    BY <1>1, <1>2, <1>3, <1>4, LocalInv

LEMMA BeforeClaim ==
    ASSUME NEW c \in Calls, call'[c].pc \in {"lock", "gate", "claim"}, call'[c].id \in Ids,
           call'[c].due <= now' + ProcessTimeout,
           timely' => /\ now' <= call'[c].due
                      /\ call'[c].locked =>
                           /\ lock'[call'[c].id].by = c
                           /\ lock'[call'[c].id].until > call'[c].due + CommitTimeout
    PROVE  CallOK(c)' /\ TimeOK(c)'
  BY DEF CallOK, TimeOK, Running, Holds, At, LastInstant

LEMMA StartInv ==
    ASSUME DInv, UNCHANGED timely, NEW c \in Calls, NEW id \in Ids, NEW o \in Events(id),
           Start(c, id, outbox[id][o].gen)
    PROVE  DInv'
  <1>0. /\ call \in [Calls -> CallRecord] /\ lock \in [Ids -> LockRecord] /\ now \in Nat
        /\ ProcessTimeout \in Nat /\ call[c] \in CallRecord /\ call[c].pc = "new"
        /\ ~call[c].locked
    BY DInvParts, DeliveryAssumption DEF DType, Start, At, CallOK
  <1>1. outbox[id][o].gen \in Nat
    <2>1. outbox[id] \in Seq(Event) /\ o \in 1..Len(outbox[id])
      BY DInvParts DEF TypeOK, Events
    <2>2. outbox[id][o] \in Event
      BY <2>1
    <2>. QED
      BY <2>2 DEF Event
  <1>3. PICK t \in AppNow, p \in BOOLEAN :
          call' = [call EXCEPT ![c] = [call[c] EXCEPT !.pc = "lock", !.id = id,
                     !.gen = outbox[id][o].gen, !.due = now + ProcessTimeout,
                     !.policyErr = p, !.expired = t >= task[id].deadline]]
    BY <1>0 DEF Start
  <1>. DEFINE new == [call[c] EXCEPT !.pc = "lock", !.id = id,
                       !.gen = outbox[id][o].gen, !.due = now + ProcessTimeout,
                       !.policyErr = p, !.expired = t >= task[id].deadline]
  <1>4. (t >= task[id].deadline) \in BOOLEAN
    OBVIOUS
  <1>5. now + ProcessTimeout \in Int
    BY <1>0
  <1>6. /\ new \in CallRecord /\ new.pc = "lock" /\ new.id = id
        /\ new.due = now + ProcessTimeout /\ ~new.locked
    BY <1>0, <1>1, <1>3, <1>4, <1>5 DEF CallRecord, Pcs
  <1>7. call' = [call EXCEPT ![c] = new]
    BY <1>3
  <1>. HIDE DEF new
  <1>8. UNCHANGED vars /\ lock' = lock /\ sent' = sent /\ answered' = answered
    BY Zenon DEF Start
  <1>9. call'[c] = new /\ now' = now
    BY <1>0, <1>7, <1>8 DEF vars
  <1>10. /\ call'[c].pc \in {"lock", "gate", "claim"} /\ call'[c].id \in Ids
         /\ call'[c].due <= now' + ProcessTimeout /\ now' <= call'[c].due
         /\ ~call'[c].locked
    BY <1>0, <1>6, <1>9
  <1>11. CallOK(c)' /\ TimeOK(c)'
    BY <1>10, BeforeClaim
  <1>. QED
    BY <1>0, <1>6, <1>7, <1>8, <1>11, LocalInv

LEMMA GotoIs ==
    ASSUME DInv, NEW c \in Calls, NEW pc \in Pcs, Goto(c, pc)
    PROVE  /\ call' = [call EXCEPT ![c] = [call[c] EXCEPT !.pc = pc]]
           /\ call'[c] = [call[c] EXCEPT !.pc = pc]
           /\ call[c] \in CallRecord
  BY DEF DInv, DType, Goto

(* Lock and Gate without a change in Redis.                                *)
LEMMA ProceedInv ==
    ASSUME DInv, UNCHANGED <<vars, timely, lock, sent, answered>>, NEW c \in Calls,
           call[c].pc \in {"lock", "gate"}, NEW pc \in {"gate", "claim"}, Goto(c, pc)
    PROVE  DInv'
  <1>. DEFINE new == [call[c] EXCEPT !.pc = pc]
  <1>0. call' = [call EXCEPT ![c] = new] /\ call'[c] = new /\ call[c] \in CallRecord
    BY GotoIs DEF Pcs
  <1>1. /\ new \in CallRecord
        /\ new.pc = pc /\ new.id = call[c].id /\ new.due = call[c].due
        /\ new.locked = call[c].locked
    BY <1>0 DEF Pcs, CallRecord
  <1>. HIDE DEF new
  <1>2. /\ CallOK(c) /\ TimeOK(c) /\ Running(c) /\ call[c].pc # "commit"
        /\ now' = now /\ lock \in [Ids -> LockRecord]
    BY DInvParts DEF Running, vars, DType
  <1>3. CallOK(c)' /\ TimeOK(c)'
    BY <1>0, <1>1, <1>2, BeforeClaim DEF CallOK, TimeOK, LastInstant
  <1>. QED
    BY <1>0, <1>1, <1>2, <1>3, LocalInv

(* Nobody who counts on the lock loses it to SET NX.                       *)
LEMMA LockedInv ==
    ASSUME DInv, UNCHANGED timely, NEW c \in Calls, Locked(c)
    PROVE  DInv'
  <1>0. /\ CallOK(c) /\ TimeOK(c) /\ Running(c) /\ call[c].pc = "lock"
        /\ call \in [Calls -> CallRecord] /\ lock \in [Ids -> LockRecord] /\ now \in Nat
        /\ ProcessTimeout \in Nat /\ CommitTimeout \in Nat /\ LockTTL \in Nat
        /\ call[c] \in CallRecord /\ call[c].id \in Ids /\ call[c].due \in Int
        /\ UNCHANGED vars /\ sent' = sent /\ answered' = answered
    BY DInvParts, DeliveryAssumption DEF DType, Locked, At, CallOK, Running, CallRecord
  <1>1. CASE Goto(c, "gate") /\ UNCHANGED lock
    BY <1>0, <1>1, ProceedInv
  <1>2. ASSUME LockFree(call[c].id), SetNX(call[c].id, c), NEW known \in BOOLEAN,
               call' = [call EXCEPT ![c].pc = "gate", ![c].locked = known]
        PROVE  DInv'
    <2>. DEFINE new == [call[c] EXCEPT !.pc = "gate", !.locked = known]
                key == [by |-> c, until |-> now + LockTTL]
    <2>1. call' = [call EXCEPT ![c] = new] /\ call'[c] = new
      BY <1>0, <1>2
    <2>2. /\ new \in CallRecord /\ new.pc = "gate" /\ new.id = call[c].id
          /\ new.due = call[c].due
      BY <1>0 DEF CallRecord, Pcs
    <2>3. key \in LockRecord /\ key.by = c /\ key.until = now + LockTTL
      BY <1>0 DEF LockRecord
    <2>4. lock' = [lock EXCEPT ![call[c].id] = key]
      BY <1>2 DEF SetNX
    <2>. HIDE DEF new, key
    <2>5. lock' \in [Ids -> LockRecord] /\ lock'[call[c].id] = key
      BY <1>0, <2>3, <2>4
    <2>6. ASSUME NEW b \in Calls \ {c}, timely, Running(b), call[b].locked
          PROVE  lock'[call[b].id] = lock[call[b].id]
      <3>1. /\ call[b].id \in Ids /\ lock[call[b].id].by = b /\ now <= call[b].due
            /\ lock[call[b].id].until > LastInstant(call[b])
            /\ call[b].due \in Int
        BY <2>6, DInvParts DEF CallOK, TimeOK, CallRecord
      <3>2. lock[call[b].id].until > now /\ lock[call[b].id].by # NoCall
        <4>1. lock[call[b].id].until \in Int
          BY <1>0, <3>1 DEF LockRecord
        <4>. QED
          BY <1>0, <3>1, <4>1 DEF LastInstant, Calls, NoCall
      <3>3. call[b].id # call[c].id
        <4>1. lock[call[b].id].until \in Int
          BY <1>0, <3>1 DEF LockRecord
        <4>. QED
          BY <1>0, <1>2, <3>2, <4>1 DEF LockFree
      <3>. QED
        BY <1>0, <2>4, <3>1, <3>3
    <2>7. CallOK(c)' /\ TimeOK(c)'
      <3>1. call[c].due <= now + ProcessTimeout /\ (timely => now <= call[c].due)
        BY <1>0 DEF TimeOK
      <3>2. LockTTL > ProcessTimeout + CommitTimeout
        BY TimeoutAssumption
      <3>3. now + LockTTL > call[c].due + CommitTimeout
        BY <1>0, <3>1, <3>2
      <3>4. now' = now
        BY <1>0 DEF vars
      <3>. QED
        BY <1>0, <2>1, <2>2, <2>3, <2>5, <3>1, <3>3, <3>4, BeforeClaim
    <2>. QED
      BY <1>0, <2>1, <2>2, <2>5, <2>6, <2>7, LocalInv
  <1>. QED
    BY <1>1, <1>2 DEF Locked

LEMMA SendInv ==
    ASSUME DInv, UNCHANGED timely, NEW c \in Calls, Send(c)
    PROVE  DInv'
  <1>. DEFINE new == [call[c] EXCEPT !.pc = "http"]
  <1>0. call' = [call EXCEPT ![c] = new] /\ call'[c] = new /\ call[c] \in CallRecord
    BY GotoIs DEF Pcs, Send
  <1>1. /\ new \in CallRecord /\ new.pc = "http" /\ new.id = call[c].id
        /\ new.gen = call[c].gen /\ new.due = call[c].due /\ new.n = call[c].n
        /\ new.locked = call[c].locked
    BY <1>0 DEF Pcs, CallRecord
  <1>. HIDE DEF new
  <1>2. /\ UNCHANGED <<vars, timely>> /\ lock' = lock /\ answered' = answered
        /\ At(c, "claimed")
        /\ sent' = sent \cup {[id |-> call[c].id, gen |-> call[c].gen, by |-> c]}
    BY Zenon DEF Send
  <1>3. /\ CallOK(c) /\ TimeOK(c) /\ Running(c) /\ Holds(c) /\ call[c].pc = "claimed"
        /\ lock \in [Ids -> LockRecord]
    BY <1>2, DInvParts DEF Running, Holds, DType, At
  <1>4. now' = now /\ task' = task /\ held' = held /\ attemptedBar' = attemptedBar
    BY <1>2 DEF vars, attemptedBar, Attempted
  <1>5. CallOK(c)'
    BY <1>0, <1>1, <1>3, <1>4 DEF CallOK, At, Running, Holds
  <1>6. TimeOK(c)'
    BY <1>0, <1>1, <1>2, <1>3, <1>4 DEF TimeOK, LastInstant, Running, Holds, Fenced
  <1>. QED
    BY <1>0, <1>1, <1>2, <1>3, <1>5, <1>6, LocalInv

(* A decision opens the last transaction, with a context of its own.       *)
LEMMA DecidedInv ==
    ASSUME DInv, UNCHANGED <<vars, timely, lock, sent>>, answered \subseteq answered',
           NEW c \in Calls, call[c].pc \in {"claimed", "http"},
           NEW d \in Result, Decided(c, d), d.action \in Actions,
           d.action = "retry" => Granted(call[c].n, d),
           d.action = "success" => [id |-> call[c].id, no |-> call[c].n.attempts] \in answered'
    PROVE  DInv'
  <1>. DEFINE new == [call[c] EXCEPT !.pc = "commit", !.d = d, !.due = now + CommitTimeout]
  <1>0. /\ call \in [Calls -> CallRecord] /\ call[c] \in CallRecord /\ now \in Nat
        /\ CommitTimeout \in Nat /\ lock \in [Ids -> LockRecord]
        /\ CallOK(c) /\ TimeOK(c) /\ Running(c) /\ Holds(c) /\ call[c].pc # "commit"
        /\ call[c].due \in Int /\ call[c].id \in Ids
    BY DInvParts, DeliveryAssumption DEF DType, Running, Holds, CallRecord, CallOK
  <1>1. call' = [call EXCEPT ![c] = new] /\ call'[c] = new
    BY <1>0 DEF Decided
  <1>2. now + CommitTimeout \in Int
    BY <1>0
  <1>3. /\ new \in CallRecord /\ new.pc = "commit" /\ new.id = call[c].id
        /\ new.gen = call[c].gen /\ new.due = now + CommitTimeout /\ new.n = call[c].n
        /\ new.locked = call[c].locked /\ new.d = d
    BY <1>0, <1>2 DEF Pcs, CallRecord
  <1>. HIDE DEF new
  <1>4. now' = now /\ task' = task /\ held' = held /\ attemptedBar' = attemptedBar
    BY DEF vars, attemptedBar, Attempted
  <1>5. ResultOK(call[c])'
    BY <1>1, <1>3 DEF ResultOK, Granted
  <1>6. CallOK(c)'
    BY <1>0, <1>1, <1>3, <1>4, <1>5 DEF CallOK, At, Running, Holds
  <1>7. TimeOK(c)'
    <2> SUFFICES ASSUME timely
                 PROVE  /\ now <= now + CommitTimeout
                        /\ Fenced(call[c].n)
                        /\ task[call[c].id].until > now + CommitTimeout
                        /\ call[c].locked => /\ lock[call[c].id].by = c
                                             /\ lock[call[c].id].until > now + CommitTimeout
      BY <1>1, <1>3, <1>4 DEF TimeOK, LastInstant, Running, Holds, Fenced
    <2>1. /\ now <= call[c].due /\ Fenced(call[c].n)
          /\ task[call[c].id].until > call[c].due + CommitTimeout
          /\ call[c].locked => /\ lock[call[c].id].by = c
                               /\ lock[call[c].id].until > call[c].due + CommitTimeout
      BY <1>0 DEF TimeOK, LastInstant
    <2>2. task[call[c].id].until \in Int /\ lock[call[c].id].until \in Int
      BY <1>0, DInvParts DEF TypeOK, Task, LockRecord
    <2>. QED
      BY <1>0, <2>1, <2>2
  <1>. QED
    BY <1>0, <1>1, <1>3, <1>6, <1>7, LocalInv

LEMMA FailUnsentInv ==
    ASSUME DInv, UNCHANGED timely, NEW c \in Calls, FailUnsent(c)
    PROVE  DInv'
  <1>. DEFINE d == [NoResult EXCEPT !.action = "fail"]
  <1>1. d \in Result /\ d.action = "fail"
    BY NoResultType
  <1>2. Decided(c, d) /\ UNCHANGED <<vars, lock, sent, answered>> /\ call[c].pc = "claimed"
    BY DEF FailUnsent, At
  <1>. HIDE DEF d
  <1>. QED
    BY <1>1, <1>2, DecidedInv DEF Actions

LEMMA AnswerInv ==
    ASSUME DInv, UNCHANGED timely, NEW c \in Calls, NEW d \in Judged, Answer(c, d)
    PROVE  DInv'
  <1>1. PICK t \in AppNow : Decided(c, Scheduled(call[c].n, d, t))
    BY DEF Answer
  <1>2. /\ UNCHANGED <<vars, lock, sent>> /\ call[c].pc = "http"
        /\ answered' = IF d.complete
                       THEN answered \cup {[id |-> call[c].id, no |-> call[c].n.attempts]}
                       ELSE answered
    BY DEF Answer, At
  <1>3. call[c].n \in Copy /\ now \in Nat /\ now <= MaxTime
    BY <1>2, DInvParts DEF CallOK, Holds
  <1>4. d.action \in Actions /\ (d.action = "success" => d.complete)
    BY JudgedIs
  <1>. DEFINE s == Scheduled(call[c].n, d, t)
  <1>5. /\ s \in Result /\ s.action \in Actions
        /\ s.action = "success" => d.action = "success"
        /\ s.action = "retry" => Granted(call[c].n, s)
    BY <1>1, <1>3, <1>4, ScheduledGrants
  <1>6. Decided(c, s)
    BY <1>1
  <1>. HIDE DEF s
  <1>. QED
    BY <1>2, <1>4, <1>5, <1>6, DecidedInv

LEMMA LocalStepInv ==
    ASSUME DInv, UNCHANGED timely, NEW c \in Calls, LocalStep(c)
    PROVE  DInv'
  <1>1. CASE LockBusy(c)
    BY <1>1, ReturnInv DEF LockBusy, Running, At
  <1>2. CASE Gated(c)
    BY <1>2, ProceedInv DEF Gated, At
  <1>3. CASE Refuse(c)
    BY <1>3, ReturnInv DEF Refuse, Running, At
  <1>4. CASE Abort(c)
    BY <1>4, ReturnInv DEF Abort
  <1>. QED
    BY <1>1, <1>2, <1>3, <1>4, StartInv, LockedInv, FailUnsentInv, SendInv, AnswerInv,
       CrashInv DEF LocalStep

-----------------------------------------------------------------------------
(* Transactions *)

(* The row of a call that holds a lease in time.                           *)
LEMMA HolderRow ==
    ASSUME DInv, timely, NEW c \in Calls, Holds(c)
    PROVE  /\ call[c].id \in Ids /\ task[call[c].id].status = "in_flight"
           /\ task[call[c].id].lease = call[c].n.lease /\ task[call[c].id].until > now
  <1>1. Running(c) /\ CallOK(c) /\ TimeOK(c) /\ call[c] \in CallRecord /\ now \in Nat
    BY DInvParts DEF Running, Holds
  <1>2. /\ Fenced(call[c].n) /\ task[call[c].id].until > LastInstant(call[c])
        /\ now <= call[c].due /\ call[c].id \in Ids /\ call[c].n.id = call[c].id
    BY <1>1 DEF TimeOK, CallOK
  <1>3. task[call[c].id].until \in Int /\ call[c].due \in Int /\ CommitTimeout \in Nat
    BY <1>1, <1>2, DInvParts, DeliveryAssumption DEF TypeOK, Task, CallRecord
  <1>4. task[call[c].id].until > now
    BY <1>1, <1>2, <1>3 DEF LastInstant
  <1>. QED
    BY <1>2, <1>4 DEF Fenced

(* Only an answered attempt may turn into a success.                       *)
LEMMA AnsweredStep ==
    ASSUME DInv, answered \subseteq answered',
           \A id \in Ids : \A i \in 1..Len(attempts'[id]) :
             attempts'[id][i].result = "success" =>
               \/ i \in Attempted(id) /\ attempts[id][i].result = "success"
               \/ [id |-> id, no |-> i] \in answered'
    PROVE  SuccessWasAnswered'
  <1>1. SuccessWasAnswered
    BY DEF DInv
  <1>. QED
    BY <1>1 DEF SuccessWasAnswered, Attempted

LEMMA CloseSuccess ==
    ASSUME DInv, NEW n \in held, NEW result, NEW onlyOpen, CloseAttempt(n, result, onlyOpen),
           NEW id \in Ids, NEW i \in 1..Len(attempts'[id]),
           attempts'[id][i].result = "success"
    PROVE  \/ i \in Attempted(id) /\ attempts[id][i].result = "success"
           \/ result = "success" /\ id = n.id /\ i = n.attempts
  <1>1. /\ n.id \in Ids /\ attempts \in [Ids -> Seq(Attempt)]
        /\ AttemptsOK(task[id], attempts[id])
    BY DInvParts DEF Copy, TypeOK, IInv, TaskOK
  <1>2. CASE id # n.id
    BY <1>1, <1>2 DEF CloseAttempt, Attempted
  <1>3. CASE id = n.id
    <2>. DEFINE led == attempts[id]
                new == attempts'[id]
    <2>1. new = [j \in 1..Len(led) |->
                   IF /\ led[j].no = n.attempts
                      /\ led[j].lease = n.lease
                      /\ onlyOpen => led[j].result = "started"
                   THEN [led[j] EXCEPT !.result = result]
                   ELSE led[j]]
      BY <1>1, <1>3 DEF CloseAttempt
    <2>2. led \in Seq(Attempt) /\ Len(led) \in Nat
      BY <1>1
    <2>3. Len(new) = Len(led)
      BY <2>1, <2>2
    <2>4. i \in 1..Len(led) /\ led[i] \in Attempt /\ led[i].no = i
      BY <1>1, <2>2, <2>3 DEF AttemptsOK
    <2>5. [led[i] EXCEPT !.result = result].result = result
      BY <2>4 DEF Attempt
    <2>. QED
      BY <1>3, <2>1, <2>4, <2>5 DEF Attempted
  <1>. QED
    BY <1>2, <1>3

(* A transaction that sends nothing.                                       *)
LEMMA SentStep ==
    ASSUME DInv, [Next]_vars, sent' = sent
    PROVE  SentOK' /\ OneRequestPerGeneration'
  <1>1. \A id \in Ids : attemptedBar[id] \subseteq attemptedBar'[id]
    BY AttemptedGrows DEF DInv
  <1>. QED
    BY <1>1 DEF DInv, SentOK, OneRequestPerGeneration

(* A transaction on the row id, by the call m that then returns or by      *)
(* somebody else.                                                          *)
LEMMA RowStep ==
    ASSUME DInv, [Next]_vars, UNCHANGED <<timely, held, now, sent, answered>>,
           NEW m \in Calls \cup {NoCall}, NEW id \in Ids, NEW row,
           task' = [task EXCEPT ![id] = row],
           \A c \in Calls \ {m} : timely /\ Holds(c) => call[c].id # id,
           \/ m = NoCall /\ UNCHANGED <<call, lock>>
           \/ m \in Calls /\ Running(m) /\ Return(m),
           SuccessWasAnswered'
    PROVE  DInv'
  <1>1. /\ call' \in [Calls -> CallRecord] /\ lock' \in [Ids -> LockRecord]
        /\ \A c \in Calls \ {m} :
             /\ call'[c] = call[c]
             /\ timely /\ Running(c) /\ call[c].locked => lock'[call[c].id] = lock[call[c].id]
        /\ m \in Calls => call'[m].pc = "done"
    <2>1. CASE m = NoCall /\ UNCHANGED <<call, lock>>
      <3>1. NoCall \notin Calls
        BY DeliveryAssumption DEF NoCall, Calls
      <3>. QED
        BY <2>1, <3>1 DEF DInv, DType
    <2>2. CASE m \in Calls /\ Running(m) /\ Return(m)
      BY <2>2, ReturnEffect
    <2>. QED
      BY <2>1, <2>2
  <1>2. DType' /\ now' >= now
    BY <1>1, DInvParts DEF DInv, DType
  <1>3. m \in Calls => CallOK(m)' /\ TimeOK(m)' /\ \A b \in Calls \ {m} : Apart(b, m)'
    BY <1>1, DoneOK
  <1>4. SentOK' /\ OneRequestPerGeneration'
    BY SentStep
  <1>5. ASSUME NEW c \in Calls \ {m}, timely
        PROVE  /\ Running(c) => now' <= call[c].due
               /\ Holds(c) => task'[call[c].id] = task[call[c].id]
    <2>1. Running(c) => now' <= call[c].due
      BY <1>5, DInvParts DEF TimeOK
    <2>2. Holds(c) => task'[call[c].id] = task[call[c].id]
      BY <1>5, DInvParts, HolderRow DEF TypeOK
    <2>. QED
      BY <2>1, <2>2
  <1>. QED
    BY <1>1, <1>2, <1>3, <1>4, <1>5, StepInv

LEMMA ApiKeeps ==
    ASSUME DInv, UNCHANGED timely, Api
    PROVE  DInv'
  <1>1. [Next]_vars
    BY Zenon DEF Api, Next
  <1>2. UNCHANGED <<call, lock, sent, answered>>
    BY DEF Api
  <1>3. PICK id \in Ids, t \in AppNow, duration \in Durations :
          \/ \E key \in Keys, hash \in Hashes : Accept(id, key, hash, t, duration)
          \/ \E gen \in 1..task[id].gen : ManualRetry(id, gen, t, duration)
    BY DEF Api, ApiStep
  <1>4. /\ \E row : task' = [task EXCEPT ![id] = row]
        /\ UNCHANGED <<attempts, held, now>> /\ task[id].status \in {"absent", "failed"}
    BY <1>3 DEF Accept, ManualRetry, Retriable
  <1>5. SuccessWasAnswered'
    BY <1>2, <1>4 DEF DInv, SuccessWasAnswered, Attempted
  <1>6. \A c \in Calls : timely /\ Holds(c) => call[c].id # id
    BY <1>4, HolderRow
  <1>. QED
    BY <1>1, <1>2, <1>4, <1>5, <1>6, RowStep

(* Reconcile, RecoverOutbox and the dispatchers: no row with a lease.      *)
LEMMA OutboxInv ==
    ASSUME DInv, [Next]_vars, UNCHANGED timely, Outbox
    PROVE  DInv'
  <1>1. UNCHANGED <<call, lock, sent, answered>> /\ (RepairStep \/ DispatcherStep)
    BY DEF Outbox
  <1>2. /\ UNCHANGED <<attempts, held, now>>
        /\ \A id \in Ids : task[id].status = "in_flight" => task'[id] = task[id]
    <2>1. CASE RepairStep
      BY <2>1 DEF RepairStep, RecoverOutbox, Reconcile, Stale
    <2>2. CASE DispatcherStep
      BY <2>2 DEF DispatcherStep, ClaimOutbox, Published, ReleaseOutbox
    <2>. QED
      BY <1>1, <2>1, <2>2
  <1>3. DType' /\ now' >= now /\ held \subseteq held'
    BY <1>1, <1>2, DInvParts DEF DInv, DType
  <1>4. SentOK' /\ OneRequestPerGeneration' /\ SuccessWasAnswered'
    BY <1>1, <1>2, SentStep DEF DInv, SuccessWasAnswered, Attempted
  <1>5. ASSUME NEW c \in Calls, timely
        PROVE  /\ Running(c) => now' <= call[c].due
               /\ Holds(c) => task'[call[c].id] = task[call[c].id]
    BY <1>2, <1>5, DInvParts, HolderRow DEF TimeOK
  <1>6. NoCall \notin Calls
    BY DeliveryAssumption DEF NoCall, Calls
  <1>. QED
    BY <1>1, <1>3, <1>4, <1>5, <1>6, StepInv

LEMMA GateRefusesInv ==
    ASSUME DInv, [Next]_vars, UNCHANGED timely, NEW c \in Calls, GateRefuses(c)
    PROVE  DInv'
  <1>. DEFINE id == call[c].id
  <1>1. Running(c) /\ Return(c) /\ id \in Ids /\ UNCHANGED <<sent, answered>>
    BY DInvParts DEF GateRefuses, Return, Running, At, CallOK
  <1>2. PICK t \in AppNow : DeferPending(id, call[c].gen, t)
    BY DEF GateRefuses
  <1>3. /\ \E row : task' = [task EXCEPT ![id] = row]
        /\ UNCHANGED <<attempts, held, now>> /\ task[id].status = "pending"
    BY <1>2 DEF DeferPending, Deferrable
  <1>4. SuccessWasAnswered'
    BY <1>1, <1>3 DEF DInv, SuccessWasAnswered, Attempted
  <1>5. \A b \in Calls : timely /\ Holds(b) => call[b].id # id
    BY <1>3, HolderRow
  <1>. HIDE DEF id
  <1>. QED
    BY <1>1, <1>3, <1>4, <1>5, RowStep

(* Finish: whoever still holds a lease holds another one.                  *)
LEMMA CommitInv ==
    ASSUME DInv, [Next]_vars, UNCHANGED timely, NEW c \in Calls, Commit(c)
    PROVE  DInv'
  <1>. DEFINE n == call[c].n
              d == call[c].d
              id == n.id
  <1>1. /\ Running(c) /\ Holds(c) /\ Return(c) /\ UNCHANGED <<sent, answered>> /\ CallOK(c)
        /\ At(c, "commit")
    BY DInvParts DEF Commit, Return, Running, At, Holds
  <1>2. n \in held /\ id = call[c].id /\ id \in Ids /\ ResultOK(call[c])
    BY <1>1 DEF CallOK
  <1>3. /\ Finishable(n) /\ UNCHANGED <<held, now>>
        /\ \E row : task' = [task EXCEPT ![id] = row]
        /\ CloseAttempt(n, d.action, FALSE)
    <2>1. CASE d.action = "retry"
      BY <2>1 DEF Commit, FinishRetry
    <2>2. CASE d.action # "retry"
      BY <2>2 DEF Commit, FinishFinal
    <2>. QED
      BY <2>1, <2>2
  <1>4. SuccessWasAnswered'
    <2>1. d.action = "success" => [id |-> id, no |-> n.attempts] \in answered'
      BY <1>1, <1>2 DEF ResultOK
    <2>. HIDE DEF n, d
    <2>. QED
      BY <1>1, <1>2, <1>3, <2>1, CloseSuccess, AnsweredStep
  <1>5. ASSUME NEW b \in Calls \ {c}, timely, Holds(b) PROVE call[b].id # id
    <2>1. call[b].n.lease # n.lease
      BY <1>1, <1>5 DEF DInv, Apart
    <2>2. task[call[b].id].lease = call[b].n.lease
      BY <1>5, HolderRow
    <2>3. task[id].lease = n.lease
      BY <1>3 DEF Finishable, Fenced
    <2>. QED
      BY <2>1, <2>2, <2>3
  <1>6. PICK row : task' = [task EXCEPT ![id] = row]
    BY <1>3
  <1>7. /\ id \in Ids /\ UNCHANGED <<timely, held, now, sent, answered>>
        /\ Running(c) /\ Return(c)
    BY <1>1, <1>2, <1>3
  <1>. HIDE DEF id, n, d
  <1>. QED
    BY <1>4, <1>5, <1>6, <1>7, RowStep

(* RecoverLease: whoever holds a lease in time holds one that has not      *)
(* expired.                                                                *)
LEMMA RecoverInv ==
    ASSUME DInv, [Next]_vars, UNCHANGED timely, NEW n \in held, Recover(n)
    PROVE  DInv'
  <1>. DEFINE id == n.id
  <1>1. UNCHANGED <<call, lock, sent, answered>>
    BY DEF Recover
  <1>2. n \in Copy /\ id \in Ids /\ now \in Nat /\ task[id].until \in Int
    BY DInvParts DEF Copy, TypeOK, Task
  <1>3. /\ Recoverable(n) /\ UNCHANGED <<held, now>>
        /\ \E row : task' = [task EXCEPT ![id] = row]
        /\ CloseAttempt(n, "unknown", TRUE)
    BY DEF Recover, RecoverRetry, RecoverFail
  <1>4. SuccessWasAnswered'
    <2>1. ASSUME NEW j \in Ids, NEW i \in 1..Len(attempts'[j]),
                 attempts'[j][i].result = "success"
          PROVE  i \in Attempted(j) /\ attempts[j][i].result = "success"
      <3>1. \/ i \in Attempted(j) /\ attempts[j][i].result = "success"
            \/ "unknown" = "success" /\ j = n.id /\ i = n.attempts
        BY Zenon, <1>3, <2>1, CloseSuccess
      <3>. QED
        BY <3>1
    <2>. QED
      BY <1>1, <2>1, AnsweredStep
  <1>5. ASSUME NEW b \in Calls, timely, Holds(b) PROVE call[b].id # id
    <2>1. task[call[b].id].until > now
      BY <1>5, HolderRow
    <2>2. task[id].until < now
      BY <1>3 DEF Recoverable
    <2>. QED
      BY <1>2, <2>1, <2>2
  <1>. HIDE DEF id
  <1>. QED
    BY <1>1, <1>2, <1>3, <1>4, <1>5, RowStep

LEMMA ClockInv ==
    ASSUME DInv, UNCHANGED timely, Clock
    PROVE  DInv'
  <1>1. [Next]_vars
    BY Zenon DEF Clock, Next
  <1>2. /\ UNCHANGED <<call, lock, sent, answered, task, attempts, held>>
        /\ now' = now + 1 /\ now < MaxTime /\ now \in Nat /\ MaxTime \in Nat
        /\ timely => \A c \in Calls : Running(c) => now < call[c].due
    BY DInvParts, StoreAssumption DEF Clock, Tick, tables
  <1>3. DType' /\ now' >= now /\ held \subseteq held'
    BY <1>2 DEF DInv, DType
  <1>4. SentOK' /\ OneRequestPerGeneration' /\ SuccessWasAnswered'
    BY <1>1, <1>2, SentStep DEF DInv, SuccessWasAnswered, Attempted
  <1>5. ASSUME NEW c \in Calls, timely, Running(c) PROVE now' <= call[c].due
    <2>1. call[c].due \in Int
      BY DInvParts DEF CallRecord
    <2>. QED
      BY <1>2, <1>5, <2>1
  <1>6. NoCall \notin Calls
    BY DeliveryAssumption DEF NoCall, Calls
  <1>. QED
    BY <1>1, <1>2, <1>3, <1>4, <1>5, <1>6, StepInv

(* Claim hands out a lease that nobody has, for a generation that nobody   *)
(* has attempted.                                                          *)
LEMMA ClaimEffect ==
    ASSUME IInv, NEW id \in Ids, NEW gen, Claim(id, gen)
    PROVE  LET row == task'[id] IN
           /\ task' = [task EXCEPT ![id] = row] /\ row \in Task
           /\ row.status = "in_flight" /\ row.gen = gen /\ row.lease = tokens + 1
           /\ row.until = now + LeaseTTL
           /\ held' = held \cup {CopyOf(id, row)} /\ CopyOf(id, row) \in Copy
           /\ Claims(id)
           /\ \A j \in Ids : \A i \in 1..Len(attempts'[j]) :
                attempts'[j][i].result = "success" =>
                  i \in Attempted(j) /\ attempts[j][i].result = "success"
  <1>0. /\ task \in [Ids -> Task] /\ attempts \in [Ids -> Seq(Attempt)] /\ tokens + 1 \in Nat
        /\ task[id] \in Task
    BY DEF IInv, TypeOK
  <1>. DEFINE row == Leased(id, tokens + 1)
              a == [no |-> row.attempts, gen |-> row.gen, lease |-> tokens + 1,
                    result |-> "started"]
  <1>1. row \in Task
    BY <1>0, LeasedType DEF IInv
  <1>2. /\ row.status = "in_flight" /\ row.gen = task[id].gen /\ row.lease = tokens + 1
        /\ row.until = now + LeaseTTL
    BY <1>0 DEF Leased, Task
  <1>3. /\ task' = [task EXCEPT ![id] = row] /\ held' = held \cup {CopyOf(id, row)}
        /\ attempts' = [attempts EXCEPT ![id] = Append(attempts[id], a)]
        /\ outbox' = outbox /\ task[id].status = "pending" /\ task[id].gen = gen
    BY <1>0 DEF Claim, Claimable
  <1>4. a \in Attempt /\ a.gen = row.gen /\ a.result = "started"
    BY <1>0, <1>1 DEF Attempt, Task, Results
  <1>5. CopyOf(id, row) \in Copy
    BY <1>1 DEF CopyOf, Copy, Task
  <1>. HIDE DEF row, a
  <1>6. task'[id] = row /\ attempts'[id] = Append(attempts[id], a)
    BY <1>0, <1>3
  <1>7. Claims(id)
    BY <1>2, <1>3, <1>4, <1>6 DEF Claims
  <1>8. ASSUME NEW j \in Ids, NEW i \in 1..Len(attempts'[j]),
               attempts'[j][i].result = "success"
        PROVE  i \in Attempted(j) /\ attempts[j][i].result = "success"
    <2>1. CASE j # id
      BY <1>0, <1>3, <1>8, <2>1 DEF Attempted
    <2>2. CASE j = id
      <3>1. attempts[id] \in Seq(Attempt) /\ Len(attempts[id]) \in Nat
        BY <1>0
      <3>2. /\ Len(attempts'[id]) = Len(attempts[id]) + 1
            /\ \A k \in 1..Len(attempts[id]) : attempts'[id][k] = attempts[id][k]
            /\ attempts'[id][Len(attempts[id]) + 1] = a
        BY <1>4, <1>6, <3>1, AppendProperties
      <3>3. i # Len(attempts[id]) + 1
        BY <1>4, <1>8, <2>2, <3>2
      <3>4. i \in 1..Len(attempts[id])
        BY <2>2, <3>1, <3>2, <3>3
      <3>. QED
        BY <1>8, <2>2, <3>2, <3>4 DEF Attempted
    <2>. QED
      BY <2>1, <2>2
  <1>. QED
    BY <1>1, <1>2, <1>3, <1>5, <1>6, <1>7, <1>8

LEMMA ClaimCallInv ==
    ASSUME DInv, [Next]_vars, UNCHANGED timely, NEW c \in Calls, ClaimCall(c)
    PROVE  DInv'
  <1>. DEFINE id == call[c].id
              gen == call[c].gen
              row == task'[id]
              n == CopyOf(id, row)
              new == [call[c] EXCEPT !.pc = "claimed", !.n = n]
  <1>0. /\ CallOK(c) /\ TimeOK(c) /\ Running(c) /\ call[c].pc = "claim" /\ id \in Ids
        /\ call \in [Calls -> CallRecord] /\ lock \in [Ids -> LockRecord]
        /\ call[c] \in CallRecord /\ now \in Nat /\ call[c].due \in Int
        /\ ProcessTimeout \in Nat /\ CommitTimeout \in Nat /\ LeaseTTL \in Nat
        /\ IInv /\ DType
    BY DInvParts, DeliveryAssumption, StoreAssumption
       DEF DType, ClaimCall, At, CallOK, Running, CallRecord
  <1>1. Claim(id, gen) /\ UNCHANGED <<lock, sent, answered>>
    BY DEF ClaimCall
  <1>2. call' = [call EXCEPT ![c].pc = "claimed", ![c].n = n]
    BY DEF ClaimCall
  <1>3. /\ task' = [task EXCEPT ![id] = row] /\ row \in Task
        /\ row.status = "in_flight" /\ row.gen = gen /\ row.lease = tokens + 1
        /\ row.until = now + LeaseTTL /\ held' = held \cup {n} /\ n \in Copy /\ Claims(id)
        /\ \A j \in Ids : \A i \in 1..Len(attempts'[j]) :
             attempts'[j][i].result = "success" =>
               i \in Attempted(j) /\ attempts[j][i].result = "success"
    BY <1>0, <1>1, ClaimEffect
  <1>4. n.id = id /\ n.gen = row.gen /\ n.lease = row.lease
    BY DEF CopyOf
  <1>. HIDE DEF n, row
  <1>5. call' = [call EXCEPT ![c] = new] /\ call'[c] = new
    BY <1>0, <1>2
  <1>6. /\ new \in CallRecord /\ new.pc = "claimed" /\ new.id = id /\ new.gen = gen
        /\ new.due = call[c].due /\ new.n = n /\ new.locked = call[c].locked
    BY <1>0, <1>3 DEF CallRecord, Pcs
  <1>. HIDE DEF new
  <1>7. now' = now /\ task[id].status = "pending" /\ task[id].gen = gen
    BY <1>1 DEF Claim, Claimable
  <1>8. gen \notin attemptedBar[id] /\ gen \in attemptedBar'[id]
    BY <1>0, <1>3, <1>7, ClaimsBar DEF genBar
  <1>9. CallOK(c)'
    <2>1. \A r \in sent : ~(r.id = id /\ r.gen = gen)
      BY <1>8 DEF DInv, SentOK
    <2>. QED
      BY <1>0, <1>1, <1>3, <1>4, <1>5, <1>6, <1>8, <2>1 DEF CallOK, At, Running, Holds
  <1>10. TimeOK(c)'
    <2>1. /\ call[c].due <= now + ProcessTimeout
          /\ timely => /\ now <= call[c].due
                       /\ call[c].locked =>
                            /\ lock[id].by = c
                            /\ lock[id].until > call[c].due + CommitTimeout
      BY <1>0 DEF TimeOK, LastInstant
    <2>2. now + LeaseTTL > call[c].due + CommitTimeout
      BY <1>0, <2>1, TimeoutAssumption
    <2>3. task'[id] = row
      BY DEF row
    <2>4. /\ task'[n.id].status = "in_flight" /\ task'[n.id].gen = n.gen
          /\ task'[n.id].lease = n.lease
      BY <1>3, <1>4, <2>3
    <2>. QED
      BY <1>1, <1>3, <1>5, <1>6, <1>7, <2>1, <2>2, <2>3, <2>4
         DEF TimeOK, LastInstant, Running, Holds, Fenced
  <1>11. ASSUME NEW b \in Calls \ {c} PROVE Apart(b, c)'
    <2>1. call'[b] = call[b]
      BY <1>0, <1>5
    <2> SUFFICES ASSUME Holds(b)
                 PROVE  call[b].n.lease # n.lease /\ (call[b].id = id => call[b].gen # gen)
      BY <1>5, <1>6, <2>1 DEF Apart, Holds
    <2>2. call[b].n \in held /\ call[b].gen \in attemptedBar[call[b].id]
      BY DInvParts DEF CallOK
    <2>3. call[b].n.lease \in 1..tokens /\ tokens \in Nat
      BY <1>0, <2>2 DEF IInv, HeldOK, TypeOK
    <2>4. call[b].n.lease # tokens + 1
      BY <2>3
    <2>. QED
      BY <1>3, <1>4, <1>8, <2>2, <2>4
  <1>12. DType' /\ now' >= now
    BY <1>0, <1>1, <1>5, <1>6, <1>7 DEF DType
  <1>13. SentOK' /\ OneRequestPerGeneration' /\ SuccessWasAnswered'
    BY <1>1, <1>3, SentStep, AnsweredStep
  <1>14. ASSUME NEW b \in Calls \ {c}
         PROVE  /\ call'[b] = call[b] /\ (timely /\ Running(b) => now' <= call[b].due)
                /\ timely /\ Holds(b) => task'[call[b].id] = task[call[b].id]
    <2>1. call'[b] = call[b]
      BY <1>0, <1>5
    <2>2. timely /\ Running(b) => now' <= call[b].due
      BY <1>7, DInvParts DEF TimeOK
    <2>3. ASSUME timely, Holds(b) PROVE task'[call[b].id] = task[call[b].id]
      <3>1. call[b].id \in Ids /\ call[b].id # id
        BY <1>7, <2>3, HolderRow
      <3>. QED
        BY <1>3, <3>1, DInvParts DEF TypeOK
    <2>. QED
      BY <2>1, <2>2, <2>3
  <1>. HIDE DEF id, gen
  <1>. QED
    BY <1>1, <1>3, <1>9, <1>10, <1>11, <1>12, <1>13, <1>14, StepInv

-----------------------------------------------------------------------------
LEMMA DeliveryInit == DInit => DInv
  <1> SUFFICES ASSUME DInit PROVE DInv
    OBVIOUS
  <1>1. IInv
    BY InductiveInit DEF DInit
  <1>2. DType
    <2>1. [by |-> NoCall, until |-> NoTime] \in LockRecord
      BY NullTypes DEF LockRecord
    <2>. QED
      BY <2>1, NewCallType, StoreAssumption DEF DInit, DType, Init
  <1>3. \A c \in Calls : call[c].pc = "new" /\ ~call[c].locked
    BY NewCallType DEF DInit
  <1>4. ASSUME NEW c \in Calls PROVE CallOK(c) /\ TimeOK(c)
    BY <1>3 DEF CallOK, TimeOK, Running, Holds, At
  <1>5. ASSUME NEW b \in Calls, NEW c \in Calls PROVE Apart(b, c)
    BY <1>3 DEF Apart, Holds
  <1>6. SentOK /\ OneRequestPerGeneration
    BY DEF DInit, SentOK, OneRequestPerGeneration
  <1>7. SuccessWasAnswered
    BY DEF DInit, Init, SuccessWasAnswered, Attempted
  <1>. QED
    BY <1>1, <1>2, <1>4, <1>5, <1>6, <1>7 DEF DInv

LEMMA DeliveryStep == DInv /\ [DNext]_dvars => DInv'
  <1> SUFFICES ASSUME DInv, [DNext]_dvars PROVE DInv'
    OBVIOUS
  <1>0. [Next]_vars
    BY DeliveryUses
  <1>1. CASE UNCHANGED dvars
    <2>1. UNCHANGED <<vars, timely, call, lock, sent, answered>>
      BY <1>1 DEF dvars
    <2>2. IInv'
      BY <1>0, InductiveStep DEF DInv
    <2>3. /\ task' = task /\ attempts' = attempts /\ held' = held /\ now' = now
          /\ attemptedBar' = attemptedBar
      BY <2>1 DEF vars, attemptedBar, Attempted
    <2>4. DType'
      BY <2>1, <2>3 DEF DInv, DType
    <2>5. ASSUME NEW c \in Calls PROVE CallOK(c)' /\ TimeOK(c)'
      <3>1. CallOK(c) /\ TimeOK(c)
        BY DEF DInv
      <3>. QED
        BY <2>1, <2>3, <3>1
           DEF CallOK, TimeOK, Running, Holds, At, ResultOK, LastInstant, Fenced
    <2>6. ASSUME NEW b \in Calls, NEW c \in Calls, b # c PROVE Apart(b, c)'
      BY <2>1, <2>6 DEF DInv, Apart, Holds
    <2>7. SentOK' /\ OneRequestPerGeneration' /\ SuccessWasAnswered'
      BY <2>1, <2>3 DEF DInv, SentOK, OneRequestPerGeneration, SuccessWasAnswered, Attempted
    <2>. QED
      BY <2>2, <2>4, <2>5, <2>6, <2>7 DEF DInv
  <1>2. CASE DNext
    <2>0. UNCHANGED timely
      BY <1>2 DEF DNext
    <2>1. CASE Api
      BY <2>0, <2>1, ApiKeeps
    <2>2. ASSUME NEW c \in Calls, Process(c) PROVE DInv'
      <3>1. LocalStep(c) \/ GateRefuses(c) \/ ClaimCall(c) \/ Commit(c)
        BY <2>2, ProcessCases
      <3>. QED
        BY <1>0, <2>0, <3>1, LocalStepInv, GateRefusesInv, ClaimCallInv, CommitInv
    <2>3. ASSUME NEW n \in held, Recover(n) PROVE DInv'
      BY <1>0, <2>0, <2>3, RecoverInv
    <2>4. CASE Clock
      BY <2>0, <2>4, ClockInv
    <2>5. CASE Outbox
      BY <1>0, <2>0, <2>5, OutboxInv
    <2>. QED
      BY <1>2, <2>1, <2>2, <2>3, <2>4, <2>5 DEF DNext
  <1>. QED
    BY <1>1, <1>2

(* Whatever messages arrive, calls stall or crash and rounds of recovery   *)
(* run under them (worker.go, loop.go), the inductive invariant of calls,  *)
(* lock, leases and tables holds.                                          *)
THEOREM DeliveryInvariant == DSpec => []DInv
  BY DeliveryInit, DeliveryStep, PTL DEF DSpec

(* worker.go and loop.go use the tables as Store allows: every theorem of  *)
(* Store_proofs holds with concurrent workers, recovery and API calls.     *)
THEOREM StoreIsUsed == DSpec => UsesStore
  <1>1. DInit => Init
    BY DEF DInit
  <1>2. DInv /\ [DNext]_dvars => [vars' # vars /\ Next]_vars
    BY DeliveryUses
  <1>. QED
    BY <1>1, <1>2, DeliveryInvariant, PTL DEF DSpec, UsesStore

(* worker.go:88, delivery.go:21: at most one request leaves for a          *)
(* generation, for any number of calls, crashes and duplicate messages.    *)
THEOREM OneRequest == DSpec => []OneRequestPerGeneration
  <1>1. DInv => OneRequestPerGeneration
    BY DEF DInv
  <1>. QED
    BY <1>1, DeliveryInvariant, PTL

LEMMA InvOverlap == DInv => RequestsDoNotOverlap
  <1> SUFFICES ASSUME DInv, timely, NEW b \in Calls, NEW c \in Calls, At(b, "http"),
                      At(c, "http"), call[b].id = call[c].id
               PROVE  b = c
    BY DEF RequestsDoNotOverlap
  <1>1. Holds(b) /\ Holds(c)
    BY DEF Holds, At
  <1>2. call[b].n.lease = call[c].n.lease
    BY <1>1, HolderRow
  <1>. QED
    BY <1>1, <1>2 DEF DInv, Apart

(* worker.go:39, delivery.go:21: while calls return when their context     *)
(* expires, two requests for a notification never overlap: the lease       *)
(* outlives the 45 seconds of the call and the 5 of its last transaction.  *)
THEOREM NoOverlap == DSpec => []RequestsDoNotOverlap
  BY InvOverlap, DeliveryInvariant, PTL

LEMMA InvTimely == DInv => TimelyResultIsKept
  <1> SUFFICES ASSUME DInv, timely, NEW c \in Calls, At(c, "commit")
               PROVE  Finishable(call[c].n)
    BY DEF TimelyResultIsKept
  <1>1. Holds(c) /\ Running(c)
    BY DEF Holds, At, Running
  <1>2. Fenced(call[c].n) /\ call[c].n.id = call[c].id
    BY <1>1, DInvParts DEF TimeOK, CallOK
  <1>. QED
    BY <1>1, <1>2, HolderRow DEF Finishable

(* worker.go:125-127, delivery.go:65: a result that is committed in time   *)
(* is never refused, whatever the recovery loop does meanwhile.            *)
THEOREM ResultIsKept == DSpec => []TimelyResultIsKept
  BY InvTimely, DeliveryInvariant, PTL

LEMMA InvLock == DInv => LockIsKept
  <1> SUFFICES ASSUME DInv, timely, NEW c \in Calls, Running(c), call[c].locked
               PROVE  lock[call[c].id].by = c /\ lock[call[c].id].until > now
    BY DEF LockIsKept
  <1>1. CallOK(c) /\ TimeOK(c) /\ call[c] \in CallRecord /\ now \in Nat
    BY DInvParts
  <1>2. /\ lock[call[c].id].by = c /\ lock[call[c].id].until > LastInstant(call[c])
        /\ now <= call[c].due /\ call[c].id \in Ids
    BY <1>1 DEF TimeOK, CallOK
  <1>3. lock[call[c].id].until \in Int /\ call[c].due \in Int /\ CommitTimeout \in Nat
    BY <1>1, <1>2, DeliveryAssumption DEF DInv, DType, LockRecord, CallRecord
  <1>. QED
    BY <1>1, <1>2, <1>3 DEF LastInstant

(* redis.go:20,28: a call that was told it has the lock has it until it    *)
(* returns: the key neither expires under it nor is deleted by another.    *)
THEOREM LockKept == DSpec => []LockIsKept
  BY InvLock, DeliveryInvariant, PTL

(* evaluate.go:20, http.go:216-231: no attempt is recorded as a success    *)
(* unless a complete response to that very attempt was read.               *)
THEOREM SuccessConfirmed == DSpec => []SuccessWasAnswered
  <1>1. DInv => SuccessWasAnswered
    BY DEF DInv
  <1>. QED
    BY <1>1, DeliveryInvariant, PTL
=============================================================================
