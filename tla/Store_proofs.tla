---------------------------- MODULE Store_proofs ----------------------------
(* Proofs about Store: its types, and the invariants that make it correct, *)
(* for every number of notifications, generations, tokens and instants and *)
(* every clock skew.                                                       *)
EXTENDS StoreLifecycle, SequenceTheorems, TLAPS

-----------------------------------------------------------------------------
(* Types *)

(* The arithmetic the clocks and delays of the actions need.               *)
LEMMA NullTypes == NoToken \in Nat /\ NoTime \in Int
  BY DEF NoToken, NoTime

LEMMA AppNowType == ASSUME now \in Nat PROVE AppNow \subseteq Int
  BY StoreAssumption DEF AppNow

(* Rewriting rows of a table in place keeps it a table of the same length. *)
LEMMA CloseAttemptType ==
    ASSUME TypeOK, NEW n \in Copy, NEW result \in Results, NEW onlyOpen \in BOOLEAN,
           CloseAttempt(n, result, onlyOpen)
    PROVE  attempts' \in [Ids -> Seq(Attempt)]
  <1>. DEFINE old == attempts[n.id]
              new == [i \in 1..Len(old) |->
                        IF /\ old[i].no = n.attempts
                           /\ old[i].lease = n.lease
                           /\ onlyOpen => old[i].result = "started"
                        THEN [old[i] EXCEPT !.result = result]
                        ELSE old[i]]
  <1>1. n.id \in Ids /\ old \in Seq(Attempt)
    BY DEF TypeOK, Copy
  <1>2. \A i \in 1..Len(old) : old[i] \in Attempt
    BY <1>1
  <1>3. \A i \in 1..Len(old) : new[i] \in Attempt
    BY <1>2 DEF Attempt
  <1>4. new \in [1..Len(old) -> Attempt]
    BY <1>3
  <1>5. new \in Seq(Attempt)
    BY <1>1, <1>4
  <1>6. attempts' = [attempts EXCEPT ![n.id] = new]
    BY DEF CloseAttempt
  <1>. QED
    BY <1>5, <1>6, <1>1 DEF TypeOK

LEMMA EventType ==
    ASSUME NEW gen \in Nat, NEW route \in Routes, NEW t \in Int
    PROVE  insertEvent(gen, route, t) \in Event
  BY DEF insertEvent, Event, NoToken, NoTime

LEMMA AddEventType ==
    ASSUME TypeOK, NEW id \in Ids, NEW e \in Event, AddEvent(id, e)
    PROVE  outbox' \in [Ids -> Seq(Event)]
  BY DEF TypeOK, AddEvent

LEMMA SetEventType ==
    ASSUME TypeOK, NEW id \in Ids, NEW o \in 1..Len(outbox[id]), NEW e \in Event,
           SetEvent(id, o, e)
    PROVE  outbox' \in [Ids -> Seq(Event)]
  <1>1. outbox[id] \in Seq(Event)
    BY DEF TypeOK
  <1>2. [outbox[id] EXCEPT ![o] = e] \in Seq(Event)
    BY <1>1, ExceptSeq
  <1>. QED
    BY <1>2 DEF TypeOK, SetEvent

LEMMA LeasedType ==
    ASSUME TypeOK, NEW id \in Ids, NEW token \in Nat
    PROVE  Leased(id, token) \in Task
  <1>1. /\ task[id] \in Task /\ now + LeaseTTL \in Int /\ "in_flight" \in Statuses
        /\ task[id].attempts + 1 \in Nat /\ task[id].cycle + 1 \in Nat
    BY StoreAssumption DEF TypeOK, Statuses, Task
  <1>2. ASSUME NEW s \in Statuses, NEW u \in Int, NEW a \in Nat, NEW c \in Nat
        PROVE  [task[id] EXCEPT !.status = s, !.lease = token, !.until = u,
                                !.attempts = a, !.cycle = c] \in Task
    BY <1>1 DEF Task
  <1>. QED
    BY <1>1, <1>2 DEF Leased

LEMMA ReopenedType ==
    ASSUME NEW row \in Task, NEW gen \in Nat, NEW t \in Int, NEW d \in Int
    PROVE  [row EXCEPT !.status = "pending", !.gen = gen, !.cycle = 0,
                       !.next = t, !.deadline = d] \in Task
  <1>1. ASSUME NEW s \in Statuses, NEW c \in Nat
        PROVE  [row EXCEPT !.status = s, !.gen = gen, !.cycle = c,
                           !.next = t, !.deadline = d] \in Task
    BY DEF Task
  <1>. QED
    BY <1>1 DEF Statuses

LEMMA EndedType ==
    ASSUME TypeOK, NEW n \in Copy, NEW status \in Statuses, NEW gen \in Nat,
           NEW next \in Int
    PROVE  Ended(n, status, gen, next) \in Task
  <1>1. task[n.id] \in Task
    BY DEF TypeOK, Copy
  <1>. QED
    BY <1>1, NullTypes DEF Task, Ended

LEMMA EndedFields ==
    ASSUME NEW n, NEW status, NEW gen, NEW next, task[n.id] \in Task
    PROVE  /\ Ended(n, status, gen, next).status = status
           /\ Ended(n, status, gen, next).gen = gen
           /\ Ended(n, status, gen, next).lease = NoToken
           /\ Ended(n, status, gen, next).attempts = task[n.id].attempts
           /\ Ended(n, status, gen, next).cycle = task[n.id].cycle
  <1>1. ASSUME NEW row \in Task
        PROVE  LET r == [row EXCEPT !.status = status, !.gen = gen, !.next = next,
                                    !.lease = NoToken, !.until = NoTime]
               IN  /\ r.status = status /\ r.gen = gen /\ r.lease = NoToken
                   /\ r.attempts = row.attempts /\ r.cycle = row.cycle
    BY DEF Task
  <1>. QED
    BY <1>1 DEF Ended

(* Every action keeps the types.                                           *)
LEMMA TypeStep == TypeOK /\ [Next]_vars => TypeOK'
  <1> SUFFICES ASSUME TypeOK, [Next]_vars PROVE TypeOK'
    OBVIOUS
  <1>. USE StoreAssumption
  <1>1. CASE ApiStep
    <2> SUFFICES ASSUME NEW id \in Ids, NEW t \in AppNow, NEW duration \in Durations,
                        \/ \E key \in Keys, hash \in Hashes :
                             Accept(id, key, hash, t, duration)
                        \/ \E gen \in 1..task[id].gen : ManualRetry(id, gen, t, duration)
                 PROVE  TypeOK'
      BY <1>1 DEF ApiStep
    <2>0. t \in Int /\ t + duration \in Int /\ task[id] \in Task
      BY AppNowType DEF TypeOK
    <2>1. ASSUME NEW key \in Keys, NEW hash \in Hashes, Accept(id, key, hash, t, duration)
          PROVE  TypeOK'
      <3>1. task'[id] \in Task
        BY <2>0, <2>1, NullTypes DEF Accept, TypeOK, Task, Statuses
      <3>2. task' \in [Ids -> Task]
        BY <2>1, <3>1 DEF Accept, TypeOK
      <3>3. outbox' \in [Ids -> Seq(Event)]
        BY <2>0, <2>1, EventType, AddEventType DEF Accept, Routes
      <3>. QED
        BY <2>1, <3>2, <3>3 DEF Accept, TypeOK
    <2>2. ASSUME NEW gen \in 1..task[id].gen, ManualRetry(id, gen, t, duration)
          PROVE  TypeOK'
      <3>0. gen + 1 \in Nat /\ "dispatch" \in Routes
        BY <2>0 DEF Task, Routes
      <3>2. task' \in [Ids -> Task]
        BY <2>0, <2>2, <3>0, ReopenedType DEF ManualRetry, TypeOK
      <3>3. outbox' \in [Ids -> Seq(Event)]
        BY <2>0, <2>2, <3>0, EventType, AddEventType DEF ManualRetry
      <3>. QED
        BY <2>2, <3>2, <3>3 DEF ManualRetry, TypeOK
    <2>. QED
      BY <2>1, <2>2
  <1>2. CASE WorkerStep
    <2>1. ASSUME NEW id \in Ids, NEW gen \in 1..task[id].gen, Claim(id, gen)
          PROVE  TypeOK'
      <3>0. tokens + 1 \in Nat
        BY DEF TypeOK
      <3>1. task' \in [Ids -> Task]
        BY <2>1, <3>0, LeasedType DEF Claim, TypeOK
      <3>2. task'[id] \in Task
        BY <3>1
      <3>3. CopyOf(id, task'[id]) \in Copy
        BY <3>2 DEF CopyOf, Copy, Task
      <3>4. held' = held \cup {CopyOf(id, task'[id])}
        BY <2>1 DEF Claim, TypeOK
      <3>5. attempts' = [attempts EXCEPT ![id] = Append(@,
              [no |-> task'[id].attempts, gen |-> task'[id].gen,
               lease |-> tokens + 1, result |-> "started"])]
        BY <2>1 DEF Claim, TypeOK
      <3>6. [no |-> task'[id].attempts, gen |-> task'[id].gen,
             lease |-> tokens + 1, result |-> "started"] \in Attempt
        BY <3>0, <3>2 DEF Attempt, Task, Results
      <3>7. attempts' \in [Ids -> Seq(Attempt)]
        BY <3>5, <3>6 DEF TypeOK
      <3>. QED
        BY <2>1, <3>0, <3>1, <3>3, <3>4, <3>7 DEF Claim, TypeOK
    <2>2. ASSUME NEW id \in Ids, NEW gen \in 1..task[id].gen, NEW t \in AppNow,
                 DeferPending(id, gen, t)
          PROVE  TypeOK'
      <3>0. task[id] \in Task /\ t + DeferDelay \in Int /\ gen + 1 \in Nat
        BY AppNowType DEF TypeOK, Task
      <3>1. [task[id] EXCEPT !.gen = gen + 1, !.next = t + DeferDelay] \in Task
        BY <3>0 DEF Task
      <3>2. task' \in [Ids -> Task]
        BY <2>2, <3>1 DEF DeferPending, TypeOK
      <3>3. outbox' \in [Ids -> Seq(Event)]
        BY <2>2, <3>0, EventType, AddEventType DEF DeferPending, Routes
      <3>. QED
        BY <2>2, <3>2, <3>3 DEF DeferPending, TypeOK
    <2>3. ASSUME NEW n \in held, NEW action \in {"success", "fail"}, FinishFinal(n, action)
          PROVE  TypeOK'
      <3>0. n \in Copy /\ n.gen \in Nat /\ n.next \in Int /\ n.id \in Ids
        BY DEF TypeOK, Copy
      <3>1. PICK status \in Statuses :
              task' = [task EXCEPT ![n.id] = Ended(n, status, n.gen, n.next)]
        BY <2>3 DEF FinishFinal, Statuses
      <3>2. task' \in [Ids -> Task]
        BY <3>0, <3>1, EndedType DEF TypeOK
      <3>3. attempts' \in [Ids -> Seq(Attempt)]
        BY <2>3, <3>0, CloseAttemptType DEF FinishFinal, Results, Actions
      <3>. QED
        BY <2>3, <3>2, <3>3 DEF FinishFinal, TypeOK
    <2>4. ASSUME NEW n \in held, NEW next \in RetryTimes, NEW route \in DelayRoutes,
                 NEW t \in AppNow, FinishRetry(n, next, route, t)
          PROVE  TypeOK'
      <3>0. /\ n \in Copy /\ n.gen + 1 \in Nat /\ next \in Int /\ n.id \in Ids
            /\ t \in Int /\ "pending" \in Statuses /\ "retry" \in Results
            /\ route \in Routes
        BY AppNowType DEF TypeOK, Copy, Statuses, Results, Actions, Routes
      <3>2. task' \in [Ids -> Task]
        BY <2>4, <3>0, EndedType DEF TypeOK, FinishRetry
      <3>3. attempts' \in [Ids -> Seq(Attempt)]
        BY <2>4, <3>0, CloseAttemptType DEF FinishRetry
      <3>4. outbox' \in [Ids -> Seq(Event)]
        BY <2>4, <3>0, EventType, AddEventType DEF FinishRetry
      <3>. QED
        BY <2>4, <3>2, <3>3, <3>4 DEF FinishRetry, TypeOK
    <2>. QED
      BY <1>2, <2>1, <2>2, <2>3, <2>4 DEF WorkerStep
  <1>3. CASE RecoveryStep
    <2>1. ASSUME NEW n \in held, RecoverFail(n)
          PROVE  TypeOK'
      <3>0. /\ n \in Copy /\ n.gen + 1 \in Nat /\ n.next \in Int /\ n.id \in Ids
            /\ "failed" \in Statuses /\ "unknown" \in Results
        BY DEF TypeOK, Copy, Statuses, Results
      <3>1. task' \in [Ids -> Task]
        BY <2>1, <3>0, EndedType DEF TypeOK, RecoverFail
      <3>2. attempts' \in [Ids -> Seq(Attempt)]
        BY <2>1, <3>0, CloseAttemptType DEF RecoverFail
      <3>. QED
        BY <2>1, <3>1, <3>2 DEF RecoverFail, TypeOK
    <2>2. ASSUME NEW n \in held, NEW next \in RetryTimes, NEW route \in DelayRoutes,
                 NEW t \in AppNow, RecoverRetry(n, next, route, t)
          PROVE  TypeOK'
      <3>0. /\ n \in Copy /\ n.gen + 1 \in Nat /\ next \in Int /\ n.id \in Ids
            /\ t \in Int /\ "pending" \in Statuses /\ "unknown" \in Results
            /\ route \in Routes
        BY AppNowType DEF TypeOK, Copy, Statuses, Results, Routes
      <3>1. task' \in [Ids -> Task]
        BY <2>2, <3>0, EndedType DEF TypeOK, RecoverRetry
      <3>2. attempts' \in [Ids -> Seq(Attempt)]
        BY <2>2, <3>0, CloseAttemptType DEF RecoverRetry
      <3>3. outbox' \in [Ids -> Seq(Event)]
        BY <2>2, <3>0, EventType, AddEventType DEF RecoverRetry
      <3>. QED
        BY <2>2, <3>1, <3>2, <3>3 DEF RecoverRetry, TypeOK
    <2>3. ASSUME NEW S \in SUBSET Ids, NEW t \in AppNow, Reconcile(S, t)
          PROVE  TypeOK'
      <3>0. t \in Int /\ "dispatch" \in Routes
        BY AppNowType DEF TypeOK, Routes
      <3>1. ASSUME NEW id \in Ids
            PROVE  /\ [task[id] EXCEPT !.gen = @ + 1] \in Task
                   /\ Append(outbox[id], insertEvent(task[id].gen + 1, "dispatch", t))
                        \in Seq(Event)
        <4>1. task[id] \in Task /\ task[id].gen + 1 \in Nat /\ outbox[id] \in Seq(Event)
          BY DEF TypeOK, Task
        <4>2. insertEvent(task[id].gen + 1, "dispatch", t) \in Event
          BY <3>0, <4>1, EventType
        <4>3. [task[id] EXCEPT !.gen = @ + 1] \in Task
          BY <4>1 DEF Task
        <4>. QED
          BY <4>1, <4>2, <4>3
      <3>2. task' \in [Ids -> Task]
        BY <2>3, <3>1 DEF Reconcile, TypeOK
      <3>3. outbox' \in [Ids -> Seq(Event)]
        BY <2>3, <3>1 DEF Reconcile, TypeOK
      <3>. QED
        BY <2>3, <3>2, <3>3 DEF Reconcile, TypeOK
    <2>4. ASSUME NEW R \in SUBSET Rows, RecoverOutbox(R) PROVE TypeOK'
      <3>. DEFINE fixed(id, o) ==
                    IF <<id, o>> \in R
                    THEN [outbox[id][o] EXCEPT !.status = "pending", !.token = NoToken,
                                               !.until = NoTime]
                    ELSE outbox[id][o]
      <3>1. ASSUME NEW id \in Ids
            PROVE  [o \in 1..Len(outbox[id]) |-> fixed(id, o)] \in Seq(Event)
        <4>1. outbox[id] \in Seq(Event) /\ Len(outbox[id]) \in Nat
          BY DEF TypeOK
        <4>2. ASSUME NEW o \in 1..Len(outbox[id]) PROVE fixed(id, o) \in Event
          <5>1. outbox[id][o] \in Event
            BY <4>1
          <5>. QED
            BY <5>1, NullTypes DEF Event
        <4>3. [o \in 1..Len(outbox[id]) |-> fixed(id, o)]
                \in [1..Len(outbox[id]) -> Event]
          BY <4>2
        <4>. HIDE DEF fixed
        <4>. QED
          BY <4>1, <4>3
      <3>2. outbox' = [id \in Ids |-> [o \in 1..Len(outbox[id]) |-> fixed(id, o)]]
        BY <2>4 DEF RecoverOutbox
      <3>. HIDE DEF fixed
      <3>3. outbox' \in [Ids -> Seq(Event)]
        BY <3>1, <3>2
      <3>. QED
        BY <2>4, <3>3 DEF RecoverOutbox, TypeOK
    <2>. QED
      BY <1>3, <2>1, <2>2, <2>3, <2>4 DEF RecoveryStep, LeaseStep, RepairStep
  <1>4. CASE DispatcherStep
    <2> SUFFICES ASSUME NEW id \in Ids, NEW o \in 1..Len(outbox[id]),
                        \/ ClaimOutbox(id, o)
                        \/ \E token \in 1..tokens :
                             Published(id, o, token) \/ ReleaseOutbox(id, o, token)
                 PROVE  TypeOK'
      BY <1>4 DEF DispatcherStep
    <2>0. /\ outbox[id][o] \in Event /\ tokens + 1 \in Nat
          /\ now + PublishTTL \in Int /\ now + ReleaseDelay \in Int /\ now \in Int
      BY DEF TypeOK
    <2>1. CASE ClaimOutbox(id, o)
      <3>1. [outbox[id][o] EXCEPT !.status = "publishing", !.token = tokens + 1,
                                  !.until = now + PublishTTL] \in Event
        BY <2>0 DEF Event
      <3>. QED
        BY <2>0, <2>1, <3>1, SetEventType DEF ClaimOutbox, TypeOK
    <2>2. ASSUME NEW token \in 1..tokens, Published(id, o, token)
          PROVE  TypeOK'
      <3>1. [outbox[id][o] EXCEPT !.status = "published", !.pub = now,
                                  !.token = NoToken, !.until = NoTime] \in Event
        BY <2>0, NullTypes DEF Event
      <3>. QED
        BY <2>2, <3>1, SetEventType DEF Published, TypeOK
    <2>3. ASSUME NEW token \in 1..tokens, ReleaseOutbox(id, o, token)
          PROVE  TypeOK'
      <3>1. [outbox[id][o] EXCEPT !.status = "pending", !.avail = now + ReleaseDelay,
                                  !.token = NoToken, !.until = NoTime] \in Event
        BY <2>0, NullTypes DEF Event
      <3>. QED
        BY <2>3, <3>1, SetEventType DEF ReleaseOutbox, TypeOK
    <2>. QED
      BY <2>1, <2>2, <2>3
  <1>5. CASE Tick
    BY <1>5 DEF Tick, TypeOK, tables
  <1>6. CASE UNCHANGED vars
    BY <1>6 DEF vars, TypeOK
  <1>. QED
    BY <1>1, <1>2, <1>3, <1>4, <1>5, <1>6 DEF Next

LEMMA TypeInit == Init => TypeOK
  BY NullTypes DEF Init, TypeOK, Absent, Task, Statuses

(* The tables of internal/repository/business hold rows of their types.    *)
THEOREM TypeCorrect == Spec => []TypeOK
  BY TypeInit, TypeStep, PTL DEF Spec
-----------------------------------------------------------------------------
(* The inductive invariant *)

(* The row by itself: only an in_flight row has a lease, and a waiting row *)
(* still has an attempt left in its cycle.                                 *)
RowOK(r) ==
    /\ r.status = "absent" => r.gen = 0 /\ r.attempts = 0
    /\ r.lease # NoToken <=> r.status = "in_flight"
    /\ r.cycle <= MaxRetries + 1
    /\ r.status = "pending" => r.cycle <= MaxRetries

(* The attempts of a row: numbered, of increasing generations, closed but  *)
(* for the last; none of a waiting row belongs to its current generation.  *)
AttemptsOK(r, led) ==
    /\ Len(led) = r.attempts
    /\ \A i \in 1..Len(led) : led[i].no = i
    /\ \A i, j \in 1..Len(led) : i < j => led[i].gen < led[j].gen
    /\ \A i \in 1..Len(led) : led[i].gen <= r.gen
    /\ r.status = "pending" => \A i \in 1..Len(led) : led[i].gen < r.gen
    /\ \A i \in 1..Len(led) : i < Len(led) => led[i].result \notin {"started", "success"}
    /\ r.status \in {"in_flight", "delivered"} => Len(led) > 0
    /\ Len(led) > 0 =>
         /\ led[Len(led)].result = "started" <=> r.status = "in_flight"
         /\ led[Len(led)].result = "success" <=> r.status = "delivered"
    /\ r.status = "in_flight" =>
         led[Len(led)].lease = r.lease /\ led[Len(led)].gen = r.gen

(* The events of a row: of increasing generations that the row has         *)
(* reached; the last one of a waiting row announces its generation.        *)
EventsOK(r, ob) ==
    /\ \A o, p \in 1..Len(ob) : o < p => ob[o].gen < ob[p].gen
    /\ \A o \in 1..Len(ob) : ob[o].gen \in 1..r.gen
    /\ r.status = "pending" => Len(ob) > 0 /\ ob[Len(ob)].gen = r.gen

(* A copy was handed out with a token; while the token is the row's, the   *)
(* copy is the row.                                                        *)
HeldOK(n) ==
    /\ n.lease \in 1..tokens
    /\ task[n.id].lease = n.lease => n = CopyOf(n.id, task[n.id])

TaskOK(id) ==
    /\ RowOK(task[id])
    /\ AttemptsOK(task[id], attempts[id])
    /\ EventsOK(task[id], outbox[id])

IInv == TypeOK /\ (\A id \in Ids : TaskOK(id)) /\ (\A n \in held : HeldOK(n))

-----------------------------------------------------------------------------
(* What the updates of the tables do to the parts of the invariant *)

(* A step that leaves the rows of a notification alone keeps its part.     *)
LEMMA TaskFrame ==
    ASSUME NEW id, TaskOK(id), task'[id] = task[id], attempts'[id] = attempts[id],
           outbox'[id] = outbox[id]
    PROVE  TaskOK(id)'
  BY DEF TaskOK, RowOK, AttemptsOK, EventsOK

(* Closing the attempt a row has open, and moving the row on.              *)
LEMMA CloseKeepsLedger ==
    ASSUME TypeOK, NEW n \in Copy, NEW result \in Results \ {"started"},
           NEW onlyOpen \in BOOLEAN, CloseAttempt(n, result, onlyOpen),
           AttemptsOK(task[n.id], attempts[n.id]),
           task[n.id].status = "in_flight",
           n = CopyOf(n.id, task[n.id]),
           NEW r \in Task,
           r.attempts = n.attempts,
           r.gen = n.gen \/ r.gen = n.gen + 1,
           r.status \in {"delivered", "failed", "pending"},
           r.status = "delivered" <=> result = "success",
           r.status = "pending" => r.gen = n.gen + 1
    PROVE  AttemptsOK(r, attempts'[n.id])
  <1>. DEFINE led == attempts[n.id]
              bs == attempts'[n.id]
              row == task[n.id]
  <1>0. n.id \in Ids /\ led \in Seq(Attempt) /\ row \in Task
    BY DEF TypeOK, Copy
  <1>1. /\ n.id \in Ids /\ led \in Seq(Attempt) /\ row \in Task
        /\ Len(led) \in Nat /\ row.gen \in Nat
    <2>1. Len(led) \in Nat
      BY <1>0
    <2>2. row.gen \in Nat
      BY <1>0 DEF Task
    <2> QED
      BY <1>0, <2>1, <2>2, Zenon
  <1>2. n.attempts = row.attempts /\ n.lease = row.lease /\ n.gen = row.gen
    BY DEF CopyOf
  <1>3. bs = [i \in 1..Len(led) |->
                IF /\ led[i].no = n.attempts
                   /\ led[i].lease = n.lease
                   /\ onlyOpen => led[i].result = "started"
                THEN [led[i] EXCEPT !.result = result]
                ELSE led[i]]
    BY <1>1 DEF CloseAttempt, TypeOK
  <1>4. Len(bs) = Len(led)
    BY <1>1, <1>3
  <1>5. \A i \in 1..Len(led) : led[i] \in Attempt
    BY <1>1
  <1>6. Len(led) > 0 /\ Len(led) = n.attempts
    BY <1>2 DEF AttemptsOK
  <1>7. ASSUME NEW i \in 1..Len(led), i < Len(led) PROVE bs[i] = led[i]
    <2>1. led[i].no # n.attempts
      BY <1>1, <1>6, <1>7 DEF AttemptsOK
    <2>. QED
      BY <1>3, <2>1
  <1>8. bs[Len(led)] = [led[Len(led)] EXCEPT !.result = result]
    <2>1. /\ led[Len(led)].no = n.attempts
          /\ led[Len(led)].lease = n.lease
          /\ led[Len(led)].result = "started"
      BY <1>1, <1>2, <1>6 DEF AttemptsOK
    <2>. QED
      BY <1>1, <1>3, <1>6, <2>1
  <1>9. /\ bs[Len(led)].result = result
        /\ bs[Len(led)].no = led[Len(led)].no
        /\ bs[Len(led)].gen = led[Len(led)].gen
    BY <1>1, <1>5, <1>6, <1>8 DEF Attempt
  <1>10. ASSUME NEW i \in 1..Len(led)
         PROVE  bs[i].no = led[i].no /\ bs[i].gen = led[i].gen
    BY <1>1, <1>6, <1>7, <1>9
  <1>11. r.gen \in Nat /\ n.gen \in Nat
    BY <1>1, <1>2 DEF Task
  <1>12. \A i \in 1..Len(led) : led[i].gen \in Nat
    BY <1>5 DEF Attempt
  <1>. HIDE DEF led, bs, row
  <1>13. AttemptsOK(row, led) /\ row.status = "in_flight"
    BY DEF led, row
  <1>14. Len(bs) = r.attempts /\ r.status # "in_flight" /\ Len(bs) > 0
    BY <1>4, <1>6
  <1>15. \A i \in 1..Len(bs) : bs[i].no = i
    BY <1>4, <1>10, <1>13 DEF AttemptsOK
  <1>16. \A i, j \in 1..Len(bs) : i < j => bs[i].gen < bs[j].gen
    BY <1>4, <1>10, <1>13 DEF AttemptsOK
  <1>17. ASSUME NEW i \in 1..Len(bs)
         PROVE  bs[i].gen <= r.gen /\ (r.status = "pending" => bs[i].gen < r.gen)
    <2>1. led[i].gen <= n.gen
      BY <1>2, <1>4, <1>13 DEF AttemptsOK
    <2>2. bs[i].gen = led[i].gen /\ led[i].gen \in Nat
      BY <1>4, <1>10, <1>12
    <2>3. r.gen >= n.gen /\ (r.status = "pending" => r.gen > n.gen)
      BY <1>11
    <2>. QED
      BY <1>11, <2>1, <2>2, <2>3
  <1>18. \A i \in 1..Len(bs) : i < Len(bs) => bs[i].result \notin {"started", "success"}
    BY <1>4, <1>7, <1>13 DEF AttemptsOK
  <1>19. /\ bs[Len(bs)].result = "started" <=> r.status = "in_flight"
         /\ bs[Len(bs)].result = "success" <=> r.status = "delivered"
    BY <1>4, <1>9, <1>14
  <1>20. AttemptsOK(r, bs)
    BY <1>14, <1>15, <1>16, <1>17, <1>18, <1>19 DEF AttemptsOK
  <1>. QED
    BY <1>20 DEF bs
(* The same, without an attempt being closed: the row moves to a later     *)
(* generation and does not get a lease.                                    *)
LEMMA LaterRowKeepsLedger ==
    ASSUME NEW q \in Task, NEW r \in Task, NEW led \in Seq(Attempt), AttemptsOK(q, led),
           q.status \in {"absent", "pending", "failed"},
           r.status = "pending", r.gen = q.gen + 1, r.attempts = q.attempts
    PROVE  AttemptsOK(r, led)
  <1>1. q.gen \in Nat /\ r.gen \in Nat
    BY DEF Task
  <1>2. \A i \in 1..Len(led) : led[i] \in Attempt
    OBVIOUS
  <1>3. \A i \in 1..Len(led) : led[i].gen \in Nat /\ led[i].gen <= q.gen
    BY <1>2 DEF Attempt, AttemptsOK
  <1>4. \A i \in 1..Len(led) : led[i].gen <= r.gen /\ led[i].gen < r.gen
    BY <1>1, <1>3
  <1>. QED
    BY <1>4 DEF AttemptsOK

(* Opening the attempt of the row's current generation.                    *)
LEMMA OpenKeepsLedger ==
    ASSUME NEW q \in Task, NEW r \in Task, NEW led \in Seq(Attempt), AttemptsOK(q, led),
           q.status = "pending", r.status = "in_flight", r.gen = q.gen,
           r.attempts = q.attempts + 1,
           NEW a \in Attempt, a.no = r.attempts, a.gen = r.gen, a.lease = r.lease,
           a.result = "started"
    PROVE  AttemptsOK(r, Append(led, a))
  <1>. DEFINE bs == Append(led, a)
              k == Len(led)
  <1>1. /\ k \in Nat /\ Len(bs) = k + 1
        /\ \A i \in 1..k : bs[i] = led[i]
        /\ bs[k + 1] = a
    BY AppendProperties
  <1>2. /\ q.gen \in Nat /\ q.attempts \in Nat
    BY DEF Task
  <1>3. \A i \in 1..k : led[i] \in Attempt
    OBVIOUS
  <1>4. \A i \in 1..k : led[i].gen \in Nat /\ led[i].gen < q.gen
    BY <1>3 DEF Attempt, AttemptsOK
  <1>5. k = q.attempts /\ \A i \in 1..k : led[i].no = i
    BY DEF AttemptsOK
  <1>6. \A i, j \in 1..k : i < j => led[i].gen < led[j].gen
    BY DEF AttemptsOK
  <1>7. \A i \in 1..k : led[i].result \notin {"started", "success"}
    <2>1. k > 0 => led[k].result \notin {"started", "success"}
      BY DEF AttemptsOK
    <2>2. \A i \in 1..k : i < k => led[i].result \notin {"started", "success"}
      BY DEF AttemptsOK
    <2>. QED
      BY <1>1, <2>1, <2>2
  <1>. HIDE DEF bs, k
  <1>8. \A i \in 1..(k + 1) : i \in 1..k \/ i = k + 1
    BY <1>1
  <1>9. \A i \in 1..Len(bs) : bs[i].no = i
    BY <1>1, <1>2, <1>5, <1>8
  <1>10. \A i \in 1..Len(bs) : bs[i].gen <= r.gen
    BY <1>1, <1>2, <1>4, <1>8
  <1>11. ASSUME NEW i \in 1..Len(bs), NEW j \in 1..Len(bs), i < j
         PROVE  bs[i].gen < bs[j].gen
    <2>1. i \in 1..k
      BY <1>1, <1>11
    <2>2. CASE j \in 1..k
      BY <1>1, <1>6, <1>11, <2>1, <2>2
    <2>3. CASE j = k + 1
      BY <1>1, <1>4, <2>1, <2>3
    <2>. QED
      BY <1>1, <1>8, <2>2, <2>3
  <1>12. \A i \in 1..Len(bs) : i < Len(bs) => bs[i].result \notin {"started", "success"}
    BY <1>1, <1>7, <1>8
  <1>13. Len(bs) = r.attempts /\ Len(bs) > 0 /\ bs[Len(bs)] = a
    BY <1>1, <1>2, <1>5
  <1>14. AttemptsOK(r, bs)
    BY <1>9, <1>10, <1>11, <1>12, <1>13 DEF AttemptsOK
  <1>. QED
    BY <1>14 DEF bs

(* Announcing the next generation of a row.                                *)
LEMMA AppendKeepsEvents ==
    ASSUME NEW q \in Task, NEW r \in Task, NEW ob \in Seq(Event), EventsOK(q, ob),
           r.gen = q.gen + 1, NEW e \in Event, e.gen = r.gen
    PROVE  EventsOK(r, Append(ob, e))
  <1>. DEFINE new == Append(ob, e)
              k == Len(ob)
  <1>1. /\ k \in Nat /\ Len(new) = k + 1
        /\ \A o \in 1..k : new[o] = ob[o]
        /\ new[k + 1] = e
    BY AppendProperties
  <1>2. q.gen \in Nat /\ \A o \in 1..k : ob[o].gen \in 1..q.gen
    BY DEF EventsOK, Task
  <1>3. \A o, p \in 1..k : o < p => ob[o].gen < ob[p].gen
    BY DEF EventsOK
  <1>. HIDE DEF new, k
  <1>4. \A o \in 1..(k + 1) : o \in 1..k \/ o = k + 1
    BY <1>1
  <1>5. \A o \in 1..Len(new) : new[o].gen \in 1..r.gen
    BY <1>1, <1>2, <1>4
  <1>6. ASSUME NEW o \in 1..Len(new), NEW p \in 1..Len(new), o < p
        PROVE  new[o].gen < new[p].gen
    <2>1. o \in 1..k
      BY <1>1, <1>6
    <2>2. CASE p \in 1..k
      BY <1>1, <1>3, <1>6, <2>1, <2>2
    <2>3. CASE p = k + 1
      BY <1>1, <1>2, <2>1, <2>3
    <2>. QED
      BY <1>1, <1>4, <2>2, <2>3
  <1>7. EventsOK(r, new)
    BY <1>1, <1>5, <1>6 DEF EventsOK
  <1>. QED
    BY <1>7 DEF new

(* Rows of the outbox that change anything but their generation.           *)
LEMMA SameGenerationsKeepEvents ==
    ASSUME NEW r, NEW ob, NEW new, EventsOK(r, ob), Len(new) = Len(ob),
           \A o \in 1..Len(ob) : new[o].gen = ob[o].gen, Len(ob) \in Nat
    PROVE  EventsOK(r, new)
  BY DEF EventsOK
(* Whatever row changes, it loses its lease or has none: no copy becomes   *)
(* stale without being fenced.                                             *)
LEMMA HeldStep ==
    ASSUME IInv, held' = held, tokens' \in Nat, tokens' >= tokens,
           \A id \in Ids : task'[id] = task[id] \/ task'[id].lease = NoToken
    PROVE  \A n \in held' : HeldOK(n)'
  <1> SUFFICES ASSUME NEW n \in held PROVE HeldOK(n)'
    OBVIOUS
  <1>1. n \in Copy /\ n.id \in Ids /\ HeldOK(n) /\ tokens \in Nat
    BY DEF IInv, TypeOK, Copy
  <1>2. n.lease \in 1..tokens /\ n.lease \in 1..tokens' /\ n.lease # NoToken
    BY <1>1 DEF HeldOK, NoToken
  <1>3. CASE task'[n.id] = task[n.id]
    BY <1>1, <1>2, <1>3 DEF HeldOK, CopyOf
  <1>4. CASE task'[n.id].lease = NoToken
    BY <1>2, <1>4 DEF HeldOK
  <1>. QED
    BY <1>1, <1>3, <1>4

(* Accept, DeferPending, Reconcile and ManualRetry open a new generation   *)
(* and announce it, without touching an attempt.                           *)
LEMMA WaitStep ==
    ASSUME TypeOK, TypeOK', NEW id \in Ids, TaskOK(id),
           task[id].status \in {"absent", "pending", "failed"},
           task'[id].status = "pending",
           task'[id].gen = task[id].gen + 1,
           task'[id].attempts = task[id].attempts,
           task'[id].lease = NoToken,
           task'[id].cycle <= MaxRetries,
           attempts'[id] = attempts[id],
           NEW e \in Event, e.gen = task[id].gen + 1,
           outbox'[id] = Append(outbox[id], e)
    PROVE  TaskOK(id)'
  <1>1. task[id] \in Task /\ task'[id] \in Task
    BY DEF TypeOK
  <1>1a. task'[id].cycle \in Nat
    BY <1>1 DEF Task
  <1>1b. attempts[id] \in Seq(Attempt) /\ outbox[id] \in Seq(Event)
    BY DEF TypeOK
  <1>2. RowOK(task'[id])
    BY <1>1a, StoreAssumption DEF RowOK
  <1>3. AttemptsOK(task'[id], attempts'[id])
    BY <1>1, <1>1b, LaterRowKeepsLedger DEF TaskOK
  <1>4. EventsOK(task'[id], outbox'[id])
    BY <1>1, <1>1b, AppendKeepsEvents DEF TaskOK
  <1>. QED
    BY <1>2, <1>3, <1>4 DEF TaskOK, RowOK, AttemptsOK, EventsOK

(* The holder of the current lease is the one whose copy is the row.       *)
LEMMA FencedCopy ==
    ASSUME IInv, NEW n \in held, Fenced(n)
    PROVE  /\ n \in Copy /\ n.id \in Ids /\ task[n.id] \in Task
           /\ task[n.id].status = "in_flight"
           /\ n = CopyOf(n.id, task[n.id])
  BY DEF IInv, TypeOK, Copy, Fenced, HeldOK
(* Finish and RecoverLease: the row loses its lease, the open attempt gets *)
(* its result; the outbox is the caller's obligation.                      *)
LEMMA SettleStep ==
    ASSUME IInv, TypeOK', NEW n \in held, Fenced(n),
           NEW status \in {"delivered", "failed", "pending"},
           NEW gen \in {n.gen, n.gen + 1}, NEW next \in Int,
           NEW result \in Results \ {"started"}, NEW onlyOpen \in BOOLEAN,
           status = "delivered" <=> result = "success",
           status = "pending" => gen = n.gen + 1 /\ n.cycle <= MaxRetries,
           task' = [task EXCEPT ![n.id] = Ended(n, status, gen, next)],
           CloseAttempt(n, result, onlyOpen),
           EventsOK(task[n.id], outbox[n.id]) => EventsOK(task'[n.id], outbox'[n.id]),
           \A id \in Ids \ {n.id} : outbox'[id] = outbox[id]
    PROVE  \A id \in Ids : TaskOK(id)'
  <1>1. /\ n \in Copy /\ n.id \in Ids /\ task[n.id] \in Task
        /\ task[n.id].status = "in_flight"
        /\ n = CopyOf(n.id, task[n.id])
    BY FencedCopy
  <1>2. TaskOK(n.id)
    BY <1>1 DEF IInv
  <1>3. task'[n.id] = Ended(n, status, gen, next) /\ task'[n.id] \in Task
    BY <1>1 DEF IInv, TypeOK
  <1>4. /\ task'[n.id].status = status /\ task'[n.id].gen = gen
        /\ task'[n.id].lease = NoToken
        /\ task'[n.id].attempts = task[n.id].attempts
        /\ task'[n.id].cycle = task[n.id].cycle
    BY <1>1, <1>3, EndedFields
  <1>5. n.attempts = task[n.id].attempts /\ n.cycle = task[n.id].cycle
    BY <1>1 DEF CopyOf
  <1>6. RowOK(task'[n.id])
    BY <1>2, <1>4, <1>5 DEF RowOK, TaskOK
  <1>7. AttemptsOK(task'[n.id], attempts'[n.id])
    <2>. DEFINE r == task'[n.id]
    <2>1. /\ r \in Task /\ r.attempts = n.attempts
          /\ r.gen = n.gen \/ r.gen = n.gen + 1
          /\ r.status \in {"delivered", "failed", "pending"}
          /\ r.status = "delivered" <=> result = "success"
          /\ r.status = "pending" => r.gen = n.gen + 1
      BY <1>3, <1>4, <1>5
    <2>2. TypeOK /\ AttemptsOK(task[n.id], attempts[n.id])
      BY <1>2 DEF IInv, TaskOK
    <2>. HIDE DEF r
    <2>3. AttemptsOK(r, attempts'[n.id])
      BY <1>1, <2>1, <2>2, CloseKeepsLedger
    <2>. QED
      BY <2>3 DEF r
  <1>8. EventsOK(task'[n.id], outbox'[n.id])
    BY <1>2 DEF TaskOK
  <1>9. TaskOK(n.id)'
    BY <1>6, <1>7, <1>8 DEF TaskOK, RowOK, AttemptsOK, EventsOK
  <1>10. ASSUME NEW id \in Ids, id # n.id PROVE TaskOK(id)'
    <2>1. task'[id] = task[id] /\ attempts'[id] = attempts[id] /\ outbox'[id] = outbox[id]
      BY <1>1, <1>10 DEF IInv, TypeOK, CloseAttempt
    <2>2. TaskOK(id)
      BY DEF IInv
    <2>. QED
      BY <2>1, <2>2, TaskFrame
  <1>. QED
    BY <1>9, <1>10

(* Finish and RecoverLease with a retry announce the next generation.      *)
LEMMA RetryEvents ==
    ASSUME IInv, TypeOK', NEW n \in held, Fenced(n), NEW next \in Int,
           NEW route \in Routes, NEW t \in Int,
           task' = [task EXCEPT ![n.id] = Ended(n, "pending", n.gen + 1, next)],
           AddEvent(n.id, insertEvent(n.gen + 1, route, t)),
           EventsOK(task[n.id], outbox[n.id])
    PROVE  /\ EventsOK(task'[n.id], outbox'[n.id])
           /\ \A id \in Ids \ {n.id} : outbox'[id] = outbox[id]
  <1>. DEFINE e == insertEvent(n.gen + 1, route, t)
  <1>1. /\ n \in Copy /\ n.id \in Ids /\ task[n.id] \in Task /\ n.gen = task[n.id].gen
    BY FencedCopy DEF Fenced
  <1>2. task'[n.id] = Ended(n, "pending", n.gen + 1, next) /\ task'[n.id] \in Task
    BY <1>1 DEF IInv, TypeOK
  <1>3. task'[n.id].gen = task[n.id].gen + 1
    BY <1>1, <1>2, EndedFields
  <1>4. n.gen + 1 \in Nat
    BY <1>1 DEF Copy
  <1>5. e \in Event /\ e.gen = n.gen + 1
    BY <1>4, EventType DEF insertEvent
  <1>. HIDE DEF e
  <1>6. /\ outbox'[n.id] = Append(outbox[n.id], e)
        /\ \A id \in Ids \ {n.id} : outbox'[id] = outbox[id]
        /\ outbox[n.id] \in Seq(Event)
    BY <1>1 DEF IInv, TypeOK, AddEvent, e
  <1>7. EventsOK(task'[n.id], Append(outbox[n.id], e))
    BY <1>1, <1>2, <1>3, <1>5, <1>6, AppendKeepsEvents
  <1>. QED
    BY <1>6, <1>7

(* A step of the outbox that leaves generations alone leaves all else too. *)
LEMMA OutboxStep ==
    ASSUME IInv, UNCHANGED <<task, attempts, held>>, tokens' \in Nat, tokens' >= tokens,
           \A id \in Ids : /\ Len(outbox'[id]) = Len(outbox[id])
                           /\ \A o \in 1..Len(outbox[id]) :
                                outbox'[id][o].gen = outbox[id][o].gen,
           TypeOK'
    PROVE  IInv'
  <1>1. ASSUME NEW id \in Ids PROVE TaskOK(id)'
    <2>1. TaskOK(id) /\ Len(outbox[id]) \in Nat
      BY DEF IInv, TypeOK
    <2>2. EventsOK(task[id], outbox'[id])
      BY <2>1, SameGenerationsKeepEvents DEF TaskOK
    <2>. QED
      BY <2>1, <2>2 DEF TaskOK, RowOK, AttemptsOK, EventsOK
  <1>2. \A n \in held' : HeldOK(n)'
    BY HeldStep
  <1>. QED
    BY <1>1, <1>2 DEF IInv
-----------------------------------------------------------------------------
(* Every action preserves the invariant *)

(* A step that changes the rows of one notification only.                  *)
LEMMA OneTaskStep ==
    ASSUME IInv, TypeOK', NEW id \in Ids, TaskOK(id)',
           \A j \in Ids \ {id} : /\ task'[j] = task[j] /\ attempts'[j] = attempts[j]
                                 /\ outbox'[j] = outbox[j],
           \A n \in held' : HeldOK(n)'
    PROVE  IInv'
  <1>1. ASSUME NEW j \in Ids PROVE TaskOK(j)'
    <2>1. CASE j = id
      BY <2>1
    <2>2. CASE j # id
      <3>1. TaskOK(j)
        BY DEF IInv
      <3>. QED
        BY <2>2, <3>1, TaskFrame
    <2>. QED
      BY <2>1, <2>2
  <1>. QED
    BY <1>1 DEF IInv

LEMMA ApiInv == ASSUME IInv, TypeOK', ApiStep PROVE IInv'
  <1> SUFFICES ASSUME NEW id \in Ids, NEW t \in AppNow, NEW duration \in Durations,
                      \/ \E key \in Keys, hash \in Hashes :
                           Accept(id, key, hash, t, duration)
                      \/ \E gen \in 1..task[id].gen : ManualRetry(id, gen, t, duration)
               PROVE  IInv'
    BY DEF ApiStep
  <1>0. /\ TypeOK /\ TaskOK(id) /\ task[id] \in Task /\ t \in Int
        /\ "dispatch" \in Routes /\ tokens \in Nat
    BY AppNowType DEF IInv, TypeOK, Routes
  <1>1. ASSUME NEW key \in Keys, NEW hash \in Hashes, Accept(id, key, hash, t, duration)
        PROVE  IInv'
    <2>1. task[id].gen = 0 /\ task[id].attempts = 0 /\ task[id].status = "absent"
      BY <1>0, <1>1 DEF Accept, TaskOK, RowOK
    <2>2. /\ task'[id].status = "pending" /\ task'[id].gen = 1 /\ task'[id].attempts = 0
          /\ task'[id].lease = NoToken /\ task'[id].cycle = 0
      BY <1>0, <1>1 DEF Accept, TypeOK
    <2>3. insertEvent(1, "dispatch", t) \in Event
          /\ insertEvent(1, "dispatch", t).gen = 1
      BY <1>0, EventType DEF insertEvent
    <2>4. outbox'[id] = Append(outbox[id], insertEvent(1, "dispatch", t))
      BY <1>0, <1>1 DEF Accept, AddEvent, TypeOK
    <2>5. attempts' = attempts /\ held' = held /\ tokens' = tokens
      BY <1>1 DEF Accept
    <2>6. TaskOK(id)'
      BY <1>0, <2>1, <2>2, <2>3, <2>4, <2>5, WaitStep, StoreAssumption
    <2>7. \A j \in Ids \ {id} : task'[j] = task[j] /\ outbox'[j] = outbox[j]
      BY <1>0, <1>1 DEF Accept, AddEvent, TypeOK
    <2>8. \A n \in held' : HeldOK(n)'
      BY <1>0, <2>2, <2>5, <2>7, HeldStep
    <2>. QED
      BY <2>5, <2>6, <2>7, <2>8, OneTaskStep
  <1>2. ASSUME NEW gen \in 1..task[id].gen, ManualRetry(id, gen, t, duration)
        PROVE  IInv'
    <2>a. gen = task[id].gen /\ task[id].status = "failed"
      BY <1>2 DEF ManualRetry, Retriable
    <2>b. task[id].gen \in Nat
      BY <1>0 DEF Task
    <2>0. gen = task[id].gen /\ gen + 1 \in Nat /\ task[id].status = "failed"
      BY <2>a, <2>b
    <2>1. task'[id] = [task[id] EXCEPT !.status = "pending", !.gen = gen + 1, !.cycle = 0,
                                       !.next = t, !.deadline = t + duration]
      BY <1>0, <1>2 DEF ManualRetry, TypeOK
    <2>2. /\ task'[id].status = "pending" /\ task'[id].gen = gen + 1
          /\ task'[id].attempts = task[id].attempts
          /\ task'[id].lease = task[id].lease /\ task'[id].cycle = 0
      BY <1>0, <2>1 DEF Task
    <2>3. insertEvent(gen + 1, "dispatch", t) \in Event
          /\ insertEvent(gen + 1, "dispatch", t).gen = gen + 1
      BY <1>0, <2>0, EventType DEF insertEvent
    <2>4. outbox'[id] = Append(outbox[id], insertEvent(gen + 1, "dispatch", t))
      BY <1>0, <1>2 DEF ManualRetry, AddEvent, TypeOK
    <2>5. attempts' = attempts /\ held' = held /\ tokens' = tokens
      BY <1>2 DEF ManualRetry
    <2>6. task'[id].lease = NoToken
      BY <1>0, <2>0, <2>2 DEF TaskOK, RowOK
    <2>7. TaskOK(id)'
      BY <1>0, <2>0, <2>2, <2>3, <2>4, <2>5, <2>6, WaitStep, StoreAssumption
    <2>8. \A j \in Ids \ {id} : task'[j] = task[j] /\ outbox'[j] = outbox[j]
      BY <1>0, <1>2 DEF ManualRetry, AddEvent, TypeOK
    <2>9. \A n \in held' : HeldOK(n)'
      BY <1>0, <2>5, <2>6, <2>8, HeldStep
    <2>. QED
      BY <2>5, <2>7, <2>8, <2>9, OneTaskStep
  <1>. QED
    BY <1>1, <1>2

LEMMA ClaimInv ==
    ASSUME IInv, TypeOK', NEW id \in Ids, NEW gen, Claim(id, gen)
    PROVE  IInv'
  <1>. DEFINE row == Leased(id, tokens + 1)
              a == [no |-> row.attempts, gen |-> row.gen, lease |-> tokens + 1,
                    result |-> "started"]
  <1>0. /\ TypeOK /\ TaskOK(id) /\ task[id] \in Task /\ tokens \in Nat
        /\ task[id].status = "pending" /\ attempts[id] \in Seq(Attempt)
    BY DEF IInv, TypeOK, Claim, Claimable
  <1>1. task'[id] = row /\ row \in Task
    BY <1>0, LeasedType DEF Claim, TypeOK
  <1>2. /\ row.status = "in_flight" /\ row.lease = tokens + 1
        /\ row.attempts = task[id].attempts + 1 /\ row.cycle = task[id].cycle + 1
        /\ row.gen = task[id].gen
    BY <1>0 DEF Leased, Task
  <1>. HIDE DEF row
  <1>3. a \in Attempt /\ a.no = row.attempts /\ a.gen = row.gen /\ a.lease = row.lease
        /\ a.result = "started"
    BY <1>0, <1>1, <1>2 DEF Attempt, Task, Results
  <1>4. attempts'[id] = Append(attempts[id], a) /\ outbox' = outbox /\ tokens' = tokens + 1
    BY <1>0 DEF Claim, TypeOK, row
  <1>. HIDE DEF a
  <1>5. AttemptsOK(task'[id], attempts'[id])
    BY <1>0, <1>1, <1>2, <1>3, <1>4, OpenKeepsLedger DEF TaskOK
  <1>6. RowOK(task'[id])
    <2>1. task[id].cycle \in Nat /\ task[id].cycle <= MaxRetries
      BY <1>0 DEF TaskOK, RowOK, Task
    <2>. QED
      BY <1>0, <1>1, <1>2, <2>1, StoreAssumption DEF RowOK, NoToken
  <1>7. EventsOK(task'[id], outbox'[id])
    BY <1>0, <1>1, <1>2, <1>4 DEF TaskOK, EventsOK
  <1>8. TaskOK(id)'
    BY <1>5, <1>6, <1>7 DEF TaskOK, RowOK, AttemptsOK, EventsOK
  <1>9. \A j \in Ids \ {id} : /\ task'[j] = task[j] /\ attempts'[j] = attempts[j]
                              /\ outbox'[j] = outbox[j]
    BY <1>0, <1>4 DEF Claim, TypeOK
  <1>10. ASSUME NEW n \in held' PROVE HeldOK(n)'
    <2>1. held' = held \cup {CopyOf(id, row)}
      BY DEF Claim, row
    <2>2. CASE n = CopyOf(id, row)
      BY <1>0, <1>1, <1>2, <1>4, <2>2 DEF HeldOK, CopyOf
    <2>3. CASE n \in held
      <3>1. n \in Copy /\ n.id \in Ids /\ HeldOK(n)
        BY <2>3 DEF IInv, TypeOK, Copy
      <3>2. n.lease \in 1..tokens /\ n.lease \in 1..tokens' /\ n.lease # tokens + 1
        BY <1>0, <1>4, <3>1 DEF HeldOK
      <3>3. CASE n.id = id
        BY <1>1, <1>2, <3>2, <3>3 DEF HeldOK
      <3>4. CASE n.id # id
        BY <1>9, <3>1, <3>2, <3>4 DEF HeldOK, CopyOf
      <3>. QED
        BY <3>3, <3>4
    <2>. QED
      BY <2>1, <2>2, <2>3
  <1>. QED
    BY <1>8, <1>9, <1>10, OneTaskStep
LEMMA DeferInv ==
    ASSUME IInv, TypeOK', NEW id \in Ids, NEW gen, NEW t \in AppNow,
           DeferPending(id, gen, t)
    PROVE  IInv'
  <1>. DEFINE e == insertEvent(gen + 1, "dispatch", t + DeferDelay)
  <1>0. /\ TypeOK /\ TaskOK(id) /\ task[id] \in Task /\ tokens \in Nat
        /\ t + DeferDelay \in Int /\ "dispatch" \in Routes
    BY AppNowType, StoreAssumption DEF IInv, TypeOK, Routes
  <1>1. gen = task[id].gen /\ task[id].status = "pending"
    BY DEF DeferPending, Deferrable
  <1>2. gen \in Nat /\ gen + 1 \in Nat
    BY <1>0, <1>1 DEF Task
  <1>3. task'[id] = [task[id] EXCEPT !.gen = gen + 1, !.next = t + DeferDelay]
    BY <1>0 DEF DeferPending, TypeOK
  <1>4. /\ task'[id].status = "pending" /\ task'[id].gen = gen + 1
        /\ task'[id].attempts = task[id].attempts
        /\ task'[id].lease = task[id].lease /\ task'[id].cycle = task[id].cycle
    BY <1>0, <1>1, <1>3 DEF Task
  <1>5. task'[id].lease = NoToken /\ task'[id].cycle <= MaxRetries
    BY <1>0, <1>1, <1>4 DEF TaskOK, RowOK
  <1>6. e \in Event /\ e.gen = task[id].gen + 1
    BY <1>0, <1>1, <1>2, EventType DEF insertEvent
  <1>7. outbox'[id] = Append(outbox[id], e)
    BY <1>0 DEF DeferPending, AddEvent, TypeOK
  <1>8. attempts' = attempts /\ held' = held /\ tokens' = tokens
    BY DEF DeferPending
  <1>9. \A j \in Ids \ {id} : task'[j] = task[j] /\ outbox'[j] = outbox[j]
    BY <1>0 DEF DeferPending, AddEvent, TypeOK
  <1>. HIDE DEF e
  <1>10. TaskOK(id)'
    BY <1>0, <1>1, <1>4, <1>5, <1>6, <1>7, <1>8, WaitStep
  <1>11. \A n \in held' : HeldOK(n)'
    BY <1>0, <1>5, <1>8, <1>9, HeldStep
  <1>. QED
    BY <1>8, <1>9, <1>10, <1>11, OneTaskStep

(* After Finish or RecoverLease every copy of the row is stale.            *)
LEMMA SettleHeld ==
    ASSUME IInv, NEW n \in held, Fenced(n), NEW status, NEW gen, NEW next,
           task' = [task EXCEPT ![n.id] = Ended(n, status, gen, next)],
           held' = held, tokens' = tokens
    PROVE  \A m \in held' : HeldOK(m)'
  <1>1. n.id \in Ids /\ task[n.id] \in Task /\ tokens \in Nat
    BY FencedCopy DEF IInv, TypeOK
  <1>2. task'[n.id].lease = NoToken
    BY <1>1, EndedFields DEF IInv, TypeOK
  <1>3. \A id \in Ids : task'[id] = task[id] \/ task'[id].lease = NoToken
    BY <1>1, <1>2 DEF IInv, TypeOK
  <1>. QED
    BY <1>1, <1>3, HeldStep

LEMMA FinishFinalInv ==
    ASSUME IInv, TypeOK', NEW n \in held, NEW action, FinishFinal(n, action)
    PROVE  IInv'
  <1>0. Fenced(n) /\ action \in {"success", "fail"}
    BY DEF FinishFinal, Finishable
  <1>. DEFINE status == IF action = "success" THEN "delivered" ELSE "failed"
  <1>1. /\ task' = [task EXCEPT ![n.id] = Ended(n, status, n.gen, n.next)]
        /\ CloseAttempt(n, action, FALSE)
        /\ outbox' = outbox /\ held' = held /\ tokens' = tokens
    BY DEF FinishFinal
  <1>2. /\ n \in Copy /\ n.id \in Ids /\ task[n.id] \in Task
        /\ n.gen = task[n.id].gen
    BY <1>0, FencedCopy DEF Fenced
  <1>3. n.next \in Int
    BY <1>2 DEF Copy
  <1>4. /\ status \in {"delivered", "failed"}
        /\ status = "delivered" <=> action = "success"
        /\ action \in Results \ {"started"}
    BY <1>0 DEF Results, Actions
  <1>. HIDE DEF status
  <1>5. /\ task'[n.id] = Ended(n, status, n.gen, n.next)
    BY <1>1, <1>2 DEF IInv, TypeOK
  <1>6. task'[n.id].gen = task[n.id].gen /\ task'[n.id].status # "pending"
    BY <1>2, <1>4, <1>5, EndedFields
  <1>7. EventsOK(task[n.id], outbox[n.id]) => EventsOK(task'[n.id], outbox'[n.id])
    BY <1>1, <1>6 DEF EventsOK
  <1>8. \A id \in Ids : TaskOK(id)'
    BY <1>0, <1>1, <1>3, <1>4, <1>7, SettleStep
  <1>9. \A m \in held' : HeldOK(m)'
    BY <1>0, <1>1, SettleHeld
  <1>. QED
    BY <1>8, <1>9 DEF IInv

LEMMA RecoverFailInv ==
    ASSUME IInv, TypeOK', NEW n \in held, RecoverFail(n)
    PROVE  IInv'
  <1>0. Fenced(n)
    BY DEF RecoverFail, Recoverable
  <1>1. /\ task' = [task EXCEPT ![n.id] = Ended(n, "failed", n.gen + 1, n.next)]
        /\ CloseAttempt(n, "unknown", TRUE)
        /\ outbox' = outbox /\ held' = held /\ tokens' = tokens
    BY DEF RecoverFail
  <1>2. /\ n \in Copy /\ n.id \in Ids /\ task[n.id] \in Task
        /\ n.gen = task[n.id].gen
    BY <1>0, FencedCopy DEF Fenced
  <1>3. n.next \in Int /\ n.gen \in Nat /\ "unknown" \in Results \ {"started"}
    BY <1>2 DEF Copy, Results
  <1>4. task'[n.id] = Ended(n, "failed", n.gen + 1, n.next)
    BY <1>1, <1>2 DEF IInv, TypeOK
  <1>5. task'[n.id].gen = task[n.id].gen + 1 /\ task'[n.id].status = "failed"
    BY <1>2, <1>4, EndedFields
  <1>6. EventsOK(task[n.id], outbox[n.id]) => EventsOK(task'[n.id], outbox'[n.id])
    BY <1>1, <1>2, <1>3, <1>5 DEF EventsOK
  <1>7. \A id \in Ids : TaskOK(id)'
    BY <1>0, <1>1, <1>3, <1>6, SettleStep
  <1>8. \A m \in held' : HeldOK(m)'
    BY <1>0, <1>1, SettleHeld
  <1>. QED
    BY <1>7, <1>8 DEF IInv

(* Both kinds of retry: FinishRetry and RecoverRetry.                      *)
LEMMA RetryInv ==
    ASSUME IInv, TypeOK', NEW n \in held, Fenced(n), NEW next \in RetryTimes,
           NEW route \in DelayRoutes, NEW t \in AppNow, Schedulable(n, next),
           NEW result \in {"retry", "unknown"}, NEW onlyOpen \in BOOLEAN,
           task' = [task EXCEPT ![n.id] = Ended(n, "pending", n.gen + 1, next)],
           CloseAttempt(n, result, onlyOpen),
           AddEvent(n.id, insertEvent(n.gen + 1, route, t)),
           held' = held, tokens' = tokens
    PROVE  IInv'
  <1>1. next \in Int /\ route \in Routes /\ t \in Int /\ n.cycle <= MaxRetries
    BY AppNowType, StoreAssumption DEF Routes, IInv, TypeOK, Schedulable
  <1>2. n.id \in Ids /\ EventsOK(task[n.id], outbox[n.id])
    BY FencedCopy DEF IInv, TaskOK
  <1>3. /\ EventsOK(task'[n.id], outbox'[n.id])
        /\ \A id \in Ids \ {n.id} : outbox'[id] = outbox[id]
    BY <1>1, <1>2, RetryEvents
  <1>4. result \in Results \ {"started"} /\ result # "success"
    BY DEF Results, Actions
  <1>5. \A id \in Ids : TaskOK(id)'
    BY <1>1, <1>3, <1>4, SettleStep
  <1>6. \A m \in held' : HeldOK(m)'
    BY SettleHeld
  <1>. QED
    BY <1>5, <1>6 DEF IInv
LEMMA ReconcileInv ==
    ASSUME IInv, TypeOK', NEW S \in SUBSET Ids, NEW t \in AppNow, Reconcile(S, t)
    PROVE  IInv'
  <1>0. /\ TypeOK /\ tokens \in Nat /\ t \in Int /\ "dispatch" \in Routes
        /\ attempts' = attempts /\ held' = held /\ tokens' = tokens
    BY AppNowType DEF IInv, TypeOK, Routes, Reconcile
  <1>1. ASSUME NEW id \in S
        PROVE  TaskOK(id)' /\ task'[id].lease = NoToken
    <2>. DEFINE e == insertEvent(task[id].gen + 1, "dispatch", t)
    <2>0. id \in Ids /\ task[id] \in Task /\ TaskOK(id) /\ task[id].status = "pending"
      BY DEF IInv, TypeOK, Reconcile, Stale
    <2>1. task'[id] = [task[id] EXCEPT !.gen = @ + 1]
      BY <2>0 DEF Reconcile
    <2>2. /\ task'[id].status = "pending" /\ task'[id].gen = task[id].gen + 1
          /\ task'[id].attempts = task[id].attempts
          /\ task'[id].lease = task[id].lease /\ task'[id].cycle = task[id].cycle
      BY <2>0, <2>1 DEF Task
    <2>3. task[id].gen + 1 \in Nat
      BY <2>0 DEF Task
    <2>4. e \in Event /\ e.gen = task[id].gen + 1
      BY <1>0, <2>3, EventType DEF insertEvent
    <2>5. outbox'[id] = Append(outbox[id], e)
      BY <2>0 DEF Reconcile
    <2>. HIDE DEF e
    <2>6. task'[id].lease = NoToken /\ task'[id].cycle <= MaxRetries
      BY <2>0, <2>2 DEF TaskOK, RowOK
    <2>7. TaskOK(id)'
      BY <1>0, <2>0, <2>2, <2>4, <2>5, <2>6, WaitStep
    <2>. QED
      BY <2>6, <2>7
  <1>2. ASSUME NEW id \in Ids, id \notin S
        PROVE  TaskOK(id)' /\ task'[id] = task[id]
    <2>1. task'[id] = task[id] /\ outbox'[id] = outbox[id] /\ TaskOK(id)
      BY <1>2 DEF Reconcile, IInv
    <2>. QED
      BY <1>0, <2>1, TaskFrame
  <1>3. \A n \in held' : HeldOK(n)'
    BY <1>0, <1>1, <1>2, HeldStep
  <1>. QED
    BY <1>1, <1>2, <1>3 DEF IInv

(* Setting one outbox row, keeping its generation.                         *)
LEMMA SetEventInv ==
    ASSUME IInv, TypeOK', NEW id \in Ids, NEW o \in 1..Len(outbox[id]), NEW e,
           e.gen = outbox[id][o].gen, SetEvent(id, o, e),
           UNCHANGED <<task, attempts, held>>, tokens' \in Nat, tokens' >= tokens
    PROVE  IInv'
  <1>1. outbox[id] \in Seq(Event) /\ outbox \in [Ids -> Seq(Event)]
    BY DEF IInv, TypeOK
  <1>2. outbox'[id] = [outbox[id] EXCEPT ![o] = e]
    BY <1>1 DEF SetEvent
  <1>3. /\ Len(outbox'[id]) = Len(outbox[id])
        /\ \A p \in 1..Len(outbox[id]) : outbox'[id][p].gen = outbox[id][p].gen
    BY <1>1, <1>2
  <1>4. \A j \in Ids \ {id} : outbox'[j] = outbox[j]
    BY <1>1 DEF SetEvent
  <1>5. \A j \in Ids : /\ Len(outbox'[j]) = Len(outbox[j])
                       /\ \A p \in 1..Len(outbox[j]) :
                            outbox'[j][p].gen = outbox[j][p].gen
    BY <1>3, <1>4
  <1>. QED
    BY <1>5, OutboxStep

LEMMA DispatcherInv == ASSUME IInv, TypeOK', DispatcherStep PROVE IInv'
  <1> SUFFICES ASSUME NEW id \in Ids, NEW o \in 1..Len(outbox[id]),
                      \/ ClaimOutbox(id, o)
                      \/ \E token \in 1..tokens :
                           Published(id, o, token) \/ ReleaseOutbox(id, o, token)
               PROVE  IInv'
    BY DEF DispatcherStep
  <1>0. outbox[id][o] \in Event /\ tokens \in Nat
    BY DEF IInv, TypeOK
  <1>1. CASE ClaimOutbox(id, o)
    <2>. DEFINE e == [outbox[id][o] EXCEPT !.status = "publishing", !.token = tokens + 1,
                                           !.until = now + PublishTTL]
    <2>1. e.gen = outbox[id][o].gen
      BY <1>0 DEF Event
    <2>2. SetEvent(id, o, e) /\ UNCHANGED <<task, attempts, held>> /\ tokens' = tokens + 1
      BY <1>1 DEF ClaimOutbox
    <2>3. tokens' \in Nat /\ tokens' >= tokens
      BY <1>0, <2>2
    <2>. HIDE DEF e
    <2>. QED
      BY <2>1, <2>2, <2>3, SetEventInv
  <1>2. ASSUME NEW token, Published(id, o, token) PROVE IInv'
    <2>. DEFINE e == [outbox[id][o] EXCEPT !.status = "published", !.pub = now,
                                           !.token = NoToken, !.until = NoTime]
    <2>1. e.gen = outbox[id][o].gen
      BY <1>0 DEF Event
    <2>2. SetEvent(id, o, e) /\ UNCHANGED <<task, attempts, held>> /\ tokens' = tokens
      BY <1>2 DEF Published
    <2>3. tokens' \in Nat /\ tokens' >= tokens
      BY <1>0, <2>2
    <2>. HIDE DEF e
    <2>. QED
      BY <2>1, <2>2, <2>3, SetEventInv
  <1>3. ASSUME NEW token, ReleaseOutbox(id, o, token) PROVE IInv'
    <2>. DEFINE e == [outbox[id][o] EXCEPT !.status = "pending", !.avail = now + ReleaseDelay,
                                           !.token = NoToken, !.until = NoTime]
    <2>1. e.gen = outbox[id][o].gen
      BY <1>0 DEF Event
    <2>2. SetEvent(id, o, e) /\ UNCHANGED <<task, attempts, held>> /\ tokens' = tokens
      BY <1>3 DEF ReleaseOutbox
    <2>3. tokens' \in Nat /\ tokens' >= tokens
      BY <1>0, <2>2
    <2>. HIDE DEF e
    <2>. QED
      BY <2>1, <2>2, <2>3, SetEventInv
  <1>. QED
    BY <1>1, <1>2, <1>3

LEMMA RecoverOutboxInv ==
    ASSUME IInv, TypeOK', NEW R \in SUBSET Rows, RecoverOutbox(R) PROVE IInv'
  <1>1. ASSUME NEW id \in Ids
        PROVE  /\ Len(outbox'[id]) = Len(outbox[id])
               /\ \A o \in 1..Len(outbox[id]) : outbox'[id][o].gen = outbox[id][o].gen
    <2>0. /\ outbox[id] \in Seq(Event) /\ Len(outbox[id]) \in Nat
          /\ \A o \in 1..Len(outbox[id]) : outbox[id][o] \in Event
      BY DEF IInv, TypeOK
    <2>1. outbox'[id] = [o \in 1..Len(outbox[id]) |->
            IF <<id, o>> \in R
            THEN [outbox[id][o] EXCEPT !.status = "pending", !.token = NoToken,
                                       !.until = NoTime]
            ELSE outbox[id][o]]
      BY DEF RecoverOutbox
    <2>2. Len(outbox'[id]) = Len(outbox[id])
      <3>1. ASSUME NEW f, NEW k \in Nat, DOMAIN f = 1..k, f = [o \in 1..k |-> f[o]]
            PROVE  Len(f) = k
        BY <3>1
      <3>2. /\ DOMAIN outbox'[id] = 1..Len(outbox[id])
            /\ outbox'[id] = [o \in 1..Len(outbox[id]) |-> outbox'[id][o]]
        BY <2>1
      <3>. QED
        BY <2>0, <3>1, <3>2
    <2>3. ASSUME NEW e \in Event
          PROVE  [e EXCEPT !.status = "pending", !.token = NoToken, !.until = NoTime].gen
                   = e.gen
      BY DEF Event
    <2>4. \A o \in 1..Len(outbox[id]) : outbox'[id][o].gen = outbox[id][o].gen
      BY <2>0, <2>1, <2>3
    <2>. QED
      BY <2>2, <2>4
  <1>2. UNCHANGED <<task, attempts, held>> /\ tokens' = tokens /\ tokens \in Nat
    BY DEF RecoverOutbox, IInv, TypeOK
  <1>3. tokens' \in Nat /\ tokens' >= tokens
    BY <1>2
  <1>. QED
    BY <1>1, <1>2, <1>3, OutboxStep

LEMMA InductiveInit == Init => IInv
  <1> SUFFICES ASSUME Init PROVE IInv
    OBVIOUS
  <1>1. ASSUME NEW id \in Ids PROVE TaskOK(id)
    <2>1. task[id] = Absent /\ attempts[id] = <<>> /\ outbox[id] = <<>>
      BY DEF Init
    <2>2. RowOK(task[id])
      BY <2>1, StoreAssumption DEF RowOK, Absent
    <2>3. AttemptsOK(task[id], attempts[id]) /\ EventsOK(task[id], outbox[id])
      BY <2>1 DEF AttemptsOK, EventsOK, Absent
    <2>. QED
      BY <2>2, <2>3 DEF TaskOK
  <1>. QED
    BY <1>1, TypeInit DEF IInv, Init

(* IInv is inductive: one step per action of Next.                         *)
LEMMA InductiveStep == IInv /\ [Next]_vars => IInv'
  <1> SUFFICES ASSUME IInv, [Next]_vars PROVE IInv'
    OBVIOUS
  <1>0. TypeOK'
    BY TypeStep DEF IInv
  <1>1. CASE ApiStep
    BY <1>0, <1>1, ApiInv
  <1>2. CASE WorkerStep
    <2>1. ASSUME NEW n \in held, NEW next \in RetryTimes, NEW route \in DelayRoutes,
                 NEW t \in AppNow, Schedulable(n, next), FinishRetry(n, next, route, t)
          PROVE  IInv'
      BY <1>0, <2>1, RetryInv DEF FinishRetry, Finishable
    <2>. QED
      BY <1>0, <1>2, <2>1, ClaimInv, DeferInv, FinishFinalInv DEF WorkerStep
  <1>3. CASE RecoveryStep
    <2>1. ASSUME NEW n \in held, NEW next \in RetryTimes, NEW route \in DelayRoutes,
                 NEW t \in AppNow, Schedulable(n, next), RecoverRetry(n, next, route, t)
          PROVE  IInv'
      BY <1>0, <2>1, RetryInv DEF RecoverRetry, Recoverable
    <2>. QED
      BY <1>0, <1>3, <2>1, RecoverFailInv, ReconcileInv, RecoverOutboxInv
         DEF RecoveryStep, LeaseStep, RepairStep
  <1>4. CASE DispatcherStep
    BY <1>0, <1>4, DispatcherInv
  <1>5. CASE Tick
    BY <1>0, <1>5, OutboxStep DEF Tick, tables, IInv, TypeOK
  <1>6. CASE UNCHANGED vars
    BY <1>0, <1>6, OutboxStep DEF vars, IInv, TypeOK
  <1>. QED
    BY <1>1, <1>2, <1>3, <1>4, <1>5, <1>6 DEF Next

THEOREM Inductive == Spec => []IInv
  BY InductiveInit, InductiveStep, PTL DEF Spec
-----------------------------------------------------------------------------
(* The invariants of the specification *)

LEMMA InvOutbox == IInv => TriggerExists /\ OneEventPerGeneration
  <1> SUFFICES ASSUME IInv, NEW id \in Ids
               PROVE  /\ task[id].status = "pending" =>
                           \E o \in Events(id) : outbox[id][o].gen = task[id].gen
                      /\ \A o \in Events(id) : outbox[id][o].gen \in 1..task[id].gen
                      /\ \A o, p \in Events(id) :
                           outbox[id][o].gen = outbox[id][p].gen => o = p
    BY DEF TriggerExists, OneEventPerGeneration
  <1>1. EventsOK(task[id], outbox[id]) /\ Len(outbox[id]) \in Nat
    BY DEF IInv, TaskOK, TypeOK
  <1>2. task[id].gen \in Nat
    BY DEF IInv, TypeOK, Task
  <1>3. task[id].status = "pending" =>
          \E o \in Events(id) : outbox[id][o].gen = task[id].gen
    BY <1>1 DEF EventsOK, Events
  <1>4. \A o \in Events(id) : outbox[id][o].gen \in 1..task[id].gen
    BY <1>1 DEF EventsOK, Events
  <1>5. ASSUME NEW o \in Events(id), NEW p \in Events(id),
               outbox[id][o].gen = outbox[id][p].gen
        PROVE  o = p
    <2>1. o \in 1..Len(outbox[id]) /\ p \in 1..Len(outbox[id])
      BY DEF Events
    <2>2. o < p => outbox[id][o].gen < outbox[id][p].gen
      BY <1>1, <2>1 DEF EventsOK
    <2>3. p < o => outbox[id][p].gen < outbox[id][o].gen
      BY <1>1, <2>1 DEF EventsOK
    <2>4. outbox[id][o].gen \in Nat /\ outbox[id][p].gen \in Nat
      BY <1>2, <1>4
    <2>. QED
      BY <1>1, <1>5, <2>1, <2>2, <2>3, <2>4
  <1>. QED
    BY <1>3, <1>4, <1>5

LEMMA InvAttempts ==
    IInv => /\ OneAttemptPerGeneration /\ AttemptLedger /\ OpenAttemptIsLeased
            /\ SuccessIsFinal
  <1> SUFFICES ASSUME IInv
               PROVE  /\ OneAttemptPerGeneration /\ AttemptLedger
                      /\ OpenAttemptIsLeased /\ SuccessIsFinal
    OBVIOUS
  <1>1. ASSUME NEW id \in Ids
        PROVE  /\ AttemptsOK(task[id], attempts[id]) /\ attempts[id] \in Seq(Attempt)
               /\ Len(attempts[id]) \in Nat
               /\ \A i \in 1..Len(attempts[id]) : attempts[id][i].gen \in Nat
    <2>1. /\ AttemptsOK(task[id], attempts[id]) /\ attempts[id] \in Seq(Attempt)
      BY DEF IInv, TaskOK, TypeOK
    <2>2. \A i \in 1..Len(attempts[id]) : attempts[id][i] \in Attempt
      BY <2>1
    <2>. QED
      BY <2>1, <2>2 DEF Attempt
  <1>2. ASSUME NEW id \in Ids, NEW i \in Attempted(id), NEW j \in Attempted(id),
               attempts[id][i].gen = attempts[id][j].gen
        PROVE  i = j
    <2>1. i \in 1..Len(attempts[id]) /\ j \in 1..Len(attempts[id])
      BY DEF Attempted
    <2>2. i < j => attempts[id][i].gen < attempts[id][j].gen
      BY <1>1, <2>1 DEF AttemptsOK
    <2>3. j < i => attempts[id][j].gen < attempts[id][i].gen
      BY <1>1, <2>1 DEF AttemptsOK
    <2>4. attempts[id][i].gen \in Nat /\ attempts[id][j].gen \in Nat
      BY <1>1, <2>1
    <2>. QED
      BY <1>1, <1>2, <2>1, <2>2, <2>3, <2>4
  <1>3. AttemptLedger
    BY <1>1 DEF AttemptLedger, AttemptsOK, Attempted
  <1>4. ASSUME NEW id \in Ids, NEW i \in Attempted(id)
        PROVE  /\ attempts[id][i].result = "started" <=>
                    /\ task[id].status = "in_flight"
                    /\ i = task[id].attempts
                    /\ attempts[id][i].lease = task[id].lease
                    /\ attempts[id][i].gen = task[id].gen
               /\ attempts[id][i].result = "success" <=>
                    task[id].status = "delivered" /\ i = task[id].attempts
    <2>1. i \in 1..Len(attempts[id]) /\ Len(attempts[id]) = task[id].attempts
      BY <1>1 DEF Attempted, AttemptsOK
    <2>2. CASE i = Len(attempts[id])
      BY <1>1, <2>1, <2>2 DEF AttemptsOK
    <2>3. CASE i < Len(attempts[id])
      <3>1. attempts[id][i].result \notin {"started", "success"} /\ i # task[id].attempts
        BY <1>1, <2>1, <2>3 DEF AttemptsOK
      <3>. QED
        BY <3>1
    <2>. QED
      BY <1>1, <2>1, <2>2, <2>3
  <1>. QED
    BY <1>2, <1>3, <1>4 DEF OneAttemptPerGeneration, OpenAttemptIsLeased, SuccessIsFinal

LEMMA InvRows == IInv => HolderIsCurrent /\ CycleBounded
  <1> SUFFICES ASSUME IInv PROVE HolderIsCurrent /\ CycleBounded
    OBVIOUS
  <1>1. ASSUME NEW n \in held, task[n.id].lease = n.lease
        PROVE  task[n.id].status = "in_flight" /\ n = CopyOf(n.id, task[n.id])
    <2>1. n.id \in Ids /\ HeldOK(n) /\ tokens \in Nat
      BY DEF IInv, TypeOK, Copy
    <2>2. RowOK(task[n.id])
      BY <2>1 DEF IInv, TaskOK
    <2>3. n.lease # NoToken
      BY <2>1 DEF HeldOK, NoToken
    <2>. QED
      BY <1>1, <2>1, <2>2, <2>3 DEF HeldOK, RowOK
  <1>. QED
    BY <1>1 DEF HolderIsCurrent, CycleBounded, IInv, TaskOK, RowOK

(* No pending notification is orphaned: whoever moved it into its current  *)
(* generation left the event that triggers it (delivery.go:92,             *)
(* recovery.go:57, recovery.go:108, recovery.go:135).                      *)
THEOREM NeverOrphaned == Spec => []TriggerExists
  BY Inductive, InvOutbox, PTL

(* No generation is announced twice, whoever of Finish, DeferPending,      *)
(* RecoverLease, Reconcile and ManualRetry races with whom.                *)
THEOREM AnnouncedOnce == Spec => []OneEventPerGeneration
  BY Inductive, InvOutbox, PTL

(* Duplicate, late and concurrent triggers cannot start a generation       *)
(* twice.                                                                  *)
THEOREM AttemptedOnce == Spec => []OneAttemptPerGeneration
  BY Inductive, InvAttempts, PTL

(* The attempt log numbers the attempts of the task without gap or         *)
(* repetition (delivery.go:36).                                            *)
THEOREM LedgerCorrect == Spec => []AttemptLedger
  BY Inductive, InvAttempts, PTL

(* One attempt is open, exactly while the task carries its lease           *)
(* (delivery.go:65, recovery.go:38).                                       *)
THEOREM OpenIsLeased == Spec => []OpenAttemptIsLeased
  BY Inductive, InvAttempts, PTL

(* A task is delivered exactly when its last attempt succeeded             *)
(* (delivery.go:55-65).                                                    *)
THEOREM SuccessEndsTask == Spec => []SuccessIsFinal
  BY Inductive, InvAttempts, PTL

(* The fencing token: a caller that may still write holds the row as it is. *)
THEOREM FencingCorrect == Spec => []HolderIsCurrent
  BY Inductive, InvRows, PTL

(* The number of automatic attempts is bounded by the policy, across       *)
(* retries, recovered leases, deferrals and reconciliations.               *)
THEOREM RetriesBounded == Spec => []CycleBounded
  BY Inductive, InvRows, PTL
-----------------------------------------------------------------------------
(* What a step does to a notification *)

(* The outbox gains the event that announces the next generation.          *)
Announces(id) ==
    \E e \in Event : e.gen = task[id].gen + 1 /\ outbox'[id] = Append(outbox[id], e)

(* At most the progress of its outbox rows towards published.              *)
Stays(id) ==
    /\ task'[id] = task[id] /\ attempts'[id] = attempts[id]
    /\ Len(outbox'[id]) = Len(outbox[id])
    /\ \A o \in Events(id) :
         /\ outbox'[id][o].gen = outbox[id][o].gen
         /\ outbox[id][o].status = "published" => outbox'[id][o] = outbox[id][o]

(* Accept, DeferPending, Reconcile, ManualRetry.                           *)
Waits(id) ==
    /\ task[id].status \in {"absent", "pending", "failed"}
    /\ task'[id].status = "pending" /\ task'[id].gen = task[id].gen + 1
    /\ attempts'[id] = attempts[id]
    /\ Announces(id)

(* Claim.                                                                  *)
Claims(id) ==
    /\ task[id].status = "pending"
    /\ task'[id].status = "in_flight" /\ task'[id].gen = task[id].gen
    /\ \E a \in Attempt : a.gen = task[id].gen /\ attempts'[id] = Append(attempts[id], a)
    /\ outbox'[id] = outbox[id]

(* Finish and RecoverLease.                                                *)
Settles(id) ==
    /\ task[id].status = "in_flight"
    /\ Len(attempts'[id]) = Len(attempts[id])
    /\ \A i \in Attempted(id) :
         /\ attempts'[id][i].gen = attempts[id][i].gen
         /\ attempts[id][i].result # "started" => attempts'[id][i] = attempts[id][i]
    /\ \/ task'[id].status = "pending" /\ task'[id].gen = task[id].gen + 1 /\ Announces(id)
       \/ /\ \/ task'[id].status = "delivered" /\ task'[id].gen = task[id].gen
             \/ task'[id].status = "failed" /\ task'[id].gen \in {task[id].gen, task[id].gen + 1}
          /\ outbox'[id] = outbox[id]

(* Every step is one of these, for one notification; Reconcile is one for  *)
(* several that wait.                                                      *)
Shape ==
    \/ \A id \in Ids : Stays(id)
    \/ \E id \in Ids : /\ Waits(id) \/ Claims(id) \/ Settles(id)
                       /\ \A j \in Ids \ {id} : Stays(j)
    \/ \E S \in SUBSET Ids :
         /\ S # {}
         /\ \A id \in S : task[id].status = "pending" /\ Waits(id)
         /\ \A j \in Ids \ S : Stays(j)

LEMMA StaysFrame ==
    ASSUME NEW id, task'[id] = task[id], attempts'[id] = attempts[id],
           outbox'[id] = outbox[id]
    PROVE  Stays(id)
  BY DEF Stays

LEMMA AnnounceEffect ==
    ASSUME TypeOK, NEW id \in Ids, NEW gen \in Nat, gen = task[id].gen + 1,
           NEW route \in Routes, NEW t \in Int,
           outbox'[id] = Append(outbox[id], insertEvent(gen, route, t))
    PROVE  Announces(id)
  <1>1. insertEvent(gen, route, t) \in Event /\ insertEvent(gen, route, t).gen = gen
    BY EventType DEF insertEvent
  <1>. QED
    BY <1>1 DEF Announces

(* CloseAttempt writes the one attempt that is open.                       *)
LEMMA CloseEffect ==
    ASSUME IInv, NEW n \in held, Fenced(n), NEW result, NEW onlyOpen,
           CloseAttempt(n, result, onlyOpen)
    PROVE  /\ Len(attempts'[n.id]) = Len(attempts[n.id])
           /\ \A i \in Attempted(n.id) :
                /\ attempts'[n.id][i].gen = attempts[n.id][i].gen
                /\ attempts[n.id][i].result # "started" =>
                     attempts'[n.id][i] = attempts[n.id][i]
           /\ \A j \in Ids \ {n.id} : attempts'[j] = attempts[j]
  <1>. DEFINE led == attempts[n.id]
              new == attempts'[n.id]
  <1>1. /\ n.id \in Ids /\ task[n.id].status = "in_flight"
        /\ n = CopyOf(n.id, task[n.id])
    BY FencedCopy
  <1>2. /\ led \in Seq(Attempt) /\ Len(led) \in Nat
        /\ \A i \in 1..Len(led) : led[i] \in Attempt
        /\ AttemptsOK(task[n.id], led)
    BY <1>1 DEF IInv, TypeOK, TaskOK
  <1>3. new = [i \in 1..Len(led) |->
                 IF /\ led[i].no = n.attempts
                    /\ led[i].lease = n.lease
                    /\ onlyOpen => led[i].result = "started"
                 THEN [led[i] EXCEPT !.result = result]
                 ELSE led[i]]
    BY <1>1 DEF CloseAttempt, IInv, TypeOK
  <1>4. Len(new) = Len(led)
    BY <1>2, <1>3
  <1>5. n.attempts = Len(led) /\ led[Len(led)].result = "started"
    BY <1>1, <1>2 DEF CopyOf, AttemptsOK
  <1>6. ASSUME NEW i \in 1..Len(led)
        PROVE  new[i].gen = led[i].gen /\ (led[i].result # "started" => new[i] = led[i])
    <2>1. led[i].no = i /\ led[i] \in Attempt
      BY <1>2 DEF AttemptsOK
    <2>2. CASE i = Len(led)
      <3>1. [led[i] EXCEPT !.result = result].gen = led[i].gen
        BY <2>1 DEF Attempt
      <3>. QED
        BY <1>3, <1>5, <2>2, <3>1
    <2>3. CASE i # Len(led)
      BY <1>3, <1>5, <2>1, <2>3
    <2>. QED
      BY <2>2, <2>3
  <1>7. \A j \in Ids \ {n.id} : attempts'[j] = attempts[j]
    BY <1>1 DEF CloseAttempt, IInv, TypeOK
  <1>. QED
    BY <1>4, <1>6, <1>7 DEF Attempted

LEMMA FinalShape ==
    ASSUME IInv, NEW n \in held, Fenced(n), NEW status \in {"delivered", "failed"},
           NEW gen \in {n.gen, n.gen + 1}, status = "delivered" => gen = n.gen, NEW next,
           NEW result, NEW onlyOpen,
           task' = [task EXCEPT ![n.id] = Ended(n, status, gen, next)],
           CloseAttempt(n, result, onlyOpen), outbox' = outbox
    PROVE  Settles(n.id) /\ \A j \in Ids \ {n.id} : Stays(j)
  <1>1. /\ n.id \in Ids /\ task[n.id] \in Task /\ task[n.id].status = "in_flight"
        /\ n.gen = task[n.id].gen
    BY FencedCopy DEF Fenced
  <1>2. task'[n.id].status = status /\ task'[n.id].gen = gen
    BY <1>1, EndedFields DEF IInv, TypeOK
  <1>3. \A j \in Ids \ {n.id} : task'[j] = task[j]
    BY <1>1 DEF IInv, TypeOK
  <1>. QED
    BY <1>1, <1>2, <1>3, CloseEffect, StaysFrame DEF Settles

LEMMA RetryShape ==
    ASSUME IInv, NEW n \in held, Fenced(n), NEW next, NEW route \in Routes, NEW t \in Int,
           NEW result, NEW onlyOpen,
           task' = [task EXCEPT ![n.id] = Ended(n, "pending", n.gen + 1, next)],
           CloseAttempt(n, result, onlyOpen),
           AddEvent(n.id, insertEvent(n.gen + 1, route, t))
    PROVE  Settles(n.id) /\ \A j \in Ids \ {n.id} : Stays(j)
  <1>1. /\ n.id \in Ids /\ task[n.id] \in Task /\ task[n.id].status = "in_flight"
        /\ n.gen = task[n.id].gen /\ n.gen + 1 \in Nat /\ TypeOK
    BY FencedCopy DEF Fenced, Task, IInv
  <1>2. task'[n.id].status = "pending" /\ task'[n.id].gen = n.gen + 1
    BY <1>1, EndedFields DEF IInv, TypeOK
  <1>3. \A j \in Ids \ {n.id} : task'[j] = task[j] /\ outbox'[j] = outbox[j]
    BY <1>1 DEF TypeOK, AddEvent
  <1>4. Announces(n.id)
    <2>1. outbox'[n.id] = Append(outbox[n.id], insertEvent(n.gen + 1, route, t))
      BY <1>1 DEF TypeOK, AddEvent
    <2>. QED
      BY <1>1, <2>1, AnnounceEffect
  <1>. QED
    BY <1>1, <1>2, <1>3, <1>4, CloseEffect, StaysFrame DEF Settles

(* A write to one outbox row that is not published.                        *)
LEMMA SetEventShape ==
    ASSUME TypeOK, NEW id \in Ids, NEW o \in 1..Len(outbox[id]), NEW e,
           e.gen = outbox[id][o].gen, outbox[id][o].status # "published",
           SetEvent(id, o, e), UNCHANGED <<task, attempts>>
    PROVE  \A j \in Ids : Stays(j)
  <1>1. outbox[id] \in Seq(Event) /\ outbox \in [Ids -> Seq(Event)]
    BY DEF TypeOK
  <1>2. outbox'[id] = [outbox[id] EXCEPT ![o] = e]
    BY <1>1 DEF SetEvent
  <1>3. /\ Len(outbox'[id]) = Len(outbox[id])
        /\ \A p \in 1..Len(outbox[id]) :
             /\ outbox'[id][p].gen = outbox[id][p].gen
             /\ outbox[id][p].status = "published" => outbox'[id][p] = outbox[id][p]
    BY <1>1, <1>2
  <1>4. \A j \in Ids \ {id} : outbox'[j] = outbox[j]
    BY <1>1 DEF SetEvent
  <1>5. Stays(id)
    BY <1>3 DEF Stays, Events
  <1>. QED
    BY <1>4, <1>5, StaysFrame

LEMMA StepShape == ASSUME IInv, [Next]_vars PROVE Shape
  <1>0. TypeOK /\ "dispatch" \in Routes
    BY DEF IInv, Routes
  <1>a. ASSUME NEW id \in Ids, Waits(id) \/ Claims(id) \/ Settles(id),
               \A j \in Ids \ {id} : Stays(j)
        PROVE  Shape
    BY <1>a DEF Shape
  <1>1. ASSUME NEW id \in Ids, NEW t \in AppNow, NEW duration \in Durations,
               NEW key \in Keys, NEW hash \in Hashes, Accept(id, key, hash, t, duration)
        PROVE  Shape
    <2>1. task[id].gen = 0 /\ task[id].status = "absent" /\ t \in Int
      BY <1>0, <1>1, AppNowType DEF Accept, IInv, TaskOK, RowOK, TypeOK
    <2>2. /\ task'[id].status = "pending" /\ task'[id].gen = 1 /\ attempts' = attempts
          /\ outbox'[id] = Append(outbox[id], insertEvent(1, "dispatch", t))
      BY <1>0, <1>1 DEF Accept, AddEvent, TypeOK
    <2>3. \A j \in Ids \ {id} : task'[j] = task[j] /\ outbox'[j] = outbox[j]
      BY <1>0, <1>1 DEF Accept, AddEvent, TypeOK
    <2>4. Announces(id)
      BY <1>0, <2>1, <2>2, AnnounceEffect
    <2>5. Waits(id)
      BY <2>1, <2>2, <2>4 DEF Waits
    <2>. QED
      BY <1>a, <2>2, <2>3, <2>5, StaysFrame
  <1>2. ASSUME NEW id \in Ids, NEW t \in AppNow, NEW duration \in Durations,
               NEW gen \in 1..task[id].gen, ManualRetry(id, gen, t, duration)
        PROVE  Shape
    <2>1. /\ gen = task[id].gen /\ task[id].status = "failed" /\ t \in Int
          /\ task[id] \in Task
      BY <1>0, <1>2, AppNowType DEF ManualRetry, Retriable, TypeOK
    <2>2. gen + 1 \in Nat
      BY <2>1 DEF Task
    <2>3. task'[id] = [task[id] EXCEPT !.status = "pending", !.gen = gen + 1, !.cycle = 0,
                                       !.next = t, !.deadline = t + duration]
      BY <1>0, <1>2 DEF ManualRetry, TypeOK
    <2>4. task'[id].status = "pending" /\ task'[id].gen = gen + 1
      BY <2>1, <2>3 DEF Task
    <2>5. /\ attempts' = attempts
          /\ outbox'[id] = Append(outbox[id], insertEvent(gen + 1, "dispatch", t))
      BY <1>0, <1>2 DEF ManualRetry, AddEvent, TypeOK
    <2>6. \A j \in Ids \ {id} : task'[j] = task[j] /\ outbox'[j] = outbox[j]
      BY <1>0, <1>2 DEF ManualRetry, AddEvent, TypeOK
    <2>7. Announces(id)
      BY <1>0, <2>1, <2>2, <2>5, AnnounceEffect
    <2>8. Waits(id)
      BY <2>1, <2>4, <2>5, <2>7 DEF Waits
    <2>. QED
      BY <1>a, <2>5, <2>6, <2>8, StaysFrame
  <1>3. ASSUME NEW id \in Ids, NEW gen, Claim(id, gen) PROVE Shape
    <2>. DEFINE row == Leased(id, tokens + 1)
                a == [no |-> row.attempts, gen |-> row.gen, lease |-> tokens + 1,
                      result |-> "started"]
    <2>1. /\ task[id] \in Task /\ tokens + 1 \in Nat /\ task[id].status = "pending"
      BY <1>0, <1>3 DEF TypeOK, Claim, Claimable
    <2>2. row \in Task
      BY <1>0, <2>1, LeasedType
    <2>3. row.status = "in_flight" /\ row.gen = task[id].gen
      BY <2>1 DEF Leased, Task
    <2>4. task'[id] = row /\ attempts'[id] = Append(attempts[id], a) /\ outbox' = outbox
      BY <1>0, <1>3 DEF Claim, TypeOK
    <2>5. \A j \in Ids \ {id} : task'[j] = task[j] /\ attempts'[j] = attempts[j]
      BY <1>0, <1>3 DEF Claim, TypeOK
    <2>. HIDE DEF row
    <2>6. a \in Attempt /\ a.gen = task[id].gen
      BY <2>1, <2>2, <2>3 DEF Attempt, Task, Results
    <2>. HIDE DEF a
    <2>7. Claims(id)
      BY <2>1, <2>3, <2>4, <2>6 DEF Claims
    <2>. QED
      BY <1>a, <2>4, <2>5, <2>7, StaysFrame
  <1>4. ASSUME NEW id \in Ids, NEW gen, NEW t \in AppNow, DeferPending(id, gen, t)
        PROVE  Shape
    <2>1. /\ gen = task[id].gen /\ task[id].status = "pending"
          /\ t + DeferDelay \in Int /\ task[id] \in Task
      BY <1>0, <1>4, AppNowType, StoreAssumption DEF DeferPending, Deferrable, TypeOK
    <2>2. gen + 1 \in Nat
      BY <2>1 DEF Task
    <2>3. task'[id] = [task[id] EXCEPT !.gen = gen + 1, !.next = t + DeferDelay]
      BY <1>0, <1>4 DEF DeferPending, TypeOK
    <2>4. task'[id].status = "pending" /\ task'[id].gen = gen + 1
      BY <2>1, <2>3 DEF Task
    <2>5. /\ attempts' = attempts
          /\ outbox'[id] = Append(outbox[id], insertEvent(gen + 1, "dispatch", t + DeferDelay))
      BY <1>0, <1>4 DEF DeferPending, AddEvent, TypeOK
    <2>6. \A j \in Ids \ {id} : task'[j] = task[j] /\ outbox'[j] = outbox[j]
      BY <1>0, <1>4 DEF DeferPending, AddEvent, TypeOK
    <2>7. Announces(id)
      BY <1>0, <2>1, <2>2, <2>5, AnnounceEffect
    <2>8. Waits(id)
      BY <2>1, <2>4, <2>5, <2>7 DEF Waits
    <2>. QED
      BY <1>a, <2>5, <2>6, <2>8, StaysFrame
  <1>5. ASSUME NEW n \in held, NEW action, FinishFinal(n, action) PROVE Shape
    <2>1. Fenced(n) /\ n.id \in Ids
      BY <1>5, FencedCopy DEF FinishFinal, Finishable
    <2>2. PICK status \in {"delivered", "failed"} :
            task' = [task EXCEPT ![n.id] = Ended(n, status, n.gen, n.next)]
      BY <1>5 DEF FinishFinal
    <2>3. CloseAttempt(n, action, FALSE) /\ outbox' = outbox
      BY <1>5 DEF FinishFinal
    <2>. QED
      BY <1>a, <2>1, <2>2, <2>3, FinalShape
  <1>6. ASSUME NEW n \in held, RecoverFail(n) PROVE Shape
    <2>1. Fenced(n) /\ n.id \in Ids
      BY <1>6, FencedCopy DEF RecoverFail, Recoverable
    <2>2. /\ task' = [task EXCEPT ![n.id] = Ended(n, "failed", n.gen + 1, n.next)]
          /\ CloseAttempt(n, "unknown", TRUE) /\ outbox' = outbox
      BY <1>6 DEF RecoverFail
    <2>3. Settles(n.id) /\ \A j \in Ids \ {n.id} : Stays(j)
      BY <2>1, <2>2, FinalShape
    <2>. QED
      BY <1>a, <2>1, <2>3
  <1>7. ASSUME NEW n \in held, NEW next, NEW route \in DelayRoutes, NEW t \in AppNow,
               FinishRetry(n, next, route, t) \/ RecoverRetry(n, next, route, t)
        PROVE  Shape
    <2>1. Fenced(n) /\ n.id \in Ids
      BY <1>7, FencedCopy DEF FinishRetry, Finishable, RecoverRetry, Recoverable
    <2>2. route \in Routes /\ t \in Int
      BY <1>0, AppNowType DEF Routes, TypeOK
    <2>3. PICK result \in {"retry", "unknown"}, onlyOpen \in BOOLEAN :
            /\ task' = [task EXCEPT ![n.id] = Ended(n, "pending", n.gen + 1, next)]
            /\ CloseAttempt(n, result, onlyOpen)
            /\ AddEvent(n.id, insertEvent(n.gen + 1, route, t))
      BY <1>7 DEF FinishRetry, RecoverRetry
    <2>4. Settles(n.id) /\ \A j \in Ids \ {n.id} : Stays(j)
      BY <2>1, <2>2, <2>3, RetryShape
    <2>. QED
      BY <1>a, <2>1, <2>4
  <1>8. ASSUME NEW S \in SUBSET Ids, NEW t \in AppNow, Reconcile(S, t) PROVE Shape
    <2>1. t \in Int /\ S # {} /\ attempts' = attempts
      BY <1>0, <1>8, AppNowType DEF Reconcile, TypeOK
    <2>2. ASSUME NEW id \in S PROVE task[id].status = "pending" /\ Waits(id)
      <3>1. id \in Ids /\ task[id] \in Task /\ task[id].status = "pending"
        BY <1>0, <1>8 DEF TypeOK, Reconcile, Stale
      <3>2. task[id].gen + 1 \in Nat
        BY <3>1 DEF Task
      <3>3. task'[id] = [task[id] EXCEPT !.gen = @ + 1]
        BY <1>8, <3>1 DEF Reconcile
      <3>4. task'[id].status = "pending" /\ task'[id].gen = task[id].gen + 1
        BY <3>1, <3>3 DEF Task
      <3>5. outbox'[id] = Append(outbox[id], insertEvent(task[id].gen + 1, "dispatch", t))
        BY <1>8, <3>1 DEF Reconcile
      <3>6. Announces(id)
        BY <1>0, <2>1, <3>1, <3>2, <3>5, AnnounceEffect
      <3>. QED
        BY <2>1, <3>1, <3>4, <3>6 DEF Waits
    <2>3. \A j \in Ids \ S : task'[j] = task[j] /\ outbox'[j] = outbox[j]
      BY <1>8 DEF Reconcile
    <2>4. \A j \in Ids \ S : Stays(j)
      BY <2>1, <2>3, StaysFrame
    <2>. QED
      BY <2>1, <2>2, <2>4 DEF Shape
  <1>9. ASSUME NEW R \in SUBSET Rows, RecoverOutbox(R) PROVE Shape
    <2>1. ASSUME NEW id \in Ids PROVE Stays(id)
      <3>0. /\ outbox[id] \in Seq(Event) /\ Len(outbox[id]) \in Nat
            /\ \A o \in 1..Len(outbox[id]) : outbox[id][o] \in Event
        BY <1>0 DEF TypeOK
      <3>1. outbox'[id] = [o \in 1..Len(outbox[id]) |->
              IF <<id, o>> \in R
              THEN [outbox[id][o] EXCEPT !.status = "pending", !.token = NoToken,
                                         !.until = NoTime]
              ELSE outbox[id][o]]
        BY <1>9 DEF RecoverOutbox
      <3>2. Len(outbox'[id]) = Len(outbox[id])
        <4>1. ASSUME NEW f, NEW k \in Nat, DOMAIN f = 1..k, f = [o \in 1..k |-> f[o]]
              PROVE  Len(f) = k
          BY <4>1
        <4>2. /\ DOMAIN outbox'[id] = 1..Len(outbox[id])
              /\ outbox'[id] = [o \in 1..Len(outbox[id]) |-> outbox'[id][o]]
          BY <3>1
        <4>. QED
          BY <3>0, <4>1, <4>2
      <3>3. ASSUME NEW e \in Event
            PROVE  [e EXCEPT !.status = "pending", !.token = NoToken, !.until = NoTime].gen
                     = e.gen
        BY DEF Event
      <3>4. ASSUME NEW o \in 1..Len(outbox[id])
            PROVE  /\ outbox'[id][o].gen = outbox[id][o].gen
                   /\ outbox[id][o].status = "published" => outbox'[id][o] = outbox[id][o]
        <4>1. outbox[id][o].status = "published" => <<id, o>> \notin R
          BY <1>9 DEF RecoverOutbox, Abandoned
        <4>. QED
          BY <3>0, <3>1, <3>3, <4>1
      <3>5. task'[id] = task[id] /\ attempts'[id] = attempts[id]
        BY <1>9 DEF RecoverOutbox
      <3>. QED
        BY <3>2, <3>4, <3>5 DEF Stays, Events
    <2>. QED
      BY <2>1 DEF Shape
  <1>10. ASSUME NEW id \in Ids, NEW o \in 1..Len(outbox[id]), NEW token,
                ClaimOutbox(id, o) \/ Published(id, o, token) \/ ReleaseOutbox(id, o, token)
         PROVE  Shape
    <2>1. outbox[id][o] \in Event
      BY <1>0 DEF TypeOK
    <2>2. \E e : /\ SetEvent(id, o, e) /\ e.gen = outbox[id][o].gen
                 /\ outbox[id][o].status # "published" /\ UNCHANGED <<task, attempts>>
      <3>1. ASSUME NEW s, NEW k, NEW u
            PROVE  [outbox[id][o] EXCEPT !.status = s, !.token = k, !.until = u].gen
                     = outbox[id][o].gen
        BY <2>1 DEF Event
      <3>2. ASSUME NEW s, NEW p, NEW k, NEW u
            PROVE  /\ [outbox[id][o] EXCEPT !.status = s, !.pub = p, !.token = k,
                                            !.until = u].gen = outbox[id][o].gen
                   /\ [outbox[id][o] EXCEPT !.status = s, !.avail = p, !.token = k,
                                            !.until = u].gen = outbox[id][o].gen
        BY <2>1 DEF Event
      <3>3. CASE ClaimOutbox(id, o)
        <4>. DEFINE e == [outbox[id][o] EXCEPT !.status = "publishing",
                            !.token = tokens + 1, !.until = now + PublishTTL]
        <4>1. SetEvent(id, o, e) /\ UNCHANGED <<task, attempts>>
          BY <3>3 DEF ClaimOutbox
        <4>2. outbox[id][o].status # "published"
          BY <3>3 DEF ClaimOutbox, Due
        <4>3. e.gen = outbox[id][o].gen
          BY <3>1
        <4>. HIDE DEF e
        <4>. QED
          BY <4>1, <4>2, <4>3
      <3>4. CASE Published(id, o, token)
        <4>. DEFINE e == [outbox[id][o] EXCEPT !.status = "published", !.pub = now,
                            !.token = NoToken, !.until = NoTime]
        <4>1. SetEvent(id, o, e) /\ UNCHANGED <<task, attempts>>
          BY <3>4 DEF Published
        <4>2. outbox[id][o].status # "published"
          BY <3>4 DEF Published, Publishing
        <4>3. e.gen = outbox[id][o].gen
          BY <3>2
        <4>. HIDE DEF e
        <4>. QED
          BY <4>1, <4>2, <4>3
      <3>5. CASE ReleaseOutbox(id, o, token)
        <4>. DEFINE e == [outbox[id][o] EXCEPT !.status = "pending",
                            !.avail = now + ReleaseDelay, !.token = NoToken, !.until = NoTime]
        <4>1. SetEvent(id, o, e) /\ UNCHANGED <<task, attempts>>
          BY <3>5 DEF ReleaseOutbox
        <4>2. outbox[id][o].status # "published"
          BY <3>5 DEF ReleaseOutbox, Publishing
        <4>3. e.gen = outbox[id][o].gen
          BY <3>2
        <4>. HIDE DEF e
        <4>. QED
          BY <4>1, <4>2, <4>3
      <3>. QED
        BY <1>10, <3>3, <3>4, <3>5
    <2>. QED
      BY <1>0, <2>2, SetEventShape DEF Shape
  <1>11. CASE Tick
    BY <1>11, StaysFrame DEF Tick, tables, Shape
  <1>12. CASE UNCHANGED vars
    BY <1>12, StaysFrame DEF vars, Shape
  <1>13. CASE ApiStep
    BY <1>1, <1>2, <1>13 DEF ApiStep
  <1>14. CASE WorkerStep
    BY <1>3, <1>4, <1>5, <1>7, <1>14 DEF WorkerStep
  <1>15. CASE RecoveryStep
    BY <1>6, <1>7, <1>8, <1>9, <1>15 DEF RecoveryStep, LeaseStep, RepairStep
  <1>16. CASE DispatcherStep
    BY <1>10, <1>16 DEF DispatcherStep
  <1>. QED
    BY <1>11, <1>12, <1>13, <1>14, <1>15, <1>16 DEF Next

-----------------------------------------------------------------------------
(* Records, and the published state machine *)

LEMMA ShapeKeepsRecords ==
    ASSUME IInv, NEW id \in Ids, Stays(id) \/ Waits(id) \/ Claims(id) \/ Settles(id)
    PROVE  /\ task'[id].gen >= task[id].gen
           /\ task[id].status = "delivered" => task'[id] = task[id]
           /\ \A i \in Attempted(id) :
                attempts[id][i].result # "started" => attempts'[id][i] = attempts[id][i]
           /\ \A o \in Events(id) :
                outbox[id][o].status = "published" => outbox'[id][o] = outbox[id][o]
  <1>1. /\ task[id].gen \in Nat /\ attempts[id] \in Seq(Attempt) /\ outbox[id] \in Seq(Event)
    BY DEF IInv, TypeOK, Task
  <1>2. ASSUME NEW e \in Event
        PROVE  \A o \in 1..Len(outbox[id]) : Append(outbox[id], e)[o] = outbox[id][o]
    BY <1>1, AppendProperties
  <1>3. ASSUME NEW a \in Attempt
        PROVE  \A i \in 1..Len(attempts[id]) : Append(attempts[id], a)[i] = attempts[id][i]
    BY <1>1, AppendProperties
  <1>4. Announces(id) => \A o \in Events(id) : outbox'[id][o] = outbox[id][o]
    BY <1>2 DEF Announces, Events
  <1>5. CASE Stays(id)
    BY <1>1, <1>5 DEF Stays
  <1>6. CASE Waits(id)
    BY <1>1, <1>4, <1>6 DEF Waits
  <1>7. CASE Claims(id)
    BY <1>1, <1>3, <1>7 DEF Claims, Attempted
  <1>8. CASE Settles(id)
    BY <1>1, <1>4, <1>8 DEF Settles
  <1>. QED
    BY <1>5, <1>6, <1>7, <1>8

LEMMA RecordsStep ==
    ASSUME IInv, [Next]_vars
    PROVE  \A id \in Ids :
        /\ task'[id].gen >= task[id].gen
        /\ task[id].status = "delivered" => task'[id] = task[id]
        /\ \A i \in Attempted(id) :
             attempts[id][i].result # "started" => attempts'[id][i] = attempts[id][i]
        /\ \A o \in Events(id) :
             outbox[id][o].status = "published" => outbox'[id][o] = outbox[id][o]
  <1>1. \A id \in Ids : Stays(id) \/ Waits(id) \/ Claims(id) \/ Settles(id)
    BY StepShape DEF Shape
  <1>. QED
    BY <1>1, ShapeKeepsRecords

(* recovery.go:49, outbox.go:35: no transaction of any caller takes back   *)
(* what has been recorded: results of closed attempts, published rows,     *)
(* deliveries, generations.                                                *)
THEOREM RecordsAreKept == Spec => RecordsStand
  <1>1. IInv /\ [Next]_vars =>
          [\A id \in Ids :
             /\ task'[id].gen >= task[id].gen
             /\ task[id].status = "delivered" => task'[id] = task[id]
             /\ \A i \in Attempted(id) :
                  attempts[id][i].result # "started" => attempts'[id][i] = attempts[id][i]
             /\ \A o \in Events(id) :
                  outbox[id][o].status = "published" => outbox'[id][o] = outbox[id][o]]_vars
    BY RecordsStep
  <1>. QED
    BY <1>1, Inductive, PTL DEF Spec, RecordsStand

-----------------------------------------------------------------------------
(* The refinement mapping, by name: what Lifecycle sees of the tables.     *)
statusBar == [id \in Ids |-> task[id].status]
genBar == [id \in Ids |-> task[id].gen]
attemptedBar == [id \in Ids |-> {attempts[id][i].gen : i \in Attempted(id)}]
announcedBar == [id \in Ids |-> {outbox[id][o].gen : o \in Events(id)}]

LEMMA AppendedGenerations ==
    ASSUME NEW T, NEW s \in Seq(T), NEW e \in T
    PROVE  {Append(s, e)[i].gen : i \in 1..Len(Append(s, e))}
             = {s[i].gen : i \in 1..Len(s)} \cup {e.gen}
  <1>1. /\ Len(s) \in Nat /\ Len(Append(s, e)) = Len(s) + 1
        /\ \A i \in 1..Len(s) : Append(s, e)[i] = s[i]
        /\ Append(s, e)[Len(s) + 1] = e
    BY AppendProperties
  <1>2. \A i \in 1..(Len(s) + 1) : i \in 1..Len(s) \/ i = Len(s) + 1
    BY <1>1
  <1>3. \A i \in 1..Len(s) : i \in 1..(Len(s) + 1)
    BY <1>1
  <1>4. Len(s) + 1 \in 1..(Len(s) + 1)
    BY <1>1
  <1>. QED
    BY <1>1, <1>2, <1>3, <1>4

LEMMA SameGenerations ==
    ASSUME NEW s, NEW t, Len(t) = Len(s), \A i \in 1..Len(s) : t[i].gen = s[i].gen
    PROVE  {t[i].gen : i \in 1..Len(t)} = {s[i].gen : i \in 1..Len(s)}
  OBVIOUS

LEMMA AnnouncedBar ==
    ASSUME IInv, NEW id \in Ids, Announces(id)
    PROVE  announcedBar'[id] = announcedBar[id] \cup {genBar[id] + 1}
  <1>1. PICK e \in Event : e.gen = task[id].gen + 1 /\ outbox'[id] = Append(outbox[id], e)
    BY DEF Announces
  <1>2. outbox[id] \in Seq(Event)
    BY DEF IInv, TypeOK
  <1>3. {outbox'[id][o].gen : o \in 1..Len(outbox'[id])}
          = {outbox[id][o].gen : o \in 1..Len(outbox[id])} \cup {task[id].gen + 1}
    BY <1>1, <1>2, AppendedGenerations
  <1>. QED
    BY <1>3 DEF announcedBar, genBar, Events

LEMMA StaysBar ==
    ASSUME NEW id \in Ids, Stays(id)
    PROVE  /\ statusBar'[id] = statusBar[id] /\ genBar'[id] = genBar[id]
           /\ attemptedBar'[id] = attemptedBar[id] /\ announcedBar'[id] = announcedBar[id]
  <1>1. {outbox'[id][o].gen : o \in 1..Len(outbox'[id])}
          = {outbox[id][o].gen : o \in 1..Len(outbox[id])}
    BY SameGenerations DEF Stays, Events
  <1>2. attempts'[id] = attempts[id] /\ task'[id] = task[id]
    BY DEF Stays
  <1>. QED
    BY <1>1, <1>2 DEF statusBar, genBar, attemptedBar, announcedBar, Events, Attempted

LEMMA WaitsBar ==
    ASSUME IInv, NEW id \in Ids, Waits(id)
    PROVE  /\ statusBar[id] \in {"absent", "pending", "failed"}
           /\ statusBar'[id] = "pending" /\ genBar'[id] = genBar[id] + 1
           /\ attemptedBar'[id] = attemptedBar[id]
           /\ announcedBar'[id] = announcedBar[id] \cup {genBar[id] + 1}
  BY AnnouncedBar DEF Waits, statusBar, genBar, attemptedBar, Attempted

(* Claim starts a generation that was announced and never attempted.       *)
LEMMA ClaimsBar ==
    ASSUME IInv, NEW id \in Ids, Claims(id)
    PROVE  /\ statusBar[id] = "pending" /\ statusBar'[id] = "in_flight"
           /\ genBar[id] \notin attemptedBar[id] /\ genBar[id] \in announcedBar[id]
           /\ genBar'[id] = genBar[id]
           /\ attemptedBar'[id] = attemptedBar[id] \cup {genBar[id]}
           /\ announcedBar'[id] = announcedBar[id]
  <1>1. /\ task[id].status = "pending" /\ attempts[id] \in Seq(Attempt)
        /\ Len(outbox[id]) \in Nat /\ task[id].gen \in Nat
        /\ AttemptsOK(task[id], attempts[id]) /\ EventsOK(task[id], outbox[id])
    BY DEF Claims, IInv, TypeOK, TaskOK, Task
  <1>2. \A i \in Attempted(id) : attempts[id][i].gen # task[id].gen
    BY <1>1 DEF AttemptsOK, Attempted
  <1>3. \E o \in Events(id) : outbox[id][o].gen = task[id].gen
    BY <1>1 DEF EventsOK, Events
  <1>4. PICK a \in Attempt : a.gen = task[id].gen /\ attempts'[id] = Append(attempts[id], a)
    BY DEF Claims
  <1>5. {attempts'[id][i].gen : i \in 1..Len(attempts'[id])}
          = {attempts[id][i].gen : i \in 1..Len(attempts[id])} \cup {task[id].gen}
    BY <1>1, <1>4, AppendedGenerations
  <1>6. attemptedBar'[id] = attemptedBar[id] \cup {genBar[id]}
    BY <1>5 DEF attemptedBar, genBar, Attempted
  <1>7. genBar[id] \notin attemptedBar[id]
    BY <1>2 DEF attemptedBar, genBar
  <1>8. genBar[id] \in announcedBar[id]
    BY <1>3 DEF announcedBar, genBar
  <1>9. announcedBar'[id] = announcedBar[id]
    BY DEF Claims, announcedBar, Events
  <1>. QED
    BY <1>6, <1>7, <1>8, <1>9 DEF Claims, statusBar, genBar

LEMMA SettlesBar ==
    ASSUME IInv, NEW id \in Ids, Settles(id)
    PROVE  /\ statusBar[id] = "in_flight" /\ attemptedBar'[id] = attemptedBar[id]
           /\ \/ /\ statusBar'[id] = "pending" /\ genBar'[id] = genBar[id] + 1
                 /\ announcedBar'[id] = announcedBar[id] \cup {genBar[id] + 1}
              \/ /\ statusBar'[id] = "delivered" /\ genBar'[id] = genBar[id]
                 /\ announcedBar'[id] = announcedBar[id]
              \/ /\ statusBar'[id] = "failed" /\ genBar'[id] \in {genBar[id], genBar[id] + 1}
                 /\ announcedBar'[id] = announcedBar[id]
  <1>1. {attempts'[id][i].gen : i \in 1..Len(attempts'[id])}
          = {attempts[id][i].gen : i \in 1..Len(attempts[id])}
    BY SameGenerations DEF Settles, Attempted
  <1>2. attemptedBar'[id] = attemptedBar[id]
    BY <1>1 DEF attemptedBar, Attempted
  <1>3. outbox'[id] = outbox[id] => announcedBar'[id] = announcedBar[id]
    BY DEF announcedBar, Events
  <1>. QED
    BY <1>2, <1>3, AnnouncedBar DEF Settles, statusBar, genBar

(* A mapped function that changes at one place.                            *)
LEMMA BarUpdate ==
    ASSUME NEW f, NEW g, DOMAIN f = Ids, DOMAIN g = Ids, f = [j \in Ids |-> f[j]],
           g = [j \in Ids |-> g[j]],
           NEW id \in Ids, \A j \in Ids \ {id} : g[j] = f[j]
    PROVE  g = [f EXCEPT ![id] = g[id]]
  OBVIOUS

LEMMA BarFunctions ==
    /\ statusBar = [j \in Ids |-> statusBar[j]] /\ statusBar' = [j \in Ids |-> statusBar'[j]]
    /\ genBar = [j \in Ids |-> genBar[j]] /\ genBar' = [j \in Ids |-> genBar'[j]]
    /\ attemptedBar = [j \in Ids |-> attemptedBar[j]]
    /\ attemptedBar' = [j \in Ids |-> attemptedBar'[j]]
    /\ announcedBar = [j \in Ids |-> announcedBar[j]]
    /\ announcedBar' = [j \in Ids |-> announcedBar'[j]]
  BY DEF statusBar, genBar, attemptedBar, announcedBar

(* One step of Lifecycle for one notification.                             *)
LEMMA OneBar ==
    ASSUME NEW id \in Ids, \A j \in Ids \ {id} : Stays(j)
    PROVE  /\ statusBar' = [statusBar EXCEPT ![id] = statusBar'[id]]
           /\ genBar' = [genBar EXCEPT ![id] = genBar'[id]]
           /\ attemptedBar' = [attemptedBar EXCEPT ![id] = attemptedBar'[id]]
           /\ announcedBar' = [announcedBar EXCEPT ![id] = announcedBar'[id]]
  BY BarFunctions, BarUpdate, StaysBar

LEMMA SameBar ==
    ASSUME NEW id \in Ids
    PROVE  /\ [statusBar EXCEPT ![id] = statusBar[id]] = statusBar
           /\ [genBar EXCEPT ![id] = genBar[id]] = genBar
           /\ [attemptedBar EXCEPT ![id] = attemptedBar[id]] = attemptedBar
           /\ [announcedBar EXCEPT ![id] = announcedBar[id]] = announcedBar
  BY DEF statusBar, genBar, attemptedBar, announcedBar

LEMMA SupersedeBar ==
    ASSUME NEW S \in SUBSET Ids, S # {}, \A id \in S : statusBar[id] = "pending",
           genBar' = [id \in Ids |-> IF id \in S THEN genBar[id] + 1 ELSE genBar[id]],
           announcedBar' = [id \in Ids |->
             IF id \in S THEN announcedBar[id] \cup {genBar[id] + 1} ELSE announcedBar[id]],
           statusBar' = statusBar, attemptedBar' = attemptedBar
    PROVE  L!Supersede(S)
  BY Zenon DEF L!Supersede, statusBar, genBar, attemptedBar, announcedBar

(* Every shape of a step is a step of Lifecycle, or none.                  *)
LEMMA LifecycleStep == ASSUME IInv, [Next]_vars PROVE [L!LNext]_(L!lvars)
  <1>1. CASE \A id \in Ids : Stays(id)
    <2>1. /\ statusBar' = statusBar /\ genBar' = genBar
          /\ attemptedBar' = attemptedBar /\ announcedBar' = announcedBar
      BY <1>1, StaysBar, BarFunctions
    <2>2. UNCHANGED L!lvars
      BY <2>1 DEF L!lvars, statusBar, genBar, attemptedBar, announcedBar
    <2>. QED
      BY <2>2
  <1>2. ASSUME NEW id \in Ids, \A j \in Ids \ {id} : Stays(j),
               Waits(id) \/ Claims(id) \/ Settles(id)
        PROVE  L!LNext
    <2>0. /\ statusBar' = [statusBar EXCEPT ![id] = statusBar'[id]]
          /\ genBar' = [genBar EXCEPT ![id] = genBar'[id]]
          /\ attemptedBar' = [attemptedBar EXCEPT ![id] = attemptedBar'[id]]
          /\ announcedBar' = [announcedBar EXCEPT ![id] = announcedBar'[id]]
      BY <1>2, OneBar
    <2>1. ASSUME statusBar'[id] = "pending", genBar'[id] = genBar[id] + 1,
                 attemptedBar'[id] = attemptedBar[id],
                 announcedBar'[id] = announcedBar[id] \cup {genBar[id] + 1}
          PROVE  L!Open(id)
      BY <2>0, <2>1, SameBar DEF L!Open, statusBar, genBar, attemptedBar, announcedBar
    <2>2. CASE Waits(id)
      <3>1. L!Open(id)
        BY <2>1, <2>2, WaitsBar
      <3>2. CASE statusBar[id] = "pending"
        <4>1. /\ \A j \in {id} : statusBar[j] = "pending"
              /\ statusBar' = statusBar /\ attemptedBar' = attemptedBar
          BY <2>0, <2>2, <3>2, WaitsBar, SameBar
        <4>2. genBar' = [j \in Ids |-> IF j \in {id} THEN genBar[j] + 1 ELSE genBar[j]]
          BY <2>0, <2>2, WaitsBar, BarFunctions
        <4>3. announcedBar' = [j \in Ids |->
                IF j \in {id} THEN announcedBar[j] \cup {genBar[j] + 1} ELSE announcedBar[j]]
          BY <2>0, <2>2, WaitsBar, BarFunctions
        <4>4. L!Supersede({id})
          BY <4>1, <4>2, <4>3, SupersedeBar
        <4>. QED
          BY <4>4 DEF L!LNext
      <3>3. CASE statusBar[id] # "pending"
        <4>1. statusBar[id] \in {"absent", "failed"}
          BY <2>2, <3>3, WaitsBar
        <4>. QED
          BY <3>1, <4>1 DEF L!LNext, L!Persist, L!RetryManually, statusBar
      <3>. QED
        BY <3>2, <3>3
    <2>3. CASE Claims(id)
      <3>0. /\ statusBar[id] = "pending"
            /\ genBar[id] \notin attemptedBar[id] /\ genBar[id] \in announcedBar[id]
            /\ statusBar' = [statusBar EXCEPT ![id] = "in_flight"]
            /\ attemptedBar' = [attemptedBar EXCEPT ![id] = attemptedBar[id] \cup {genBar[id]}]
            /\ genBar' = genBar /\ announcedBar' = announcedBar
        BY <2>0, <2>3, ClaimsBar, SameBar
      <3>1. L!Begin(id)
        BY <3>0, Zenon DEF L!Begin, statusBar, genBar, attemptedBar, announcedBar
      <3>. QED
        BY <3>1 DEF L!LNext
    <2>4. CASE Settles(id)
      <3>1. CASE statusBar'[id] = "pending"
        <4>1. L!Open(id)
          BY <2>1, <2>4, <3>1, SettlesBar
        <4>. QED
          BY <2>4, <4>1, SettlesBar DEF L!LNext, L!TryAgain, statusBar
      <3>2. CASE statusBar'[id] = "delivered"
        <4>0. /\ statusBar[id] = "in_flight"
              /\ statusBar' = [statusBar EXCEPT ![id] = "delivered"]
              /\ genBar' = genBar /\ attemptedBar' = attemptedBar
              /\ announcedBar' = announcedBar
          BY <2>0, <2>4, <3>2, SettlesBar, SameBar
        <4>1. L!Deliver(id)
          BY <4>0, Zenon DEF L!Deliver, statusBar, genBar, attemptedBar, announcedBar
        <4>. QED
          BY <4>1 DEF L!LNext
      <3>3. CASE statusBar'[id] = "failed"
        <4>0. /\ statusBar[id] = "in_flight"
              /\ statusBar' = [statusBar EXCEPT ![id] = "failed"]
              /\ \E g \in {genBar[id], genBar[id] + 1} : genBar' = [genBar EXCEPT ![id] = g]
              /\ attemptedBar' = attemptedBar /\ announcedBar' = announcedBar
          BY <2>0, <2>4, <3>3, SettlesBar, SameBar
        <4>1. L!GiveUp(id)
          BY <4>0, Zenon DEF L!GiveUp, statusBar, genBar, attemptedBar, announcedBar
        <4>. QED
          BY <4>1 DEF L!LNext
      <3>. QED
        BY <2>4, <3>1, <3>2, <3>3, SettlesBar
    <2>. QED
      BY <1>2, <2>2, <2>3, <2>4
  <1>3. ASSUME NEW S \in SUBSET Ids, S # {},
               \A id \in S : task[id].status = "pending" /\ Waits(id),
               \A j \in Ids \ S : Stays(j)
        PROVE  L!LNext
    <2>1. \A id \in S : /\ statusBar[id] = "pending" /\ statusBar'[id] = "pending"
                        /\ genBar'[id] = genBar[id] + 1
                        /\ attemptedBar'[id] = attemptedBar[id]
                        /\ announcedBar'[id] = announcedBar[id] \cup {genBar[id] + 1}
      BY <1>3, WaitsBar DEF statusBar
    <2>2. \A id \in Ids \ S :
            /\ statusBar'[id] = statusBar[id] /\ genBar'[id] = genBar[id]
            /\ attemptedBar'[id] = attemptedBar[id] /\ announcedBar'[id] = announcedBar[id]
      BY <1>3, StaysBar
    <2>a. \A id \in Ids : statusBar'[id] = statusBar[id]
      BY <2>1, <2>2
    <2>b. \A id \in Ids : attemptedBar'[id] = attemptedBar[id]
      BY <2>1, <2>2
    <2>c. statusBar' = statusBar
      BY <2>a, BarFunctions
    <2>d. attemptedBar' = attemptedBar
      BY <2>b, BarFunctions
    <2>3. statusBar' = statusBar /\ attemptedBar' = attemptedBar
      BY <2>c, <2>d
    <2>4. genBar' = [id \in Ids |-> IF id \in S THEN genBar[id] + 1 ELSE genBar[id]]
      BY <2>1, <2>2, BarFunctions
    <2>5. announcedBar' = [id \in Ids |->
            IF id \in S THEN announcedBar[id] \cup {genBar[id] + 1} ELSE announcedBar[id]]
      BY <2>1, <2>2, BarFunctions
    <2>6. L!Supersede(S)
      BY <1>3, <2>1, <2>3, <2>4, <2>5, SupersedeBar
    <2>. QED
      BY <2>6 DEF L!LNext
  <1>. QED
    BY <1>1, <1>2, <1>3, StepShape DEF Shape

(* docs/design.md 2.4: the transactions implement the published state      *)
(* machine.  Whatever the callers do, a notification moves only along its  *)
(* edges, each generation is announced before it is attempted, and         *)
(* attempted at most once.                                                 *)
THEOREM LifecycleImplemented == Spec => ImplementsLifecycle
  <1>1. Init => L!LInit
    <2> SUFFICES ASSUME Init PROVE L!LInit
      OBVIOUS
    <2>1. ASSUME NEW id \in Ids
          PROVE  /\ task[id].status = "absent" /\ task[id].gen = 0
                 /\ Attempted(id) = {} /\ Events(id) = {}
      BY DEF Init, Absent, Attempted, Events
    <2>. QED
      BY <2>1 DEF L!LInit
  <1>2. IInv /\ [Next]_vars => [L!LNext]_(L!lvars)
    BY LifecycleStep
  <1>. QED
    BY <1>1, <1>2, Inductive, PTL DEF Spec, ImplementsLifecycle, L!LSpec
=============================================================================
