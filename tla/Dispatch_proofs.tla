-------------------------- MODULE Dispatch_proofs --------------------------
(* The outbox with any number of dispatchers: rows are published by one    *)
(* dispatcher at a time, marked only when the broker has their message,    *)
(* and no trigger arrives before its notification is due.                  *)
EXTENDS Dispatch, Store_proofs

DispRecord ==
    [pc : {"idle", "publish", "mark", "release"}, id : Ids \cup {NoKey}, o : Nat,
     token : Nat, due : Int]
MessageRecord == [id : Ids, gen : Nat, token : Nat, ready : Int]

QType ==
    /\ timely \in BOOLEAN
    /\ disp \in [Dispatchers -> DispRecord]
    /\ queue \subseteq MessageRecord
    /\ now <= MaxTime

Busy(d) == disp[d].pc # "idle"
Row(d) == outbox[disp[d].id][disp[d].o]

(* A dispatcher has a row and the token it claimed it with; when it is     *)
(* about to mark the row, the broker has the message.                      *)
WorksOn(d) ==
    Busy(d) => /\ disp[d].id \in Ids /\ disp[d].o \in Events(disp[d].id)
               /\ disp[d].token \in 1..tokens
               /\ disp[d].pc = "mark" => <<disp[d].id, Row(d).gen>> \in received

(* As long as contexts are obeyed, the lease of the row outlives them.     *)
InTime(d) ==
    timely /\ Busy(d) =>
        /\ now <= disp[d].due
        /\ Publishing(disp[d].id, disp[d].o, disp[d].token)
        /\ Row(d).until > disp[d].due

OwnTokens ==
    \A b, c \in Dispatchers : Busy(b) /\ Busy(c) /\ b # c => disp[b].token # disp[c].token

(* A row, a dispatcher that has it, a message of it: for the generation    *)
(* that is waiting, none of them leads to a message that is ready early.   *)
Current(id, gen) == task[id].status = "pending" /\ task[id].gen = gen

RowOnTime(id, e) ==
    Current(id, e.gen) => \/ task[id].next <= e.avail + RouteDelay[e.route]
                          \/ task[id].next <= now + RouteDelay[e.route]

DispatcherOnTime(d) ==
    Busy(d) /\ Current(disp[d].id, Row(d).gen) =>
        task[disp[d].id].next <= now + RouteDelay[Row(d).route]

MessageOnTime(m) ==
    /\ m.gen \in 1..task[m.id].gen
    /\ Current(m.id, m.gen) => task[m.id].next <= m.ready

QInv ==
    /\ IInv /\ QType
    /\ \A d \in Dispatchers : WorksOn(d) /\ InTime(d) /\ DispatcherOnTime(d)
    /\ OwnTokens
    /\ \A id \in Ids : \A o \in Events(id) : RowOnTime(id, outbox[id][o])
    /\ \A m \in queue : MessageOnTime(m)
    /\ PublishedWasReceived
-----------------------------------------------------------------------------
(* The dispatchers use the store as Store allows *)

LEMMA QInvParts ==
    ASSUME QInv
    PROVE  /\ IInv /\ TypeOK /\ QType /\ now \in Nat /\ now <= MaxTime /\ tokens \in Nat
           /\ \A d \in Dispatchers :
                WorksOn(d) /\ InTime(d) /\ DispatcherOnTime(d) /\ disp[d] \in DispRecord
           /\ \A m \in queue : m \in MessageRecord /\ MessageOnTime(m)
           /\ \A n \in held : n \in Copy
           /\ \A id \in Ids : task[id] \in Task /\ outbox[id] \in Seq(Event)
           /\ \A id \in Ids : \A o \in Events(id) :
                outbox[id][o] \in Event /\ RowOnTime(id, outbox[id][o])
  <1>1. TypeOK
    BY DEF QInv, IInv
  <1>2. ASSUME NEW id \in Ids
        PROVE  /\ task[id] \in Task /\ outbox[id] \in Seq(Event)
               /\ \A o \in Events(id) : outbox[id][o] \in Event
    <2>1. task[id] \in Task /\ outbox[id] \in Seq(Event)
      BY <1>1 DEF TypeOK
    <2>. QED
      BY <2>1 DEF Events
  <1>. QED
    BY <1>1, <1>2 DEF QInv, QType, TypeOK

LEMMA QueueSteps == ASSUME NEW m, Ack(m) \/ Lose(m) PROVE UNCHANGED vars
  BY Zenon DEF Ack, Lose

LEMMA RunSteps ==
    ASSUME NEW d, Run(d)
    PROVE  Take(d) \/ Mark(d) \/ Release(d) \/ UNCHANGED vars
  BY Zenon DEF Run, PublishConfirmed, PublishFailed, Abandon

LEMMA NowIsAppNow == ASSUME now \in Nat PROVE now \in AppNow
  BY StoreAssumption DEF AppNow

LEMMA DispatchUses == ASSUME QInv, [QNext]_qvars PROVE [Next]_vars
  <1>0. IInv /\ now \in Nat /\ now <= MaxTime
    BY QInvParts
  <1>1. CASE Submit
    BY <1>1 DEF Submit, Next, ApiStep
  <1>2. ASSUME NEW d \in Dispatchers, Run(d) PROVE [Next]_vars
    <2>1. Busy(d) => /\ disp[d].id \in Ids /\ disp[d].o \in 1..Len(outbox[disp[d].id])
                     /\ disp[d].token \in 1..tokens
      BY QInvParts DEF WorksOn, Events
    <2>2. CASE Take(d)
      BY <2>2 DEF Take, Next, DispatcherStep, Events
    <2>3. CASE Mark(d)
      BY <2>1, <2>3 DEF Mark, Busy, Next, DispatcherStep
    <2>4. CASE Release(d)
      BY <2>1, <2>4 DEF Release, Busy, Next, DispatcherStep
    <2>. QED
      BY <1>2, <2>2, <2>3, <2>4, RunSteps
  <1>3. ASSUME NEW m \in queue, Handle(m) PROVE Next
    <2>1. m.id \in Ids /\ m.gen \in 1..task[m.id].gen
      BY QInvParts DEF MessageRecord, MessageOnTime
    <2>. QED
      BY <1>3, <2>1 DEF Handle, Next, WorkerStep
  <1>4. ASSUME NEW n \in held, Settle(n) PROVE Next
    <2>1. CASE FinishFinal(n, "success")
      BY <2>1 DEF Next, WorkerStep
    <2>2. ASSUME NEW route \in DelayRoutes, NEW t \in (now - CommitLag)..now,
                 Schedulable(n, t + RouteDelay[route]),
                 \/ FinishRetry(n, t + RouteDelay[route], route, now)
                 \/ RecoverRetry(n, t + RouteDelay[route], route, now)
          PROVE  Next
      <3>1. t \in (-CommitLag)..MaxTime
        BY <1>0, StoreAssumption, DispatchAssumption
      <3>2. t + RouteDelay[route] \in RetryTimes /\ now \in AppNow
        BY <1>0, <3>1, SettleAssumption, NowIsAppNow
      <3>. QED
        BY <2>2, <3>2 DEF Next, WorkerStep, RecoveryStep, LeaseStep
    <2>. QED
      BY <1>4, <2>1, <2>2 DEF Settle
  <1>5. CASE Repair
    BY <1>5 DEF Repair, Next, RecoveryStep
  <1>6. CASE Clock
    BY <1>6 DEF Clock, Next
  <1>7. CASE UNCHANGED qvars
    BY <1>7 DEF qvars
  <1>8. ASSUME NEW m \in queue, Ack(m) \/ Lose(m) PROVE UNCHANGED vars
    BY <1>8, QueueSteps
  <1>. QED
    BY <1>1, <1>2, <1>3, <1>4, <1>5, <1>6, <1>7, <1>8 DEF QNext
-----------------------------------------------------------------------------
(* Transactions on the tasks *)

(* What they do to a notification: nothing, end its wait, or start a new   *)
(* one and announce it.                                                    *)
Announced(id, e) ==
    /\ outbox'[id] = Append(outbox[id], e)
    /\ e.status = "pending" /\ e.gen = task[id].gen + 1 /\ task'[id].gen = task[id].gen + 1
    /\ \/ task'[id].next <= e.avail + RouteDelay[e.route]
       \/ task'[id].next <= now + RouteDelay[e.route]

Moves(id) ==
    \/ task'[id] = task[id] /\ outbox'[id] = outbox[id]
    \/ /\ task'[id].status # "pending" /\ task'[id].gen >= task[id].gen
       /\ outbox'[id] = outbox[id]
    \/ \E e \in Event : Announced(id, e)

(* What that leaves of the rows that were there.                           *)
LEMMA MovesKeep ==
    ASSUME QInv, NEW id \in Ids, Moves(id), task'[id] \in Task
    PROVE  /\ \A o \in Events(id) : o \in Events(id)' /\ outbox'[id][o] = outbox[id][o]
           /\ task'[id].gen >= task[id].gen
           /\ \A gen \in 1..task[id].gen :
                task'[id].status = "pending" /\ task'[id].gen = gen =>
                  task'[id] = task[id]
  <1>0. /\ task[id].gen \in Nat /\ task'[id].gen \in Nat /\ outbox[id] \in Seq(Event)
        /\ Len(outbox[id]) \in Nat
    <2>1. task[id] \in Task /\ outbox[id] \in Seq(Event)
      BY QInvParts
    <2>2. Len(outbox[id]) \in Nat
      BY <2>1
    <2>. QED
      BY <2>1, <2>2 DEF Task
  <1>1. ASSUME NEW e \in Event, outbox'[id] = Append(outbox[id], e)
        PROVE  \A o \in Events(id) : o \in Events(id)' /\ outbox'[id][o] = outbox[id][o]
    <2>1. /\ Len(Append(outbox[id], e)) = Len(outbox[id]) + 1
          /\ \A o \in 1..Len(outbox[id]) : Append(outbox[id], e)[o] = outbox[id][o]
      BY <1>0, AppendProperties
    <2>2. \A o \in 1..Len(outbox[id]) : o \in 1..(Len(outbox[id]) + 1)
      BY <1>0
    <2>. QED
      BY <1>1, <2>1, <2>2 DEF Events
  <1>2. \A o \in Events(id) : o \in Events(id)' /\ outbox'[id][o] = outbox[id][o]
    BY <1>1 DEF Moves, Announced, Events
  <1>3. task'[id].gen >= task[id].gen
    BY <1>0 DEF Moves, Announced
  <1>4. ASSUME NEW gen \in 1..task[id].gen, task'[id].status = "pending", task'[id].gen = gen
        PROVE  task'[id] = task[id]
    BY <1>0, <1>4 DEF Moves, Announced
  <1>. QED
    BY <1>2, <1>3, <1>4

LEMMA MovesRows ==
    ASSUME QInv, TypeOK', now' = now, NEW id \in Ids, Moves(id), NEW o \in Events(id)'
    PROVE  /\ RowOnTime(id, outbox[id][o])'
           /\ outbox'[id][o].status = "published" =>
                o \in Events(id) /\ outbox'[id][o] = outbox[id][o]
  <1>0. /\ task[id].gen \in Nat /\ task'[id] \in Task /\ outbox[id] \in Seq(Event)
        /\ Len(outbox[id]) \in Nat
    <2>1. task[id] \in Task /\ outbox[id] \in Seq(Event) /\ task'[id] \in Task
      BY QInvParts DEF TypeOK
    <2>2. Len(outbox[id]) \in Nat
      BY <2>1
    <2>. QED
      BY <2>1, <2>2 DEF Task
  <1>1. CASE o \in Events(id)
    <2>1. outbox'[id][o] = outbox[id][o]
      BY <1>0, <1>1, MovesKeep
    <2>2. outbox[id][o].gen \in 1..task[id].gen /\ RowOnTime(id, outbox[id][o])
      BY <1>1, QInvParts DEF IInv, TaskOK, EventsOK, Events
    <2>3. task'[id].status = "pending" /\ task'[id].gen = outbox[id][o].gen =>
            task'[id] = task[id]
      BY <1>0, <2>2, MovesKeep
    <2>. QED
      BY <1>1, <2>1, <2>2, <2>3 DEF RowOnTime, Current
  <1>2. CASE o \notin Events(id)
    <2>1. PICK e \in Event : Announced(id, e)
      BY <1>2 DEF Moves, Events
    <2>2. /\ Len(Append(outbox[id], e)) = Len(outbox[id]) + 1
          /\ Append(outbox[id], e)[Len(outbox[id]) + 1] = e
      BY <1>0, AppendProperties
    <2>3. o = Len(outbox[id]) + 1
      BY <1>0, <1>2, <2>1, <2>2 DEF Events, Announced
    <2>4. outbox'[id][o] = e
      BY <2>1, <2>2, <2>3 DEF Announced
    <2>. QED
      BY <2>1, <2>4 DEF Announced, RowOnTime
  <1>. QED
    BY <1>1, <1>2

LEMMA TableStep ==
    ASSUME QInv, [Next]_vars, UNCHANGED <<timely, disp, queue, received, now>>,
           tokens' >= tokens, \A id \in Ids : Moves(id)
    PROVE  QInv'
  <1>1. IInv' /\ TypeOK'
    BY QInvParts, InductiveStep DEF IInv
  <1>2. \A id \in Ids : task'[id] \in Task
    BY <1>1 DEF TypeOK
  <1>3. ASSUME NEW d \in Dispatchers
        PROVE  WorksOn(d)' /\ InTime(d)' /\ DispatcherOnTime(d)'
    <2> SUFFICES ASSUME Busy(d)
                 PROVE  WorksOn(d)' /\ InTime(d)' /\ DispatcherOnTime(d)'
      BY DEF WorksOn, InTime, DispatcherOnTime, Busy
    <2>. DEFINE id == disp[d].id
                o == disp[d].o
    <2>1. /\ id \in Ids /\ o \in Events(id) /\ disp[d].token \in 1..tokens
          /\ WorksOn(d) /\ InTime(d) /\ DispatcherOnTime(d) /\ tokens \in Nat
      BY QInvParts DEF WorksOn
    <2>2. o \in Events(id)' /\ outbox'[id][o] = outbox[id][o]
      BY <1>2, <2>1, MovesKeep
    <2>3. outbox[id][o].gen \in 1..task[id].gen
      BY <2>1, QInvParts DEF IInv, TaskOK, EventsOK, Events
    <2>4. task'[id].status = "pending" /\ task'[id].gen = outbox[id][o].gen =>
            task'[id] = task[id]
      BY <1>2, <2>1, <2>3, MovesKeep
    <2>5. disp[d].token \in 1..tokens'
      BY <1>1, <2>1 DEF TypeOK
    <2>6. WorksOn(d)'
      BY <2>1, <2>2, <2>5 DEF WorksOn, Busy, Row, Events
    <2>7. InTime(d)'
      BY <2>1, <2>2 DEF InTime, Busy, Row, Publishing
    <2>8. DispatcherOnTime(d)'
      BY <2>1, <2>2, <2>4 DEF DispatcherOnTime, Busy, Row, Current
    <2>. QED
      BY <2>6, <2>7, <2>8
  <1>4. ASSUME NEW m \in queue PROVE MessageOnTime(m)'
    <2>1. m.id \in Ids /\ MessageOnTime(m) /\ task[m.id].gen \in Nat /\ task'[m.id].gen \in Nat
      BY <1>2, QInvParts DEF MessageRecord, Task
    <2>2. task'[m.id].gen >= task[m.id].gen /\ m.gen \in 1..task[m.id].gen
      BY <1>2, <2>1, MovesKeep DEF MessageOnTime
    <2>3. m.gen \in 1..task'[m.id].gen
      BY <2>1, <2>2
    <2>4. task'[m.id].status = "pending" /\ task'[m.id].gen = m.gen => task'[m.id] = task[m.id]
      BY <1>2, <2>1, <2>2, MovesKeep
    <2>. QED
      BY <2>1, <2>3, <2>4 DEF MessageOnTime, Current
  <1>5. ASSUME NEW id \in Ids, NEW o \in Events(id)'
        PROVE  /\ RowOnTime(id, outbox[id][o])'
               /\ outbox'[id][o].status = "published" => <<id, outbox'[id][o].gen>> \in received
    <2>1. RowOnTime(id, outbox[id][o])'
      BY <1>1, MovesRows
    <2>2. outbox'[id][o].status = "published" =>
            o \in Events(id) /\ outbox'[id][o] = outbox[id][o]
      BY <1>1, MovesRows
    <2>. QED
      BY <2>1, <2>2 DEF QInv, PublishedWasReceived
  <1>6. QType' /\ OwnTokens'
    BY DEF QInv, QType, OwnTokens, Busy
  <1>. QED
    BY <1>1, <1>3, <1>4, <1>5, <1>6 DEF QInv, PublishedWasReceived

LEMMA EventFields ==
    ASSUME NEW gen \in Nat, NEW route \in Routes, NEW t \in Int
    PROVE  LET e == insertEvent(gen, route, t) IN
           /\ e \in Event /\ e.gen = gen /\ e.status = "pending" /\ e.avail = t
           /\ e.route = route
  BY EventType DEF insertEvent

(* An update of the row id and of its events only.                         *)
LEMMA OneMoves ==
    ASSUME QInv, NEW id \in Ids, NEW row, task' = [task EXCEPT ![id] = row],
           \/ outbox' = outbox
           \/ \E e : AddEvent(id, e),
           row = task'[id] => Moves(id)
    PROVE  \A j \in Ids : Moves(j)
  <1>1. task \in [Ids -> Task] /\ outbox \in [Ids -> Seq(Event)]
    BY QInvParts DEF TypeOK
  <1>2. task'[id] = row /\ \A j \in Ids \ {id} : task'[j] = task[j]
    BY <1>1
  <1>3. \A j \in Ids \ {id} : outbox'[j] = outbox[j]
    BY <1>1 DEF AddEvent
  <1>. QED
    BY <1>2, <1>3 DEF Moves

LEMMA AddsEvent ==
    ASSUME QInv, NEW id \in Ids, NEW e, AddEvent(id, e)
    PROVE  outbox'[id] = Append(outbox[id], e)
  BY QInvParts DEF AddEvent, TypeOK

LEMMA SubmitInv ==
    ASSUME QInv, [Next]_vars, UNCHANGED timely, Submit
    PROVE  QInv'
  <1>1. PICK id \in Ids, key \in Keys, hash \in Hashes, t \in AppNow, duration \in Durations :
          Accept(id, key, hash, t, duration)
    BY DEF Submit
  <1>. DEFINE row == [status |-> "pending", key |-> key, hash |-> hash, attempts |-> 0,
                      cycle |-> 0, gen |-> 1, next |-> t, deadline |-> t + duration,
                      lease |-> NoToken, until |-> NoTime]
              e == insertEvent(1, "dispatch", t)
  <1>2. /\ task' = [task EXCEPT ![id] = row] /\ AddEvent(id, e)
        /\ UNCHANGED <<held, tokens, now>> /\ task[id].status = "absent"
    BY <1>1 DEF Accept
  <1>3. t \in Int /\ tokens \in Nat /\ task[id].gen = 0
    BY <1>1, <1>2, QInvParts, AppNowType DEF IInv, TaskOK, RowOK
  <1>4. row.gen = 1 /\ row.next = t
    OBVIOUS
  <1>5. e \in Event /\ e.gen = 1 /\ e.status = "pending" /\ e.avail = t /\ e.route = "dispatch"
    BY <1>3, EventFields DEF Routes
  <1>. HIDE DEF row, e
  <1>6. row = task'[id] => Moves(id)
    <2>1. t <= t + RouteDelay["dispatch"]
      BY <1>3, DispatchAssumption
    <2>2. outbox'[id] = Append(outbox[id], e)
      BY <1>2, AddsEvent
    <2>3. row = task'[id] => Announced(id, e)
      BY <1>3, <1>4, <1>5, <2>1, <2>2 DEF Announced
    <2>. QED
      BY <1>5, <2>3 DEF Moves
  <1>7. \A j \in Ids : Moves(j)
    BY <1>2, <1>6, OneMoves
  <1>. QED
    BY <1>2, <1>3, <1>7, TableStep DEF Submit

LEMMA HandleInv ==
    ASSUME QInv, [Next]_vars, UNCHANGED timely, NEW m \in queue, Handle(m)
    PROVE  QInv'
  <1>. DEFINE id == m.id
              gen == m.gen
  <1>0. /\ id \in Ids /\ gen \in Nat /\ UNCHANGED <<disp, queue, received>> /\ now \in Nat
        /\ tokens \in Nat /\ task[id] \in Task
    BY QInvParts DEF MessageRecord, Handle
  <1>1. CASE Claim(id, gen)
    <2>. DEFINE row == Leased(id, tokens + 1)
    <2>1. /\ task' = [task EXCEPT ![id] = row] /\ outbox' = outbox /\ now' = now
          /\ tokens' = tokens + 1
      BY <1>1 DEF Claim
    <2>2. row.status = "in_flight" /\ row.gen = task[id].gen
      BY <1>0 DEF Leased, Task
    <2>. HIDE DEF row
    <2>3. row = task'[id] => Moves(id)
      <3>1. task[id].gen >= task[id].gen
        BY <1>0 DEF Task
      <3>. QED
        BY <2>1, <2>2, <3>1 DEF Moves
    <2>4. \A j \in Ids : Moves(j)
      BY <1>0, <2>1, <2>3, OneMoves
    <2>5. tokens' >= tokens
      BY <1>0, <2>1
    <2>. QED
      BY <1>0, <2>1, <2>4, <2>5, TableStep
  <1>2. ASSUME NEW t \in AppNow, DeferPending(id, gen, t) PROVE QInv'
    <2>. DEFINE row == [task[id] EXCEPT !.gen = gen + 1, !.next = t + DeferDelay]
                e == insertEvent(gen + 1, "dispatch", t + DeferDelay)
    <2>1. /\ task' = [task EXCEPT ![id] = row] /\ AddEvent(id, e)
          /\ UNCHANGED <<tokens, now>> /\ task[id].gen = gen
      BY <1>0, <1>2, QInvParts DEF DeferPending, Deferrable, TypeOK
    <2>2. t + DeferDelay \in Int /\ gen + 1 \in Nat
      BY <1>0, <1>2, AppNowType, StoreAssumption
    <2>3. row.gen = gen + 1 /\ row.next = t + DeferDelay
      BY <1>0 DEF Task
    <2>4. /\ e \in Event /\ e.gen = gen + 1 /\ e.status = "pending"
          /\ e.avail = t + DeferDelay /\ e.route = "dispatch"
      BY <2>2, EventFields DEF Routes
    <2>. HIDE DEF row, e
    <2>5. row = task'[id] => Moves(id)
      <3>1. t + DeferDelay <= (t + DeferDelay) + RouteDelay["dispatch"]
        BY <2>2, DispatchAssumption
      <3>2. outbox'[id] = Append(outbox[id], e)
        BY <1>0, <2>1, AddsEvent
      <3>3. row = task'[id] => Announced(id, e)
        BY <2>1, <2>3, <2>4, <3>1, <3>2 DEF Announced
      <3>. QED
        BY <2>4, <3>3 DEF Moves
    <2>6. \A j \in Ids : Moves(j)
      BY <1>0, <2>1, <2>5, OneMoves
    <2>7. tokens' >= tokens
      BY <1>0, <2>1
    <2>. QED
      BY <1>0, <2>1, <2>6, <2>7, TableStep
  <1>. QED
    BY <1>1, <1>2 DEF Handle

LEMMA SettleInv ==
    ASSUME QInv, [Next]_vars, UNCHANGED timely, NEW n \in held, Settle(n)
    PROVE  QInv'
  <1>. DEFINE id == n.id
  <1>0. /\ id \in Ids /\ n.gen \in Nat /\ UNCHANGED <<disp, queue, received>> /\ now \in Nat
        /\ tokens \in Nat /\ task[id] \in Task
    BY QInvParts DEF Copy, Settle
  <1>1. CASE FinishFinal(n, "success")
    <2>. DEFINE row == Ended(n, "delivered", n.gen, n.next)
    <2>1. /\ task' = [task EXCEPT ![id] = row] /\ outbox' = outbox /\ now' = now
          /\ tokens' = tokens /\ task[id].gen = n.gen
      BY <1>1 DEF FinishFinal, Finishable, Fenced
    <2>2. row.status = "delivered" /\ row.gen = n.gen
      BY <1>0, EndedFields
    <2>. HIDE DEF row
    <2>3. row = task'[id] => Moves(id)
      <3>1. n.gen >= n.gen
        BY <1>0
      <3>. QED
        BY <2>1, <2>2, <3>1 DEF Moves
    <2>4. \A j \in Ids : Moves(j)
      BY <1>0, <2>1, <2>3, OneMoves
    <2>5. tokens' >= tokens
      BY <1>0, <2>1
    <2>. QED
      BY <1>0, <2>1, <2>4, <2>5, TableStep
  <1>2. ASSUME NEW route \in DelayRoutes, NEW t \in (now - CommitLag)..now,
               \/ FinishRetry(n, t + RouteDelay[route], route, now)
               \/ RecoverRetry(n, t + RouteDelay[route], route, now)
        PROVE  QInv'
    <2>. DEFINE next == t + RouteDelay[route]
                row == Ended(n, "pending", n.gen + 1, next)
                e == insertEvent(n.gen + 1, route, now)
    <2>1. /\ task' = [task EXCEPT ![id] = row] /\ AddEvent(id, e)
          /\ UNCHANGED <<tokens, now>> /\ task[id].gen = n.gen
      BY <1>2 DEF FinishRetry, RecoverRetry, Finishable, Recoverable, Fenced
    <2>2. route \in Routes /\ n.gen + 1 \in Nat
      BY <1>0 DEF Routes
    <2>3. row.gen = n.gen + 1 /\ row.next = next
      <3>1. row.gen = n.gen + 1
        BY <1>0, EndedFields
      <3>2. row.next = next
        BY <1>0 DEF Ended, Task
      <3>. QED
        BY <3>1, <3>2
    <2>4. /\ e \in Event /\ e.gen = n.gen + 1 /\ e.status = "pending"
          /\ e.avail = now /\ e.route = route
      BY <1>0, <2>2, EventFields
    <2>5. next <= now + RouteDelay[route]
      BY <1>0, <2>2, DispatchAssumption
    <2>. HIDE DEF row, e, next
    <2>6. row = task'[id] => Moves(id)
      <3>1. outbox'[id] = Append(outbox[id], e)
        BY <1>0, <2>1, AddsEvent
      <3>2. row = task'[id] => Announced(id, e)
        BY <2>1, <2>3, <2>4, <2>5, <3>1 DEF Announced
      <3>. QED
        BY <2>4, <3>2 DEF Moves
    <2>7. \A j \in Ids : Moves(j)
      BY <1>0, <2>1, <2>6, OneMoves
    <2>8. tokens' >= tokens
      BY <1>0, <2>1
    <2>. QED
      BY <1>0, <2>1, <2>7, <2>8, TableStep
  <1>. QED
    BY <1>1, <1>2 DEF Settle

LEMMA ReconcileStep ==
    ASSUME QInv, [Next]_vars, UNCHANGED <<timely, disp, queue, received>>,
           NEW S \in SUBSET Ids, NEW t \in AppNow, Reconcile(S, t)
    PROVE  QInv'
  <1>0. now' = now /\ tokens' >= tokens /\ t \in Int /\ now \in Nat
    BY QInvParts, AppNowType DEF Reconcile
  <1>1. ASSUME NEW id \in Ids PROVE Moves(id)
    <2>1. CASE id \notin S
      BY <2>1 DEF Reconcile, Moves
    <2>2. CASE id \in S
      <3>. DEFINE row == [task[id] EXCEPT !.gen = @ + 1]
                  e == insertEvent(task[id].gen + 1, "dispatch", t)
      <3>1. /\ task'[id] = row /\ outbox'[id] = Append(outbox[id], e) /\ Stale(id)
        BY <2>2 DEF Reconcile
      <3>2. task[id] \in Task /\ task[id].gen \in Nat /\ task[id].next \in Int
        BY QInvParts DEF Task
      <3>3. row.gen = task[id].gen + 1 /\ row.next = task[id].next
        BY <3>2 DEF Task
      <3>4. /\ e \in Event /\ e.gen = task[id].gen + 1 /\ e.status = "pending"
            /\ e.route = "dispatch"
        BY <1>0, <3>2, EventFields DEF Routes
      <3>. HIDE DEF row, e
      <3>5. task[id].next <= now + RouteDelay["dispatch"]
        BY <1>0, <3>1, <3>2, DispatchAssumption, StoreAssumption DEF Stale
      <3>6. Announced(id, e)
        BY <3>1, <3>3, <3>4, <3>5 DEF Announced
      <3>. QED
        BY <3>4, <3>6 DEF Moves
    <2>. QED
      BY <2>1, <2>2
  <1>. QED
    BY <1>0, <1>1, TableStep
-----------------------------------------------------------------------------
(* Steps on the rows of the outbox *)

LEMMA RowsStep ==
    ASSUME QInv, [Next]_vars, UNCHANGED <<task, timely, queue, received, now>>,
           tokens' >= tokens, disp' \in [Dispatchers -> DispRecord],
           NEW M \in SUBSET Dispatchers,
           \A id \in Ids :
             /\ Len(outbox'[id]) = Len(outbox[id])
             /\ \A o \in Events(id) :
                  /\ outbox'[id][o].gen = outbox[id][o].gen
                  /\ outbox'[id][o].route = outbox[id][o].route
                  /\ RowOnTime(id, outbox[id][o])'
                  /\ outbox'[id][o].status = "published" => <<id, outbox[id][o].gen>> \in received,
           \A d \in Dispatchers \ M :
             /\ disp'[d] = disp[d]
             /\ timely /\ Busy(d) => outbox'[disp[d].id][disp[d].o] = outbox[disp[d].id][disp[d].o],
           \A d \in M : WorksOn(d)' /\ InTime(d)' /\ DispatcherOnTime(d)',
           OwnTokens'
    PROVE  QInv'
  <1>1. IInv' /\ TypeOK'
    BY QInvParts, InductiveStep DEF IInv
  <1>2. \A id \in Ids : Events(id)' = Events(id)
    BY DEF Events
  <1>3. ASSUME NEW d \in Dispatchers \ M
        PROVE  WorksOn(d)' /\ InTime(d)' /\ DispatcherOnTime(d)'
    <2>. DEFINE id == disp[d].id
                o == disp[d].o
    <2>0. disp'[d] = disp[d] /\ WorksOn(d) /\ InTime(d) /\ DispatcherOnTime(d)
      BY QInvParts
    <2> SUFFICES ASSUME Busy(d)
                 PROVE  WorksOn(d)' /\ InTime(d)' /\ DispatcherOnTime(d)'
      BY <2>0 DEF WorksOn, InTime, DispatcherOnTime, Busy
    <2>1. /\ id \in Ids /\ o \in Events(id) /\ disp[d].token \in 1..tokens /\ tokens \in Nat
      BY <2>0, QInvParts DEF WorksOn
    <2>2. /\ o \in Events(id)' /\ outbox'[id][o].gen = outbox[id][o].gen
          /\ outbox'[id][o].route = outbox[id][o].route
      BY <1>2, <2>1
    <2>3. disp[d].token \in 1..tokens'
      BY <1>1, <2>1 DEF TypeOK
    <2>4. WorksOn(d)'
      BY <2>0, <2>1, <2>2, <2>3 DEF WorksOn, Busy, Row
    <2>5. InTime(d)'
      BY <2>0 DEF InTime, Busy, Row, Publishing
    <2>6. DispatcherOnTime(d)'
      BY <2>0, <2>2 DEF DispatcherOnTime, Busy, Row, Current
    <2>. QED
      BY <2>4, <2>5, <2>6
  <1>4. ASSUME NEW m \in queue PROVE MessageOnTime(m)'
    BY QInvParts DEF MessageOnTime, Current
  <1>5. QType'
    BY DEF QInv, QType
  <1>6. PublishedWasReceived'
    BY <1>2 DEF PublishedWasReceived
  <1>. QED
    BY <1>1, <1>2, <1>3, <1>4, <1>5, <1>6 DEF QInv

(* One row is rewritten, and keeps what it announces.                      *)
LEMMA OneRow ==
    ASSUME QInv, NEW id \in Ids, NEW o \in Events(id), NEW e, SetEvent(id, o, e),
           e.gen = outbox[id][o].gen, e.route = outbox[id][o].route,
           UNCHANGED <<task, now>>,
           \/ e.avail = outbox[id][o].avail
           \/ Current(id, e.gen) => task[id].next <= now + RouteDelay[e.route],
           e.status = "published" => <<id, e.gen>> \in received
    PROVE  /\ \A j \in Ids :
                /\ Len(outbox'[j]) = Len(outbox[j])
                /\ \A p \in Events(j) :
                     /\ outbox'[j][p].gen = outbox[j][p].gen
                     /\ outbox'[j][p].route = outbox[j][p].route
                     /\ RowOnTime(j, outbox[j][p])'
                     /\ outbox'[j][p].status = "published" => <<j, outbox[j][p].gen>> \in received
           /\ outbox'[id][o] = e
           /\ \A j \in Ids : \A p \in Events(j) :
                ~(j = id /\ p = o) => outbox'[j][p] = outbox[j][p]
  <1>0. outbox \in [Ids -> Seq(Event)] /\ o \in 1..Len(outbox[id])
    BY QInvParts DEF TypeOK, Events
  <1>1. /\ outbox'[id] = [outbox[id] EXCEPT ![o] = e]
        /\ \A j \in Ids \ {id} : outbox'[j] = outbox[j]
    BY <1>0 DEF SetEvent
  <1>2. /\ Len(outbox'[id]) = Len(outbox[id]) /\ outbox'[id][o] = e
        /\ \A p \in 1..Len(outbox[id]) : p # o => outbox'[id][p] = outbox[id][p]
    BY <1>0, <1>1
  <1>3. \A j \in Ids : \A p \in Events(j) :
          ~(j = id /\ p = o) => outbox'[j][p] = outbox[j][p]
    BY <1>1, <1>2 DEF Events
  <1>4. \A j \in Ids : Len(outbox'[j]) = Len(outbox[j])
    BY <1>1, <1>2
  <1>5. ASSUME NEW j \in Ids, NEW p \in Events(j)
        PROVE  /\ outbox'[j][p].gen = outbox[j][p].gen
               /\ outbox'[j][p].route = outbox[j][p].route
               /\ RowOnTime(j, outbox[j][p])'
               /\ outbox'[j][p].status = "published" => <<j, outbox[j][p].gen>> \in received
    <2>1. RowOnTime(j, outbox[j][p])
      BY QInvParts
    <2>2. outbox[j][p].status = "published" => <<j, outbox[j][p].gen>> \in received
      BY DEF QInv, PublishedWasReceived
    <2>3. CASE j = id /\ p = o
      BY <1>2, <2>1, <2>3 DEF RowOnTime, Current
    <2>4. CASE ~(j = id /\ p = o)
      <3>1. outbox'[j][p] = outbox[j][p]
        BY <1>3, <2>4
      <3>. QED
        BY <2>1, <2>2, <3>1 DEF RowOnTime, Current
    <2>. QED
      BY <2>3, <2>4
  <1>. QED
    BY <1>2, <1>3, <1>4, <1>5

(* Whoever works on a row in time is the only one.                         *)
LEMMA OtherRow ==
    ASSUME QInv, timely, NEW b \in Dispatchers, NEW c \in Dispatchers, b # c, Busy(b), Busy(c)
    PROVE  ~(disp[b].id = disp[c].id /\ disp[b].o = disp[c].o)
  <1>1. /\ Publishing(disp[b].id, disp[b].o, disp[b].token)
        /\ Publishing(disp[c].id, disp[c].o, disp[c].token)
    BY QInvParts DEF InTime
  <1>2. disp[b].token # disp[c].token
    BY DEF QInv, OwnTokens
  <1>. QED
    BY <1>1, <1>2 DEF Publishing

LEMMA TakeInv ==
    ASSUME QInv, [Next]_vars, UNCHANGED timely, NEW d \in Dispatchers, Take(d)
    PROVE  QInv'
  <1>0. PICK id \in Ids : \E o \in Events(id) :
          /\ ClaimOutbox(id, o)
          /\ disp' = [disp EXCEPT ![d] =
               [pc |-> "publish", id |-> id, o |-> o, token |-> tokens',
                due |-> now + DispatchTimeout]]
    BY DEF Take
  <1>1. PICK o \in Events(id) :
          /\ ClaimOutbox(id, o)
          /\ disp' = [disp EXCEPT ![d] =
               [pc |-> "publish", id |-> id, o |-> o, token |-> tokens',
                due |-> now + DispatchTimeout]]
    BY <1>0
  <1>. DEFINE new == [pc |-> "publish", id |-> id, o |-> o, token |-> tokens + 1,
                      due |-> now + DispatchTimeout]
              e == [outbox[id][o] EXCEPT !.status = "publishing", !.token = tokens + 1,
                                         !.until = now + PublishTTL]
  <1>2. /\ SetEvent(id, o, e) /\ Due(id, o) /\ tokens' = tokens + 1
        /\ UNCHANGED <<task, now, queue, received>>
    BY <1>1 DEF ClaimOutbox, Take
  <1>3. /\ outbox[id][o] \in Event /\ now \in Nat /\ tokens \in Nat /\ DispatchTimeout \in Nat
        /\ PublishTTL \in Nat /\ o \in Nat /\ disp \in [Dispatchers -> DispRecord]
        /\ RowOnTime(id, outbox[id][o]) /\ task[id] \in Task
    BY <1>1, QInvParts, DispatchAssumption, StoreAssumption DEF Events, QType
  <1>4. disp' = [disp EXCEPT ![d] = new]
    BY <1>1, <1>2
  <1>5. /\ new \in DispRecord /\ new.pc = "publish" /\ new.id = id /\ new.o = o
        /\ new.token = tokens + 1 /\ new.due = now + DispatchTimeout
    BY <1>1, <1>3 DEF DispRecord
  <1>6. /\ e.gen = outbox[id][o].gen /\ e.route = outbox[id][o].route
        /\ e.avail = outbox[id][o].avail /\ e.status = "publishing" /\ e.token = tokens + 1
        /\ e.until = now + PublishTTL
    BY <1>3 DEF Event
  <1>. HIDE DEF new, e
  <1>7. disp'[d] = new /\ \A b \in Dispatchers \ {d} : disp'[b] = disp[b]
    BY <1>3, <1>4
  <1>8. disp' \in [Dispatchers -> DispRecord] /\ tokens' >= tokens
    BY <1>2, <1>3, <1>4, <1>5
  <1>9. /\ \A j \in Ids :
             /\ Len(outbox'[j]) = Len(outbox[j])
             /\ \A p \in Events(j) :
                  /\ outbox'[j][p].gen = outbox[j][p].gen
                  /\ outbox'[j][p].route = outbox[j][p].route
                  /\ RowOnTime(j, outbox[j][p])'
                  /\ outbox'[j][p].status = "published" => <<j, outbox[j][p].gen>> \in received
        /\ outbox'[id][o] = e
        /\ \A j \in Ids : \A p \in Events(j) :
             ~(j = id /\ p = o) => outbox'[j][p] = outbox[j][p]
    BY <1>1, <1>2, <1>6, OneRow
  <1>10. ASSUME NEW b \in Dispatchers \ {d}, timely, Busy(b)
         PROVE  outbox'[disp[b].id][disp[b].o] = outbox[disp[b].id][disp[b].o]
    <2>1. /\ disp[b].id \in Ids /\ disp[b].o \in Events(disp[b].id)
          /\ outbox[disp[b].id][disp[b].o].status = "publishing"
      BY <1>10, QInvParts DEF WorksOn, InTime, Publishing
    <2>2. outbox[id][o].status = "pending"
      BY <1>2 DEF Due
    <2>. QED
      BY <1>9, <2>1, <2>2
  <1>11. WorksOn(d)' /\ InTime(d)' /\ DispatcherOnTime(d)'
    <2>1. o \in Events(id)' /\ tokens + 1 \in 1..(tokens + 1)
      BY <1>1, <1>3, <1>9 DEF Events
    <2>2. WorksOn(d)'
      BY <1>1, <1>2, <1>5, <1>7, <2>1 DEF WorksOn
    <2>3. /\ now <= now + DispatchTimeout
          /\ now + PublishTTL > now + DispatchTimeout
      BY <1>3, PublishAssumption
    <2>4. InTime(d)'
      BY <1>2, <1>5, <1>6, <1>7, <1>9, <2>3 DEF InTime, Publishing, Row
    <2>5. Current(id, e.gen) => task[id].next <= now + RouteDelay[e.route]
      <3>1. /\ outbox[id][o].avail \in Int /\ outbox[id][o].avail <= now
            /\ RouteDelay[e.route] \in Nat /\ task[id].next \in Int
        BY <1>2, <1>3, <1>6, DispatchAssumption DEF Due, Event, Task
      <3>. QED
        BY <1>3, <1>6, <3>1 DEF RowOnTime
    <2>6. DispatcherOnTime(d)'
      BY <1>2, <1>5, <1>7, <1>9, <2>5 DEF DispatcherOnTime, Row, Current
    <2>. QED
      BY <2>2, <2>4, <2>6
  <1>12. OwnTokens'
    <2> SUFFICES ASSUME NEW b \in Dispatchers, NEW c \in Dispatchers, Busy(b)', Busy(c)', b # c
                 PROVE  disp'[b].token # disp'[c].token
      BY DEF OwnTokens
    <2>1. ASSUME NEW f \in Dispatchers \ {d}, Busy(f) PROVE disp[f].token # tokens + 1
      <3>1. disp[f].token \in 1..tokens
        BY <2>1, QInvParts DEF WorksOn
      <3>. QED
        BY <1>3, <3>1
    <2>. QED
      BY <1>5, <1>7, <2>1 DEF Busy, QInv, OwnTokens
  <1>13. \A b \in Dispatchers \ {d} :
           /\ disp'[b] = disp[b]
           /\ timely /\ Busy(b) => outbox'[disp[b].id][disp[b].o] = outbox[disp[b].id][disp[b].o]
    BY <1>7, <1>10
  <1>14. {d} \in SUBSET Dispatchers
         /\ \A b \in {d} : WorksOn(b)' /\ InTime(b)' /\ DispatcherOnTime(b)'
    BY <1>11
  <1>15. UNCHANGED <<task, timely, queue, received, now>>
    BY <1>2
  <1>. QED
    BY <1>8, <1>9, <1>12, <1>13, <1>14, <1>15, RowsStep

LEMMA IdleType == Idle \in DispRecord /\ Idle.pc = "idle"
  <1>1. NoTime \in Int /\ NoToken \in Nat /\ 0 \in Nat
    BY NullTypes
  <1>. QED
    BY <1>1 DEF Idle, DispRecord

LEMMA IdleOK ==
    ASSUME NEW d, disp'[d].pc = "idle"
    PROVE  WorksOn(d)' /\ InTime(d)' /\ DispatcherOnTime(d)'
  BY DEF WorksOn, InTime, DispatcherOnTime, Busy

(* The dispatcher is done with its row, and has rewritten it.              *)
LEMMA EndInv ==
    ASSUME QInv, [Next]_vars, UNCHANGED <<timely, task, now, tokens>>, NEW d \in Dispatchers,
           Busy(d), Done(d), NEW e, SetEvent(disp[d].id, disp[d].o, e),
           e.gen = Row(d).gen, e.route = Row(d).route,
           e.status = "published" => <<disp[d].id, e.gen>> \in received
    PROVE  QInv'
  <1>. DEFINE id == disp[d].id
              o == disp[d].o
  <1>1. /\ id \in Ids /\ o \in Events(id) /\ DispatcherOnTime(d) /\ tokens \in Nat
        /\ disp \in [Dispatchers -> DispRecord]
    BY QInvParts DEF WorksOn, QType
  <1>2. disp' = [disp EXCEPT ![d] = Idle] /\ UNCHANGED <<queue, received>>
    BY DEF Done
  <1>3. /\ disp'[d].pc = "idle" /\ \A b \in Dispatchers \ {d} : disp'[b] = disp[b]
        /\ disp' \in [Dispatchers -> DispRecord]
    BY <1>1, <1>2, IdleType
  <1>4. Current(id, e.gen) => task[id].next <= now + RouteDelay[e.route]
    BY <1>1 DEF DispatcherOnTime, Row
  <1>5. /\ \A j \in Ids :
             /\ Len(outbox'[j]) = Len(outbox[j])
             /\ \A p \in Events(j) :
                  /\ outbox'[j][p].gen = outbox[j][p].gen
                  /\ outbox'[j][p].route = outbox[j][p].route
                  /\ RowOnTime(j, outbox[j][p])'
                  /\ outbox'[j][p].status = "published" => <<j, outbox[j][p].gen>> \in received
        /\ \A j \in Ids : \A p \in Events(j) :
             ~(j = id /\ p = o) => outbox'[j][p] = outbox[j][p]
    BY <1>1, <1>4, OneRow DEF Row
  <1>6. ASSUME NEW b \in Dispatchers \ {d}, timely, Busy(b)
        PROVE  outbox'[disp[b].id][disp[b].o] = outbox[disp[b].id][disp[b].o]
    <2>1. disp[b].id \in Ids /\ disp[b].o \in Events(disp[b].id)
      BY <1>6, QInvParts DEF WorksOn
    <2>2. ~(disp[b].id = id /\ disp[b].o = o)
      BY <1>6, OtherRow
    <2>. QED
      BY <1>5, <2>1, <2>2
  <1>7. OwnTokens'
    BY <1>3 DEF QInv, OwnTokens, Busy
  <1>8. \A b \in Dispatchers \ {d} :
          /\ disp'[b] = disp[b]
          /\ timely /\ Busy(b) => outbox'[disp[b].id][disp[b].o] = outbox[disp[b].id][disp[b].o]
    BY <1>3, <1>6
  <1>9. /\ {d} \in SUBSET Dispatchers
        /\ \A b \in {d} : WorksOn(b)' /\ InTime(b)' /\ DispatcherOnTime(b)'
    BY <1>3, IdleOK
  <1>10. UNCHANGED <<task, timely, queue, received, now>> /\ tokens' >= tokens
    BY <1>1, <1>2
  <1>. QED
    BY <1>3, <1>5, <1>7, <1>8, <1>9, <1>10, RowsStep

LEMMA MarkInv ==
    ASSUME QInv, [Next]_vars, UNCHANGED timely, NEW d \in Dispatchers, Mark(d)
    PROVE  QInv'
  <1>. DEFINE e == [Row(d) EXCEPT !.status = "published", !.pub = now, !.token = NoToken,
                                  !.until = NoTime]
  <1>1. /\ Busy(d) /\ disp[d].pc = "mark" /\ Done(d) /\ UNCHANGED <<task, now, tokens>>
        /\ SetEvent(disp[d].id, disp[d].o, e)
    BY DEF Mark, Busy, Published, Row
  <1>2. Row(d) \in Event /\ <<disp[d].id, Row(d).gen>> \in received
    BY <1>1, QInvParts DEF WorksOn, Row
  <1>3. e.gen = Row(d).gen /\ e.route = Row(d).route
    BY <1>2 DEF Event
  <1>. HIDE DEF e
  <1>. QED
    BY <1>1, <1>2, <1>3, EndInv

LEMMA ReleaseInv ==
    ASSUME QInv, [Next]_vars, UNCHANGED timely, NEW d \in Dispatchers, Release(d)
    PROVE  QInv'
  <1>. DEFINE e == [Row(d) EXCEPT !.status = "pending", !.avail = now + ReleaseDelay,
                                  !.token = NoToken, !.until = NoTime]
  <1>1. /\ Busy(d) /\ Done(d) /\ UNCHANGED <<task, now, tokens>>
        /\ SetEvent(disp[d].id, disp[d].o, e)
    BY DEF Release, Busy, ReleaseOutbox, Row
  <1>2. Row(d) \in Event
    BY <1>1, QInvParts DEF WorksOn, Row
  <1>3. e.gen = Row(d).gen /\ e.route = Row(d).route /\ e.status = "pending"
    BY <1>2 DEF Event
  <1>. HIDE DEF e
  <1>. QED
    BY <1>1, <1>2, <1>3, EndInv

(* RecoverOutbox takes no row from a dispatcher that is in time.           *)
LEMMA RecoverOutboxStep ==
    ASSUME QInv, [Next]_vars, UNCHANGED <<timely, disp, queue, received>>,
           NEW R \in SUBSET Rows, RecoverOutbox(R)
    PROVE  QInv'
  <1>. DEFINE reset(e) == [e EXCEPT !.status = "pending", !.token = NoToken, !.until = NoTime]
  <1>1. /\ outbox' = [id \in Ids |-> [o \in 1..Len(outbox[id]) |->
                        IF <<id, o>> \in R THEN reset(outbox[id][o]) ELSE outbox[id][o]]]
        /\ UNCHANGED <<task, tokens, now>>
    BY DEF RecoverOutbox
  <1>2. ASSUME NEW e \in Event
        PROVE  /\ reset(e).gen = e.gen /\ reset(e).route = e.route /\ reset(e).avail = e.avail
               /\ reset(e).status # "published"
    BY DEF Event
  <1>. HIDE DEF reset
  <1>3. ASSUME NEW id \in Ids
        PROVE  /\ Len(outbox'[id]) = Len(outbox[id])
               /\ \A o \in Events(id) :
                    outbox'[id][o] =
                      IF <<id, o>> \in R THEN reset(outbox[id][o]) ELSE outbox[id][o]
    <2>1. Len(outbox[id]) \in Nat
      <3>1. outbox[id] \in Seq(Event)
        BY QInvParts
      <3>. QED
        BY <3>1
    <2>. QED
      BY <1>1, <2>1 DEF Events
  <1>4. ASSUME NEW id \in Ids, NEW o \in Events(id)
        PROVE  /\ outbox'[id][o].gen = outbox[id][o].gen
               /\ outbox'[id][o].route = outbox[id][o].route
               /\ RowOnTime(id, outbox[id][o])'
               /\ outbox'[id][o].status = "published" => <<id, outbox[id][o].gen>> \in received
    <2>1. outbox[id][o] \in Event /\ RowOnTime(id, outbox[id][o])
      BY QInvParts
    <2>2. outbox'[id][o] = reset(outbox[id][o]) \/ outbox'[id][o] = outbox[id][o]
      BY <1>3
    <2>3. outbox[id][o].status = "published" => <<id, outbox[id][o].gen>> \in received
      BY DEF QInv, PublishedWasReceived
    <2>. QED
      BY <1>1, <1>2, <2>1, <2>2, <2>3 DEF RowOnTime, Current
  <1>5. ASSUME NEW d \in Dispatchers, timely, Busy(d)
        PROVE  outbox'[disp[d].id][disp[d].o] = outbox[disp[d].id][disp[d].o]
    <2>1. /\ disp[d].id \in Ids /\ disp[d].o \in Events(disp[d].id)
          /\ now <= disp[d].due /\ Row(d).until > disp[d].due
          /\ disp[d] \in DispRecord /\ now \in Nat
      BY <1>5, QInvParts DEF WorksOn, InTime
    <2>2. Row(d) \in Event
      BY <2>1, QInvParts DEF Row
    <2>3. Row(d).until \in Int /\ disp[d].due \in Int
      BY <2>1, <2>2 DEF Event, DispRecord
    <2>4. ~Abandoned(Row(d))
      BY <2>1, <2>3 DEF Abandoned
    <2>5. <<disp[d].id, disp[d].o>> \notin R
      BY <2>4 DEF RecoverOutbox, Row
    <2>. QED
      BY <1>3, <2>1, <2>5
  <1>6. /\ OwnTokens' /\ disp' \in [Dispatchers -> DispRecord] /\ tokens' >= tokens
    BY <1>1, QInvParts DEF QInv, OwnTokens, Busy, QType
  <1>7. {} \in SUBSET Dispatchers
    OBVIOUS
  <1>. QED
    BY <1>1, <1>3, <1>4, <1>5, <1>6, <1>7, RowsStep

-----------------------------------------------------------------------------
(* Steps that leave the tables alone *)

LEMMA BrokerStep ==
    ASSUME QInv, UNCHANGED <<vars, timely>>, disp' \in [Dispatchers -> DispRecord],
           received \subseteq received',
           \A m \in queue' : m \in queue \/ (m \in MessageRecord /\ MessageOnTime(m)),
           \A d \in Dispatchers :
             \/ disp'[d].pc = "idle"
             \/ /\ Busy(d) /\ disp'[d].id = disp[d].id /\ disp'[d].o = disp[d].o
                /\ disp'[d].token = disp[d].token /\ disp'[d].due = disp[d].due
                /\ disp'[d].pc = "mark" =>
                     disp[d].pc = "mark" \/ <<disp[d].id, Row(d).gen>> \in received'
    PROVE  QInv'
  <1>0. UNCHANGED <<task, attempts, outbox, held, tokens, now>>
    BY DEF vars
  <1>1. IInv'
    BY QInvParts, InductiveStep
  <1>2. ASSUME NEW d \in Dispatchers
        PROVE  WorksOn(d)' /\ InTime(d)' /\ DispatcherOnTime(d)'
    <2>0. WorksOn(d) /\ InTime(d) /\ DispatcherOnTime(d)
      BY QInvParts
    <2>1. CASE disp'[d].pc = "idle"
      BY <2>1, IdleOK
    <2>2. CASE disp'[d].pc # "idle"
      <3>1. WorksOn(d)'
        BY <1>0, <2>0, <2>2 DEF WorksOn, Busy, Row, Events
      <3>2. InTime(d)'
        BY <1>0, <2>0, <2>2 DEF InTime, Busy, Row, Publishing
      <3>3. DispatcherOnTime(d)'
        BY <1>0, <2>0, <2>2 DEF DispatcherOnTime, Busy, Row, Current
      <3>. QED
        BY <3>1, <3>2, <3>3
    <2>. QED
      BY <2>1, <2>2
  <1>3. ASSUME NEW m \in queue' PROVE m \in MessageRecord /\ MessageOnTime(m)'
    <2>1. m \in MessageRecord /\ MessageOnTime(m)
      BY QInvParts
    <2>. QED
      BY <1>0, <2>1 DEF MessageOnTime, Current
  <1>4. QType'
    BY <1>0, <1>3 DEF QInv, QType
  <1>5. OwnTokens'
    BY DEF QInv, OwnTokens, Busy
  <1>6. ASSUME NEW id \in Ids, NEW o \in Events(id)' PROVE RowOnTime(id, outbox[id][o])'
    BY <1>0, QInvParts DEF RowOnTime, Current, Events
  <1>7. PublishedWasReceived'
    BY <1>0 DEF QInv, PublishedWasReceived, Events
  <1>. QED
    BY <1>1, <1>2, <1>3, <1>4, <1>5, <1>6, <1>7 DEF QInv

(* The message of a row that a dispatcher has is not ready too early.      *)
LEMMA MessageOK ==
    ASSUME QInv, NEW d \in Dispatchers, Busy(d)
    PROVE  /\ Message(d) \in MessageRecord /\ MessageOnTime(Message(d))
           /\ Message(d).id = disp[d].id /\ Message(d).gen = Row(d).gen
  <1>1. /\ disp[d].id \in Ids /\ disp[d].o \in Events(disp[d].id) /\ disp[d].token \in Nat
        /\ DispatcherOnTime(d) /\ disp[d] \in DispRecord /\ now \in Nat
    BY QInvParts DEF WorksOn, DispRecord
  <1>2. Row(d) \in Event /\ Row(d).gen \in 1..task[disp[d].id].gen
    BY <1>1, QInvParts DEF Row, IInv, TaskOK, EventsOK, Events
  <1>3. Row(d).gen \in Nat /\ now + RouteDelay[Row(d).route] \in Int
    BY <1>1, <1>2, DispatchAssumption DEF Event
  <1>. DEFINE m == [id |-> disp[d].id, gen |-> Row(d).gen, token |-> disp[d].token,
                    ready |-> now + RouteDelay[Row(d).route]]
  <1>4. Message(d) = m
    BY DEF Message, Row
  <1>5. /\ m \in MessageRecord /\ m.id = disp[d].id /\ m.gen = Row(d).gen
        /\ m.ready = now + RouteDelay[Row(d).route]
    BY <1>1, <1>3 DEF MessageRecord
  <1>. HIDE DEF m
  <1>6. MessageOnTime(m)
    BY <1>1, <1>2, <1>5 DEF MessageOnTime, DispatcherOnTime
  <1>. QED
    BY <1>4, <1>5, <1>6

LEMMA PublishInv ==
    ASSUME QInv, UNCHANGED timely, NEW d \in Dispatchers,
           PublishConfirmed(d) \/ PublishFailed(d)
    PROVE  QInv'
  <1>0. /\ UNCHANGED vars /\ Busy(d) /\ disp[d].pc = "publish"
        /\ disp \in [Dispatchers -> DispRecord] /\ disp[d] \in DispRecord
    BY QInvParts DEF PublishConfirmed, PublishFailed, Busy, QType
  <1>1. PICK pc \in {"mark", "release"} :
          /\ disp' = [disp EXCEPT ![d].pc = pc]
          /\ \/ Enqueue(d)
             \/ pc = "release" /\ UNCHANGED <<queue, received>>
    BY DEF PublishConfirmed, PublishFailed
  <1>2. /\ disp'[d].id = disp[d].id /\ disp'[d].o = disp[d].o
        /\ disp'[d].token = disp[d].token /\ disp'[d].due = disp[d].due
        /\ disp'[d].pc = pc /\ disp'[d] \in DispRecord
    BY <1>0, <1>1 DEF DispRecord
  <1>3. \A b \in Dispatchers \ {d} : disp'[b] = disp[b]
    BY <1>0, <1>1
  <1>4. disp' \in [Dispatchers -> DispRecord]
    BY <1>0, <1>1, <1>2
  <1>5. /\ Message(d) \in MessageRecord /\ MessageOnTime(Message(d))
        /\ Message(d).id = disp[d].id /\ Message(d).gen = Row(d).gen
    BY <1>0, MessageOK
  <1>6. /\ received \subseteq received'
        /\ \A m \in queue' : m \in queue \/ (m \in MessageRecord /\ MessageOnTime(m))
        /\ pc = "mark" => <<disp[d].id, Row(d).gen>> \in received'
    BY <1>1, <1>5 DEF Enqueue
  <1>7. ASSUME NEW b \in Dispatchers \ {d}
        PROVE  \/ disp'[b].pc = "idle"
               \/ /\ Busy(b) /\ disp'[b] = disp[b]
    BY <1>3 DEF Busy
  <1>. QED
    BY <1>0, <1>2, <1>4, <1>6, <1>7, BrokerStep

LEMMA AbandonInv ==
    ASSUME QInv, UNCHANGED timely, NEW d \in Dispatchers, Abandon(d)
    PROVE  QInv'
  <1>1. disp' = [disp EXCEPT ![d] = Idle] /\ UNCHANGED <<queue, received>> /\ UNCHANGED vars
    BY DEF Abandon, Done
  <1>2. disp \in [Dispatchers -> DispRecord]
    BY QInvParts DEF QType
  <1>3. /\ disp' \in [Dispatchers -> DispRecord] /\ disp'[d].pc = "idle"
        /\ \A b \in Dispatchers \ {d} : disp'[b] = disp[b]
    BY <1>1, <1>2, IdleType
  <1>. QED
    BY <1>1, <1>3, BrokerStep DEF Busy

LEMMA QueueInv ==
    ASSUME QInv, UNCHANGED timely, NEW m, Ack(m) \/ Lose(m)
    PROVE  QInv'
  <1>1. queue' \subseteq queue /\ UNCHANGED <<disp, received>> /\ UNCHANGED vars
    BY DEF Ack, Lose
  <1>2. disp \in [Dispatchers -> DispRecord]
    BY QInvParts DEF QType
  <1>. QED
    BY <1>1, <1>2, BrokerStep DEF Busy

LEMMA DispatchClock ==
    ASSUME QInv, UNCHANGED timely, Clock
    PROVE  QInv'
  <1>0. /\ UNCHANGED <<task, attempts, outbox, held, tokens, disp, queue, received>>
        /\ now' = now + 1 /\ now < MaxTime /\ now \in Nat /\ MaxTime \in Nat
        /\ timely => \A d \in Dispatchers : disp[d].pc # "idle" => now < disp[d].due
    BY QInvParts, StoreAssumption DEF Clock, Tick, tables
  <1>1. IInv'
    <2>1. [Next]_vars
      BY Zenon DEF Clock, Next
    <2>. QED
      BY <2>1, QInvParts, InductiveStep
  <1>2. ASSUME NEW d \in Dispatchers
        PROVE  WorksOn(d)' /\ InTime(d)' /\ DispatcherOnTime(d)'
    <2>0. WorksOn(d) /\ InTime(d) /\ DispatcherOnTime(d) /\ disp[d] \in DispRecord
      BY QInvParts
    <2>1. WorksOn(d)'
      BY <1>0, <2>0 DEF WorksOn, Busy, Row, Events
    <2>2. InTime(d)'
      <3>1. disp[d].due \in Int
        BY <2>0 DEF DispRecord
      <3>2. timely /\ Busy(d) => now + 1 <= disp[d].due
        BY <1>0, <3>1 DEF Busy
      <3>. QED
        BY <1>0, <2>0, <3>2 DEF InTime, Busy, Row, Publishing
    <2>3. DispatcherOnTime(d)'
      <3>1. ASSUME Busy(d), Current(disp[d].id, Row(d).gen)
            PROVE  task[disp[d].id].next <= (now + 1) + RouteDelay[Row(d).route]
        <4>1. disp[d].id \in Ids /\ disp[d].o \in Events(disp[d].id)
          BY <2>0, <3>1 DEF WorksOn
        <4>2. Row(d) \in Event /\ task[disp[d].id] \in Task
          BY <4>1, QInvParts DEF Row
        <4>3. RouteDelay[Row(d).route] \in Nat /\ task[disp[d].id].next \in Int
          BY <4>2, DispatchAssumption DEF Event, Task
        <4>. QED
          BY <1>0, <2>0, <3>1, <4>3 DEF DispatcherOnTime
      <3>. QED
        BY <1>0, <3>1 DEF DispatcherOnTime, Busy, Row, Current
    <2>. QED
      BY <2>1, <2>2, <2>3
  <1>3. ASSUME NEW m \in queue PROVE MessageOnTime(m)'
    BY <1>0, QInvParts DEF MessageOnTime, Current
  <1>4. QType'
    BY <1>0 DEF QInv, QType
  <1>5. OwnTokens'
    BY <1>0 DEF QInv, OwnTokens, Busy
  <1>6. ASSUME NEW id \in Ids, NEW o \in Events(id)' PROVE RowOnTime(id, outbox[id][o])'
    <2>1. /\ o \in Events(id) /\ outbox[id][o] \in Event /\ task[id] \in Task
          /\ RowOnTime(id, outbox[id][o])
      BY <1>0, QInvParts DEF Events
    <2>2. RouteDelay[outbox[id][o].route] \in Nat /\ task[id].next \in Int
      BY <2>1, DispatchAssumption DEF Event, Task
    <2>. DEFINE e == outbox[id][o]
    <2>. HIDE DEF e
    <2>3. \/ task[id].next <= e.avail + RouteDelay[e.route]
          \/ task[id].next <= (now + 1) + RouteDelay[e.route]
          \/ ~Current(id, e.gen)
      BY <1>0, <2>1, <2>2 DEF RowOnTime, e
    <2>. QED
      BY <1>0, <2>3 DEF RowOnTime, Current, e
  <1>7. PublishedWasReceived'
    BY <1>0 DEF QInv, PublishedWasReceived, Events
  <1>. QED
    BY <1>0, <1>1, <1>2, <1>3, <1>4, <1>5, <1>6, <1>7 DEF QInv

-----------------------------------------------------------------------------
LEMMA DispatchInit == QInit => QInv
  <1> SUFFICES ASSUME QInit PROVE QInv
    OBVIOUS
  <1>1. IInv
    BY InductiveInit DEF QInit
  <1>2. QType
    BY IdleType, StoreAssumption DEF QInit, QType, Init
  <1>3. \A d \in Dispatchers : disp[d].pc = "idle"
    BY IdleType DEF QInit
  <1>4. ASSUME NEW id \in Ids PROVE ~\E o \in Events(id) : TRUE
    <2>1. Len(outbox[id]) = 0
      BY DEF QInit, Init
    <2>. QED
      BY <2>1 DEF Events
  <1>5. \A d \in Dispatchers : WorksOn(d) /\ InTime(d) /\ DispatcherOnTime(d)
    BY <1>3 DEF WorksOn, InTime, DispatcherOnTime, Busy
  <1>6. OwnTokens
    BY <1>3 DEF OwnTokens, Busy
  <1>. QED
    BY <1>1, <1>2, <1>4, <1>5, <1>6 DEF QInv, QInit, PublishedWasReceived

LEMMA DispatchStep == QInv /\ [QNext]_qvars => QInv'
  <1> SUFFICES ASSUME QInv, [QNext]_qvars PROVE QInv'
    OBVIOUS
  <1>0. [Next]_vars
    BY DispatchUses
  <1>1. CASE UNCHANGED qvars
    <2>1. /\ UNCHANGED <<vars, timely>> /\ UNCHANGED <<disp, queue, received>>
          /\ disp \in [Dispatchers -> DispRecord]
      BY <1>1, QInvParts DEF qvars, QType
    <2>. QED
      BY <2>1, BrokerStep DEF Busy
  <1>2. CASE QNext
    <2>0. UNCHANGED timely
      BY <1>2 DEF QNext
    <2>1. CASE Submit
      BY <1>0, <2>0, <2>1, SubmitInv
    <2>2. ASSUME NEW d \in Dispatchers, Run(d) PROVE QInv'
      BY <1>0, <2>0, <2>2, TakeInv, PublishInv, MarkInv, ReleaseInv, AbandonInv DEF Run
    <2>3. ASSUME NEW m \in queue, Handle(m) \/ Ack(m) \/ Lose(m) PROVE QInv'
      BY <1>0, <2>0, <2>3, HandleInv, QueueInv
    <2>4. ASSUME NEW n \in held, Settle(n) PROVE QInv'
      BY <1>0, <2>0, <2>4, SettleInv
    <2>5. CASE Repair
      <3>1. UNCHANGED <<timely, disp, queue, received>>
        BY <2>0, <2>5 DEF Repair
      <3>. QED
        BY <1>0, <2>5, <3>1, RecoverOutboxStep, ReconcileStep
           DEF Repair, RepairStep
    <2>6. CASE Clock
      BY <2>0, <2>6, DispatchClock
    <2>. QED
      BY <1>2, <2>1, <2>2, <2>3, <2>4, <2>5, <2>6 DEF QNext
  <1>. QED
    BY <1>1, <1>2

(* dispatcher.go and outbox.go, with publications that fail, repeat or     *)
(* overlap, stalled dispatchers and messages lost: the inductive invariant *)
(* of rows, dispatchers and broker holds.                                  *)
THEOREM DispatchInvariant == QSpec => []QInv
  BY DispatchInit, DispatchStep, PTL DEF QSpec

(* client.go:158-175, dispatcher.go:24: no row is marked as published that *)
(* the broker did not accept, for any number of dispatchers and rows.      *)
THEOREM PublishedReceived == QSpec => []PublishedWasReceived
  <1>1. QInv => PublishedWasReceived
    BY DEF QInv
  <1>. QED
    BY <1>1, DispatchInvariant, PTL

LEMMA InvPublisher == QInv => OnePublisher
  <1> SUFFICES ASSUME QInv, timely, NEW d \in Dispatchers
               PROVE  /\ \A c \in Dispatchers :
                           disp[c].pc # "idle" /\ disp[d].pc # "idle"
                             /\ disp[c].id = disp[d].id /\ disp[c].o = disp[d].o => c = d
                      /\ disp[d].pc = "mark" =>
                           /\ Publishing(disp[d].id, disp[d].o, disp[d].token)
                           /\ outbox[disp[d].id][disp[d].o].until > now
    BY DEF OnePublisher
  <1>1. ASSUME NEW c \in Dispatchers, disp[c].pc # "idle", disp[d].pc # "idle",
               disp[c].id = disp[d].id, disp[c].o = disp[d].o
        PROVE  c = d
    BY <1>1, OtherRow DEF Busy
  <1>2. ASSUME disp[d].pc = "mark"
        PROVE  /\ Publishing(disp[d].id, disp[d].o, disp[d].token)
               /\ outbox[disp[d].id][disp[d].o].until > now
    <2>1. /\ disp[d].id \in Ids /\ disp[d].o \in Events(disp[d].id)
          /\ now <= disp[d].due /\ Row(d).until > disp[d].due
          /\ Publishing(disp[d].id, disp[d].o, disp[d].token)
          /\ disp[d] \in DispRecord /\ now \in Nat
      BY <1>2, QInvParts DEF WorksOn, InTime, Busy
    <2>2. Row(d) \in Event
      BY <2>1, QInvParts DEF Row
    <2>3. Row(d).until \in Int /\ disp[d].due \in Int
      BY <2>1, <2>2 DEF Event, DispRecord
    <2>4. Row(d).until > now
      BY <2>1, <2>3
    <2>. QED
      BY <2>1, <2>4 DEF Row
  <1>. QED
    BY <1>1, <1>2

(* outbox.go:25,35, dispatcher.go:20: while dispatchers stop when their    *)
(* context expires, one at a time has a row, and its confirm is recorded:  *)
(* the 30 seconds of the lease outlive the 10 of the context.              *)
THEOREM OneDispatcher == QSpec => []OnePublisher
  BY InvPublisher, DispatchInvariant, PTL

LEMMA InvNotEarly == QInv => TriggerIsNotEarly
  <1> SUFFICES ASSUME QInv, NEW m \in queue, m.ready <= now,
                      task[m.id].status = "pending", task[m.id].gen = m.gen
               PROVE  task[m.id].next <= now
    BY DEF TriggerIsNotEarly
  <1>1. /\ m \in MessageRecord /\ MessageOnTime(m) /\ now \in Nat
    BY QInvParts
  <1>2. m.id \in Ids /\ m.ready \in Int
    BY <1>1 DEF MessageRecord
  <1>3. task[m.id].next \in Int
    BY <1>2, QInvParts DEF Task
  <1>. QED
    BY <1>1, <1>2, <1>3 DEF MessageOnTime, Current

(* worker.go:51: no trigger of a waiting generation is ready before the    *)
(* notification is due, whatever delay queue it came through.              *)
THEOREM NeverEarly == QSpec => []TriggerIsNotEarly
  BY InvNotEarly, DispatchInvariant, PTL
=============================================================================
