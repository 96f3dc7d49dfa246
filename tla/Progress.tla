------------------------------ MODULE Progress ------------------------------
(***************************************************************************)
(* That every notification reaches an end: the outbox dispatcher, the      *)
(* broker, concurrent calls of Worker.Process and the recovery loop with   *)
(* its rounds, without clocks.  Instants are replaced by what the code     *)
(* compares them for: a task is due later, due, or due for more than 60    *)
(* seconds; a lease, a row or a key has run out or not.                    *)
(*                                                                         *)
(* Generations are replaced by the set fresh[id] of the actors that work   *)
(* on the current one: a new generation empties it.  Messages and rows of  *)
(* earlier generations are left out; Load drops them.  Whatever may go     *)
(* wrong does so at most MaxFaults times.                                  *)
(***************************************************************************)
EXTENDS Integers

CONSTANTS
    Ids,            \* notifications
    Calls,          \* concurrent calls of Worker.Process
    MaxAttempts,    \* attempts a retry cycle may have
    MaxFaults       \* bound: faults of the environment

Dispatcher == "dispatcher"
Recovery == "recovery"

ASSUME ProgressAssumption ==
    /\ MaxAttempts \in Nat \ {0} /\ MaxFaults \in Nat
    /\ Dispatcher \notin Calls /\ Recovery \notin Calls

VARIABLES
    task,       \* notification_task
    row,        \* mq_outbox: the row of the current generation
    broker,     \* messages of the current generation, in a delay queue or ready
    lock,       \* Redis: who holds the key of a notification
    call,       \* calls of Process
    disp,       \* Dispatcher.Run
    loop,       \* recovery.Loop: where the round is
    fresh,      \* actors that hold the current generation of a notification
    faults

pvars == <<task, row, broker, lock, call, disp, loop, fresh, faults>>

Free == "free"
Orphan == "orphan"      \* the key of a call that did not delete it
NoId == "none"
NoCall == [pc |-> "idle", id |-> NoId, action |-> ""]
Stopped == [NoCall EXCEPT !.pc = "stopped"]     \* a worker that was shut down
NoRow == [pc |-> "idle", id |-> NoId]

Final == {"delivered", "failed"}
Fault == faults < MaxFaults /\ faults' = faults + 1
Joins(a, id) == fresh' = [fresh EXCEPT ![id] = @ \cup {a}]
Leaves(a, id) == fresh' = [fresh EXCEPT ![id] = @ \ {a}]

(* A new generation of id, with this task and row.                         *)
Renew(id, t, r) ==
    /\ task' = [task EXCEPT ![id] = t]
    /\ row' = [row EXCEPT ![id] = r]
    /\ broker' = [broker EXCEPT ![id] = {}]
    /\ fresh' = [fresh EXCEPT ![id] = {}]

(* A retry is due later: its row is published at once, to a delay queue.   *)
RetryLater(id) ==
    Renew(id, [task[id] EXCEPT !.status = "pending", !.age = "later", !.lease = "none"], "pending")

-----------------------------------------------------------------------------
(* Dispatcher.Run.                                                         *)
ClaimOutbox(id) ==
    /\ disp.pc = "idle"
    /\ row[id] = "pending"
    /\ row' = [row EXCEPT ![id] = "publishing"]
    /\ disp' = [pc |-> "publish", id |-> id]
    /\ Joins(Dispatcher, id)
    /\ UNCHANGED <<task, broker, lock, call, loop, faults>>

(* The broker stores the message, in a delay queue if it is not due.       *)
Stored ==
    IF Dispatcher \in fresh[disp.id]
    THEN broker' = [broker EXCEPT ![disp.id] =
           @ \cup {IF task[disp.id].age = "later" THEN "delayed" ELSE "ready"}]
    ELSE UNCHANGED broker

PublishConfirmed ==
    /\ disp.pc = "publish"
    /\ Stored
    /\ disp' = [disp EXCEPT !.pc = "mark"]
    /\ UNCHANGED <<task, row, lock, call, loop, fresh, faults>>

PublishFails ==
    /\ disp.pc = "publish"
    /\ Fault
    /\ Stored \/ UNCHANGED broker
    /\ disp' = [disp EXCEPT !.pc = "release"]
    /\ UNCHANGED <<task, row, lock, call, loop, fresh>>

(* Published and ReleaseOutbox.                                            *)
EndPublish(pc, status) ==
    /\ disp.pc = pc
    /\ row' = IF Dispatcher \in fresh[disp.id] THEN [row EXCEPT ![disp.id] = status] ELSE row
    /\ disp' = NoRow
    /\ Leaves(Dispatcher, disp.id)
    /\ UNCHANGED <<task, broker, lock, call, loop, faults>>

Mark == EndPublish("mark", "published")
Release == EndPublish("release", "pending")

(* A crash, or the context of the publication has expired: it is the one   *)
(* ReleaseOutbox would use, so the row stays.                              *)
AbandonRow ==
    /\ disp.pc # "idle"
    /\ Fault
    /\ disp' = NoRow
    /\ Leaves(Dispatcher, disp.id)
    /\ UNCHANGED <<task, row, broker, lock, call, loop>>

-----------------------------------------------------------------------------
(* Worker.Process.  A call that ends releases the lock it holds, or leaves *)
(* the key behind if Redis is away or the process dies.                    *)
Ends(c) ==
    /\ call' = [call EXCEPT ![c] = NoCall]
    /\ \E key \in {Free, Orphan} :
         lock' = IF lock[call[c].id] = c THEN [lock EXCEPT ![call[c].id] = key] ELSE lock

Goto(c, pc) == call' = [call EXCEPT ![c].pc = pc]

(* A message of the current generation reaches Load.  It is dropped if the *)
(* task is not pending or not due.                                         *)
Begin(c, id) ==
    /\ call[c].pc = "idle"
    /\ "ready" \in broker[id]
    /\ broker' = [broker EXCEPT ![id] = @ \ {"ready"}]
    /\ IF task[id].status = "pending" /\ task[id].age # "later"
       THEN call' = [call EXCEPT ![c] = [NoCall EXCEPT !.pc = "lock", !.id = id]] /\ Joins(c, id)
       ELSE UNCHANGED <<call, fresh>>
    /\ UNCHANGED <<task, row, lock, disp, loop, faults>>

(* Without Redis the call goes on without the lock.                        *)
Locked(c) ==
    /\ call[c].pc = "lock"
    /\ \/ lock[call[c].id] = Free /\ lock' = [lock EXCEPT ![call[c].id] = c]
       \/ UNCHANGED lock
    /\ Goto(c, "gate")
    /\ UNCHANGED <<task, row, broker, disp, loop, fresh, faults>>

(* Another call holds the lock: the message is acknowledged all the same.  *)
LockBusy(c) ==
    /\ call[c].pc = "lock"
    /\ lock[call[c].id] # Free
    /\ Ends(c) /\ Leaves(c, call[c].id)
    /\ UNCHANGED <<task, row, broker, disp, loop, faults>>

Gated(c) ==
    /\ call[c].pc = "gate"
    /\ Goto(c, "claim")
    /\ UNCHANGED <<task, row, broker, lock, disp, loop, fresh, faults>>

(* DeferPending: a new generation whose row is available when it is due.   *)
GateRefuses(c) ==
    /\ call[c].pc = "gate"
    /\ Fault
    /\ LET id == call[c].id IN
       IF c \in fresh[id] /\ task[id].status = "pending"
       THEN Renew(id, [task[id] EXCEPT !.age = "later"], "deferred")
       ELSE Leaves(c, id) /\ UNCHANGED <<task, row, broker>>
    /\ Ends(c)
    /\ UNCHANGED <<disp, loop>>

ClaimCall(c) ==
    LET id == call[c].id IN
    /\ call[c].pc = "claim"
    /\ IF c \in fresh[id] /\ task[id].status = "pending"
       THEN /\ task' = [task EXCEPT ![id] = [@ EXCEPT !.status = "in_flight", !.lease = "live",
                                                      !.cycle = @ + 1]]
            /\ Goto(c, "http")
            /\ UNCHANGED <<lock, fresh>>
       ELSE Ends(c) /\ Leaves(c, id) /\ UNCHANGED task
    /\ UNCHANGED <<row, broker, disp, loop, faults>>

(* Deliver, the hook and Schedule: a retry is granted while the policy has *)
(* delays left.                                                            *)
Answer(c) ==
    /\ call[c].pc = "http"
    /\ \E action \in {"success", "fail", "retry"} :
         /\ action = "retry" => task[call[c].id].cycle < MaxAttempts
         /\ call' = [call EXCEPT ![c].pc = "commit", ![c].action = action]
    /\ UNCHANGED <<task, row, broker, lock, disp, loop, fresh, faults>>

Commit(c) ==
    LET id == call[c].id IN
    /\ call[c].pc = "commit"
    /\ IF c \notin fresh[id] \/ task[id].lease # "live"
       THEN Leaves(c, id) /\ UNCHANGED <<task, row, broker>>
       ELSE IF call[c].action = "retry" THEN RetryLater(id)
       ELSE /\ task' = [task EXCEPT ![id] = [@ EXCEPT !.lease = "none",
                 !.status = IF call[c].action = "success" THEN "delivered" ELSE "failed"]]
            /\ Leaves(c, id)
            /\ UNCHANGED <<row, broker>>
    /\ Ends(c)
    /\ UNCHANGED <<disp, loop, faults>>

(* An error or a crash anywhere: the message is delivered again.           *)
Abort(c) ==
    LET id == call[c].id IN
    /\ call[c].pc \notin {"idle", "stopped"}
    /\ Fault
    /\ broker' = IF c \in fresh[id] THEN [broker EXCEPT ![id] = @ \cup {"ready"}] ELSE broker
    /\ Ends(c) /\ Leaves(c, id)
    /\ UNCHANGED <<task, row, disp, loop>>

-----------------------------------------------------------------------------
(* recovery.Loop.step: abandoned rows, expired leases one by one, lost     *)
(* triggers.  An error ends the round; the next one starts from the top.   *)
RecoverOutbox ==
    /\ loop.pc = "outbox"
    /\ row' = [id \in Ids |-> IF row[id] = "abandoned" THEN "pending" ELSE row[id]]
    /\ loop' = [loop EXCEPT !.pc = "expired"]
    /\ UNCHANGED <<task, broker, lock, call, disp, fresh, faults>>

Expired ==
    LET expired == {id \in Ids : task[id].status = "in_flight" /\ task[id].lease = "expired"} IN
    /\ loop.pc = "expired"
    /\ loop' = [pc |-> "leases", todo |-> expired]
    /\ fresh' = [id \in Ids |-> IF id \in expired THEN fresh[id] \cup {Recovery} ELSE fresh[id]]
    /\ UNCHANGED <<task, row, broker, lock, call, disp, faults>>

(* RecoverLease, with the copy Expired returned.  Schedule grants a retry  *)
(* or not; a failed task has a new generation and no row.                  *)
RecoverLease(id) ==
    /\ loop.pc = "leases" /\ id \in loop.todo
    /\ IF Recovery \in fresh[id] /\ task[id].status = "in_flight"
       THEN \/ task[id].cycle < MaxAttempts /\ RetryLater(id)
            \/ Renew(id, [task[id] EXCEPT !.status = "failed", !.lease = "none"], "none")
       ELSE Leaves(Recovery, id) /\ UNCHANGED <<task, row, broker>>
    /\ loop' = [loop EXCEPT !.todo = @ \ {id}]
    /\ UNCHANGED <<lock, call, disp, faults>>

RoundFails ==
    /\ loop.pc # "outbox"
    /\ Fault
    /\ loop' = [pc |-> "outbox", todo |-> {}]
    /\ fresh' = [id \in Ids |-> fresh[id] \ {Recovery}]
    /\ UNCHANGED <<task, row, broker, lock, call, disp>>

(* Mutant: a row of the current generation is taken for a live trigger,    *)
(* however long ago it was published.                                      *)
OverdueWithoutRow(id) == task[id].status = "pending" /\ task[id].age = "aged" /\ row[id] = "none"

Overdue(id) == task[id].status = "pending" /\ task[id].age = "aged" /\ row[id] = "old"

(* next_attempt_at stays as it is.                                         *)
Reconcile ==
    LET S == {id \in Ids : Overdue(id)} IN
    /\ loop.pc = "leases" /\ loop.todo = {}
    /\ row' = [id \in Ids |-> IF id \in S THEN "pending" ELSE row[id]]
    /\ broker' = [id \in Ids |-> IF id \in S THEN {} ELSE broker[id]]
    /\ fresh' = [id \in Ids |-> IF id \in S THEN {} ELSE fresh[id]]
    /\ loop' = [loop EXCEPT !.pc = "outbox"]
    /\ UNCHANGED <<task, lock, call, disp, faults>>

Round == RecoverOutbox \/ Expired \/ (\E id \in Ids : RecoverLease(id)) \/ Reconcile

-----------------------------------------------------------------------------
(* Time.  A context of 45 seconds ends before a lease of 60, one of 10     *)
(* before a lease of 30, and a message that is ready is handled within 60  *)
(* seconds; anything slower is a fault.                                    *)
InTime(busy) == IF busy THEN Fault ELSE UNCHANGED faults

Underway(id) == "ready" \in broker[id] \/ fresh[id] \cap Calls # {}

BecomesDue(id) ==
    /\ task[id].status = "pending" /\ task[id].age = "later"
    /\ task' = [task EXCEPT ![id].age = "due"]
    /\ row' = IF row[id] = "deferred" THEN [row EXCEPT ![id] = "pending"] ELSE row
    /\ UNCHANGED <<broker, lock, call, disp, loop, fresh, faults>>

Ages(id) ==
    /\ task[id].status = "pending" /\ task[id].age = "due"
    /\ InTime(Underway(id))
    /\ task' = [task EXCEPT ![id].age = "aged"]
    /\ UNCHANGED <<row, broker, lock, call, disp, loop, fresh>>

RowAges(id) ==
    /\ row[id] = "published"
    /\ InTime(Underway(id))
    /\ row' = [row EXCEPT ![id] = "old"]
    /\ UNCHANGED <<task, broker, lock, call, disp, loop, fresh>>

RowRunsOut(id) ==
    /\ row[id] = "publishing"
    /\ InTime(Dispatcher \in fresh[id])
    /\ row' = [row EXCEPT ![id] = "abandoned"]
    /\ UNCHANGED <<task, broker, lock, call, disp, loop, fresh>>

LeaseRunsOut(id) ==
    /\ task[id].status = "in_flight" /\ task[id].lease = "live"
    /\ InTime(\E c \in Calls \cap fresh[id] : call[c].pc \in {"http", "commit"})
    /\ task' = [task EXCEPT ![id].lease = "expired"]
    /\ UNCHANGED <<row, broker, lock, call, disp, loop, fresh>>

KeyRunsOut(id) ==
    /\ lock[id] = Orphan
    /\ lock' = [lock EXCEPT ![id] = Free]
    /\ UNCHANGED <<task, row, broker, call, disp, loop, fresh, faults>>

(* The TTL of the delay queue; with skewed clocks it may end too early.    *)
DelayEnds(id) ==
    /\ "delayed" \in broker[id]
    /\ InTime(task[id].age = "later")
    /\ broker' = [broker EXCEPT ![id] = (@ \ {"delayed"}) \cup {"ready"}]
    /\ UNCHANGED <<task, row, lock, call, disp, loop, fresh>>

Lose(id) ==
    /\ broker[id] # {}
    /\ Fault
    /\ broker' = [broker EXCEPT ![id] = {}]
    /\ UNCHANGED <<task, row, lock, call, disp, loop, fresh>>

(* ManualRetry of a failed notification.                                   *)
Retry(id) ==
    /\ task[id].status = "failed"
    /\ Fault
    /\ Renew(id, [task[id] EXCEPT !.status = "pending", !.age = "due", !.cycle = 0], "pending")
    /\ UNCHANGED <<lock, call, disp, loop>>

-----------------------------------------------------------------------------
(* Notifications just accepted, manually retried or due for another        *)
(* attempt, among settled ones; some faults may be in the past.            *)
Init ==
    /\ \E S \in SUBSET Ids, cycle \in 0..(MaxAttempts - 1) :
         /\ task = [id \in Ids |-> [status |-> IF id \in S THEN "pending" ELSE "delivered",
                                   age |-> "due", cycle |-> cycle, lease |-> "none"]]
         /\ row = [id \in Ids |-> IF id \in S THEN "pending" ELSE "old"]
    /\ broker = [id \in Ids |-> {}]
    /\ lock = [id \in Ids |-> Free]
    /\ \E W \in SUBSET Calls \ {{}} :
         call = [c \in Calls |-> IF c \in W THEN NoCall ELSE Stopped]
    /\ disp = NoRow
    /\ loop = [pc |-> "outbox", todo |-> {}]
    /\ fresh = [id \in Ids |-> {}]
    /\ faults \in 0..MaxFaults

Process(c) ==
    Locked(c) \/ LockBusy(c) \/ Gated(c) \/ ClaimCall(c) \/ Answer(c) \/ Commit(c)

Dispatch == (\E id \in Ids : ClaimOutbox(id)) \/ PublishConfirmed \/ Mark \/ Release

Passes(id) ==
    BecomesDue(id) \/ Ages(id) \/ RowAges(id) \/ RowRunsOut(id) \/ LeaseRunsOut(id)
        \/ KeyRunsOut(id) \/ DelayEnds(id)

Next ==
    \/ Dispatch \/ PublishFails \/ AbandonRow
    \/ \E c \in Calls : (\E id \in Ids : Begin(c, id)) \/ Process(c) \/ GateRefuses(c) \/ Abort(c)
    \/ Round \/ RoundFails
    \/ \E id \in Ids : Passes(id) \/ Lose(id) \/ Retry(id)

(* Goroutines are scheduled, contexts end every call and publication, the  *)
(* loops tick and time passes.                                             *)
Fairness ==
    /\ WF_pvars(Dispatch)
    /\ WF_pvars(Round)
    /\ \A c \in Calls : WF_pvars(Process(c))
    /\ \A id \in Ids :
         /\ WF_pvars(\E c \in Calls : Begin(c, id))
         /\ WF_pvars(BecomesDue(id)) /\ WF_pvars(Ages(id)) /\ WF_pvars(RowAges(id))
         /\ WF_pvars(RowRunsOut(id)) /\ WF_pvars(LeaseRunsOut(id))
         /\ WF_pvars(KeyRunsOut(id)) /\ WF_pvars(DelayEnds(id))

Spec == Init /\ [][Next]_pvars /\ Fairness

-----------------------------------------------------------------------------
(* worker.go:51,73, dispatcher.go:28, loop.go:39-71, recovery.go:71-113:   *)
(* a notification that was accepted, or retried by hand, is delivered or   *)
(* fails in the end: a trigger that is lost, dropped because it came early *)
(* or because the lock was taken, or never published, is replaced, and a   *)
(* lease whose holder died is recovered, although a round of recovery ends *)
(* at the first error.                                                     *)
EventuallySettled ==
    \A id \in Ids : task[id].status = "pending" ~> task[id].status \in Final
=============================================================================
