------------------------------ MODULE Dispatch ------------------------------
(***************************************************************************)
(* The way of a trigger from the outbox to a worker: the dispatchers of    *)
(* internal/outbox/dispatcher.go, RabbitMQ as internal/mq/rabbitmq uses it *)
(* (a dispatch queue, delay queues that dead-letter into it, publisher     *)
(* confirms, acknowledgements) and the recovery loop, on top of Store.     *)
(*                                                                         *)
(* A dispatcher claims a row, publishes it and marks it, within one        *)
(* context.  A publication may be confirmed, fail before the broker has    *)
(* the message, or fail after; the dispatcher may crash anywhere.  The     *)
(* broker may redeliver or lose messages.  Workers are the steps of Store  *)
(* that a delivered message allows (Delivery has the rest of them).        *)
(***************************************************************************)
EXTENDS Store

CONSTANTS
    Dispatchers,        \* the goroutines running Dispatcher.Run
    RouteDelay,         \* TTL of the queue behind each routing key
    DispatchTimeout,    \* 10 seconds: context of a claim, publish and mark
    CommitLag           \* 5 seconds: from Schedule to the commit of Finish

ASSUME DispatchAssumption ==
    /\ RouteDelay \in [Routes -> Nat] /\ RouteDelay["dispatch"] = 0
    /\ DispatchTimeout \in Nat /\ CommitLag \in Nat

(* 30 > 10: the lease of a row outlives the context of its dispatcher.     *)
ASSUME PublishAssumption == PublishTTL > DispatchTimeout

(* What Settle schedules fits the tables of Store.                         *)
ASSUME SettleAssumption ==
    \A t \in (-CommitLag)..MaxTime, route \in DelayRoutes :
        t + RouteDelay[route] \in RetryTimes

VARIABLES
    timely,     \* whether a dispatcher stops when its context expires; never changes
    disp,       \* the dispatchers and the row each one works on
    queue,      \* messages in the broker, delayed, ready or unacknowledged
    received    \* history: the triggers the broker ever accepted

qvars == <<vars, timely, disp, queue, received>>

Idle == [pc |-> "idle", id |-> NoKey, o |-> 0, token |-> NoToken, due |-> NoTime]

-----------------------------------------------------------------------------
Take(d) ==
    /\ disp[d].pc = "idle"
    /\ \E id \in Ids : \E o \in Events(id) :
         /\ ClaimOutbox(id, o)
         /\ disp' = [disp EXCEPT ![d] =
              [pc |-> "publish", id |-> id, o |-> o, token |-> tokens',
               due |-> now + DispatchTimeout]]
    /\ UNCHANGED <<queue, received>>

(* Mutant: every message goes to the dispatch exchange.                    *)
MessageUndelayed(d) ==
    [id |-> disp[d].id, gen |-> outbox[disp[d].id][disp[d].o].gen,
     token |-> disp[d].token, ready |-> now]

(* The message the broker stores: its queue holds it back for the delay.   *)
Message(d) ==
    LET e == outbox[disp[d].id][disp[d].o] IN
    [id |-> disp[d].id, gen |-> e.gen, token |-> disp[d].token,
     ready |-> now + RouteDelay[e.route]]

Enqueue(d) ==
    /\ queue' = queue \cup {Message(d)}
    /\ received' = received \cup {<<Message(d).id, Message(d).gen>>}

(* The confirm arrived and nothing was returned as unroutable.             *)
PublishConfirmed(d) ==
    /\ disp[d].pc = "publish"
    /\ Enqueue(d)
    /\ disp' = [disp EXCEPT ![d].pc = "mark"]
    /\ UNCHANGED vars

(* Mutant: the error of Publish is not looked at.                          *)
PublishFailureIgnored(d) ==
    /\ disp[d].pc = "publish"
    /\ Enqueue(d) \/ UNCHANGED <<queue, received>>
    /\ disp' = [disp EXCEPT ![d].pc = "mark"]
    /\ UNCHANGED vars

(* Connection, channel or context failed, negative confirm or unroutable.  *)
(* The broker may have the message all the same, unless it returned it.    *)
PublishFailed(d) ==
    /\ disp[d].pc = "publish"
    /\ Enqueue(d) \/ UNCHANGED <<queue, received>>
    /\ disp' = [disp EXCEPT ![d].pc = "release"]
    /\ UNCHANGED vars

Done(d) == disp' = [disp EXCEPT ![d] = Idle] /\ UNCHANGED <<queue, received>>

Mark(d) ==
    /\ disp[d].pc = "mark"
    /\ Published(disp[d].id, disp[d].o, disp[d].token)
    /\ Done(d)

Release(d) ==
    /\ disp[d].pc = "release"
    /\ ReleaseOutbox(disp[d].id, disp[d].o, disp[d].token)
    /\ Done(d)

(* ErrState, an expired context (Publish and the UPDATE after it share     *)
(* one), or a crash: the row stays publishing until RecoverOutbox.         *)
Abandon(d) == disp[d].pc # "idle" /\ Done(d) /\ UNCHANGED vars

-----------------------------------------------------------------------------
(* consumeSession hands a ready message to Process.  The message stays     *)
(* until it is acknowledged: an error or a lost channel redelivers it.     *)
Handle(m) ==
    /\ m.ready <= now
    /\ \E t \in AppNow :
         /\ t >= task[m.id].next
         /\ Claim(m.id, m.gen) \/ DeferPending(m.id, m.gen, t)
    /\ UNCHANGED <<disp, queue, received>>

(* Process returned nil: it is done, or it dropped the message because the *)
(* task has moved on, is not due, or is locked by another call.            *)
Ack(m) ==
    /\ m.ready <= now
    /\ queue' = queue \ {m}
    /\ UNCHANGED <<vars, disp, received>>

(* Data loss in the broker.                                                *)
Lose(m) == queue' = queue \ {m} /\ UNCHANGED <<vars, disp, received>>

(* The end of an attempt.  A retry was scheduled at t, a little earlier,   *)
(* by the delay of its route.                                              *)
Settle(n) ==
    /\ \/ FinishFinal(n, "success")
       \/ \E route \in DelayRoutes, t \in (now - CommitLag)..now :
            LET next == t + RouteDelay[route] IN
            /\ Schedulable(n, next)
            /\ FinishRetry(n, next, route, now) \/ RecoverRetry(n, next, route, now)
    /\ UNCHANGED <<disp, queue, received>>

(* The recovery loop on the outbox, and new submissions.                   *)
Repair ==
    /\ RepairStep
    /\ UNCHANGED <<disp, queue, received>>

Submit ==
    /\ \E id \in Ids, key \in Keys, hash \in Hashes, t \in AppNow, duration \in Durations :
         Accept(id, key, hash, t, duration)
    /\ UNCHANGED <<disp, queue, received>>

Clock ==
    /\ timely => \A d \in Dispatchers : disp[d].pc # "idle" => now < disp[d].due
    /\ Tick
    /\ UNCHANGED <<disp, queue, received>>

QInit ==
    /\ Init
    /\ timely \in BOOLEAN
    /\ disp = [d \in Dispatchers |-> Idle]
    /\ queue = {}
    /\ received = {}

Run(d) ==
    Take(d) \/ PublishConfirmed(d) \/ PublishFailed(d) \/ Mark(d) \/ Release(d) \/ Abandon(d)

QNext ==
    /\ \/ Submit
       \/ \E d \in Dispatchers : Run(d)
       \/ \E m \in queue : Handle(m) \/ Ack(m) \/ Lose(m)
       \/ \E n \in held : Settle(n)
       \/ Repair
       \/ Clock
    /\ UNCHANGED timely

QSpec == QInit /\ [][QNext]_qvars

-----------------------------------------------------------------------------
(* client.go:158-175, dispatcher.go:24: a row is marked as published only  *)
(* if the broker accepted its message, however publications fail, repeat   *)
(* or overlap.                                                             *)
PublishedWasReceived ==
    \A id \in Ids : \A o \in Events(id) :
        outbox[id][o].status = "published" => <<id, outbox[id][o].gen>> \in received

(* outbox.go:25,35, dispatcher.go:20: as long as dispatchers stop when     *)
(* their context expires, a row is in the hands of one dispatcher at a     *)
(* time, and a confirm that arrives is recorded, never refused by the      *)
(* lease of the row: the lease outlives the dispatcher's context.          *)
OnePublisher ==
    timely => \A d \in Dispatchers :
        /\ \A c \in Dispatchers :
             disp[c].pc # "idle" /\ disp[d].pc # "idle"
                 /\ disp[c].id = disp[d].id /\ disp[c].o = disp[d].o => c = d
        /\ disp[d].pc = "mark" =>
             /\ Publishing(disp[d].id, disp[d].o, disp[d].token)
             /\ outbox[disp[d].id][disp[d].o].until > now

(* worker.go:51: with equal clocks the trigger of the current generation   *)
(* is never ready before the notification is due, so the check that drops  *)
(* early triggers drops none: the delay runs from the publication, which   *)
(* is later than the instant next_attempt_at was computed from.            *)
TriggerIsNotEarly ==
    \A m \in queue :
        m.ready <= now /\ task[m.id].status = "pending" /\ task[m.id].gen = m.gen
            => task[m.id].next <= now
=============================================================================
