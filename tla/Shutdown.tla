------------------------------ MODULE Shutdown ------------------------------
(***************************************************************************)
(* The life of a pod with all roles: cmd/notifier/main.go and the consumer *)
(* of internal/mq/rabbitmq/client.go.  A session of the consumer has one   *)
(* channel and several workers; it ends when the last worker has returned. *)
(* The dispatcher publishes over the same connection, and a publication    *)
(* whose context ends closes it for everyone.                              *)
(*                                                                         *)
(* Deliver, Lose and Kill are the broker, the network and the platform.    *)
(* Calls of Process and API requests may take for ever.                    *)
(***************************************************************************)
EXTENDS Integers, FiniteSets

CONSTANTS
    Messages,   \* messages for notify.dispatch.q
    Invalid,    \* those that do not decode
    Workers,    \* goroutines of a consumer session
    Handlers,   \* API requests that may run at the same time
    Prefetch    \* unacknowledged messages per channel

ASSUME ShutdownAssumption == Invalid \subseteq Messages /\ Prefetch \in Nat \ {0}

VARIABLES
    main,       \* run: starting, serving, draining, leaving, failed or exited
    stop,       \* the context of the signal has ended
    graceOver,  \* the grace period of 45 seconds has ended
    api,        \* the API server: off, serving, draining or drained
    handler,    \* requests that run
    loop,       \* the dispatcher: idle, publishing or ended
    session,    \* Consume: none, opening, open, closing or ended
    channel,    \* whether the channel of the session is open
    unacked,    \* broker: delivered over the channel and not settled
    gone,       \* broker: acknowledged
    dead,       \* broker: in the dead-letter queue
    buffer,     \* delivered, not yet received by a worker
    worker,     \* the workers of the session
    handled,    \* history: messages for which Process returned nil
    late        \* history: calls each worker began after the signal, at most 2

pod == <<main, stop, graceOver, api, handler, loop>>
queue == <<unacked, gone, dead>>
settled == <<gone, dead>>
history == <<handled, late>>
consumer == <<session, channel, queue, buffer, worker, history>>
svars == <<pod, consumer>>

NoMsg == "none"
Off == [pc |-> "off", msg |-> NoMsg]
Alive == main # "exited"

-----------------------------------------------------------------------------
(* The channel is closed, by whomever: the broker requeues what was not    *)
(* settled.                                                                *)
Requeue == channel' = FALSE /\ unacked' = {}

(* The loop of Consume looks at its context and opens the next session.    *)
Opening ==
    /\ Alive /\ session = "none" /\ ~stop
    /\ session' = "opening"
    /\ UNCHANGED <<pod, channel, queue, buffer, worker, history>>

(* The session of a client that was closed fails, others may.              *)
Open ==
    /\ Alive /\ session = "opening"
    /\ \/ /\ main \notin {"leaving", "failed"}
          /\ session' = "open" /\ channel' = TRUE /\ buffer' = {}
          /\ worker' = [w \in Workers |-> [Off EXCEPT !.pc = "select"]]
       \/ session' = "none" /\ UNCHANGED <<channel, buffer, worker>>
    /\ UNCHANGED <<pod, queue, history>>

Deliver(m) ==
    /\ session = "open" /\ channel
    /\ m \notin unacked \cup gone \cup dead /\ Cardinality(unacked) < Prefetch
    /\ unacked' = unacked \cup {m} /\ buffer' = buffer \cup {m}
    /\ UNCHANGED <<pod, session, channel, settled, worker, history>>

Lose ==
    /\ channel
    /\ Requeue
    /\ UNCHANGED <<pod, session, settled, buffer, worker, history>>

-----------------------------------------------------------------------------
At(w, pc) == Alive /\ worker[w].pc = pc
Becomes(w, pc) == worker' = [worker EXCEPT ![w].pc = pc]
WorkerOnly ==
    UNCHANGED <<pod, session, channel>>

Receive(w, m) ==
    /\ At(w, "select") /\ m \in buffer
    /\ buffer' = buffer \ {m}
    /\ worker' = [worker EXCEPT ![w] = [pc |-> "received", msg |-> m]]
    /\ WorkerOnly /\ UNCHANGED <<queue, history>>

(* ctx.Done, or the channel of messages was closed.                        *)
Return(w) ==
    /\ \/ At(w, "select") /\ (stop \/ ~channel)
       \/ At(w, "pause") /\ stop
    /\ worker' = [worker EXCEPT ![w] = Off]
    /\ WorkerOnly /\ UNCHANGED <<queue, buffer, history>>

(* Mutant: select is trusted not to choose a message after ctx.Done.       *)
AlwaysWanted == TRUE

(* select may choose the message although the context has ended; the       *)
(* message is then left unsettled.                                         *)
StillWanted == ~stop

Recheck(w) ==
    /\ At(w, "received")
    /\ IF ~StillWanted THEN worker' = [worker EXCEPT ![w] = Off]
       ELSE Becomes(w, IF worker[w].msg \in Invalid THEN "reject" ELSE "begin")
    /\ WorkerOnly /\ UNCHANGED <<queue, buffer, history>>

Begin(w) ==
    /\ At(w, "begin")
    /\ Becomes(w, "call")
    /\ late' = IF stop /\ late[w] < 2 THEN [late EXCEPT ![w] = @ + 1] ELSE late
    /\ WorkerOnly /\ UNCHANGED <<queue, buffer, handled>>

(* Mutant: a call that fails during the shutdown is acknowledged.          *)
AfterErrorUnlessStopping == IF stop THEN "ack" ELSE "nack"

AfterError == "nack"

(* An error of its own, or its context was aborted.                        *)
Fails(w) ==
    /\ At(w, "call")
    /\ Becomes(w, AfterError)
    /\ WorkerOnly /\ UNCHANGED <<queue, buffer, history>>

Succeeds(w) ==
    /\ At(w, "call")
    /\ handled' = handled \cup {worker[w].msg}
    /\ Becomes(w, "ack")
    /\ WorkerOnly /\ UNCHANGED <<queue, buffer, late>>

(* Ack, Nack with requeue and Reject.  On a closed channel nothing happens,*)
(* and the worker may or may not be told.                                  *)
Settle(w) ==
    LET m == worker[w].msg
        next == IF worker[w].pc = "nack" THEN "pause" ELSE "select"
    IN  /\ At(w, "ack") \/ At(w, "nack") \/ At(w, "reject")
        /\ \/ /\ channel
              /\ unacked' = unacked \ {m}
              /\ gone' = IF worker[w].pc = "ack" THEN gone \cup {m} ELSE gone
              /\ dead' = IF worker[w].pc = "reject" THEN dead \cup {m} ELSE dead
              /\ worker' = [worker EXCEPT ![w] = [pc |-> next, msg |-> NoMsg]]
           \/ /\ ~channel
              /\ UNCHANGED <<queue>>
              /\ worker' \in {[worker EXCEPT ![w] = [pc |-> next, msg |-> NoMsg]],
                              [worker EXCEPT ![w] = Off]}
        /\ WorkerOnly /\ UNCHANGED <<buffer, history>>

PauseEnds(w) ==
    /\ At(w, "pause")
    /\ Becomes(w, "select")
    /\ WorkerOnly /\ UNCHANGED <<queue, buffer, history>>

(* ctx.Done in consumeSession: no more deliveries.                         *)
Cancel ==
    /\ Alive /\ session = "open" /\ stop
    /\ session' = "closing"
    /\ UNCHANGED <<pod, channel, queue, buffer, worker, history>>

(* Mutant: a cancelled session does not wait for its workers.              *)
SessionOverAtOnce ==
    session = "closing" \/ (session = "open" /\ \A w \in Workers : worker[w].pc = "off")

(* <-done: the last worker has returned.                                   *)
SessionOver == session \in {"open", "closing"} /\ \A w \in Workers : worker[w].pc = "off"

(* The deferred Close of the channel.                                      *)
Close ==
    /\ Alive /\ SessionOver
    /\ session' = "none"
    /\ Requeue
    /\ UNCHANGED <<pod, settled, buffer, worker, history>>

ConsumeReturns ==
    /\ Alive /\ session = "none" /\ stop
    /\ session' = "ended"
    /\ UNCHANGED <<pod, channel, queue, buffer, worker, history>>

-----------------------------------------------------------------------------
(* The dispatcher, for the other loops.                                    *)
Publish ==
    /\ main \in {"starting", "serving"} /\ loop = "idle"
    /\ loop' = "publishing"
    /\ UNCHANGED <<main, stop, graceOver, api, handler, consumer>>

Published ==
    /\ Alive /\ loop = "publishing"
    /\ loop' = "idle"
    /\ UNCHANGED <<main, stop, graceOver, api, handler, consumer>>

(* The context of the publication ends, after ten seconds or because the   *)
(* loops are stopped: Publish closes the connection it shares with the     *)
(* consumer.                                                               *)
PublishCut ==
    /\ Alive /\ loop = "publishing"
    /\ loop' = "idle"
    /\ Requeue
    /\ UNCHANGED <<main, stop, graceOver, api, handler, session, settled, buffer, worker, history>>

LoopEnds ==
    /\ main \in {"draining", "leaving", "failed"} /\ loop = "idle"
    /\ loop' = "ended"
    /\ UNCHANGED <<main, stop, graceOver, api, handler, consumer>>

(* The API.                                                                *)
Request(h) ==
    /\ api = "serving" /\ h \notin handler
    /\ handler' = handler \cup {h}
    /\ UNCHANGED <<main, stop, graceOver, api, loop, consumer>>

Respond(h) ==
    /\ Alive /\ h \in handler
    /\ handler' = handler \ {h}
    /\ UNCHANGED <<main, stop, graceOver, api, loop, consumer>>

-----------------------------------------------------------------------------
(* run: the consumer is started before the servers listen.                 *)
Serve ==
    /\ main = "starting"
    /\ main' = "serving" /\ api' = "serving"
    /\ UNCHANGED <<stop, graceOver, handler, loop, consumer>>

(* A port is taken: run returns, and its deferred calls abort everything.  *)
ListenFails ==
    /\ main = "starting"
    /\ main' = "failed"
    /\ Requeue
    /\ UNCHANGED <<stop, graceOver, api, handler, loop, session, settled, buffer, worker, history>>

Signal ==
    /\ main \in {"starting", "serving"}
    /\ stop' = TRUE
    /\ UNCHANGED <<main, graceOver, api, handler, loop, consumer>>

(* The signal, or an error of a server, which stops the consumer as well.  *)
BeginDrain ==
    /\ main = "serving"
    /\ main' = "draining" /\ stop' = TRUE /\ api' = "draining"
    /\ UNCHANGED <<graceOver, handler, loop, consumer>>

GraceExpires ==
    /\ main = "draining"
    /\ graceOver' = TRUE
    /\ UNCHANGED <<main, stop, api, handler, loop, consumer>>

(* apiServer.Shutdown returns.                                             *)
ApiDone ==
    /\ Alive /\ api = "draining"
    /\ handler = {} \/ graceOver
    /\ api' = "drained"
    /\ UNCHANGED <<main, stop, graceOver, handler, loop, consumer>>

(* wg.Wait and <-apiDone.                                                  *)
Drained ==
    /\ main = "draining"
    /\ session = "ended" /\ loop = "ended" /\ api = "drained"
    /\ main' = "leaving"
    /\ UNCHANGED <<stop, graceOver, api, handler, loop, consumer>>

(* Mutant: the grace period only bounds the wait for the API.              *)
GiveUpAfterCalls == graceOver /\ session = "ended"

GiveUp == graceOver

(* abortAttempts and the Close of the broker's client.                     *)
GraceAbort ==
    /\ main = "draining" /\ GiveUp
    /\ main' = "leaving"
    /\ Requeue
    /\ UNCHANGED <<stop, graceOver, api, handler, loop, session, settled, buffer, worker, history>>

(* The process ends: after its deferred calls, or because it is killed (a  *)
(* second signal included, as stopSignal has restored the default).        *)
Ended ==
    /\ main' = "exited"
    /\ handler' = {} /\ worker' = [w \in Workers |-> Off]
    /\ Requeue
    /\ UNCHANGED <<stop, graceOver, api, loop, session, settled, buffer, history>>

Exit == main \in {"leaving", "failed"} /\ Ended
Kill == main \in {"starting", "serving", "draining"} /\ Ended

-----------------------------------------------------------------------------
Init ==
    /\ main = "starting" /\ stop = FALSE /\ graceOver = FALSE
    /\ api = "off" /\ handler = {} /\ loop = "idle"
    /\ session = "none" /\ channel = FALSE
    /\ unacked = {} /\ gone = {} /\ dead = {} /\ buffer = {}
    /\ worker = [w \in Workers |-> Off]
    /\ handled = {}
    /\ late = [w \in Workers |-> 0]

Work(w) ==
    \/ \E m \in Messages : Receive(w, m)
    \/ Return(w) \/ Recheck(w) \/ Begin(w) \/ Fails(w) \/ Succeeds(w) \/ Settle(w) \/ PauseEnds(w)

Consume == Opening \/ Open \/ Cancel \/ Close \/ ConsumeReturns

Run == Serve \/ ListenFails \/ (stop /\ BeginDrain) \/ ApiDone \/ Drained \/ GraceAbort \/ Exit

Next ==
    \/ Consume \/ Lose
    \/ \E m \in Messages : Deliver(m)
    \/ \E w \in Workers : Work(w)
    \/ Publish \/ Published \/ PublishCut \/ LoopEnds
    \/ \E h \in Handlers : Request(h) \/ Respond(h)
    \/ Run \/ BeginDrain \/ Signal \/ GraceExpires \/ Kill

(* main is scheduled and the timer fires.  Nothing else is assumed: calls, *)
(* requests, loops and the broker may hang.                                *)
Fairness == WF_svars(Run) /\ WF_svars(GraceExpires)

Spec == Init /\ [][Next]_svars /\ Fairness

-----------------------------------------------------------------------------
(* client.go:220-247, main.go:184-190: a message leaves the queue for good *)
(* only if a call of Process for it returned nil, and goes to the dead     *)
(* letters only if it does not decode: whatever is lost, aborted, drained  *)
(* or killed meanwhile, the others can be delivered again.                 *)
NoMessageLost == gone \subseteq handled /\ dead \subseteq Invalid

(* main.go:122,137,178-190, client.go:252-262: the context of calls and    *)
(* requests ends, and run returns, while one of them is running only when  *)
(* the grace period is over: the chain of wait groups from the workers     *)
(* over the session, Consume and the API to main has no gap.               *)
GraceIsGiven ==
    main = "leaving" /\ ~graceOver =>
        handler = {} /\ loop = "ended" /\ \A w \in Workers : worker[w].pc = "off"

(* client.go:213-222: select may prefer a message to ctx.Done for ever;    *)
(* because the context is looked at again, a worker begins at most one     *)
(* call after the signal, the one it was about to begin.                   *)
AtMostOneLateCall == \A w \in Workers : late[w] <= 1

(* main.go:159-190: a pod that was told to stop exits, although targets,   *)
(* clients, the broker and the databases may never answer.                 *)
Terminates == stop ~> main = "exited"
=============================================================================
