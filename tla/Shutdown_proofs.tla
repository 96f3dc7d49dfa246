-------------------------- MODULE Shutdown_proofs --------------------------
(* For any number of messages, workers, requests and sessions: what leaves *)
(* the queue was handled, the drain waits for everybody, and a worker      *)
(* begins at most one call after the signal.                               *)
EXTENDS Shutdown, TLAPS

Pcs == {"off", "select", "received", "reject", "begin", "call", "ack", "nack", "pause"}

TypeOK ==
    /\ main \in {"starting", "serving", "draining", "leaving", "failed", "exited"}
    /\ stop \in BOOLEAN /\ graceOver \in BOOLEAN /\ channel \in BOOLEAN
    /\ api \in {"off", "serving", "draining", "drained"}
    /\ loop \in {"idle", "publishing", "ended"}
    /\ session \in {"none", "opening", "open", "closing", "ended"}
    /\ worker \in [Workers -> [pc : Pcs, msg : Messages \cup {NoMsg}]]
    /\ late \in [Workers -> 0..2]
    /\ handler \subseteq Handlers
    /\ buffer \subseteq Messages /\ unacked \subseteq Messages

(* The steps of the pod that leave the consumer to itself, and those of    *)
(* the consumer.                                                           *)
PodStep ==
    \/ Publish \/ Published \/ LoopEnds
    \/ \E h \in Handlers : Request(h) \/ Respond(h)
    \/ Serve \/ BeginDrain \/ ApiDone \/ Drained \/ Signal \/ GraceExpires

CutStep == PublishCut \/ ListenFails \/ GraceAbort \/ Lose

LEMMA NextCases ==
    ASSUME [Next]_svars
    PROVE  \/ PodStep \/ CutStep \/ Exit \/ Kill \/ UNCHANGED svars
           \/ Opening \/ Open \/ Cancel \/ Close \/ ConsumeReturns
           \/ \E m \in Messages : Deliver(m)
           \/ \E w \in Workers : Work(w)
  BY Zenon DEF Next, Consume, Run, PodStep, CutStep

LEMMA PodKeepsConsumer == ASSUME PodStep PROVE UNCHANGED consumer
  BY Zenon DEF PodStep, Publish, Published, LoopEnds, Request, Respond, Serve, BeginDrain,
              ApiDone, Drained, Signal, GraceExpires

LEMMA CutKeepsWorkers ==
    ASSUME CutStep
    PROVE  /\ channel' = FALSE /\ unacked' = {}
           /\ UNCHANGED <<session, settled, buffer, worker, history, stop, graceOver, handler, api>>
  BY DEF CutStep, PublishCut, ListenFails, GraceAbort, Lose, Requeue, pod

LEMMA EndedEffect ==
    ASSUME Exit \/ Kill
    PROVE  /\ main' = "exited" /\ handler' = {} /\ worker' = [w \in Workers |-> Off]
           /\ channel' = FALSE /\ unacked' = {}
           /\ UNCHANGED <<stop, graceOver, api, loop, session, settled, buffer, history>>
  BY DEF Exit, Kill, Ended, Requeue

LEMMA WorkKeepsPod ==
    ASSUME NEW w \in Workers, Work(w)
    PROVE  UNCHANGED <<pod, session, channel>>
  BY Zenon DEF Work, Receive, Return, Recheck, Begin, Fails, Succeeds, Settle, PauseEnds,
              WorkerOnly

LEMMA OffType == /\ Off.pc = "off" /\ Off \in [pc : Pcs, msg : Messages \cup {NoMsg}]
                 /\ [Off EXCEPT !.pc = "select"] \in [pc : Pcs, msg : Messages \cup {NoMsg}]
                 /\ [Off EXCEPT !.pc = "select"].pc = "select"
  BY DEF Off, Pcs

(* What a step of a worker does to its own record.                         *)
LEMMA WorkEffect ==
    ASSUME TypeOK, NEW w \in Workers, Work(w)
    PROVE  /\ worker[w].pc # "off"
           /\ worker' \in [Workers -> [pc : Pcs, msg : Messages \cup {NoMsg}]]
           /\ \A v \in Workers \ {w} : worker'[v] = worker[v]
           /\ worker'[w].pc = "begin" => ~stop
           /\ worker'[w].pc = "ack" => worker'[w].msg \in handled'
           /\ worker'[w].pc = "reject" => worker'[w].msg \in Invalid
           /\ buffer' \subseteq buffer /\ unacked' \subseteq unacked
           /\ handled \subseteq handled'
           /\ gone' # gone => worker[w].pc = "ack" /\ gone' = gone \cup {worker[w].msg}
           /\ dead' # dead => worker[w].pc = "reject" /\ dead' = dead \cup {worker[w].msg}
           /\ late' # late => /\ worker[w].pc = "begin" /\ stop
                              /\ late' = [late EXCEPT ![w] = @ + 1] /\ late[w] < 2
                              /\ worker'[w].pc = "call"
  <1>0. worker \in [Workers -> [pc : Pcs, msg : Messages \cup {NoMsg}]]
    BY DEF TypeOK
  <1>1. ASSUME NEW m \in Messages, Receive(w, m)
        PROVE  /\ worker[w].pc = "select" /\ worker'[w] = [pc |-> "received", msg |-> m]
               /\ worker' = [worker EXCEPT ![w] = [pc |-> "received", msg |-> m]]
               /\ buffer' \subseteq buffer /\ UNCHANGED <<queue, history>>
    BY <1>0, <1>1 DEF Receive, At
  <1>2. CASE Return(w)
    <2>1. /\ worker[w].pc \in {"select", "pause"} /\ worker' = [worker EXCEPT ![w] = Off]
          /\ UNCHANGED <<queue, buffer, history>>
      BY <1>2 DEF Return, At
    <2>. QED
      BY <1>0, <2>1, OffType DEF queue, history
  <1>3. CASE Recheck(w)
    <2>1. /\ worker[w].pc = "received" /\ UNCHANGED <<queue, buffer, history>>
          /\ \/ worker' = [worker EXCEPT ![w] = Off]
             \/ ~stop /\ worker[w].msg \in Invalid
                /\ worker' = [worker EXCEPT ![w].pc = "reject"]
             \/ ~stop /\ worker' = [worker EXCEPT ![w].pc = "begin"]
      BY <1>3 DEF Recheck, At, StillWanted, Becomes
    <2>2. CASE worker' = [worker EXCEPT ![w] = Off]
      BY <1>0, <2>1, <2>2, OffType DEF queue, history
    <2>3. CASE ~stop /\ worker[w].msg \in Invalid
               /\ worker' = [worker EXCEPT ![w].pc = "reject"]
      BY <1>0, <2>1, <2>3 DEF queue, history, Pcs
    <2>4. CASE ~stop /\ worker' = [worker EXCEPT ![w].pc = "begin"]
      BY <1>0, <2>1, <2>4 DEF queue, history, Pcs
    <2>. QED
      BY <2>1, <2>2, <2>3, <2>4
  <1>4. CASE Begin(w)
    <2>1. /\ worker[w].pc = "begin" /\ worker' = [worker EXCEPT ![w].pc = "call"]
          /\ UNCHANGED <<queue, buffer, handled>>
          /\ late' # late => stop /\ late[w] < 2 /\ late' = [late EXCEPT ![w] = @ + 1]
      BY <1>4 DEF Begin, At, Becomes
    <2>. QED
      BY <1>0, <2>1 DEF queue, Pcs
  <1>5. CASE Fails(w)
    <2>1. /\ worker[w].pc = "call" /\ worker' = [worker EXCEPT ![w].pc = "nack"]
          /\ UNCHANGED <<queue, buffer, history>>
      BY <1>5 DEF Fails, At, Becomes, AfterError
    <2>. QED
      BY <1>0, <2>1 DEF queue, history, Pcs
  <1>6. CASE Succeeds(w)
    <2>1. /\ worker[w].pc = "call" /\ worker' = [worker EXCEPT ![w].pc = "ack"]
          /\ handled' = handled \cup {worker[w].msg}
          /\ UNCHANGED <<queue, buffer, late>>
      BY <1>6 DEF Succeeds, At, Becomes
    <2>2. worker'[w].msg = worker[w].msg
      BY <1>0, <2>1
    <2>. QED
      BY <1>0, <2>1, <2>2 DEF queue, Pcs
  <1>7. CASE Settle(w)
    <2>1. /\ worker[w].pc \in {"ack", "nack", "reject"} /\ UNCHANGED <<buffer, history>>
          /\ \E next \in {"pause", "select"} :
               \/ worker' = [worker EXCEPT ![w] = [pc |-> next, msg |-> NoMsg]]
               \/ worker' = [worker EXCEPT ![w] = Off]
          /\ unacked' \subseteq unacked
          /\ (gone' # gone => worker[w].pc = "ack" /\ gone' = gone \cup {worker[w].msg})
          /\ (dead' # dead => worker[w].pc = "reject" /\ dead' = dead \cup {worker[w].msg})
      <3>. DEFINE to == IF worker[w].pc = "nack" THEN "pause" ELSE "select"
      <3>1. /\ worker[w].pc \in {"ack", "nack", "reject"} /\ UNCHANGED <<buffer, history>>
            /\ \/ /\ unacked' = unacked \ {worker[w].msg}
                  /\ gone' = IF worker[w].pc = "ack" THEN gone \cup {worker[w].msg} ELSE gone
                  /\ dead' = IF worker[w].pc = "reject" THEN dead \cup {worker[w].msg} ELSE dead
                  /\ worker' = [worker EXCEPT ![w] = [pc |-> to, msg |-> NoMsg]]
               \/ /\ unacked' = unacked /\ gone' = gone /\ dead' = dead
                  /\ worker' \in {[worker EXCEPT ![w] = [pc |-> to, msg |-> NoMsg]],
                                  [worker EXCEPT ![w] = Off]}
        BY <1>7, Zenon DEF Settle, At, queue
      <3>2. to \in {"pause", "select"}
        OBVIOUS
      <3>. HIDE DEF to
      <3>3. \/ worker' = [worker EXCEPT ![w] = [pc |-> to, msg |-> NoMsg]]
            \/ worker' = [worker EXCEPT ![w] = Off]
        BY <3>1
      <3>4. unacked' \subseteq unacked
        BY <3>1
      <3>5. (gone' # gone => worker[w].pc = "ack" /\ gone' = gone \cup {worker[w].msg})
        <4>0. gone' = gone
                 \/ gone' = IF worker[w].pc = "ack" THEN gone \cup {worker[w].msg} ELSE gone
          BY <1>7, Zenon DEF Settle, queue
        <4>1. CASE worker[w].pc = "ack"
          BY <4>0, <4>1, Zenon
        <4>2. CASE worker[w].pc # "ack"
          BY <4>0, <4>2, Zenon
        <4>. QED
          BY <4>1, <4>2, Zenon
      <3>6. (dead' # dead => worker[w].pc = "reject" /\ dead' = dead \cup {worker[w].msg})
        <4>0. dead' = dead
                 \/ dead' = IF worker[w].pc = "reject" THEN dead \cup {worker[w].msg} ELSE dead
          BY <1>7, Zenon DEF Settle, queue
        <4>1. CASE worker[w].pc = "reject"
          BY <4>0, <4>1, Zenon
        <4>2. CASE worker[w].pc # "reject"
          BY <4>0, <4>2, Zenon
        <4>. QED
          BY <4>1, <4>2, Zenon
      <3>. QED
        BY <3>1, <3>2, <3>3, <3>4, <3>5, <3>6, Zenon
    <2>2. PICK next \in {"pause", "select"} :
               \/ worker' = [worker EXCEPT ![w] = [pc |-> next, msg |-> NoMsg]]
               \/ worker' = [worker EXCEPT ![w] = Off]
      BY <2>1
    <2>3. /\ worker' \in [Workers -> [pc : Pcs, msg : Messages \cup {NoMsg}]]
          /\ \A v \in Workers \ {w} : worker'[v] = worker[v]
          /\ worker'[w].pc \in {"off", "pause", "select"}
      BY <1>0, <2>2, OffType DEF Pcs
    <2>. QED
      BY <2>1, <2>3 DEF history
  <1>8. CASE PauseEnds(w)
    <2>1. /\ worker[w].pc = "pause" /\ worker' = [worker EXCEPT ![w].pc = "select"]
          /\ UNCHANGED <<queue, buffer, history>>
      BY <1>8 DEF PauseEnds, At, Becomes
    <2>. QED
      BY <1>0, <2>1 DEF queue, history, Pcs
  <1>9. CASE \E m \in Messages : Receive(w, m)
    <2>1. PICK m \in Messages : Receive(w, m)
      BY <1>9
    <2>2. /\ worker[w].pc = "select"
          /\ worker' = [worker EXCEPT ![w] = [pc |-> "received", msg |-> m]]
          /\ buffer' \subseteq buffer /\ UNCHANGED <<queue, history>>
      BY <2>1, <1>1
    <2>. QED
      BY <1>0, <2>2 DEF queue, history, Pcs
  <1>. QED
    BY <1>2, <1>3, <1>4, <1>5, <1>6, <1>7, <1>8, <1>9 DEF Work

LEMMA TypeStep == TypeOK /\ [Next]_svars => TypeOK'
  <1> SUFFICES ASSUME TypeOK, [Next]_svars PROVE TypeOK'
    OBVIOUS
  <1>1. CASE PodStep
    <2>1. UNCHANGED consumer
      BY <1>1, PodKeepsConsumer
    <2>2. /\ main' \in {"starting", "serving", "draining", "leaving", "failed", "exited"}
          /\ stop' \in BOOLEAN /\ graceOver' \in BOOLEAN
          /\ api' \in {"off", "serving", "draining", "drained"}
          /\ loop' \in {"idle", "publishing", "ended"}
          /\ handler' \subseteq Handlers
      BY <1>1 DEF TypeOK, PodStep, Publish, Published, LoopEnds, Request, Respond, Serve,
                  BeginDrain, ApiDone, Drained, Signal, GraceExpires
    <2>. QED
      BY <2>1, <2>2 DEF TypeOK, consumer, queue, history
  <1>2. CASE CutStep
    <2>1. /\ main' \in {"starting", "serving", "draining", "leaving", "failed", "exited"}
          /\ loop' \in {"idle", "publishing", "ended"}
      BY <1>2 DEF TypeOK, CutStep, PublishCut, ListenFails, GraceAbort, Lose, pod
    <2>. QED
      BY <1>2, <2>1, CutKeepsWorkers DEF TypeOK, history
  <1>3. CASE Exit \/ Kill
    BY <1>3, EndedEffect, OffType DEF TypeOK, history
  <1>4. CASE Opening \/ Cancel \/ ConsumeReturns
    BY <1>4 DEF TypeOK, Opening, Cancel, ConsumeReturns, pod, queue, history
  <1>5. CASE Open
    <2>1. /\ session' \in {"none", "open"} /\ UNCHANGED <<pod, queue, history>>
          /\ channel' \in BOOLEAN /\ buffer' \subseteq Messages
          /\ \/ worker' = [w \in Workers |-> [Off EXCEPT !.pc = "select"]]
             \/ worker' = worker
      BY <1>5 DEF TypeOK, Open
    <2>2. worker' \in [Workers -> [pc : Pcs, msg : Messages \cup {NoMsg}]]
      BY <2>1, OffType DEF TypeOK
    <2>. QED
      BY <2>1, <2>2 DEF TypeOK, pod, queue, history
  <1>6. CASE Close
    BY <1>6 DEF TypeOK, Close, Requeue, pod, history
  <1>7. CASE \E m \in Messages : Deliver(m)
    BY <1>7 DEF TypeOK, Deliver, pod, history
  <1>8. ASSUME NEW w \in Workers, Work(w) PROVE TypeOK'
    <2>1. UNCHANGED <<pod, session, channel>>
      BY <1>8, WorkKeepsPod
    <2>2. late' \in [Workers -> 0..2]
      BY <1>8, WorkEffect DEF TypeOK
    <2>. QED
      BY <1>8, <2>1, <2>2, WorkEffect DEF TypeOK, pod
  <1>9. CASE UNCHANGED svars
    BY <1>9 DEF TypeOK, svars, pod, consumer, queue, history
  <1>. QED
    BY <1>1, <1>2, <1>3, <1>4, <1>5, <1>6, <1>7, <1>8, <1>9, NextCases

LEMMA TypeInit == Init => TypeOK
  <1> SUFFICES ASSUME Init PROVE TypeOK
    OBVIOUS
  <1>1. worker \in [Workers -> [pc : Pcs, msg : Messages \cup {NoMsg}]]
    BY OffType DEF Init
  <1>2. late \in [Workers -> 0..2]
    BY DEF Init
  <1>. QED
    BY <1>1, <1>2 DEF Init, TypeOK
-----------------------------------------------------------------------------
(* Nothing is lost *)

(* A worker about to acknowledge has handled its message, and one about to *)
(* reject has one that does not decode.                                    *)
LedgerInv ==
    /\ NoMessageLost
    /\ \A w \in Workers : /\ worker[w].pc = "ack" => worker[w].msg \in handled
                          /\ worker[w].pc = "reject" => worker[w].msg \in Invalid

LEMMA LedgerStep == TypeOK /\ LedgerInv /\ [Next]_svars => LedgerInv'
  <1> SUFFICES ASSUME TypeOK, LedgerInv, [Next]_svars PROVE LedgerInv'
    OBVIOUS
  <1>1. CASE PodStep \/ UNCHANGED svars
    BY <1>1, PodKeepsConsumer
       DEF LedgerInv, NoMessageLost, svars, consumer, queue, history
  <1>2. CASE CutStep
    BY <1>2, CutKeepsWorkers DEF LedgerInv, NoMessageLost, settled, history
  <1>3. CASE Exit \/ Kill
    BY <1>3, EndedEffect, OffType DEF LedgerInv, NoMessageLost, settled, history
  <1>4. CASE Opening \/ Cancel \/ ConsumeReturns \/ Close
    BY <1>4 DEF LedgerInv, NoMessageLost, Opening, Cancel, ConsumeReturns, Close, queue,
                settled, history
  <1>5. CASE Open
    <2>1. /\ UNCHANGED <<queue, history>>
          /\ \/ worker' = [w \in Workers |-> [Off EXCEPT !.pc = "select"]]
             \/ worker' = worker
      BY <1>5 DEF Open
    <2>. QED
      BY <2>1, OffType DEF LedgerInv, NoMessageLost, queue, history
  <1>6. CASE \E m \in Messages : Deliver(m)
    BY <1>6 DEF LedgerInv, NoMessageLost, Deliver, settled, history
  <1>7. ASSUME NEW w \in Workers, Work(w) PROVE LedgerInv'
    <2>1. NoMessageLost'
      BY <1>7, WorkEffect DEF LedgerInv, NoMessageLost
    <2>. QED
      BY <1>7, <2>1, WorkEffect DEF LedgerInv
  <1>. QED
    BY <1>1, <1>2, <1>3, <1>4, <1>5, <1>6, <1>7, NextCases

THEOREM Types == Spec => []TypeOK
  BY TypeInit, TypeStep, PTL DEF Spec

(* client.go:220-247: for any number of messages and workers, and whatever *)
(* is lost, cut off, drained or killed, a message is acknowledged only     *)
(* after a call for it returned nil, and only one that does not decode is  *)
(* dead-lettered.                                                          *)
THEOREM NothingLost == Spec => []NoMessageLost
  <1>1. Init => LedgerInv
    BY OffType DEF Init, LedgerInv, NoMessageLost
  <1>2. LedgerInv => NoMessageLost
    BY DEF LedgerInv
  <1>. QED
    BY <1>1, <1>2, LedgerStep, Types, PTL DEF Spec
-----------------------------------------------------------------------------
(* The drain *)

(* The chain of wait groups: without a session no worker runs; once        *)
(* Shutdown has returned in time no request runs; and main leaves in time  *)
(* only after consumer, loops and API.                                     *)
DrainInv ==
    /\ session \in {"none", "opening", "ended"} => \A w \in Workers : worker[w].pc = "off"
    /\ api = "drained" /\ ~graceOver => handler = {}
    /\ main = "leaving" /\ ~graceOver =>
         session = "ended" /\ loop = "ended" /\ api = "drained"

LEMMA DrainStep == TypeOK /\ DrainInv /\ [Next]_svars => DrainInv'
  <1> SUFFICES ASSUME TypeOK, DrainInv, [Next]_svars PROVE DrainInv'
    OBVIOUS
  <1>1. CASE PodStep
    <2>1. UNCHANGED <<session, worker>>
      BY <1>1, PodKeepsConsumer DEF consumer
    <2>2. /\ api' = "drained" /\ ~graceOver' => handler' = {}
          /\ main' = "leaving" /\ ~graceOver' =>
               session' = "ended" /\ loop' = "ended" /\ api' = "drained"
      BY <1>1, <2>1 DEF DrainInv, PodStep, Publish, Published, LoopEnds, Request, Respond,
           Serve, BeginDrain, ApiDone, Drained, Signal, GraceExpires, Alive
    <2>. QED
      BY <2>1, <2>2 DEF DrainInv
  <1>2. CASE CutStep
    BY <1>2, CutKeepsWorkers
       DEF DrainInv, CutStep, PublishCut, ListenFails, GraceAbort, GiveUp, Lose, pod, Alive
  <1>3. CASE Exit \/ Kill
    BY <1>3, EndedEffect, OffType DEF DrainInv
  <1>4. CASE Opening \/ Cancel \/ ConsumeReturns
    BY <1>4 DEF DrainInv, Opening, Cancel, ConsumeReturns, pod
  <1>5. CASE Close
    BY <1>5 DEF DrainInv, Close, SessionOver, pod
  <1>6. CASE Open
    BY <1>6 DEF DrainInv, Open, pod
  <1>7. CASE \E m \in Messages : Deliver(m)
    BY <1>7 DEF DrainInv, Deliver, pod
  <1>8. ASSUME NEW w \in Workers, Work(w) PROVE DrainInv'
    BY <1>8, WorkEffect, WorkKeepsPod DEF DrainInv, pod
  <1>9. CASE UNCHANGED svars
    BY <1>9 DEF DrainInv, svars, pod, consumer
  <1>. QED
    BY <1>1, <1>2, <1>3, <1>4, <1>5, <1>6, <1>7, <1>8, <1>9, NextCases

(* main.go:122,137,178-190: the context of calls and requests ends while   *)
(* one of them runs only when the grace period is over.                    *)
THEOREM GraceGiven == Spec => []GraceIsGiven
  <1>1. Init => DrainInv
    BY OffType DEF Init, DrainInv
  <1>2. DrainInv => GraceIsGiven
    BY DEF DrainInv, GraceIsGiven
  <1>. QED
    BY <1>1, <1>2, DrainStep, Types, PTL DEF Spec
-----------------------------------------------------------------------------
(* Late calls *)

(* A worker that began a call after the signal cannot be about to begin    *)
(* another one, as the signal is not taken back.                           *)
LateInv ==
    \A w \in Workers :
        /\ late[w] <= 1
        /\ late[w] = 1 => stop /\ worker[w].pc # "begin"

LEMMA StopStays == ASSUME TypeOK, [Next]_svars PROVE stop => stop'
  <1>1. CASE PodStep
    BY <1>1 DEF PodStep, Publish, Published, LoopEnds, Request, Respond, Serve,
           BeginDrain, ApiDone, Drained, Signal, GraceExpires
  <1>2. CASE Opening \/ Open \/ Cancel \/ Close \/ ConsumeReturns
    BY <1>2 DEF Opening, Open, Cancel, Close, ConsumeReturns, pod
  <1>3. CASE \E m \in Messages : Deliver(m)
    BY <1>3 DEF Deliver, pod
  <1>4. CASE \E w \in Workers : Work(w)
    BY <1>4, WorkKeepsPod DEF pod
  <1>5. CASE UNCHANGED svars
    BY <1>5 DEF svars, pod
  <1>. QED
    BY <1>1, <1>2, <1>3, <1>4, <1>5, NextCases, CutKeepsWorkers, EndedEffect

LEMMA LateStep == TypeOK /\ LateInv /\ [Next]_svars => LateInv'
  <1> SUFFICES ASSUME TypeOK, LateInv, [Next]_svars PROVE LateInv'
    OBVIOUS
  <1>0. stop => stop'
    BY StopStays
  <1>1. CASE UNCHANGED <<worker, late>>
    BY <1>0, <1>1 DEF LateInv
  <1>2. CASE late' = late /\ \A w \in Workers : worker'[w].pc # "begin"
    BY <1>0, <1>2 DEF LateInv
  <1>3. ASSUME NEW w \in Workers, Work(w) PROVE LateInv'
    <2>1. ASSUME NEW v \in Workers \ {w} PROVE late'[v] = late[v] /\ worker'[v] = worker[v]
      BY <1>3, WorkEffect DEF TypeOK
    <2>2. late'[w] <= 1 /\ (late'[w] = 1 => stop' /\ worker'[w].pc # "begin")
      <3>1. late[w] \in 0..2
        BY DEF TypeOK
      <3>2. CASE late' = late
        BY <1>0, <1>3, <3>2, WorkEffect DEF LateInv
      <3>3. CASE late' # late
        <4>1. /\ worker[w].pc = "begin" /\ stop /\ late' = [late EXCEPT ![w] = @ + 1]
              /\ worker'[w].pc = "call"
          BY <1>3, <3>3, WorkEffect
        <4>2. late[w] = 0
          BY <3>1, <4>1 DEF LateInv
        <4>3. late'[w] = 1
          BY <4>1, <4>2 DEF TypeOK
        <4>. QED
          BY <1>0, <4>1, <4>3
      <3>. QED
        BY <3>2, <3>3
    <2>. QED
      BY <1>0, <2>1, <2>2 DEF LateInv
  <1>4. CASE PodStep \/ CutStep \/ UNCHANGED svars
    BY <1>1, <1>4, PodKeepsConsumer, CutKeepsWorkers DEF svars, consumer, history
  <1>5. CASE Exit \/ Kill
    BY <1>2, <1>5, EndedEffect, OffType DEF history
  <1>6. CASE Opening \/ Cancel \/ Close \/ ConsumeReturns
    BY <1>1, <1>6 DEF Opening, Cancel, Close, ConsumeReturns, history
  <1>7. CASE Open
    BY <1>1, <1>2, <1>7, OffType DEF Open, history
  <1>8. CASE \E m \in Messages : Deliver(m)
    BY <1>1, <1>8 DEF Deliver, history
  <1>. QED
    BY <1>3, <1>4, <1>5, <1>6, <1>7, <1>8, NextCases

(* client.go:213-222: however select chooses and however often the session *)
(* is reopened, a worker begins at most one call after the signal.         *)
THEOREM OneLateCall == Spec => []AtMostOneLateCall
  <1>1. Init => LateInv
    BY DEF Init, LateInv
  <1>2. LateInv => AtMostOneLateCall
    BY DEF LateInv, AtMostOneLateCall
  <1>. QED
    BY <1>1, <1>2, LateStep, Types, PTL DEF Spec
=============================================================================
