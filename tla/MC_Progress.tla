---------------------------- MODULE MC_Progress ----------------------------
(* One notification from the start, two workers and every fault; or all    *)
(* notifications, with one worker, one fault and one attempt left: they    *)
(* meet in the rounds of recovery.                                         *)
EXTENDS Progress

Waiting == {id \in Ids : task[id].status = "pending"}
Working == {c \in Calls : call[c] = NoCall}
Fresh == \A id \in Ids : task[id].cycle = 0

MCInit ==
    /\ Init
    /\ \/ Waiting = {CHOOSE id \in Ids : TRUE} /\ Working = Calls /\ Fresh /\ faults = 0
       \/ Waiting = Ids /\ Working = {CHOOSE c \in Calls : TRUE} /\ ~Fresh
          /\ faults = MaxFaults - 1

MCSpec == MCInit /\ [][Next]_pvars /\ Fairness
=============================================================================
