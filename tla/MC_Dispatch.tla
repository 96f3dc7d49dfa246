---------------------------- MODULE MC_Dispatch ----------------------------
(* Dispatch with one notification, two dispatchers and one delay queue.    *)
EXTENDS Dispatch, TLC

MCRouteDelay == [route \in Routes |-> IF route = "dispatch" THEN 0 ELSE 1]
MCDurations == {6}
MCRetryTimes == 0..(MaxTime + 1)

(* Only differences of times matter, so the first submission is at 0.      *)
AcceptedAtOnce == now > 0 => \A id \in Ids : task[id].status # "absent"

(* Dispatchers that stall need less time to meet than timely ones.         *)
StalledIsShort == ~timely => now < MaxTime

Symmetry == Permutations(Dispatchers)
=============================================================================
