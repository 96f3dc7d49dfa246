------------------------------ MODULE MC_Quota ------------------------------
(* Two pods, two targets, and deliveries enough to hit every limit.        *)
EXTENDS Quota, Sequences, TLC

MCRateLimit ==
    [k \in RateKeys |->
        IF k = <<"ingress", "global">> \/ k \in {"egress"} \X Targets THEN 2
        ELSE IF Len(k) = 3 THEN 0 ELSE 1]

MCConcurrency == [k \in SetKeys |-> IF k = "global" THEN 2 ELSE 1]

Symmetry == Permutations(Calls) \cup Permutations(Pods)
=============================================================================
