------------------------------ MODULE MC_Store ------------------------------
(* Store on a small instance, with its refinement of Lifecycle.            *)
EXTENDS StoreLifecycle, TLC

(* Deadlines that fall inside the model, so that Schedule runs into them.  *)
MCDurations == {3}

(* A retry that is due at once when it is written late, and one to wait for. *)
MCRetryTimes == {1, 4}

(* Two notifications meet in the bulk statements and the unique key, which *)
(* takes fewer steps than the story of one.                                *)
SecondIsShort ==
    (\A id \in Ids : task[id].status # "absent")
        => tokens <= 2 /\ now <= 2 /\ \A id \in Ids : task[id].gen <= 2

Symmetry == Permutations(Ids) \cup Permutations(Keys)
=============================================================================
