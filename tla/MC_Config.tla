----------------------------- MODULE MC_Config -----------------------------
(* Config with one pod and one target, whose secret is renamed, whose      *)
(* revision grows with and without a change, and that is disabled and      *)
(* removed; its retry policy and a hook change with and without a new      *)
(* revision.                                                               *)
EXTENDS Config

CONSTANTS t, a, b

Entry(rev, body) == [revision |-> rev, body |-> body]
Document(targets, retry, hook) ==
    [targets |-> targets, retries |-> [x \in {"retry"} |-> retry],
     hooks |-> [x \in {"hook"} |-> hook]]
OneTarget(rev, enabled, ref) ==
    [x \in {t} |-> [revision |-> rev, enabled |-> enabled, ref |-> ref]]
Doc(rev, enabled, ref) ==
    Document(OneTarget(rev, enabled, ref), Entry(1, "first"), Entry(1, "first"))

MCTargets == {t}
MCRefs == {a, b}
NoTargets == [x \in {} |-> 0]
MCDocs ==
    {Doc(1, TRUE, a), Doc(1, TRUE, b), Doc(2, TRUE, b), Doc(2, FALSE, a), Doc(2, TRUE, a),
     Document(NoTargets, Entry(1, "first"), Entry(1, "first")),
     Document(NoTargets, Entry(1, "first"), Entry(1, "second")),
     Document(NoTargets, Entry(2, "second"), Entry(1, "first"))}
=============================================================================
