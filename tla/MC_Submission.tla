--------------------------- MODULE MC_Submission ---------------------------
(* Submission with client a, which has two keys, client b, which tries to  *)
(* retry what a submitted, two targets and two revisions: the second makes *)
(* proxy the default of t1, narrows its allowlist, disables t2 and takes   *)
(* b's permission to retry.                                                *)
EXTENDS Submission, TLC

Sub(key, target, mode, content) ==
    [key |-> key, target |-> target, mode |-> mode, content |-> content]
Body(kind, client, items, id) ==
    [kind |-> kind, client |-> client, items |-> items, id |-> id]
Single(s) == Body("single", ClientOf[s.key], <<s>>, NoKey)

MCKeys == {"a1", "a2"}
MCClientOf == [k \in MCKeys |-> "a"]
MCNormal == [c \in {"post", "POST", "other", "bad"} |->
    IF c = "bad" THEN "malformed" ELSE IF c = "post" THEN "POST" ELSE c]
MCSnapshots ==
    <<[enabled |-> {"t1", "t2"}, clients |-> [a |-> {"t1", "t2"}, b |-> {"t1"}],
       manualRetry |-> [a |-> TRUE, b |-> TRUE],
       accepts |-> [t1 |-> {"POST", "other"}, t2 |-> {"POST"}],
       default |-> [t1 |-> "async", t2 |-> "async"], proxy |-> {"t1"}],
      [enabled |-> {"t1"}, clients |-> [a |-> {"t1", "t2"}, b |-> {"t1"}],
       manualRetry |-> [a |-> TRUE, b |-> FALSE],
       accepts |-> [t1 |-> {"POST"}, t2 |-> {"POST"}],
       default |-> [t1 |-> "proxy", t2 |-> "async"], proxy |-> {"t1"}]>>

(* Races for the key a1, alone and within batches.                         *)
SubmissionBodies ==
    {Single(Sub("a1", "t1", "", "POST")), Single(Sub("a1", "t1", "", "post")),
     Single(Sub("a1", "t1", "", "other")), Single(Sub("a1", "t1", "", "bad")),
     Single(Sub("a1", "t2", "proxy", "POST")),
     Body("batch", "a",
          <<Sub("a1", "t1", "", "POST"), Sub("a2", "t2", "async", "POST")>>, NoKey),
     Body("batch", "a",
          <<Sub("a2", "t1", "proxy", "POST"), Sub("a1", "t1", "async", "post")>>, NoKey)}

(* Retries of what a submitted, by a and by b.                             *)
RetryBodies ==
    {Single(Sub("a1", "t2", "", "POST"))}
        \cup {Body("retry", client, <<>>, id) : client \in {"a", "b"}, id \in Ids}

MCBodies == SubmissionBodies \cup RetryBodies

(* Retries race with retries and workers, submissions with submissions,    *)
(* and at most two of these are batches.                                   *)
IsBatch(r) == req[r].body.kind = "batch"
IsRetry(r) == req[r].body.kind = "retry"
RacesApart ==
    /\ \E r \in Requests : ~IsBatch(r)
    /\ held # {} => \E r \in Requests : IsRetry(r)
    /\ (\E r \in Requests : IsRetry(r)) =>
         \A r \in Requests : req[r].body \in RetryBodies \cup {NoBody}

(* Ids occur in the bodies only as all of Ids.                             *)
IdSymmetry == Permutations(Ids)
=============================================================================
