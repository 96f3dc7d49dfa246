----------------------------- MODULE RetryCycle -----------------------------
(***************************************************************************)
(* One automatic retry cycle of one notification, from acceptance to       *)
(* "delivered" or "failed": the worker attempts it, the target answers (or *)
(* the worker dies and the lease is recovered), and Schedule of            *)
(* RetryPolicy decides what happens next.  Who runs the attempt and how    *)
(* the trigger travels is the subject of Store; here only what the policy  *)
(* promises a supplier matters.                                            *)
(***************************************************************************)
EXTENDS RetryPolicy

CONSTANTS
    Targets,    \* configurations a target may have
    Policies,   \* retry policies a target may use
    Headers,    \* Retry-After headers a target may send
    Duration,   \* MaxDuration of the policy: the deadline of the cycle
    MaxTime     \* bound: the last instant of the model

ASSUME ConfigAssumption ==
    /\ Targets \subseteq [retryEnabled : BOOLEAN, uncertainRetry : {"unset", "yes", "no"},
                          mode : {"supported", "none"}]
    /\ Policies \subseteq [delays : Seq(Nat \ {0}), respectRetryAfter : BOOLEAN]
    /\ Headers \subseteq [kind : {"none", "seconds", "date", "garbage"}, v : Int]
ASSUME TimesAssumption == Duration \in Nat /\ MaxTime \in Nat /\ Duration <= MaxTime

VARIABLES
    target,     \* historical target configuration of the notification
    policy,     \* historical retry policy of the notification
    status,     \* notification_task.status
    n,          \* cycle_attempt_count, next_attempt_at, retry_deadline_at
    now,        \* wall clock
    sent,       \* HTTP requests issued in this cycle
    asked,      \* earliest instant the last answer allows another request
    lost,       \* the outcome of the last request is unknown
    at          \* instant of the last Schedule

vars == <<target, policy, status, n, now, sent, asked, lost, at>>

Decision(action, uncertain, h) ==
    [action |-> action, uncertain |-> uncertain, retryAfter |-> h]

(* What the sender of the header means by it, whatever the code parses.    *)
Meaning(h) ==
    CASE h.kind = "seconds" -> now + h.v
      [] h.kind = "date" -> h.v
      [] OTHER -> 0

Init ==
    /\ target \in Targets
    /\ policy \in Policies
    /\ status = "pending"
    /\ n = [cycle |-> 0, next |-> 0, deadline |-> Duration]
    /\ now = 0 /\ sent = 0 /\ asked = 0 /\ lost = FALSE /\ at = 0

(* Claim, then the deadline check that precedes the HTTP request.          *)
Attempt ==
    /\ status = "pending"
    /\ now >= n.next
    /\ n' = [n EXCEPT !.cycle = @ + 1]
    /\ IF now >= n.deadline
       THEN status' = "failed" /\ UNCHANGED sent
       ELSE status' = "in_flight" /\ sent' = sent + 1
    /\ UNCHANGED <<target, policy, now, asked, lost, at>>

(* Mutants: a retry starts a new cycle; a refusal leaves the attempt open. *)
SettleRestartsCycle(d) ==
    LET s == Schedule(n, target, policy, d, now) IN
    /\ at' = now
    /\ lost' = d.uncertain
    /\ CASE d.action = "success" -> status' = "delivered" /\ UNCHANGED n
         [] d.action = "fail" -> status' = "failed" /\ UNCHANGED n
         [] d.action = "retry" /\ s.action = "fail" -> status' = "failed" /\ UNCHANGED n
         [] OTHER -> status' = "pending" /\ n' = [n EXCEPT !.next = s.next, !.cycle = 0]

SettleKeepsRefused(d) ==
    LET s == Schedule(n, target, policy, d, now) IN
    /\ at' = now
    /\ lost' = d.uncertain
    /\ CASE d.action = "success" -> status' = "delivered" /\ UNCHANGED n
         [] d.action = "fail" -> status' = "failed" /\ UNCHANGED n
         [] d.action = "retry" /\ s.action = "fail" -> UNCHANGED <<status, n>>
         [] OTHER -> status' = "pending" /\ n' = [n EXCEPT !.next = s.next]

(* The state a decision leaves behind: Schedule, then Finish/RecoverLease. *)
Settle(d) ==
    LET s == Schedule(n, target, policy, d, now) IN
    /\ at' = now
    /\ lost' = d.uncertain
    /\ CASE d.action = "success" -> status' = "delivered" /\ UNCHANGED n
         [] d.action = "fail" -> status' = "failed" /\ UNCHANGED n
         [] d.action = "retry" /\ s.action = "fail" -> status' = "failed" /\ UNCHANGED n
         [] OTHER -> status' = "pending" /\ n' = [n EXCEPT !.next = s.next]

(* A complete answer: 2xx, a terminal status, or 408/429/5xx.              *)
Answered(action, h) ==
    /\ status = "in_flight"
    /\ Settle(Decision(action, FALSE, h))
    /\ asked' = Meaning(h)
    /\ UNCHANGED <<target, policy, now, sent>>

(* Connection lost, timeout or truncated body: the target may have acted.  *)
(* A body that breaks off still leaves the header of the answer behind.    *)
NetworkError(h) ==
    /\ status = "in_flight"
    /\ Settle(Decision("retry", TRUE, h))
    /\ asked' = Meaning(h)
    /\ UNCHANGED <<target, policy, now, sent>>

(* The worker is gone; the recovery loop settles the expired lease.        *)
LeaseExpired ==
    /\ status = "in_flight"
    /\ Settle(Decision("retry", TRUE, NoHeader))
    /\ asked' = 0
    /\ UNCHANGED <<target, policy, now, sent>>

Tick ==
    /\ now < MaxTime
    /\ now' = now + 1
    /\ UNCHANGED <<target, policy, status, n, sent, asked, lost, at>>

Ended == status \in {"delivered", "failed"}

Next ==
    \/ Attempt
    \/ \E action \in {"success", "retry", "fail"}, h \in Headers : Answered(action, h)
    \/ \E h \in Headers : NetworkError(h)
    \/ LeaseExpired
    \/ ~Ended /\ Tick

(* Workers take due notifications, the lease bounds every attempt, and     *)
(* time passes.                                                            *)
Fairness ==
    /\ WF_vars(Attempt)
    /\ WF_vars(LeaseExpired)
    /\ WF_vars(Tick)

Spec == Init /\ [][Next]_vars /\ Fairness

-----------------------------------------------------------------------------
Scheduled == status = "pending" /\ n.cycle > 0

(* Every variable has its type; one cycle has bounded counters.            *)
TypeOK ==
    /\ target \in Targets /\ policy \in Policies
    /\ status \in {"pending", "in_flight", "delivered", "failed"}
    /\ n \in [cycle : Nat, next : Nat, deadline : Nat]
    /\ now \in 0..MaxTime /\ sent \in Nat /\ asked \in Int
    /\ lost \in BOOLEAN /\ at \in 0..MaxTime

(* policy.go:31-40: when the policy respects Retry-After, no scheduled     *)
(* attempt is due before the instant the target asked for.                 *)
RetryAfterHonoured == Scheduled /\ policy.respectRetryAfter => n.next >= asked

(* policy.go:42-48: the wait is the shortest delay queue that satisfies    *)
(* both the policy's delay and the header; a longer one is never used.     *)
NoNeedlessWait ==
    Scheduled =>
        \A b \in 1..Len(Buckets) :
            (at + Buckets[b] < n.next) =>
                \/ Buckets[b] < policy.delays[n.cycle]
                \/ policy.respectRetryAfter /\ at + Buckets[b] < asked

(* policy.go:23-26 with worker.go:88: a cycle sends the first request and  *)
(* at most one more per configured delay.                                  *)
RequestsBounded == sent <= Len(policy.delays) + 1

(* policy.go:20: after an outcome nobody knows, the request is repeated    *)
(* only where the target's configuration says that repeating it is safe.   *)
NoBlindResend ==
    [][sent' > sent /\ lost =>
        \/ target.uncertainRetry = "yes"
        \/ target.uncertainRetry = "unset" /\ target.mode = "supported"]_vars

(* README "bounded retry": every cycle ends in delivered or failed.        *)
CycleEnds == <>Ended

(* policy.go:14 "Unsupported Retry-After delays terminate rather than      *)
(* violate it": a request that asked for more than the longest delay queue *)
(* is never scheduled again.                                               *)
UnsupportedDelayTerminates ==
    Scheduled /\ policy.respectRetryAfter =>
        \E b \in 1..Len(Buckets) : asked <= at + Buckets[b]
=============================================================================
