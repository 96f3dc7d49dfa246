---------------------------- MODULE RetryPolicy ----------------------------
(***************************************************************************)
(* internal/retry/policy.go as operators: whether an attempt that ended in *)
(* "retry" is really retried, when, and through which delay queue.         *)
(*                                                                         *)
(* Times and delays are integers of one unit.  A notification n is any     *)
(* record with the fields cycle and deadline, a target t has retryEnabled, *)
(* uncertainRetry and mode, a policy p has delays and respectRetryAfter, a *)
(* decision d has uncertain and retryAfter.                                *)
(***************************************************************************)
EXTENDS Integers, Sequences

CONSTANTS
    Buckets,        \* config.Buckets: the TTLs of the delay queues, in order
    BucketRoutes,   \* config.BucketRoute: their routing keys, in the same order
    MaxRetryAfter,  \* the thirty days beyond which delay-seconds are refused
    MaxInt64        \* the largest value strconv.ParseInt(_, 10, 64) returns

ASSUME BucketsAssumption ==
    /\ Buckets \in Seq(Nat \ {0})
    /\ BucketRoutes \in Seq(STRING)
    /\ Len(BucketRoutes) = Len(Buckets)
    /\ \A b, c \in 1..Len(Buckets) : b < c => Buckets[b] < Buckets[c]
ASSUME LimitsAssumption ==
    /\ MaxRetryAfter \in Nat
    /\ MaxInt64 \in Nat
    /\ MaxRetryAfter <= MaxInt64

(* time.Time{}: the zero value Schedule returns with a refusal.            *)
ZeroTime == -1

(* The Retry-After header as the target sent it.                           *)
NoHeader == [kind |-> "none", v |-> 0]
Seconds(v) == [kind |-> "seconds", v |-> v]
Date(v) == [kind |-> "date", v |-> v]
Garbage == [kind |-> "garbage", v |-> 0]

(* Mutant: an explicit "no" gives way to the idempotency mode.             *)
UncertainAllowedByMode(t) == t.uncertainRetry = "yes" \/ t.mode = "supported"

(* target.UncertainRetry is a *bool: "unset" is the nil pointer.           *)
UncertainAllowed(t) ==
    IF t.uncertainRetry # "unset"
    THEN t.uncertainRetry = "yes"
    ELSE t.mode = "supported"

(* strconv.ParseInt succeeds on the decimal numbers an int64 can hold.     *)
ParsesAsInt(h) == h.kind = "seconds" /\ h.v \in (-MaxInt64 - 1)..MaxInt64

Longer(a, b) == IF a >= b THEN a ELSE b

(* Mutant: an HTTP date is dropped like an unreadable header.              *)
DelayWithoutDate(p, h, i, now) ==
    IF p.respectRetryAfter /\ ParsesAsInt(h) THEN Longer(p.delays[i], h.v) ELSE p.delays[i]

(* The delay asked of the buckets once Retry-After has been applied.  A    *)
(* header neither ParseInt nor http.ParseTime understands is dropped.      *)
Delay(p, h, i, now) ==
    IF ~p.respectRetryAfter THEN p.delays[i]
    ELSE IF ParsesAsInt(h) THEN Longer(p.delays[i], h.v)
    ELSE IF h.kind = "date" THEN Longer(p.delays[i], h.v - now)
    ELSE p.delays[i]

(* Mutant: a bucket of exactly the delay is passed over.                   *)
StopsAbove(delay, b) ==
    /\ b \in 1..Len(Buckets)
    /\ Buckets[b] > delay
    /\ \A c \in 1..(b - 1) : Buckets[c] <= delay

(* The loop over config.Buckets stops at the first one of at least delay.  *)
StopsAt(delay, b) ==
    /\ b \in 1..Len(Buckets)
    /\ Buckets[b] >= delay
    /\ \A c \in 1..(b - 1) : Buckets[c] < delay

Refused(reason) ==
    [action |-> "fail", reason |-> reason, next |-> ZeroTime, route |-> ""]

(* Mutant: the deadline of the cycle is not checked.                       *)
ScheduleInPastDeadline(n, delay, now) ==
    IF ~\E b \in 1..Len(Buckets) : StopsAt(delay, b)
    THEN Refused("retry_after_exceeds_buckets")
    ELSE LET b == CHOOSE c \in 1..Len(Buckets) : StopsAt(delay, c)
         IN  [action |-> "retry", reason |-> "", next |-> now + Buckets[b],
              route |-> BucketRoutes[b]]

ScheduleIn(n, delay, now) ==
    IF ~\E b \in 1..Len(Buckets) : StopsAt(delay, b)
    THEN Refused("retry_after_exceeds_buckets")
    ELSE LET b == CHOOSE c \in 1..Len(Buckets) : StopsAt(delay, c)
             next == now + Buckets[b]
         IN  IF next >= n.deadline
             THEN Refused("retry_deadline_exceeded")
             ELSE [action |-> "retry", reason |-> "", next |-> next,
                   route |-> BucketRoutes[b]]

Schedule(n, t, p, d, now) ==
    LET i == n.cycle IN    \* p.Delays[n.CycleAttempts - 1], one-based here
    IF ~t.retryEnabled THEN Refused("automatic_retry_disabled")
    ELSE IF d.uncertain /\ ~UncertainAllowed(t)
         THEN Refused("uncertain_retry_disabled")
    ELSE IF i < 1 \/ i > Len(p.delays) THEN Refused("retry_exhausted")
    ELSE IF /\ p.respectRetryAfter
            /\ ParsesAsInt(d.retryAfter)
            /\ d.retryAfter.v > MaxRetryAfter
         THEN Refused("retry_after_exceeds_limit")
    ELSE ScheduleIn(n, Delay(p, d.retryAfter, i, now), now)
=============================================================================
