------------------------- MODULE RetryCycle_proofs -------------------------
(* What Schedule grants, for every policy, bucket list, header and time,   *)
(* and what a retry cycle therefore promises the target.                   *)
EXTENDS RetryCycle, TLAPS

Header == [kind : {"none", "seconds", "date", "garbage"}, v : Int]

LEMMA LongerIsLonger ==
    ASSUME NEW a \in Int, NEW b \in Int
    PROVE  Longer(a, b) \in Int /\ Longer(a, b) >= a /\ Longer(a, b) >= b
  BY DEF Longer

(* The bucket the loop stops at covers the delay and meets the deadline.   *)
LEMMA ScheduleInContract ==
    ASSUME NEW m, m.deadline \in Int, NEW delay \in Int, NEW time \in Int,
           ScheduleIn(m, delay, time).action = "retry"
    PROVE  /\ ScheduleIn(m, delay, time).next \in Int
           /\ ScheduleIn(m, delay, time).next >= time + delay
           /\ ScheduleIn(m, delay, time).next < m.deadline
           /\ ScheduleIn(m, delay, time).next > time
  <1>. DEFINE b == CHOOSE c \in 1..Len(Buckets) : StopsAt(delay, c)
  <1>1. \E c \in 1..Len(Buckets) : StopsAt(delay, c)
    BY DEF ScheduleIn, Refused
  <1>2. b \in 1..Len(Buckets) /\ StopsAt(delay, b)
    BY <1>1
  <1>. DEFINE next == time + Buckets[b]
              granted == [action |-> "retry", reason |-> "", next |-> next,
                          route |-> BucketRoutes[b]]
  <1>4. ScheduleIn(m, delay, time) =
          IF next >= m.deadline THEN Refused("retry_deadline_exceeded") ELSE granted
    BY <1>1 DEF ScheduleIn
  <1>. HIDE DEF b
  <1>3. Buckets[b] \in Nat \ {0} /\ Buckets[b] >= delay
    BY <1>2, BucketsAssumption DEF StopsAt
  <1>7. granted.next = next /\ Refused("retry_deadline_exceeded").action = "fail"
    BY DEF Refused
  <1>. HIDE DEF granted
  <1>5. ~(next >= m.deadline)
    BY <1>4, <1>7
  <1>6. ScheduleIn(m, delay, time).next = next
    BY <1>4, <1>5, <1>7
  <1>. QED
    BY <1>3, <1>5, <1>6

(* internal/retry/policy.go: a granted retry has an attempt left in the    *)
(* policy, falls before the deadline, waits at least the policy's delay    *)
(* and what a header the code can parse asks for, and repeats an uncertain *)
(* attempt only where that is allowed.                                     *)
THEOREM ScheduleContract ==
    ASSUME NEW m, m.cycle \in Nat, m.deadline \in Int,
           NEW t,
           NEW p, p.delays \in Seq(Nat \ {0}),
           NEW d, d.retryAfter \in Header,
           NEW time \in Int,
           Schedule(m, t, p, d, time).action = "retry"
    PROVE  LET s == Schedule(m, t, p, d, time) IN
           /\ s.next \in Int
           /\ m.cycle \in 1..Len(p.delays)
           /\ s.next < m.deadline
           /\ s.next >= time + p.delays[m.cycle]
           /\ s.next > time
           /\ t.retryEnabled
           /\ d.uncertain => UncertainAllowed(t)
           /\ p.respectRetryAfter /\ ParsesAsInt(d.retryAfter) =>
                s.next >= time + d.retryAfter.v
           /\ p.respectRetryAfter /\ d.retryAfter.kind = "date" =>
                s.next >= d.retryAfter.v
  <1>. DEFINE h == d.retryAfter
              delay == Delay(p, h, m.cycle, time)
              s == Schedule(m, t, p, d, time)
  <1>1. \A reason : Refused(reason).action # "retry"
    BY DEF Refused
  <1>2. t.retryEnabled /\ (d.uncertain => UncertainAllowed(t))
    BY <1>1 DEF Schedule
  <1>3. m.cycle \in 1..Len(p.delays)
    BY <1>1, <1>2 DEF Schedule
  <1>4. s = ScheduleIn(m, delay, time)
    BY <1>1, <1>2, <1>3 DEF Schedule
  <1>5. p.delays[m.cycle] \in Int /\ h.v \in Int /\ h.v - time \in Int
    BY <1>3 DEF Header
  <1>6. /\ delay \in Int /\ delay >= p.delays[m.cycle]
        /\ p.respectRetryAfter /\ ParsesAsInt(h) => delay >= h.v
        /\ p.respectRetryAfter /\ h.kind = "date" => delay >= h.v - time
    <2>1. CASE ~p.respectRetryAfter
      BY <1>5, <2>1 DEF Delay
    <2>2. CASE p.respectRetryAfter /\ ParsesAsInt(h)
      <3>1. delay = Longer(p.delays[m.cycle], h.v) /\ h.kind = "seconds"
        BY <2>2 DEF Delay, ParsesAsInt
      <3>2. /\ Longer(p.delays[m.cycle], h.v) \in Int
            /\ Longer(p.delays[m.cycle], h.v) >= p.delays[m.cycle]
            /\ Longer(p.delays[m.cycle], h.v) >= h.v
        BY <1>5, LongerIsLonger
      <3>. QED
        BY <3>1, <3>2
    <2>3. CASE p.respectRetryAfter /\ ~ParsesAsInt(h) /\ h.kind = "date"
      <3>1. delay = Longer(p.delays[m.cycle], h.v - time)
        BY <2>3 DEF Delay
      <3>2. /\ Longer(p.delays[m.cycle], h.v - time) \in Int
            /\ Longer(p.delays[m.cycle], h.v - time) >= p.delays[m.cycle]
            /\ Longer(p.delays[m.cycle], h.v - time) >= h.v - time
        BY <1>5, LongerIsLonger
      <3>. QED
        BY <2>3, <3>1, <3>2
    <2>4. CASE p.respectRetryAfter /\ ~ParsesAsInt(h) /\ h.kind # "date"
      BY <1>5, <2>4 DEF Delay
    <2>. QED
      BY <2>1, <2>2, <2>3, <2>4
  <1>. HIDE DEF delay, s, h
  <1>7. s.next \in Int /\ s.next >= time + delay /\ s.next < m.deadline /\ s.next > time
    BY <1>4, <1>6, ScheduleInContract DEF s
  <1>8. s.next >= time + p.delays[m.cycle]
    BY <1>5, <1>6, <1>7
  <1>9. delay >= h.v => s.next >= time + h.v
    BY <1>5, <1>6, <1>7
  <1>10. delay >= h.v - time => s.next >= h.v
    BY <1>5, <1>6, <1>7
  <1>. QED
    BY <1>2, <1>3, <1>6, <1>7, <1>8, <1>9, <1>10 DEF s, h
-----------------------------------------------------------------------------
(* The bound on requests: a waiting notification has used at most as many  *)
(* attempts as the policy has delays.                                      *)
BoundInv ==
    /\ TypeOK
    /\ sent <= n.cycle
    /\ n.cycle <= Len(policy.delays) + 1
    /\ status = "pending" => n.cycle <= Len(policy.delays)

LEMMA ConfigTypes ==
    ASSUME TypeOK
    PROVE  /\ policy.delays \in Seq(Nat \ {0}) /\ Len(policy.delays) \in Nat
           /\ n.cycle \in Nat /\ n.deadline \in Int /\ now \in Nat
  BY ConfigAssumption, TimesAssumption DEF TypeOK

(* A notification that is made to wait got a granted Schedule.             *)
LEMMA SettleGranted ==
    ASSUME TypeOK, NEW d, d.action \in {"success", "retry", "fail"},
           d.retryAfter \in Header, Settle(d), status' = "pending"
    PROVE  /\ Schedule(n, target, policy, d, now).action = "retry"
           /\ n' = [n EXCEPT !.next = Schedule(n, target, policy, d, now).next]
  <1>. DEFINE s == Schedule(n, target, policy, d, now)
  <1>1. s.action \in {"retry", "fail"}
    BY DEF Schedule, ScheduleIn, Refused
  <1>. HIDE DEF s
  <1>2. Settle(d) =>
          CASE d.action = "success" -> status' = "delivered" /\ UNCHANGED n
            [] d.action = "fail" -> status' = "failed" /\ UNCHANGED n
            [] d.action = "retry" /\ s.action = "fail" -> status' = "failed" /\ UNCHANGED n
            [] OTHER -> status' = "pending" /\ n' = [n EXCEPT !.next = s.next]
    BY DEF Settle, s
  <1>3. d.action = "retry" /\ s.action # "fail" /\ n' = [n EXCEPT !.next = s.next]
    BY <1>2
  <1>. QED
    BY <1>1, <1>3 DEF s
LEMMA MeaningType == ASSUME NEW h \in Header, now \in Nat PROVE Meaning(h) \in Int
  BY DEF Meaning, Header

(* What every way of ending an attempt has in common.                      *)
LEMMA SettleStep ==
    ASSUME BoundInv, NEW d, d.action \in {"success", "retry", "fail"},
           d.uncertain \in BOOLEAN, d.retryAfter \in Header, Settle(d),
           asked' \in Int, UNCHANGED <<target, policy, now, sent>>
    PROVE  /\ BoundInv'
           /\ status' = "pending" =>
                /\ Schedule(n, target, policy, d, now).action = "retry"
                /\ n'.next = Schedule(n, target, policy, d, now).next
  <1>. DEFINE s == Schedule(n, target, policy, d, now)
  <1>0. TypeOK /\ n \in [cycle : Nat, next : Nat, deadline : Nat]
    BY DEF BoundInv, TypeOK
  <1>1. status' \in {"pending", "delivered", "failed"} /\ at' = now /\ lost' = d.uncertain
    BY DEF Settle
  <1>2. CASE status' = "pending"
    <2>1. s.action = "retry" /\ n' = [n EXCEPT !.next = s.next]
      BY <1>0, <1>2, SettleGranted
    <2>a. /\ policy.delays \in Seq(Nat \ {0}) /\ n.cycle \in Nat /\ n.deadline \in Int
          /\ now \in Int /\ now \in Nat
      BY <1>0, ConfigTypes
    <2>2. /\ s.next \in Int /\ s.next > now /\ n.cycle \in 1..Len(policy.delays)
          /\ now \in Nat
      BY <2>a, <2>1, ScheduleContract
    <2>. HIDE DEF s
    <2>3. n' \in [cycle : Nat, next : Nat, deadline : Nat] /\ n'.cycle = n.cycle
          /\ n'.next = s.next
      BY <1>0, <2>1, <2>2
    <2>4. TypeOK'
      BY <1>0, <1>1, <2>3 DEF TypeOK
    <2>. QED
      BY <1>2, <2>1, <2>2, <2>3, <2>4 DEF BoundInv, s
  <1>3. CASE status' # "pending"
    <2>1. n' = n
      BY <1>3 DEF Settle
    <2>2. TypeOK'
      BY <1>0, <1>1, <2>1 DEF TypeOK
    <2>. QED
      BY <1>3, <2>1, <2>2 DEF BoundInv
  <1>. QED
    BY <1>2, <1>3

LEMMA BoundInit == Init => BoundInv
  <1> SUFFICES ASSUME Init PROVE BoundInv
    OBVIOUS
  <1>1. /\ n \in [cycle : Nat, next : Nat, deadline : Nat] /\ n.cycle = 0
    BY TimesAssumption DEF Init
  <1>2. now \in 0..MaxTime /\ at \in 0..MaxTime /\ sent \in Nat /\ asked \in Int
    BY TimesAssumption DEF Init
  <1>3. TypeOK
    BY <1>1, <1>2 DEF Init, TypeOK
  <1>. QED
    BY <1>1, <1>3, ConfigTypes DEF Init, BoundInv

LEMMA AnsweredStep ==
    ASSUME BoundInv, NEW action \in {"success", "retry", "fail"}, NEW h \in Header,
           NEW uncertain \in BOOLEAN, Settle(Decision(action, uncertain, h)),
           asked' \in Int, UNCHANGED <<target, policy, now, sent>>
    PROVE  /\ BoundInv'
           /\ status' = "pending" =>
                LET s == Schedule(n, target, policy, Decision(action, uncertain, h), now)
                IN  s.action = "retry" /\ n'.next = s.next
  <1>. DEFINE d == Decision(action, uncertain, h)
  <1>1. /\ d.action \in {"success", "retry", "fail"}
        /\ d.uncertain \in BOOLEAN /\ d.retryAfter \in Header
    BY DEF Decision
  <1>. HIDE DEF d
  <1>2. /\ BoundInv'
        /\ status' = "pending" =>
             /\ Schedule(n, target, policy, d, now).action = "retry"
             /\ n'.next = Schedule(n, target, policy, d, now).next
    BY <1>1, SettleStep DEF d
  <1>. QED
    BY <1>2 DEF d

LEMMA BoundStep == BoundInv /\ [Next]_vars => BoundInv'
  <1> SUFFICES ASSUME BoundInv, [Next]_vars PROVE BoundInv'
    OBVIOUS
  <1>0. TypeOK /\ now \in Nat /\ n \in [cycle : Nat, next : Nat, deadline : Nat]
        /\ Len(policy.delays) \in Nat /\ sent \in Nat
    BY ConfigTypes DEF BoundInv, TypeOK
  <1>1. CASE Attempt
    <2>1. /\ status = "pending" /\ n' = [n EXCEPT !.cycle = @ + 1]
          /\ status' \in {"failed", "in_flight"} /\ sent' \in {sent, sent + 1}
          /\ UNCHANGED <<target, policy, now, asked, lost, at>>
      BY <1>1 DEF Attempt
    <2>2. n' \in [cycle : Nat, next : Nat, deadline : Nat] /\ n'.cycle = n.cycle + 1
      BY <1>0, <2>1
    <2>3. TypeOK'
      BY <1>0, <2>1, <2>2 DEF TypeOK
    <2>4. sent <= n.cycle /\ n.cycle <= Len(policy.delays)
      BY <2>1 DEF BoundInv
    <2>5. sent' <= n'.cycle /\ n'.cycle <= Len(policy'.delays) + 1 /\ status' # "pending"
      BY <1>0, <2>1, <2>2, <2>4
    <2>. QED
      BY <2>3, <2>5 DEF BoundInv
  <1>2. ASSUME NEW action \in {"success", "retry", "fail"}, NEW h \in Headers,
               Answered(action, h)
        PROVE  BoundInv'
    <2>1. h \in Header
      BY ConfigAssumption DEF Header
    <2>. QED
      BY <1>0, <1>2, <2>1, MeaningType, AnsweredStep DEF Answered
  <1>3. ASSUME NEW h \in Headers, NetworkError(h) PROVE BoundInv'
    <2>1. h \in Header
      BY ConfigAssumption DEF Header
    <2>. QED
      BY <1>0, <1>3, <2>1, MeaningType, AnsweredStep DEF NetworkError
  <1>4. CASE LeaseExpired
    <2>1. NoHeader \in Header
      BY DEF NoHeader, Header
    <2>2. /\ Settle(Decision("retry", TRUE, NoHeader)) /\ asked' = 0
          /\ UNCHANGED <<target, policy, now, sent>>
      BY <1>4, Zenon DEF LeaseExpired
    <2>3. asked' \in Int
      BY <2>2
    <2>. QED
      BY <2>1, <2>2, <2>3, AnsweredStep
  <1>5. CASE Tick
    BY <1>0, <1>5, TimesAssumption DEF Tick, BoundInv, TypeOK
  <1>6. CASE UNCHANGED vars
    BY <1>6 DEF vars, BoundInv, TypeOK
  <1>. QED
    BY <1>1, <1>2, <1>3, <1>4, <1>5, <1>6 DEF Next

THEOREM CycleInvariant == Spec => []BoundInv
  BY BoundInit, BoundStep, PTL DEF Spec

(* internal/retry/policy.go:23: however attempts end, a cycle sends at     *)
(* most one request more than the policy has delays.                       *)
THEOREM RequestsAreBounded == Spec => []RequestsBounded
  <1>1. BoundInv => RequestsBounded
    <2> SUFFICES ASSUME BoundInv PROVE RequestsBounded
      OBVIOUS
    <2>1. n.cycle \in Nat /\ Len(policy.delays) \in Nat /\ sent \in Nat
      BY ConfigTypes DEF BoundInv, TypeOK
    <2>. QED
      BY <2>1 DEF BoundInv, RequestsBounded
  <1>. QED
    BY <1>1, CycleInvariant, PTL
(* Headers the code can read: delay-seconds that fit an int64.             *)
HeadersParse == \A h \in Headers : h.kind = "seconds" => ParsesAsInt(h)

(* A granted retry is not due before the instant the answer asked for.     *)
LEMMA GrantHonours ==
    ASSUME TypeOK, NEW h \in Header, h.kind = "seconds" => ParsesAsInt(h),
           NEW action, NEW uncertain,
           Schedule(n, target, policy, Decision(action, uncertain, h), now).action = "retry",
           policy.respectRetryAfter
    PROVE  Schedule(n, target, policy, Decision(action, uncertain, h), now).next >= Meaning(h)
  <1>. DEFINE d == Decision(action, uncertain, h)
              s == Schedule(n, target, policy, d, now)
  <1>1. /\ policy.delays \in Seq(Nat \ {0}) /\ n.cycle \in Nat /\ n.deadline \in Int
        /\ now \in Int /\ now \in Nat
    BY ConfigTypes
  <1>2. d.retryAfter = h
    BY DEF Decision
  <1>. HIDE DEF d
  <1>3. s.action = "retry"
    BY DEF d
  <1>4. /\ s.next \in Int /\ s.next > now
        /\ ParsesAsInt(h) => s.next >= now + h.v
        /\ h.kind = "date" => s.next >= h.v
    BY <1>1, <1>2, <1>3, ScheduleContract
  <1>. HIDE DEF s
  <1>5. s.next >= Meaning(h)
    <2>1. CASE h.kind = "seconds"
      BY <1>4, <2>1 DEF Meaning
    <2>2. CASE h.kind = "date"
      BY <1>4, <2>2 DEF Meaning
    <2>3. CASE h.kind # "seconds" /\ h.kind # "date"
      BY <1>1, <1>4, <2>3 DEF Meaning
    <2>. QED
      BY <2>1, <2>2, <2>3
  <1>. QED
    BY <1>5 DEF s, d

LEMMA HonourStep ==
    ASSUME HeadersParse
    PROVE  BoundInv /\ RetryAfterHonoured /\ [Next]_vars => RetryAfterHonoured'
  <1> SUFFICES ASSUME BoundInv, RetryAfterHonoured, [Next]_vars,
                      Scheduled', policy'.respectRetryAfter
               PROVE  n'.next >= asked'
    BY DEF RetryAfterHonoured
  <1>0. TypeOK /\ now \in Nat /\ status' = "pending"
    BY ConfigTypes DEF BoundInv, Scheduled
  <1>1. CASE Attempt
    BY <1>0, <1>1 DEF Attempt
  <1>2. ASSUME NEW action \in {"success", "retry", "fail"}, NEW h \in Headers,
               NEW uncertain \in BOOLEAN,
               Settle(Decision(action, uncertain, h)), asked' = Meaning(h),
               UNCHANGED <<target, policy, now, sent>>
        PROVE  n'.next >= asked'
    <2>1. h \in Header /\ (h.kind = "seconds" => ParsesAsInt(h))
      BY ConfigAssumption DEF Header, HeadersParse
    <2>2. asked' \in Int /\ policy.respectRetryAfter
      BY <1>0, <1>2, <2>1, MeaningType
    <2>. DEFINE s == Schedule(n, target, policy, Decision(action, uncertain, h), now)
    <2>3. s.action = "retry" /\ n'.next = s.next
      BY <1>0, <1>2, <2>1, <2>2, AnsweredStep
    <2>4. s.next >= Meaning(h)
      BY <1>0, <2>1, <2>2, <2>3, GrantHonours
    <2>. QED
      BY <1>2, <2>3, <2>4
  <1>3. CASE \E action \in {"success", "retry", "fail"}, h \in Headers : Answered(action, h)
    BY <1>2, <1>3, Zenon DEF Answered
  <1>4. CASE \E h \in Headers : NetworkError(h)
    BY <1>2, <1>4, Zenon DEF NetworkError
  <1>5. CASE LeaseExpired
    <2>1. NoHeader \in Header
      BY DEF NoHeader, Header
    <2>2. /\ Settle(Decision("retry", TRUE, NoHeader)) /\ asked' = 0
          /\ UNCHANGED <<target, policy, now, sent>>
      BY <1>5, Zenon DEF LeaseExpired
    <2>3. asked' \in Int
      BY <2>2
    <2>4. BoundInv'
      BY <2>1, <2>2, <2>3, AnsweredStep
    <2>5. n'.next \in Nat
      BY <2>4 DEF BoundInv, TypeOK
    <2>. QED
      BY <2>2, <2>5
  <1>6. CASE Tick \/ UNCHANGED vars
    BY <1>6 DEF Tick, vars, RetryAfterHonoured, Scheduled
  <1>. QED
    BY <1>1, <1>3, <1>4, <1>5, <1>6 DEF Next

(* internal/retry/policy.go:31-40: unless a target sends delay-seconds     *)
(* beyond an int64, no retry is due before the instant it asked for.       *)
THEOREM RetryAfterIsHonoured == HeadersParse => (Spec => []RetryAfterHonoured)
  <1> SUFFICES ASSUME HeadersParse PROVE Spec => []RetryAfterHonoured
    OBVIOUS
  <1>1. Init => RetryAfterHonoured
    BY DEF Init, RetryAfterHonoured, Scheduled
  <1>2. BoundInv /\ RetryAfterHonoured /\ [Next]_vars => RetryAfterHonoured'
    BY HonourStep
  <1>. QED
    BY <1>1, <1>2, CycleInvariant, PTL DEF Spec
-----------------------------------------------------------------------------
(* The shortest sufficient delay queue *)

(* A granted retry waits the first bucket that covers the delay: every     *)
(* bucket that would be due earlier is shorter than the delay.             *)
LEMMA ScheduleInShortest ==
    ASSUME NEW m, m.deadline \in Int, NEW delay \in Int, NEW time \in Int,
           ScheduleIn(m, delay, time).action = "retry",
           NEW c \in 1..Len(Buckets), time + Buckets[c] < ScheduleIn(m, delay, time).next
    PROVE  Buckets[c] < delay
  <1>. DEFINE b == CHOOSE k \in 1..Len(Buckets) : StopsAt(delay, k)
  <1>1. \E k \in 1..Len(Buckets) : StopsAt(delay, k)
    BY DEF ScheduleIn, Refused
  <1>2. b \in 1..Len(Buckets) /\ StopsAt(delay, b)
    BY <1>1
  <1>. DEFINE next == time + Buckets[b]
              granted == [action |-> "retry", reason |-> "", next |-> next,
                          route |-> BucketRoutes[b]]
  <1>4. ScheduleIn(m, delay, time) =
          IF next >= m.deadline THEN Refused("retry_deadline_exceeded") ELSE granted
    BY <1>1 DEF ScheduleIn
  <1>. HIDE DEF b
  <1>7. granted.next = next /\ Refused("retry_deadline_exceeded").action = "fail"
    BY DEF Refused
  <1>. HIDE DEF granted
  <1>6. ScheduleIn(m, delay, time).next = next
    BY <1>4, <1>7
  <1>8. Len(Buckets) \in Nat /\ Buckets[b] \in Nat /\ Buckets[c] \in Nat
    BY <1>2, BucketsAssumption
  <1>9. ~(b < c) /\ b # c
    BY <1>2, <1>6, <1>8, BucketsAssumption
  <1>. QED
    BY <1>2, <1>8, <1>9 DEF StopsAt

LEMMA LongerIsOne ==
    ASSUME NEW a, NEW b PROVE Longer(a, b) = a \/ Longer(a, b) = b
  BY DEF Longer

(* A bucket shorter than the delay asked for is too short for the policy   *)
(* or for the header.                                                      *)
LEMMA DelayIsAsked ==
    ASSUME NEW p, NEW h, NEW i, NEW time
    PROVE  \/ Delay(p, h, i, time) = p.delays[i]
           \/ /\ p.respectRetryAfter /\ ParsesAsInt(h)
              /\ Delay(p, h, i, time) = h.v
           \/ /\ p.respectRetryAfter /\ h.kind = "date"
              /\ Delay(p, h, i, time) = h.v - time
  BY LongerIsOne DEF Delay

LEMMA GrantShortest ==
    ASSUME TypeOK, NEW h \in Header, NEW action, NEW uncertain,
           Schedule(n, target, policy, Decision(action, uncertain, h), now).action = "retry",
           NEW b \in 1..Len(Buckets),
           now + Buckets[b] <
             Schedule(n, target, policy, Decision(action, uncertain, h), now).next
    PROVE  \/ Buckets[b] < policy.delays[n.cycle]
           \/ policy.respectRetryAfter /\ now + Buckets[b] < Meaning(h)
  <1>. DEFINE d == Decision(action, uncertain, h)
              s == Schedule(n, target, policy, d, now)
              delay == Delay(policy, h, n.cycle, now)
  <1>1. /\ policy.delays \in Seq(Nat \ {0}) /\ n.cycle \in Nat /\ n.deadline \in Int
        /\ now \in Int /\ now \in Nat
    BY ConfigTypes
  <1>2. d.retryAfter = h
    BY DEF Decision
  <1>3. \A reason : Refused(reason).action # "retry"
    BY DEF Refused
  <1>. HIDE DEF d
  <1>4. s.action = "retry"
    BY DEF d
  <1>5. n.cycle \in 1..Len(policy.delays)
    BY <1>1, <1>2, <1>4, ScheduleContract
  <1>6. s = ScheduleIn(n, delay, now)
    BY <1>2, <1>3, <1>4, <1>5 DEF Schedule
  <1>7. policy.delays[n.cycle] \in Int /\ h.v \in Int /\ h.v - now \in Int
    BY <1>1, <1>5 DEF Header
  <1>8. \/ delay = policy.delays[n.cycle]
        \/ policy.respectRetryAfter /\ h.kind = "seconds" /\ delay = h.v
        \/ policy.respectRetryAfter /\ h.kind = "date" /\ delay = h.v - now
    BY DelayIsAsked DEF ParsesAsInt
  <1>9. delay \in Int
    BY <1>7, <1>8
  <1>. HIDE DEF delay
  <1>10. Buckets[b] < delay
    BY <1>1, <1>4, <1>6, <1>9, ScheduleInShortest DEF s, d
  <1>11. Buckets[b] \in Int
    BY BucketsAssumption
  <1>12. CASE delay = policy.delays[n.cycle]
    BY <1>10, <1>12
  <1>13. CASE policy.respectRetryAfter /\ h.kind = "seconds" /\ delay = h.v
    <2>1. Meaning(h) = now + h.v
      BY <1>13 DEF Meaning
    <2>. QED
      BY <1>1, <1>7, <1>10, <1>11, <1>13, <2>1
  <1>14. CASE policy.respectRetryAfter /\ h.kind = "date" /\ delay = h.v - now
    <2>1. Meaning(h) = h.v
      BY <1>14 DEF Meaning
    <2>. QED
      BY <1>1, <1>7, <1>10, <1>11, <1>14, <2>1
  <1>. QED
    BY <1>8, <1>12, <1>13, <1>14

LEMMA ShortestStep == BoundInv /\ NoNeedlessWait /\ [Next]_vars => NoNeedlessWait'
  <1> SUFFICES ASSUME BoundInv, NoNeedlessWait, [Next]_vars, Scheduled',
                      NEW b \in 1..Len(Buckets), at' + Buckets[b] < n'.next
               PROVE  \/ Buckets[b] < policy'.delays[n'.cycle]
                      \/ policy'.respectRetryAfter /\ at' + Buckets[b] < asked'
    BY DEF NoNeedlessWait
  <1>0. TypeOK /\ now \in Nat /\ status' = "pending"
    BY ConfigTypes DEF BoundInv, Scheduled
  <1>1. CASE Attempt
    BY <1>0, <1>1 DEF Attempt
  <1>2. ASSUME NEW action \in {"success", "retry", "fail"}, NEW h \in Header,
               NEW uncertain \in BOOLEAN,
               Settle(Decision(action, uncertain, h)),
               asked' = Meaning(h), UNCHANGED <<target, policy, now, sent>>
        PROVE  \/ Buckets[b] < policy'.delays[n'.cycle]
               \/ policy'.respectRetryAfter /\ at' + Buckets[b] < asked'
    <2>. DEFINE d == Decision(action, uncertain, h)
                s == Schedule(n, target, policy, d, now)
    <2>1. asked' \in Int
      BY <1>0, <1>2, MeaningType
    <2>2. s.action = "retry" /\ n'.next = s.next
      BY <1>0, <1>2, <2>1, AnsweredStep
    <2>3. d.action = action /\ d.retryAfter = h
      BY DEF Decision
    <2>. HIDE DEF d
    <2>4. at' = now /\ n' = [n EXCEPT !.next = s.next]
      BY <1>0, <1>2, <2>3, SettleGranted DEF d, Settle
    <2>5. n'.cycle = n.cycle
      BY <1>0, <2>4 DEF TypeOK
    <2>6. \/ Buckets[b] < policy.delays[n.cycle]
          \/ policy.respectRetryAfter /\ now + Buckets[b] < Meaning(h)
      BY <1>0, <2>2, <2>4, GrantShortest DEF d
    <2>. QED
      BY <1>2, <2>4, <2>5, <2>6
  <1>3. ASSUME NEW action \in {"success", "retry", "fail"}, NEW h \in Headers,
               Answered(action, h)
        PROVE  \/ Buckets[b] < policy'.delays[n'.cycle]
               \/ policy'.respectRetryAfter /\ at' + Buckets[b] < asked'
    <2>1. h \in Header
      BY ConfigAssumption DEF Header
    <2>. QED
      BY <1>2, <1>3, <2>1, Zenon DEF Answered
  <1>4. ASSUME NEW h \in Headers, NetworkError(h)
        PROVE  \/ Buckets[b] < policy'.delays[n'.cycle]
               \/ policy'.respectRetryAfter /\ at' + Buckets[b] < asked'
    <2>1. h \in Header
      BY ConfigAssumption DEF Header
    <2>. QED
      BY <1>2, <1>4, <2>1, Zenon DEF NetworkError
  <1>5. CASE LeaseExpired
    <2>1. NoHeader \in Header /\ Meaning(NoHeader) = 0
      BY DEF NoHeader, Header, Meaning
    <2>2. /\ Settle(Decision("retry", TRUE, NoHeader)) /\ asked' = 0
          /\ UNCHANGED <<target, policy, now, sent>>
      BY <1>5, Zenon DEF LeaseExpired
    <2>. QED
      BY <1>2, <2>1, <2>2, Zenon
  <1>6. CASE Tick \/ UNCHANGED vars
    BY <1>6 DEF Tick, vars, NoNeedlessWait, Scheduled
  <1>. QED
    BY <1>1, <1>3, <1>4, <1>5, <1>6 DEF Next

(* internal/retry/policy.go:42-48: whatever the policy, the header and the *)
(* delay queues, a retry never waits a longer queue than the shortest one  *)
(* that satisfies both.                                                    *)
THEOREM ShortestWait == Spec => []NoNeedlessWait
  <1>1. Init => NoNeedlessWait
    BY DEF Init, NoNeedlessWait, Scheduled
  <1>. QED
    BY <1>1, ShortestStep, CycleInvariant, PTL DEF Spec
-----------------------------------------------------------------------------
(* Requests whose outcome nobody knows *)

(* A notification waits after a lost outcome only if its target allows     *)
(* that the request is repeated.                                           *)
LostInv == status = "pending" /\ lost => UncertainAllowed(target)

LEMMA LostStep == BoundInv /\ LostInv /\ [Next]_vars => LostInv'
  <1> SUFFICES ASSUME BoundInv, LostInv, [Next]_vars, status' = "pending", lost'
               PROVE  UncertainAllowed(target')
    BY DEF LostInv, UncertainAllowed
  <1>0. TypeOK /\ now \in Nat
    BY ConfigTypes DEF BoundInv
  <1>1. CASE Attempt
    BY <1>1 DEF Attempt
  <1>2. ASSUME NEW action \in {"success", "retry", "fail"}, NEW h \in Header,
               NEW uncertain \in BOOLEAN,
               Settle(Decision(action, uncertain, h)),
               UNCHANGED <<target, policy, now, sent>>
        PROVE  UncertainAllowed(target')
    <2>. DEFINE d == Decision(action, uncertain, h)
                s == Schedule(n, target, policy, d, now)
    <2>1. d.action = action /\ d.retryAfter = h
      BY DEF Decision
    <2>2. /\ policy.delays \in Seq(Nat \ {0}) /\ n.cycle \in Nat /\ n.deadline \in Int
          /\ now \in Int
      BY <1>0, ConfigTypes
    <2>. HIDE DEF d
    <2>a. Settle(d)
      BY <1>2 DEF d
    <2>3. s.action = "retry"
      BY <1>0, <2>a, <2>1, SettleGranted
    <2>b. lost' = d.uncertain
      BY <2>a DEF Settle
    <2>4. d.uncertain => UncertainAllowed(target)
      BY <2>1, <2>2, <2>3, ScheduleContract
    <2>. QED
      BY <1>2, <2>b, <2>4
  <1>3. ASSUME NEW action \in {"success", "retry", "fail"}, NEW h \in Headers,
               Answered(action, h)
        PROVE  UncertainAllowed(target')
    <2>1. h \in Header
      BY ConfigAssumption DEF Header
    <2>. QED
      BY <1>2, <1>3, <2>1, Zenon DEF Answered
  <1>4. ASSUME NEW h \in Headers, NetworkError(h) PROVE UncertainAllowed(target')
    <2>1. h \in Header
      BY ConfigAssumption DEF Header
    <2>. QED
      BY <1>2, <1>4, <2>1, Zenon DEF NetworkError
  <1>5. CASE LeaseExpired
    <2>1. NoHeader \in Header
      BY DEF NoHeader, Header
    <2>. QED
      BY <1>2, <1>5, <2>1, Zenon DEF LeaseExpired
  <1>6. CASE Tick \/ UNCHANGED vars
    BY <1>6 DEF Tick, vars, LostInv
  <1>. QED
    BY <1>1, <1>3, <1>4, <1>5, <1>6 DEF Next

(* internal/retry/policy.go:20: no request is repeated after an outcome    *)
(* nobody knows unless the target's configuration says that it is safe.    *)
THEOREM NeverBlindlyResent == Spec => NoBlindResend
  <1>1. Init => LostInv
    BY DEF Init, LostInv
  <1>2. ASSUME BoundInv, LostInv, [Next]_vars, sent' > sent, lost
        PROVE  \/ target.uncertainRetry = "yes"
               \/ target.uncertainRetry = "unset" /\ target.mode = "supported"
    <2>1. sent \in Nat
      BY <1>2 DEF BoundInv, TypeOK
    <2>2. sent' # sent
      BY <1>2, <2>1
    <2>3. status = "pending"
      BY <1>2, <2>2 DEF Next, Attempt, Answered, NetworkError, LeaseExpired, Tick, vars
    <2>. QED
      BY <1>2, <2>3 DEF LostInv, UncertainAllowed
  <1>3. [](BoundInv /\ LostInv) /\ [][Next]_vars => NoBlindResend
    BY <1>2, PTL DEF NoBlindResend
  <1>. QED
    BY <1>1, <1>3, LostStep, CycleInvariant, PTL DEF Spec
=============================================================================
