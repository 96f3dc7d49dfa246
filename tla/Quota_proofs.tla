---------------------------- MODULE Quota_proofs ----------------------------
(* The limits of quota.go hold for any number of pods, targets, deliveries *)
(* and any limits: a pod's counters are exact, and what Redis admitted     *)
(* respects rates and concurrency.                                         *)
EXTENDS Quota, FiniteSetTheorems, TLAPS

Pcs == {"new", "refused", "egress", "running", "degraded", "done"}
CallRecord ==
    [pc : Pcs, pod : Pods \cup {None}, client : Clients \cup {None},
     target : Targets \cup {None}, due : Int, entry : Calls \cup {None}]
Token == [token : Calls, score : Int]

TypeOK ==
    /\ call \in [Calls -> CallRecord]
    /\ active \in [Pods -> Int]
    /\ targets \in [Pods -> [Targets -> Calls \cup {None}]]
    /\ count \in [Calls -> Int]
    /\ rate \in [RateKeys -> [window : Int, count : Nat]]
    /\ tokens \in [SetKeys -> SUBSET Token]
    /\ taken \in [RateKeys -> Nat]
    /\ now \in Nat

(* A delivery has a pod exactly while it holds a slot there, and holds it  *)
(* no longer than its context allows.                                      *)
CallOK(c) ==
    /\ Holds(c) => /\ call[c].pod \in Pods /\ call[c].target \in Targets
                   /\ now <= call[c].due
                   /\ call[c].pc = "egress" => call[c].due <= now + CallTimeout
    /\ ~Holds(c) => call[c].pod = None

(* What was admitted in this window is at most what Redis has counted.     *)
RateOK(k) ==
    RateLimit[k] > 0 =>
        /\ rate[k].window <= now
        /\ rate[k].count <= RateLimit[k]
        /\ IF rate[k].window = now THEN taken[k] <= rate[k].count ELSE taken[k] = 0

(* A running delivery has a token in its sets that outlives it; one that   *)
(* has not asked has none; the live tokens respect the limit.              *)
HasToken(c, k) == \E m \in tokens[k] : m.token = c /\ m.score > call[c].due

SetOK(k) ==
    /\ IsFiniteSet(tokens[k])
    /\ Concurrency[k] > 0 => Cardinality(Live(k)) <= Concurrency[k]

TokenInv ==
    /\ \A k \in SetKeys : SetOK(k)
    /\ \A c \in Calls : call[c].pc = "running" =>
         \A k \in ConcurrencyKeys(c) : Concurrency[k] > 0 => HasToken(c, k)
    /\ \A c \in Calls : call[c].pc \in {"new", "egress"} =>
         \A k \in SetKeys : \A m \in tokens[k] : m.token # c

(* The entry of a target counts its holders, which all refer to it.        *)
EntryOK(p, t) ==
    LET e == targets[p][t] IN
    /\ \A c \in HoldersOf(p, t) : call[c].entry = e
    /\ e = None => HoldersOf(p, t) = {}
    /\ e # None => count[e] = Cardinality(HoldersOf(p, t)) /\ count[e] > 0

InMap(c) == \E p \in Pods, t \in Targets : targets[p][t] = c

SlotInv ==
    /\ \A p \in Pods : active[p] = Cardinality(Holders(p))
    /\ \A p \in Pods, t \in Targets : EntryOK(p, t)
    /\ \A p, q \in Pods, t, u \in Targets :
         targets[p][t] # None /\ targets[p][t] = targets[q][u] => p = q /\ t = u
    /\ \A c \in Calls : ~InMap(c) => count[c] = 0
    /\ \A c \in Calls : call[c].pc = "new" => ~InMap(c)

QuotaInv ==
    /\ TypeOK
    /\ \A c \in Calls : CallOK(c)
    /\ \A k \in RateKeys : RateOK(k)
    /\ TokenInv
    /\ SlotInv
-----------------------------------------------------------------------------
(* The slots of a pod *)

LEMMA QuotaParts ==
    ASSUME QuotaInv
    PROVE  /\ TypeOK /\ TokenInv /\ SlotInv /\ now \in Nat
           /\ \A c \in Calls : call[c] \in CallRecord /\ CallOK(c)
           /\ \A k \in RateKeys : RateOK(k)
  <1>1. TypeOK /\ TokenInv /\ SlotInv
    BY DEF QuotaInv
  <1>2. now \in Nat /\ \A c \in Calls : call[c] \in CallRecord
    BY <1>1 DEF TypeOK
  <1> QED
    BY <1>1, <1>2 DEF QuotaInv

LEMMA HoldersFinite ==
    ASSUME NEW p
    PROVE  /\ IsFiniteSet(Holders(p)) /\ Cardinality(Holders(p)) \in Nat
           /\ \A t : /\ IsFiniteSet(HoldersOf(p, t))
                     /\ Cardinality(HoldersOf(p, t)) \in Nat
                     /\ HoldersOf(p, t) \subseteq Holders(p)
  <1>1. Holders(p) \subseteq Calls
    BY DEF Holders
  <1>2. IsFiniteSet(Holders(p))
    BY <1>1, FS_Subset, QuotaAssumption
  <1>3. ASSUME NEW t
        PROVE  /\ IsFiniteSet(HoldersOf(p, t)) /\ Cardinality(HoldersOf(p, t)) \in Nat
               /\ HoldersOf(p, t) \subseteq Holders(p)
    <2>1. HoldersOf(p, t) \subseteq Holders(p)
      BY DEF HoldersOf
    <2>2. IsFiniteSet(HoldersOf(p, t))
      BY <2>1, <1>2, FS_Subset
    <2> QED
      BY <2>1, <2>2, FS_CardinalityType
  <1> QED
    BY <1>2, <1>3, FS_CardinalityType

(* A step that leaves the limiter and the holders alone.                   *)
LEMMA SlotKeep ==
    ASSUME SlotInv, UNCHANGED local_,
           \A c \in Calls : Holds(c)' <=> Holds(c),
           \A c \in Calls : Holds(c) => /\ call'[c].pod = call[c].pod
                                        /\ call'[c].target = call[c].target
                                        /\ call'[c].entry = call[c].entry,
           \A c \in Calls : call'[c].pc = "new" => call[c].pc = "new"
    PROVE  SlotInv'
  <1>1. active' = active /\ targets' = targets /\ count' = count
    BY DEF local_
  <1>2. \A p : Holders(p)' = Holders(p)
    BY DEF Holders
  <1>3. \A p, t : HoldersOf(p, t)' = HoldersOf(p, t)
    <2>1. \A p, t : HoldersOf(p, t)' = {c \in Holders(p)' : call'[c].target = t}
      BY DEF HoldersOf
    <2> QED
      BY <2>1, <1>2 DEF HoldersOf, Holders
  <1>4. \A p \in Pods : active'[p] = Cardinality(Holders(p))'
    BY <1>1, <1>2 DEF SlotInv
  <1>5. ASSUME NEW p \in Pods, NEW t \in Targets
        PROVE  EntryOK(p, t)'
    <2>1. EntryOK(p, t)
      BY DEF SlotInv
    <2>2. \A c \in HoldersOf(p, t) : call'[c].entry = call[c].entry
      BY DEF HoldersOf, Holders
    <2> QED
      BY <2>1, <2>2, <1>1, <1>3 DEF EntryOK
  <1>6. \A c : InMap(c)' <=> InMap(c)
    BY <1>1 DEF InMap
  <1> QED
    BY <1>1, <1>4, <1>5, <1>6 DEF SlotInv

LEMMA HolderEntry ==
    ASSUME QuotaInv, NEW c \in Calls, Holds(c)
    PROVE  /\ call[c].entry = targets[call[c].pod][call[c].target]
           /\ call[c].entry # None /\ call[c].entry \in Calls /\ count[call[c].entry] > 0
  <1> DEFINE p == call[c].pod
             t == call[c].target
  <1>1. /\ SlotInv /\ p \in Pods /\ t \in Targets
        /\ targets \in [Pods -> [Targets -> Calls \cup {None}]]
    BY QuotaParts DEF CallOK, TypeOK
  <1>2. c \in HoldersOf(p, t)
    BY DEF HoldersOf, Holders
  <1>3. EntryOK(p, t)
    BY <1>1 DEF SlotInv
  <1> QED
    BY <1>1, <1>2, <1>3 DEF EntryOK

(* The release of a slot: the entry goes with its last holder.             *)
LEMMA SlotRelease ==
    ASSUME QuotaInv, NEW c \in Calls, Holds(c), localRelease(c),
           ~Holds(c)', call'[c].pc # "new",
           \A d \in Calls \ {c} : call'[d] = call[d]
    PROVE  SlotInv'
  <1> DEFINE p == call[c].pod
             t == call[c].target
             e == call[c].entry
  <1>1. /\ SlotInv /\ TypeOK /\ p \in Pods /\ t \in Targets
        /\ targets \in [Pods -> [Targets -> Calls \cup {None}]]
        /\ active \in [Pods -> Int] /\ count \in [Calls -> Int]
    BY QuotaParts DEF CallOK, TypeOK
  <1>2. c \in HoldersOf(p, t) /\ c \in Holders(p)
    BY DEF HoldersOf, Holders
  <1>3. e = targets[p][t] /\ e # None /\ e \in Calls /\ count[e] > 0
    BY HolderEntry
  <1>4. /\ active' = [active EXCEPT ![p] = @ - 1]
        /\ count' = [count EXCEPT ![e] = @ - 1]
        /\ targets' = IF count[e] = 1 THEN [targets EXCEPT ![p][t] = None] ELSE targets
    BY DEF localRelease
  <1>5. \A q : Holders(q)' = Holders(q) \ {c}
    BY DEF Holders, Holds
  <1>6. \A q, u : HoldersOf(q, u)' = HoldersOf(q, u) \ {c}
    <2>1. \A q, u : HoldersOf(q, u)' = {d \in Holders(q)' : call'[d].target = u}
      BY DEF HoldersOf
    <2>2. \A q : \A d \in Holders(q) \ {c} : call'[d] = call[d]
      BY DEF Holders
    <2> QED
      BY <2>1, <2>2, <1>5 DEF HoldersOf
  <1>7. \A q : q # p => c \notin Holders(q)
    BY DEF Holders
  <1>8. \A q, u : <<q, u>> # <<p, t>> => c \notin HoldersOf(q, u)
    BY DEF HoldersOf, Holders
  <1> HIDE DEF p, t, e
  <1>9. ASSUME NEW q \in Pods
        PROVE  active'[q] = Cardinality(Holders(q))'
    <2>1. active[q] = Cardinality(Holders(q)) /\ IsFiniteSet(Holders(q))
      BY <1>1, HoldersFinite DEF SlotInv
    <2>2. CASE q = p
      <3>1. Cardinality(Holders(q) \ {c}) = Cardinality(Holders(q)) - 1
        BY <2>1, <2>2, <1>2, FS_RemoveElement
      <3> QED
        BY <3>1, <2>1, <2>2, <1>1, <1>4, <1>5
    <2>3. CASE q # p
      <3>1. Holders(q) \ {c} = Holders(q)
        BY <2>3, <1>7
      <3> QED
        BY <3>1, <2>1, <2>3, <1>1, <1>4, <1>5
    <2> QED
      BY <2>2, <2>3
  <1>10. ASSUME NEW q \in Pods, NEW u \in Targets
         PROVE  EntryOK(q, u)'
    <2>1. EntryOK(q, u) /\ IsFiniteSet(HoldersOf(q, u))
      BY <1>1, HoldersFinite DEF SlotInv
    <2>2. \A d \in HoldersOf(q, u)' : call'[d] = call[d] /\ d \in HoldersOf(q, u)
      BY <1>6 DEF HoldersOf, Holders
    <2>3. CASE q = p /\ u = t
      <3>1. Cardinality(HoldersOf(q, u)') = count[e] - 1
        <4>1. Cardinality(HoldersOf(q, u) \ {c}) = Cardinality(HoldersOf(q, u)) - 1
          BY <2>1, <2>3, <1>2, FS_RemoveElement
        <4> QED
          BY <4>1, <2>1, <2>3, <1>3, <1>6 DEF EntryOK
      <3>2. count'[e] = count[e] - 1
        BY <1>1, <1>3, <1>4
      <3>3. CASE count[e] = 1
        <4>1. targets'[q][u] = None
          BY <3>3, <2>3, <1>1, <1>4
        <4>2. HoldersOf(q, u)' = {}
          <5>1. IsFiniteSet(HoldersOf(q, u) \ {c})
            BY <2>1, FS_RemoveElement
          <5> QED
            BY <5>1, <3>1, <3>3, <1>6, FS_EmptySet
        <4> QED
          BY <4>1, <4>2 DEF EntryOK
      <3>4. CASE count[e] # 1
        <4>1. targets'[q][u] = e
          BY <3>4, <2>3, <1>3, <1>4
        <4>2. count'[e] > 0
          BY <3>2, <3>4, <1>1, <1>3
        <4>3. \A d \in HoldersOf(q, u)' : call'[d].entry = e
          BY <2>1, <2>2, <2>3, <1>3 DEF EntryOK
        <4> QED
          BY <4>1, <4>2, <4>3, <3>1, <3>2, <1>3 DEF EntryOK
      <3> QED
        BY <3>3, <3>4
    <2>4. CASE ~(q = p /\ u = t)
      <3>1. HoldersOf(q, u)' = HoldersOf(q, u)
        <4>1. c \notin HoldersOf(q, u)
          BY <2>4, <1>8
        <4> QED
          BY <4>1, <1>6
      <3>2. targets'[q][u] = targets[q][u]
        BY <2>4, <1>1, <1>4
      <3>3. targets[q][u] # None => targets[q][u] # e /\ targets[q][u] \in Calls
        BY <2>4, <1>1, <1>3 DEF SlotInv
      <3>4. targets[q][u] # None => count'[targets[q][u]] = count[targets[q][u]]
        BY <3>3, <1>1, <1>4
      <3> QED
        BY <3>1, <3>2, <3>4, <2>1, <2>2 DEF EntryOK
    <2> QED
      BY <2>3, <2>4
  <1>11. \A q \in Pods, u \in Targets :
            targets'[q][u] # None => targets'[q][u] = targets[q][u]
    BY <1>1, <1>4
  <1>12. \A q, r \in Pods, u, v \in Targets :
            targets'[q][u] # None /\ targets'[q][u] = targets'[r][v] => q = r /\ u = v
    BY <1>1, <1>11 DEF SlotInv
  <1>13. ASSUME NEW d \in Calls, ~InMap(d)'
         PROVE  count'[d] = 0
    <2>1. CASE d = e
      <3>1. count[e] = 1
        BY <2>1, <1>1, <1>3, <1>4, <1>13 DEF InMap
      <3> QED
        BY <3>1, <2>1, <1>1, <1>3, <1>4
    <2>2. CASE d # e
      <3>1. ~InMap(d)
        <4> SUFFICES ASSUME InMap(d)
                     PROVE  FALSE
          OBVIOUS
        <4>1. PICK q \in Pods : \E u \in Targets : targets[q][u] = d
          BY DEF InMap
        <4>2. PICK u \in Targets : targets[q][u] = d
          BY <4>1
        <4>3. ~(q = p /\ u = t)
          BY <4>2, <2>2, <1>3
        <4>4. targets'[q][u] = d
          BY <4>2, <4>3, <1>1, <1>4
        <4> QED
          BY <4>4, <1>13 DEF InMap
      <3> QED
        BY <3>1, <2>2, <1>1, <1>3, <1>4 DEF SlotInv
    <2> QED
      BY <2>1, <2>2
  <1>14. ASSUME NEW d \in Calls, call'[d].pc = "new"
         PROVE  ~InMap(d)'
    <2>1. ~InMap(d)
      BY <1>14, <1>1 DEF SlotInv
    <2>2. d # None
      BY QuotaAssumption
    <2> QED
      BY <2>1, <2>2, <1>11 DEF InMap
  <1> QED
    BY <1>9, <1>10, <1>12, <1>13, <1>14 DEF SlotInv

(* Limiter.local refuses: the map is as it was.                            *)
LEMMA SlotRefused ==
    ASSUME QuotaInv, NEW c \in Calls, NEW p \in Pods, NEW client \in Clients,
           NEW target \in Targets, Local(c, p, client, target),
           active[p] >= MaxGlobal \/ count[EntryOf(c, p, target)] >= MaxTarget
    PROVE  SlotInv' /\ call' = [call EXCEPT ![c].pc = "refused"]
  <1> DEFINE e == EntryOf(c, p, target)
  <1>1. /\ SlotInv /\ call[c] \in CallRecord /\ call \in [Calls -> CallRecord]
        /\ targets \in [Pods -> [Targets -> Calls \cup {None}]]
    BY QuotaParts DEF TypeOK
  <1>2. /\ call' = [call EXCEPT ![c].pc = "refused"] /\ call[c].pc = "new"
        /\ targets' = IF count[e] = 0 THEN [targets EXCEPT ![p][target] = None] ELSE targets
        /\ UNCHANGED <<active, count>>
    BY DEF Local
  <1>3. targets' = targets
    <2>1. CASE targets[p][target] = None
      <3>1. [targets EXCEPT ![p][target] = None] = targets
        BY <2>1, <1>1
      <3> QED
        BY <3>1, <1>2
    <2>2. CASE targets[p][target] # None
      <3>1. EntryOK(p, target)
        BY <1>1 DEF SlotInv
      <3>2. count[e] # 0
        BY <3>1, <2>2 DEF EntryOK, EntryOf
      <3> QED
        BY <3>2, <1>2
    <2> QED
      BY <2>1, <2>2
  <1>4. UNCHANGED local_
    BY <1>2, <1>3 DEF local_
  <1>5. call'[c].pc = "refused" /\ \A d \in Calls \ {c} : call'[d] = call[d]
    BY <1>1, <1>2 DEF CallRecord
  <1>6. \A d \in Calls : Holds(d)' <=> Holds(d)
    BY <1>2, <1>5 DEF Holds
  <1>7. \A d \in Calls : Holds(d) => call'[d] = call[d]
    BY <1>2, <1>5 DEF Holds
  <1> QED
    BY <1>1, <1>2, <1>4, <1>5, <1>6, <1>7, SlotKeep

(* Limiter.local admits.                                                   *)
LEMMA SlotTaken ==
    ASSUME QuotaInv, NEW c \in Calls, NEW p \in Pods, NEW client \in Clients,
           NEW target \in Targets, Local(c, p, client, target),
           ~(active[p] >= MaxGlobal \/ count[EntryOf(c, p, target)] >= MaxTarget)
    PROVE  SlotInv'
  <1> DEFINE e == EntryOf(c, p, target)
             r == [pc |-> "egress", pod |-> p, client |-> client, target |-> target,
                   due |-> now + CallTimeout, entry |-> e]
  <1>1. /\ SlotInv /\ call \in [Calls -> CallRecord]
        /\ targets \in [Pods -> [Targets -> Calls \cup {None}]]
        /\ active \in [Pods -> Int] /\ count \in [Calls -> Int]
    BY QuotaParts DEF TypeOK
  <1>2. /\ call' = [call EXCEPT ![c] = r] /\ call[c].pc = "new"
        /\ targets' = [targets EXCEPT ![p][target] = e]
        /\ active' = [active EXCEPT ![p] = @ + 1]
        /\ count' = [count EXCEPT ![e] = @ + 1]
    BY DEF Local
  <1>3. ~InMap(c) /\ count[c] = 0 /\ c # None
    BY <1>1, <1>2, QuotaAssumption DEF SlotInv
  <1>4. /\ e \in Calls /\ e # None
        /\ IF targets[p][target] = None THEN e = c ELSE e = targets[p][target]
    BY <1>1, QuotaAssumption DEF EntryOf
  <1>5. /\ call'[c].pc = "egress" /\ call'[c].pod = p
        /\ call'[c].target = target /\ call'[c].entry = e
        /\ \A d \in Calls \ {c} : call'[d] = call[d]
    BY <1>1, <1>2
  <1>6. \A q : Holders(q)' = IF q = p THEN Holders(q) \cup {c} ELSE Holders(q)
    BY <1>2, <1>5 DEF Holders, Holds
  <1>7. \A q : c \notin Holders(q)
    BY <1>2 DEF Holders, Holds
  <1>8. \A q, u : HoldersOf(q, u)' =
            IF q = p /\ u = target THEN HoldersOf(q, u) \cup {c} ELSE HoldersOf(q, u)
    <2>1. \A q, u : HoldersOf(q, u)' = {d \in Holders(q)' : call'[d].target = u}
      BY DEF HoldersOf
    <2>2. \A q : \A d \in Holders(q) : call'[d] = call[d]
      BY <1>5, <1>7 DEF Holders
    <2> QED
      BY <2>1, <2>2, <1>5, <1>6 DEF HoldersOf
  <1> HIDE DEF e, r
  <1>9. ASSUME NEW q \in Pods
        PROVE  active'[q] = Cardinality(Holders(q))'
    <2>1. active[q] = Cardinality(Holders(q)) /\ IsFiniteSet(Holders(q))
      BY <1>1, HoldersFinite DEF SlotInv
    <2>2. CASE q = p
      <3>1. Cardinality(Holders(q) \cup {c}) = Cardinality(Holders(q)) + 1
        BY <2>1, <1>7, FS_AddElement
      <3> QED
        BY <3>1, <2>1, <2>2, <1>1, <1>2, <1>6
    <2>3. CASE q # p
      BY <2>1, <2>3, <1>1, <1>2, <1>6
    <2> QED
      BY <2>2, <2>3
  <1>10. ASSUME NEW q \in Pods, NEW u \in Targets
         PROVE  EntryOK(q, u)'
    <2>1. EntryOK(q, u) /\ IsFiniteSet(HoldersOf(q, u)) /\ c \notin HoldersOf(q, u)
      BY <1>1, <1>7, HoldersFinite DEF SlotInv
    <2>2. \A d \in HoldersOf(q, u) : call'[d] = call[d]
      BY <1>5, <2>1 DEF HoldersOf, Holders
    <2>3. CASE q = p /\ u = target
      <3>1. count[e] = Cardinality(HoldersOf(q, u)) /\ count[e] >= 0
        <4>1. CASE targets[q][u] = None
          <5>1. HoldersOf(q, u) = {}
            BY <4>1, <2>1 DEF EntryOK
          <5>2. count[e] = 0
            BY <4>1, <2>3, <1>3, <1>4
          <5> QED
            BY <5>1, <5>2, FS_EmptySet
        <4>2. CASE targets[q][u] # None
          <5>1. count[e] = Cardinality(HoldersOf(q, u))
            BY <4>2, <2>1, <2>3, <1>4 DEF EntryOK
          <5>2. Cardinality(HoldersOf(q, u)) \in Nat
            BY HoldersFinite
          <5> QED
            BY <5>1, <5>2
        <4> QED
          BY <4>1, <4>2
      <3>2. Cardinality(HoldersOf(q, u)') = Cardinality(HoldersOf(q, u)) + 1
        <4>1. Cardinality(HoldersOf(q, u) \cup {c}) = Cardinality(HoldersOf(q, u)) + 1
          BY <2>1, FS_AddElement
        <4> QED
          BY <4>1, <2>3, <1>8
      <3>3. count'[e] = count[e] + 1 /\ count[e] \in Int
        BY <1>1, <1>2, <1>4
      <3>4. targets'[q][u] = e
        BY <2>3, <1>1, <1>2
      <3>5. \A d \in HoldersOf(q, u)' : call'[d].entry = e
        <4>1. \A d \in HoldersOf(q, u) : call[d].entry = e
          BY <2>1, <2>3, <1>4 DEF EntryOK
        <4> QED
          BY <4>1, <2>2, <2>3, <1>5, <1>8
      <3>6. count'[e] = Cardinality(HoldersOf(q, u)') /\ count'[e] > 0
        BY <3>1, <3>2, <3>3
      <3> QED
        BY <3>4, <3>5, <3>6, <1>4 DEF EntryOK
    <2>4. CASE ~(q = p /\ u = target)
      <3>1. HoldersOf(q, u)' = HoldersOf(q, u)
        BY <2>4, <1>8
      <3>2. targets'[q][u] = targets[q][u]
        BY <2>4, <1>1, <1>2
      <3>3. targets[q][u] # None => targets[q][u] # e /\ targets[q][u] \in Calls
        BY <2>4, <1>1, <1>3, <1>4 DEF SlotInv, InMap
      <3>4. targets[q][u] # None => count'[targets[q][u]] = count[targets[q][u]]
        BY <3>3, <1>1, <1>2
      <3> QED
        BY <3>1, <3>2, <3>4, <2>1, <2>2 DEF EntryOK
    <2> QED
      BY <2>3, <2>4
  <1>11. \A q \in Pods, u \in Targets :
            targets'[q][u] = IF q = p /\ u = target THEN e ELSE targets[q][u]
    BY <1>1, <1>2
  <1>12. \A q \in Pods, u \in Targets : targets[q][u] = e => q = p /\ u = target
    BY <1>1, <1>3, <1>4 DEF SlotInv, InMap
  <1>13. \A q, s \in Pods, u, v \in Targets :
            targets'[q][u] # None /\ targets'[q][u] = targets'[s][v] => q = s /\ u = v
    BY <1>1, <1>11, <1>12 DEF SlotInv
  <1>14. ASSUME NEW d \in Calls, ~InMap(d)'
         PROVE  count'[d] = 0
    <2>1. d # e
      BY <1>11, <1>14 DEF InMap
    <2>2. ~InMap(d)
      <3>1. \A q \in Pods, u \in Targets : targets[q][u] = d => targets'[q][u] = d
        BY <1>3, <1>4, <1>11, <2>1, QuotaAssumption
      <3> QED
        BY <3>1, <1>14 DEF InMap
    <2> QED
      BY <2>1, <2>2, <1>1, <1>2 DEF SlotInv
  <1>15. ASSUME NEW d \in Calls, call'[d].pc = "new"
         PROVE  ~InMap(d)'
    <2>1. d # c /\ ~InMap(d)
      BY <1>1, <1>5, <1>15 DEF SlotInv
    <2>2. d # e
      BY <2>1, <1>4 DEF InMap
    <2> QED
      BY <2>1, <2>2, <1>11 DEF InMap
  <1> QED
    BY <1>9, <1>10, <1>13, <1>14, <1>15 DEF SlotInv

LEMMA SlotRestart ==
    ASSUME QuotaInv, NEW p \in Pods, Restart(p)
    PROVE  SlotInv'
  <1>1. /\ SlotInv /\ call \in [Calls -> CallRecord]
        /\ targets \in [Pods -> [Targets -> Calls \cup {None}]]
        /\ active \in [Pods -> Int] /\ count \in [Calls -> Int]
        /\ \A c \in Calls : CallOK(c)
    BY QuotaParts DEF TypeOK
  <1>2. /\ call' = [c \in Calls |-> IF call[c].pod = p THEN [New EXCEPT !.pc = "done"]
                                                       ELSE call[c]]
        /\ active' = [active EXCEPT ![p] = 0]
        /\ targets' = [targets EXCEPT ![p] = [t \in Targets |-> None]]
        /\ count' = [c \in Calls |->
             IF \E d \in Calls : call[d].pod = p /\ call[d].entry = c THEN 0 ELSE count[c]]
    BY DEF Restart
  <1>3. p # None
    BY QuotaAssumption
  <1>4. \A c \in Calls : IF call[c].pod = p THEN call'[c].pc = "done" /\ call'[c].pod = None
                                            ELSE call'[c] = call[c]
    BY <1>2 DEF New
  <1>5. \A q : Holders(q)' = IF q = p THEN {} ELSE Holders(q)
    <2>1. Holders(p)' = {}
      BY <1>3, <1>4 DEF Holders, Holds
    <2>2. \A q : q # p => Holders(q)' = Holders(q)
      BY <1>4 DEF Holders, Holds
    <2> QED
      BY <2>1, <2>2
  <1>6. \A q, u : HoldersOf(q, u)' = IF q = p THEN {} ELSE HoldersOf(q, u)
    <2>1. \A q, u : HoldersOf(q, u)' = {d \in Holders(q)' : call'[d].target = u}
      BY DEF HoldersOf
    <2>2. \A q : q # p => \A d \in Holders(q) : call'[d] = call[d]
      BY <1>4 DEF Holders
    <2> QED
      BY <2>1, <2>2, <1>5 DEF HoldersOf
  <1>7. \A q \in Pods, u \in Targets :
           targets'[q][u] = IF q = p THEN None ELSE targets[q][u]
    BY <1>1, <1>2
  (* The entries a delivery of the pod refers to are the pod's.            *)
  <1>8. ASSUME NEW d \in Calls, call[d].pod = p
        PROVE  call[d].target \in Targets /\ targets[p][call[d].target] = call[d].entry
    <2>1. Holds(d) /\ call[d].target \in Targets
      BY <1>1, <1>3, <1>8 DEF CallOK
    <2>2. d \in HoldersOf(p, call[d].target)
      BY <2>1, <1>8 DEF HoldersOf, Holders
    <2>3. EntryOK(p, call[d].target)
      BY <2>1, <1>1 DEF SlotInv
    <2> QED
      BY <2>1, <2>2, <2>3 DEF EntryOK
  <1>9. \A q \in Pods : active'[q] = Cardinality(Holders(q))'
    BY <1>1, <1>2, <1>5, FS_EmptySet DEF SlotInv
  <1>10. ASSUME NEW q \in Pods, NEW u \in Targets
         PROVE  EntryOK(q, u)'
    <2>1. CASE q = p
      BY <2>1, <1>6, <1>7 DEF EntryOK
    <2>2. CASE q # p
      <3>1. HoldersOf(q, u)' = HoldersOf(q, u) /\ targets'[q][u] = targets[q][u]
        BY <2>2, <1>6, <1>7
      <3>2. \A d \in HoldersOf(q, u) : call'[d] = call[d]
        BY <2>2, <1>4 DEF HoldersOf, Holders
      <3>3. targets[q][u] # None => count'[targets[q][u]] = count[targets[q][u]]
        <4> SUFFICES ASSUME targets[q][u] # None
                     PROVE  count'[targets[q][u]] = count[targets[q][u]]
          OBVIOUS
        <4>1. targets[q][u] \in Calls
          BY <1>1
        <4>2. ~\E d \in Calls : call[d].pod = p /\ call[d].entry = targets[q][u]
          BY <2>2, <1>1, <1>8 DEF SlotInv
        <4> QED
          BY <4>1, <4>2, <1>2
      <3>4. EntryOK(q, u)
        BY <1>1 DEF SlotInv
      <3> QED
        BY <3>1, <3>2, <3>3, <3>4 DEF EntryOK
    <2> QED
      BY <2>1, <2>2
  <1>11. \A q, s \in Pods, u, v \in Targets :
            targets'[q][u] # None /\ targets'[q][u] = targets'[s][v] => q = s /\ u = v
    BY <1>1, <1>7 DEF SlotInv
  <1>12. ASSUME NEW d \in Calls, ~InMap(d)'
         PROVE  count'[d] = 0
    <2>1. CASE \E x \in Calls : call[x].pod = p /\ call[x].entry = d
      BY <2>1, <1>2
    <2>2. CASE ~\E x \in Calls : call[x].pod = p /\ call[x].entry = d
      <3>1. ~InMap(d)
        <4> SUFFICES ASSUME NEW q \in Pods, NEW u \in Targets, targets[q][u] = d
                     PROVE  FALSE
          BY DEF InMap
        <4>1. q = p
          BY <1>7, <1>12 DEF InMap
        <4>2. EntryOK(q, u) /\ d # None
          BY <1>1, QuotaAssumption DEF SlotInv
        <4>3. HoldersOf(q, u) # {}
          <5>1. Cardinality(HoldersOf(q, u)) > 0
            BY <4>2 DEF EntryOK
          <5> QED
            BY <5>1, FS_EmptySet
        <4>4. PICK x \in HoldersOf(q, u) : TRUE
          BY <4>3
        <4>5. x \in Calls /\ call[x].pod = p /\ call[x].entry = d
          BY <4>1, <4>2, <4>4 DEF EntryOK, HoldersOf, Holders
        <4> QED
          BY <4>5, <2>2
      <3> QED
        BY <3>1, <2>2, <1>1, <1>2 DEF SlotInv
    <2> QED
      BY <2>1, <2>2
  <1>13. ASSUME NEW d \in Calls, call'[d].pc = "new"
         PROVE  ~InMap(d)'
    <2>1. ~InMap(d) /\ d # None
      BY <1>1, <1>4, <1>13, QuotaAssumption DEF SlotInv
    <2> QED
      BY <2>1, <1>7 DEF InMap
  <1> QED
    BY <1>9, <1>10, <1>11, <1>12, <1>13 DEF SlotInv
-----------------------------------------------------------------------------
(* The sets and the rates of Redis *)

LEMMA TokenTypes ==
    ASSUME QuotaInv
    PROVE  /\ \A k \in SetKeys : /\ IsFiniteSet(tokens[k]) /\ IsFiniteSet(Live(k))
                                 /\ Cardinality(Live(k)) \in Nat
                                 /\ \A m \in tokens[k] : m \in Token /\ m.score \in Int
           /\ \A k \in SetKeys : Concurrency[k] \in Nat
           /\ \A c \in Calls : call[c].pc \in {"egress", "running"} =>
                ConcurrencyKeys(c) \subseteq SetKeys /\ call[c].due \in Int
  <1>1. /\ TokenInv /\ tokens \in [SetKeys -> SUBSET Token]
        /\ \A c \in Calls : call[c] \in CallRecord /\ CallOK(c)
    BY QuotaParts DEF TypeOK
  <1>2. ASSUME NEW k \in SetKeys
        PROVE  /\ IsFiniteSet(tokens[k]) /\ IsFiniteSet(Live(k))
               /\ Cardinality(Live(k)) \in Nat
               /\ \A m \in tokens[k] : m \in Token /\ m.score \in Int
    <2>1. IsFiniteSet(tokens[k])
      BY <1>1 DEF TokenInv, SetOK
    <2>2. Live(k) \subseteq tokens[k]
      BY DEF Live
    <2>3. IsFiniteSet(Live(k))
      BY <2>1, <2>2, FS_Subset
    <2>4. \A m \in tokens[k] : m \in Token
      BY <1>1
    <2>5. \A m \in Token : m.score \in Int
      BY DEF Token
    <2> QED
      BY <2>1, <2>3, <2>4, <2>5, FS_CardinalityType
  <1>3. \A k \in SetKeys : Concurrency[k] \in Nat
    BY QuotaAssumption
  <1>4. ASSUME NEW c \in Calls, call[c].pc \in {"egress", "running"}
        PROVE  ConcurrencyKeys(c) \subseteq SetKeys /\ call[c].due \in Int
    <2>1. call[c].target \in Targets
      BY <1>1, <1>4 DEF CallOK, Holds
    <2>2. call[c].due \in Int
      BY <1>1 DEF CallRecord
    <2> QED
      BY <2>1, <2>2 DEF ConcurrencyKeys, SetKeys
  <1> QED
    BY <1>2, <1>3, <1>4

(* A step that adds no token, and removes none of a running delivery.      *)
LEMMA TokenShrink ==
    ASSUME QuotaInv, now' \in Nat, now' >= now,
           \A k \in SetKeys : tokens'[k] \subseteq tokens[k],
           \A c \in Calls : call'[c].pc = "running" =>
               /\ call[c].pc = "running"
               /\ call'[c].target = call[c].target /\ call'[c].due = call[c].due
               /\ \A k \in SetKeys : \A m \in tokens[k] :
                    m.token = c /\ m.score > call[c].due => m \in tokens'[k],
           \A c \in Calls : call'[c].pc \in {"new", "egress"} => call[c].pc \in {"new", "egress"}
    PROVE  TokenInv'
  <1>1. TokenInv /\ now \in Nat
    BY QuotaParts
  <1>2. ASSUME NEW k \in SetKeys
        PROVE  SetOK(k)'
    <2>1. IsFiniteSet(tokens[k]) /\ IsFiniteSet(Live(k)) /\ Cardinality(Live(k)) \in Nat
      BY TokenTypes
    <2>2. IsFiniteSet(tokens'[k])
      BY <2>1, FS_Subset
    <2>3. Live(k)' \subseteq Live(k)
      <3>1. \A m \in tokens[k] : m.score \in Int
        BY TokenTypes
      <3> QED
        BY <3>1, <1>1 DEF Live
    <2>4. Cardinality(Live(k)') <= Cardinality(Live(k)) /\ Cardinality(Live(k)') \in Nat
      <3>1. IsFiniteSet(Live(k)')
        BY <2>1, <2>3, FS_Subset
      <3> QED
        BY <3>1, <2>1, <2>3, FS_Subset, FS_CardinalityType
    <2>5. Concurrency[k] > 0 => Cardinality(Live(k)) <= Concurrency[k]
      BY <1>1 DEF TokenInv, SetOK
    <2>6. Concurrency[k] > 0 => Cardinality(Live(k)') <= Concurrency[k]
      BY <2>1, <2>4, <2>5, TokenTypes
    <2> QED
      BY <2>2, <2>6 DEF SetOK
  <1>3. ASSUME NEW c \in Calls, call'[c].pc = "running", NEW k \in ConcurrencyKeys(c)',
               Concurrency[k] > 0
        PROVE  HasToken(c, k)'
    <2>1. call[c].pc = "running" /\ call'[c].target = call[c].target
          /\ call'[c].due = call[c].due
      BY <1>3
    <2>2. k \in ConcurrencyKeys(c) /\ k \in SetKeys
      BY <2>1, <1>3, TokenTypes DEF ConcurrencyKeys
    <2>3. HasToken(c, k)
      BY <2>1, <2>2, <1>1, <1>3 DEF TokenInv
    <2>4. PICK m \in tokens[k] : m.token = c /\ m.score > call[c].due
      BY <2>3 DEF HasToken
    <2>5. m \in tokens'[k]
      BY <2>2, <2>4, <1>3
    <2> QED
      BY <2>1, <2>4, <2>5 DEF HasToken
  <1>4. ASSUME NEW c \in Calls, call'[c].pc \in {"new", "egress"}, NEW k \in SetKeys,
               NEW m \in tokens'[k]
        PROVE  m.token # c
    BY <1>1, <1>4 DEF TokenInv
  <1> QED
    BY <1>2, <1>3, <1>4 DEF TokenInv

(* The admitting branch of the egress script.                              *)
LEMMA TokenAdd ==
    ASSUME QuotaInv, NEW c \in Calls, call[c].pc = "egress",
           EgressAllowed(c), egressScript(c), now' = now,
           \A d \in Calls \ {c} : call'[d] = call[d],
           call'[c].pc \notin {"new", "egress"},
           call'[c].pc = "running" =>
               call'[c].target = call[c].target /\ call'[c].due = call[c].due
    PROVE  TokenInv' /\ tokens' \in [SetKeys -> SUBSET Token]
  <1> DEFINE m0 == [token |-> c, score |-> now + TokenTTL]
  <1>1. /\ TokenInv /\ now \in Nat /\ tokens \in [SetKeys -> SUBSET Token]
        /\ \A d \in Calls : CallOK(d)
    BY QuotaParts DEF TypeOK
  <1>2. m0 \in Token /\ m0.token = c /\ m0.score = now + TokenTTL /\ m0.score > now
    BY <1>1, QuotaAssumption, TokenAssumption DEF Token
  <1>3. tokens' = [k \in SetKeys |->
            IF k \in ConcurrencyKeys(c) /\ Concurrency[k] > 0
            THEN Live(k) \cup {m0} ELSE tokens[k]]
    BY DEF egressScript
  <1> HIDE DEF m0
  <1>4. \A k \in SetKeys : Live(k) \subseteq tokens[k]
    BY DEF Live
  <1>5. tokens' \in [SetKeys -> SUBSET Token]
    BY <1>1, <1>2, <1>3, <1>4
  <1>6. \A k \in SetKeys : \A m \in tokens'[k] : m \in tokens[k] \/ m.token = c
    BY <1>2, <1>3, <1>4
  <1>7. ASSUME NEW k \in SetKeys
        PROVE  SetOK(k)'
    <2>1. /\ IsFiniteSet(tokens[k]) /\ IsFiniteSet(Live(k)) /\ Cardinality(Live(k)) \in Nat
          /\ Concurrency[k] \in Nat
      BY TokenTypes
    <2>2. CASE k \in ConcurrencyKeys(c) /\ Concurrency[k] > 0
      <3>1. tokens'[k] = Live(k) \cup {m0}
        BY <2>2, <1>3
      <3>2. m0 \notin Live(k)
        BY <1>1, <1>2, <1>4 DEF TokenInv
      <3>3. /\ IsFiniteSet(Live(k) \cup {m0})
            /\ Cardinality(Live(k) \cup {m0}) = Cardinality(Live(k)) + 1
        BY <3>2, <2>1, FS_AddElement
      <3>4. Live(k)' = Live(k) \cup {m0}
        BY <3>1, <1>2 DEF Live
      <3>5. ~Crowded(k)
        BY <2>2 DEF EgressAllowed
      <3>6. Cardinality(Live(k)) + 1 <= Concurrency[k]
        BY <3>5, <2>1, <2>2 DEF Crowded
      <3> QED
        BY <3>1, <3>3, <3>4, <3>6 DEF SetOK
    <2>3. CASE ~(k \in ConcurrencyKeys(c) /\ Concurrency[k] > 0)
      <3>1. tokens'[k] = tokens[k]
        BY <2>3, <1>3
      <3>2. Live(k)' = Live(k)
        BY <3>1 DEF Live
      <3> QED
        BY <3>1, <3>2, <1>1 DEF TokenInv, SetOK
    <2> QED
      BY <2>2, <2>3
  <1>8. ASSUME NEW d \in Calls, call'[d].pc = "running", NEW k \in ConcurrencyKeys(d)',
               Concurrency[k] > 0
        PROVE  HasToken(d, k)'
    <2>1. CASE d = c
      <3>1. k \in ConcurrencyKeys(c) /\ k \in SetKeys
        BY <2>1, <1>8, TokenTypes DEF ConcurrencyKeys
      <3>2. m0 \in tokens'[k]
        BY <3>1, <1>3, <1>8
      <3>3. call[c].due <= now + CallTimeout /\ call[c].due \in Int
        BY <1>1, TokenTypes DEF CallOK, Holds
      <3>4. m0.score > call'[c].due
        BY <3>3, <2>1, <1>1, <1>2, <1>8, QuotaAssumption, TokenAssumption
      <3> QED
        BY <3>2, <3>4, <2>1, <1>2 DEF HasToken
    <2>2. CASE d # c
      <3>1. call'[d] = call[d]
        BY <2>2
      <3>2. call[d].pc = "running" /\ k \in ConcurrencyKeys(d) /\ k \in SetKeys
        BY <3>1, <1>8, TokenTypes DEF ConcurrencyKeys
      <3>3. HasToken(d, k)
        BY <3>2, <1>1, <1>8 DEF TokenInv
      <3>4. PICK m \in tokens[k] : m.token = d /\ m.score > call[d].due
        BY <3>3 DEF HasToken
      <3>5. m.score > now
        <4>1. now <= call[d].due /\ call[d].due \in Int
          BY <3>2, <1>1, TokenTypes DEF CallOK, Holds
        <4>2. m.score \in Int
          BY <3>2, <3>4, TokenTypes
        <4> QED
          BY <4>1, <4>2, <3>4, <1>1
      <3>6. m \in tokens'[k]
        BY <3>2, <3>4, <3>5, <1>3 DEF Live
      <3> QED
        BY <3>1, <3>4, <3>6 DEF HasToken
    <2> QED
      BY <2>1, <2>2
  <1>9. ASSUME NEW d \in Calls, call'[d].pc \in {"new", "egress"}, NEW k \in SetKeys,
               NEW m \in tokens'[k]
        PROVE  m.token # d
    <2>1. d # c /\ call'[d] = call[d]
      BY <1>9
    <2> QED
      BY <2>1, <1>1, <1>6, <1>9 DEF TokenInv
  <1> QED
    BY <1>5, <1>7, <1>8, <1>9 DEF TokenInv

(* Keys that are not full are charged; what was admitted is at most that.  *)
LEMMA RateCharge ==
    ASSUME QuotaInv, NEW K, Charge(K), \A k \in K : ~Full(k), now' = now,
           \A k \in RateKeys : taken'[k] = taken[k] \/ (k \in K /\ taken'[k] = taken[k] + 1)
    PROVE  /\ \A k \in RateKeys : RateOK(k)'
           /\ rate' \in [RateKeys -> [window : Int, count : Nat]]
  <1>1. /\ rate \in [RateKeys -> [window : Int, count : Nat]] /\ now \in Nat
        /\ taken \in [RateKeys -> Nat] /\ \A k \in RateKeys : RateOK(k)
    BY QuotaParts DEF TypeOK
  <1>2. ASSUME NEW k \in RateKeys
        PROVE  RateOK(k)' /\ rate'[k] \in [window : Int, count : Nat]
    <2>1. /\ rate[k] \in [window : Int, count : Nat] /\ RateLimit[k] \in Nat
          /\ taken[k] \in Nat /\ RateOK(k)
          /\ taken'[k] = taken[k] \/ (k \in K /\ taken'[k] = taken[k] + 1)
      BY <1>1, QuotaAssumption
    <2>2. CASE k \in K /\ RateLimit[k] > 0
      <3>1. rate'[k] = [window |-> now, count |-> IF rate[k].window = now
                                                  THEN rate[k].count + 1 ELSE 1]
        BY <2>2 DEF Charge
      <3>2. ~Full(k)
        BY <2>2
      <3>3. rate'[k].window = now /\ rate'[k].count \in Nat
        BY <3>1, <2>1
      <3>4. rate'[k].count <= RateLimit[k] /\ taken'[k] <= rate'[k].count
        BY <3>1, <3>2, <2>1, <2>2, <1>1 DEF RateOK, Full
      <3> QED
        BY <3>1, <3>3, <3>4, <1>1 DEF RateOK
    <2>3. CASE ~(k \in K /\ RateLimit[k] > 0)
      <3>1. rate'[k] = rate[k]
        BY <2>3 DEF Charge
      <3> QED
        BY <3>1, <2>1, <2>3 DEF RateOK
    <2> QED
      BY <2>2, <2>3
  <1>3. rate' \in [RateKeys -> [window : Int, count : Nat]]
    BY <1>2 DEF Charge
  <1> QED
    BY <1>2, <1>3
-----------------------------------------------------------------------------
(* The steps *)

LEMMA QuotaInit == Init => QuotaInv
  <1> SUFFICES ASSUME Init
               PROVE  QuotaInv
    OBVIOUS
  <1>1. New \in CallRecord /\ New.pc = "new" /\ New.pod = None
    BY DEF New, CallRecord, Pcs
  <1>2. \A c \in Calls : call[c] = New
    BY DEF Init
  <1>3. \A c \in Calls : ~Holds(c) /\ call[c].pod = None /\ call[c].pc = "new"
    BY <1>1, <1>2 DEF Holds
  <1>4. TypeOK
    <2>1. -1 \in Int /\ 0 \in Nat
      OBVIOUS
    <2>2. rate \in [RateKeys -> [window : Int, count : Nat]]
      BY <2>1 DEF Init
    <2>3. call \in [Calls -> CallRecord]
      BY <1>1 DEF Init
    <2> QED
      BY <2>2, <2>3 DEF Init, TypeOK
  <1>5. \A k \in RateKeys : RateOK(k)
    <2> SUFFICES ASSUME NEW k \in RateKeys
                 PROVE  RateOK(k)
      OBVIOUS
    <2>1. rate[k].window = -1 /\ rate[k].count = 0 /\ taken[k] = 0 /\ now = 0
      BY DEF Init
    <2>2. RateLimit[k] \in Nat
      BY QuotaAssumption
    <2> QED
      BY <2>1, <2>2 DEF RateOK
  <1>6. TokenInv
    <2>1. ASSUME NEW k \in SetKeys
          PROVE  SetOK(k) /\ tokens[k] = {}
      <3>1. tokens[k] = {} /\ Live(k) = {}
        BY DEF Init, Live
      <3>2. Concurrency[k] \in Nat
        BY QuotaAssumption
      <3> QED
        BY <3>1, <3>2, FS_EmptySet DEF SetOK
    <2> QED
      BY <2>1, <1>3 DEF TokenInv
  <1>7. SlotInv
    <2>1. \A p, t : Holders(p) = {} /\ HoldersOf(p, t) = {}
      BY <1>3 DEF Holders, HoldersOf
    <2>2. \A p \in Pods, t \in Targets : targets[p][t] = None
      BY DEF Init
    <2>3. \A c \in Calls : ~InMap(c)
      BY <2>2, QuotaAssumption DEF InMap
    <2>4. \A p \in Pods, t \in Targets : EntryOK(p, t)
      BY <2>1, <2>2 DEF EntryOK
    <2>5. \A p \in Pods : active[p] = Cardinality(Holders(p))
      BY <2>1, FS_EmptySet DEF Init
    <2>6. \A c \in Calls : count[c] = 0
      BY DEF Init
    <2> QED
      BY <2>2, <2>3, <2>4, <2>5, <2>6 DEF SlotInv
  <1>8. \A c \in Calls : CallOK(c)
    BY <1>3 DEF CallOK
  <1> QED
    BY <1>4, <1>5, <1>6, <1>7, <1>8 DEF QuotaInv

(* Deliveries the step does not touch, and one that ends.                  *)
LEMMA CallKeep ==
    ASSUME QuotaInv, now' = now, NEW d \in Calls, call'[d] = call[d]
    PROVE  CallOK(d)'
  BY QuotaParts DEF CallOK, Holds

LEMMA EndCall ==
    ASSUME QuotaInv, NEW c \in Calls, NEW pc \in {"refused", "done"}, End(c, pc), now' = now
    PROVE  /\ call' \in [Calls -> CallRecord]
           /\ call'[c].pc = pc /\ ~Holds(c)'
           /\ \A d \in Calls \ {c} : call'[d] = call[d]
           /\ \A d \in Calls : CallOK(d)'
  <1> DEFINE r == [New EXCEPT !.pc = pc]
  <1>1. call \in [Calls -> CallRecord]
    BY QuotaParts DEF TypeOK
  <1>2. r \in CallRecord /\ r.pc = pc /\ r.pod = None
    BY DEF New, CallRecord, Pcs
  <1>3. call' = [call EXCEPT ![c] = r]
    BY DEF End
  <1> HIDE DEF r
  <1>4. call' \in [Calls -> CallRecord]
    BY <1>1, <1>2, <1>3
  <1>5. call'[c].pc = pc /\ call'[c].pod = None /\ \A d \in Calls \ {c} : call'[d] = call[d]
    BY <1>1, <1>2, <1>3
  <1>6. ~Holds(c)'
    BY <1>5 DEF Holds
  <1>7. CallOK(c)'
    BY <1>5, <1>6 DEF CallOK
  <1>8. \A d \in Calls : CallOK(d)'
    BY <1>5, <1>7, CallKeep
  <1> QED
    BY <1>4, <1>5, <1>6, <1>8

(* The pc of a delivery moves on.                                          *)
LEMMA MoveCall ==
    ASSUME QuotaInv, NEW c \in Calls, NEW pc \in Pcs,
           call' = [call EXCEPT ![c].pc = pc]
    PROVE  /\ call' \in [Calls -> CallRecord]
           /\ call'[c].pc = pc /\ call'[c].pod = call[c].pod
           /\ call'[c].target = call[c].target /\ call'[c].entry = call[c].entry
           /\ call'[c].due = call[c].due
           /\ \A d \in Calls \ {c} : call'[d] = call[d]
  <1> DEFINE r == [call[c] EXCEPT !.pc = pc]
  <1>1. call \in [Calls -> CallRecord] /\ call[c] \in CallRecord
    BY QuotaParts DEF TypeOK
  <1>2. /\ r \in CallRecord /\ r.pc = pc /\ r.pod = call[c].pod /\ r.due = call[c].due
        /\ r.target = call[c].target /\ r.entry = call[c].entry
    BY <1>1 DEF CallRecord
  <1>3. call' = [call EXCEPT ![c] = r]
    OBVIOUS
  <1> HIDE DEF r
  <1> QED
    BY <1>1, <1>2, <1>3

LEMMA ReleaseType ==
    ASSUME QuotaInv, NEW c \in Calls, Holds(c), localRelease(c)
    PROVE  /\ active' \in [Pods -> Int]
           /\ targets' \in [Pods -> [Targets -> Calls \cup {None}]]
           /\ count' \in [Calls -> Int]
  <1>1. /\ active \in [Pods -> Int] /\ count \in [Calls -> Int]
        /\ targets \in [Pods -> [Targets -> Calls \cup {None}]]
        /\ call[c].pod \in Pods /\ call[c].target \in Targets /\ call[c].entry \in Calls
    BY QuotaParts, HolderEntry DEF TypeOK, CallOK
  <1>2. active' \in [Pods -> Int]
    BY <1>1 DEF localRelease
  <1>3. count' \in [Calls -> Int]
    BY <1>1 DEF localRelease
  <1>4. targets' \in [Pods -> [Targets -> Calls \cup {None}]]
    BY <1>1 DEF localRelease
  <1> QED
    BY <1>2, <1>3, <1>4

LEMMA LocalStep ==
    ASSUME QuotaInv, NEW c \in Calls, NEW p \in Pods, NEW client \in Clients,
           NEW target \in Targets, Local(c, p, client, target)
    PROVE  QuotaInv'
  <1> DEFINE e == EntryOf(c, p, target)
             r == [pc |-> "egress", pod |-> p, client |-> client, target |-> target,
                   due |-> now + CallTimeout, entry |-> e]
  <1>1. /\ TypeOK /\ now \in Nat /\ call \in [Calls -> CallRecord]
        /\ targets \in [Pods -> [Targets -> Calls \cup {None}]]
        /\ active \in [Pods -> Int] /\ count \in [Calls -> Int]
        /\ \A k \in RateKeys : RateOK(k)
    BY QuotaParts DEF TypeOK
  <1>2. /\ rate' = rate /\ tokens' = tokens /\ taken' = taken /\ now' = now
        /\ call[c].pc = "new"
    BY DEF Local, redis
  <1>3. \A k \in RateKeys : RateOK(k)'
    BY <1>1, <1>2 DEF RateOK
  <1>4. CASE active[p] >= MaxGlobal \/ count[e] >= MaxTarget
    <2>1. SlotInv' /\ call' = [call EXCEPT ![c].pc = "refused"]
      BY <1>4, SlotRefused
    <2>2. /\ call' \in [Calls -> CallRecord] /\ call'[c].pc = "refused"
          /\ call'[c].pod = call[c].pod /\ \A d \in Calls \ {c} : call'[d] = call[d]
      BY <2>1, MoveCall DEF Pcs
    <2>3. TypeOK'
      <3>1. targets' = IF count[e] = 0 THEN [targets EXCEPT ![p][target] = None] ELSE targets
        BY <1>4 DEF Local
      <3>2. targets' \in [Pods -> [Targets -> Calls \cup {None}]]
        BY <3>1, <1>1
      <3>3. active' = active /\ count' = count
        BY <1>4 DEF Local
      <3> QED
        BY <3>2, <3>3, <2>2, <1>1, <1>2 DEF TypeOK
    <2>4. \A d \in Calls : CallOK(d)'
      <3>1. CallOK(c)'
        <4>1. call[c].pod = None
          BY <1>2, QuotaParts DEF CallOK, Holds
        <4> QED
          BY <4>1, <2>2 DEF CallOK, Holds
      <3> QED
        BY <3>1, <2>2, <1>2, CallKeep
    <2>5. TokenInv'
      <3>1. \A d \in Calls : call'[d].pc # "refused" => call'[d] = call[d]
        BY <2>2
      <3> QED
        BY <3>1, <1>1, <1>2, TokenShrink
    <2> QED
      BY <2>1, <2>3, <2>4, <2>5, <1>3 DEF QuotaInv
  <1>5. CASE ~(active[p] >= MaxGlobal \/ count[e] >= MaxTarget)
    <2>1. SlotInv'
      BY <1>5, SlotTaken
    <2>2. /\ call' = [call EXCEPT ![c] = r]
          /\ targets' = [targets EXCEPT ![p][target] = e]
          /\ active' = [active EXCEPT ![p] = @ + 1]
          /\ count' = [count EXCEPT ![e] = @ + 1]
      BY <1>5 DEF Local
    <2>3. e \in Calls
      BY <1>1 DEF EntryOf
    <2> HIDE DEF e
    <2>4. r \in CallRecord
      BY <2>3, <1>1, QuotaAssumption DEF CallRecord, Pcs
    <2>5. /\ call' \in [Calls -> CallRecord] /\ call'[c] = r
          /\ \A d \in Calls \ {c} : call'[d] = call[d]
      BY <2>2, <2>4, <1>1
    <2>6. TypeOK'
      <3>1. targets' \in [Pods -> [Targets -> Calls \cup {None}]]
        BY <2>2, <2>3, <1>1
      <3>2. active' \in [Pods -> Int] /\ count' \in [Calls -> Int]
        BY <2>2, <2>3, <1>1
      <3> QED
        BY <3>1, <3>2, <2>5, <1>1, <1>2 DEF TypeOK
    <2>7. \A d \in Calls : CallOK(d)'
      <3>1. CallOK(c)'
        BY <2>5, <1>1, <1>2, QuotaAssumption DEF CallOK, Holds
      <3> QED
        BY <3>1, <2>5, <1>2, CallKeep
    <2>8. TokenInv'
      <3>1. call'[c].pc = "egress"
        BY <2>5
      <3>2. \A d \in Calls : call'[d].pc = "running" => call'[d] = call[d]
        BY <2>5, <3>1
      <3>3. \A d \in Calls : call'[d].pc \in {"new", "egress"} =>
                call[d].pc \in {"new", "egress"}
        BY <2>5, <1>2
      <3> QED
        BY <3>2, <3>3, <1>1, <1>2, TokenShrink
    <2> QED
      BY <2>1, <2>6, <2>7, <2>8, <1>3 DEF QuotaInv
  <1> QED
    BY <1>4, <1>5

(* The egress script, whatever the delivery does with its answer.          *)
LEMMA ScriptStep ==
    ASSUME QuotaInv, NEW c \in Calls, call[c].pc = "egress", egressScript(c), now' = now,
           \A d \in Calls \ {c} : call'[d] = call[d],
           call'[c].pc \notin {"new", "egress"},
           call'[c].pc = "running" =>
               /\ EgressAllowed(c)
               /\ call'[c].target = call[c].target /\ call'[c].due = call[c].due,
           \A k \in RateKeys :
               \/ taken'[k] = taken[k]
               \/ EgressAllowed(c) /\ k \in EgressKeys(c) /\ taken'[k] = taken[k] + 1
    PROVE  /\ TokenInv' /\ tokens' \in [SetKeys -> SUBSET Token]
           /\ \A k \in RateKeys : RateOK(k)'
           /\ rate' \in [RateKeys -> [window : Int, count : Nat]]
  <1>1. /\ tokens \in [SetKeys -> SUBSET Token] /\ now \in Nat
        /\ rate \in [RateKeys -> [window : Int, count : Nat]]
        /\ \A k \in RateKeys : RateOK(k)
        /\ \A d \in Calls : CallOK(d)
    BY QuotaParts DEF TypeOK
  <1>2. CASE EgressAllowed(c)
    <2>1. TokenInv' /\ tokens' \in [SetKeys -> SUBSET Token]
      BY <1>2, TokenAdd
    <2>2. Charge(EgressKeys(c)) /\ \A k \in EgressKeys(c) : ~Full(k)
      BY <1>2 DEF egressScript, EgressAllowed
    <2>3. \A k \in RateKeys :
             taken'[k] = taken[k] \/ (k \in EgressKeys(c) /\ taken'[k] = taken[k] + 1)
      OBVIOUS
    <2>4. /\ \A k \in RateKeys : RateOK(k)'
          /\ rate' \in [RateKeys -> [window : Int, count : Nat]]
      BY <2>2, <2>3, RateCharge
    <2> QED
      BY <2>1, <2>4
  <1>3. CASE ~EgressAllowed(c)
    <2>1. tokens' = Prune(ConcurrencyKeys(c)) /\ rate' = rate
      BY <1>3 DEF egressScript
    <2>2. \A k \in SetKeys : /\ tokens'[k] \subseteq tokens[k]
                             /\ \A m \in tokens[k] : m.score > now => m \in tokens'[k]
      BY <2>1 DEF Prune, Live
    <2>3. tokens' \in [SetKeys -> SUBSET Token]
      <3>1. \A k \in SetKeys : tokens'[k] \in SUBSET Token
        BY <2>2, <1>1
      <3>2. tokens' = [k \in SetKeys |-> tokens'[k]]
        BY <2>1 DEF Prune
      <3> QED
        BY <3>1, <3>2
    <2>4. ASSUME NEW d \in Calls, call'[d].pc = "running", NEW k \in SetKeys,
                 NEW m \in tokens[k], m.token = d /\ m.score > call[d].due
          PROVE  m \in tokens'[k]
      <3>1. d # c /\ call[d].pc = "running"
        BY <1>3, <2>4
      <3>2. now <= call[d].due /\ call[d].due \in Int
        BY <3>1, <1>1, TokenTypes DEF CallOK, Holds
      <3>3. m.score \in Int
        BY TokenTypes
      <3>4. m.score > now
        BY <3>2, <3>3, <2>4, <1>1
      <3> QED
        BY <3>4, <2>2
    <2>5. \A d \in Calls : call'[d].pc = "running" =>
             /\ call[d].pc = "running"
             /\ call'[d].target = call[d].target /\ call'[d].due = call[d].due
             /\ \A k \in SetKeys : \A m \in tokens[k] :
                  m.token = d /\ m.score > call[d].due => m \in tokens'[k]
      BY <2>4, <1>3
    <2>6. \A d \in Calls : call'[d].pc \in {"new", "egress"} =>
             call[d].pc \in {"new", "egress"}
      OBVIOUS
    <2>7. TokenInv'
      BY <2>2, <2>5, <2>6, <1>1, TokenShrink
    <2>8. \A k \in RateKeys : RateOK(k)'
      BY <2>1, <1>1, <1>3 DEF RateOK
    <2> QED
      BY <2>1, <2>3, <2>7, <2>8, <1>1
  <1> QED
    BY <1>2, <1>3

LEMMA AdmitStep ==
    ASSUME QuotaInv, NEW c \in Calls, Admit(c)
    PROVE  QuotaInv'
  <1>1. /\ TypeOK /\ SlotInv /\ now \in Nat /\ taken \in [RateKeys -> Nat] /\ CallOK(c)
    BY QuotaParts DEF TypeOK
  <1>2. /\ call[c].pc = "egress" /\ EgressAllowed(c) /\ egressScript(c)
        /\ call' = [call EXCEPT ![c].pc = "running"] /\ UNCHANGED local_ /\ now' = now
        /\ taken' = [k \in RateKeys |-> taken[k] + IF k \in EgressKeys(c) THEN 1 ELSE 0]
    BY DEF Admit
  <1>3. /\ call' \in [Calls -> CallRecord] /\ call'[c].pc = "running"
        /\ call'[c].pod = call[c].pod /\ call'[c].target = call[c].target
        /\ call'[c].entry = call[c].entry /\ call'[c].due = call[c].due
        /\ \A d \in Calls \ {c} : call'[d] = call[d]
    BY <1>2, MoveCall DEF Pcs
  <1>4. \A k \in RateKeys :
            \/ taken'[k] = taken[k]
            \/ EgressAllowed(c) /\ k \in EgressKeys(c) /\ taken'[k] = taken[k] + 1
    BY <1>1, <1>2
  <1>5. /\ TokenInv' /\ tokens' \in [SetKeys -> SUBSET Token]
        /\ \A k \in RateKeys : RateOK(k)'
        /\ rate' \in [RateKeys -> [window : Int, count : Nat]]
    BY <1>2, <1>3, <1>4, ScriptStep
  <1>6. \A d \in Calls : Holds(d)' <=> Holds(d)
    BY <1>2, <1>3 DEF Holds
  <1>7. \A d \in Calls : /\ call'[d].pod = call[d].pod /\ call'[d].target = call[d].target
                         /\ call'[d].entry = call[d].entry
    BY <1>3
  <1>8. \A d \in Calls : call'[d].pc = "new" => call[d].pc = "new"
    BY <1>3
  <1>9. SlotInv'
    BY <1>1, <1>2, <1>6, <1>7, <1>8, SlotKeep
  <1>10. \A d \in Calls : CallOK(d)'
    <2>1. CallOK(c)'
      BY <1>1, <1>2, <1>3 DEF CallOK, Holds
    <2> QED
      BY <2>1, <1>2, <1>3, CallKeep
  <1>11. TypeOK'
    <2>1. taken' \in [RateKeys -> Nat]
      BY <1>1, <1>2
    <2> QED
      BY <2>1, <1>1, <1>2, <1>3, <1>5 DEF TypeOK, local_
  <1> QED
    BY <1>5, <1>9, <1>10, <1>11 DEF QuotaInv

(* The delivery gives its slot back and ends.                              *)
LEMMA GiveBack ==
    ASSUME QuotaInv, NEW c \in Calls, Holds(c), localRelease(c),
           NEW pc \in {"refused", "done"}, End(c, pc), now' = now
    PROVE  /\ SlotInv' /\ call' \in [Calls -> CallRecord]
           /\ active' \in [Pods -> Int]
           /\ targets' \in [Pods -> [Targets -> Calls \cup {None}]]
           /\ count' \in [Calls -> Int]
           /\ call'[c].pc = pc
           /\ \A d \in Calls \ {c} : call'[d] = call[d]
           /\ \A d \in Calls : CallOK(d)'
  <1>1. /\ call' \in [Calls -> CallRecord]
        /\ call'[c].pc = pc /\ ~Holds(c)'
        /\ \A d \in Calls \ {c} : call'[d] = call[d]
        /\ \A d \in Calls : CallOK(d)'
    BY EndCall
  <1>2. call'[c].pc # "new"
    BY <1>1
  <1>3. SlotInv'
    BY <1>1, <1>2, SlotRelease
  <1> QED
    BY <1>1, <1>3, ReleaseType

LEMMA RefuseStep ==
    ASSUME QuotaInv, NEW c \in Calls, Refuse(c)
    PROVE  QuotaInv'
  <1>1. TypeOK /\ now \in Nat /\ taken \in [RateKeys -> Nat]
    BY QuotaParts DEF TypeOK
  <1>2. /\ call[c].pc = "egress" /\ egressScript(c) /\ localRelease(c)
        /\ End(c, "refused") /\ taken' = taken /\ now' = now /\ Holds(c)
    BY DEF Refuse, Holds
  <1>3. /\ SlotInv' /\ call' \in [Calls -> CallRecord]
        /\ active' \in [Pods -> Int]
        /\ targets' \in [Pods -> [Targets -> Calls \cup {None}]]
        /\ count' \in [Calls -> Int]
        /\ call'[c].pc = "refused"
        /\ \A d \in Calls \ {c} : call'[d] = call[d]
        /\ \A d \in Calls : CallOK(d)'
    BY <1>2, GiveBack
  <1>4. /\ TokenInv' /\ tokens' \in [SetKeys -> SUBSET Token]
        /\ \A k \in RateKeys : RateOK(k)'
        /\ rate' \in [RateKeys -> [window : Int, count : Nat]]
    BY <1>2, <1>3, ScriptStep
  <1> QED
    BY <1>1, <1>2, <1>3, <1>4 DEF QuotaInv, TypeOK

LEMMA NoAnswerStep ==
    ASSUME QuotaInv, NEW c \in Calls, NoAnswer(c)
    PROVE  QuotaInv'
  <1>1. /\ TypeOK /\ SlotInv /\ now \in Nat /\ taken \in [RateKeys -> Nat] /\ CallOK(c)
        /\ \A k \in RateKeys : RateOK(k)
    BY QuotaParts DEF TypeOK
  <1>2. /\ call[c].pc = "egress" /\ taken' = taken /\ now' = now /\ Holds(c)
        /\ egressScript(c) \/ UNCHANGED redis
    BY DEF NoAnswer, Holds
  <1>3. /\ SlotInv' /\ call' \in [Calls -> CallRecord]
        /\ active' \in [Pods -> Int]
        /\ targets' \in [Pods -> [Targets -> Calls \cup {None}]]
        /\ count' \in [Calls -> Int]
        /\ call'[c].pc \in {"degraded", "refused"}
        /\ \A d \in Calls \ {c} : call'[d] = call[d]
        /\ \A d \in Calls : CallOK(d)'
    <2>1. CASE call[c].target \in FailOpen
      <3>1. call' = [call EXCEPT ![c].pc = "degraded"] /\ UNCHANGED local_
        BY <2>1 DEF NoAnswer
      <3>2. /\ call' \in [Calls -> CallRecord] /\ call'[c].pc = "degraded"
            /\ call'[c].pod = call[c].pod /\ call'[c].target = call[c].target
            /\ call'[c].entry = call[c].entry /\ call'[c].due = call[c].due
            /\ \A d \in Calls \ {c} : call'[d] = call[d]
        BY <3>1, MoveCall DEF Pcs
      <3>3. \A d \in Calls : Holds(d)' <=> Holds(d)
        BY <3>2, <1>2 DEF Holds
      <3>4. \A d \in Calls : /\ call'[d].pod = call[d].pod
                             /\ call'[d].target = call[d].target
                             /\ call'[d].entry = call[d].entry
        BY <3>2
      <3>5. \A d \in Calls : call'[d].pc = "new" => call[d].pc = "new"
        BY <3>2
      <3>6. SlotInv'
        BY <3>1, <3>3, <3>4, <3>5, <1>1, SlotKeep
      <3>7. CallOK(c)'
        BY <3>2, <1>1, <1>2 DEF CallOK, Holds
      <3>8. \A d \in Calls : CallOK(d)'
        BY <3>2, <3>7, <1>2, CallKeep
      <3>9. /\ active' \in [Pods -> Int] /\ count' \in [Calls -> Int]
            /\ targets' \in [Pods -> [Targets -> Calls \cup {None}]]
        BY <3>1, <1>1 DEF local_, TypeOK
      <3> QED
        BY <3>2, <3>6, <3>8, <3>9
    <2>2. CASE call[c].target \notin FailOpen
      <3>1. localRelease(c) /\ End(c, "refused")
        BY <2>2 DEF NoAnswer
      <3> QED
        BY <3>1, <1>2, GiveBack
    <2> QED
      BY <2>1, <2>2
  <1>4. /\ TokenInv' /\ tokens' \in [SetKeys -> SUBSET Token]
        /\ \A k \in RateKeys : RateOK(k)'
        /\ rate' \in [RateKeys -> [window : Int, count : Nat]]
    <2>1. CASE egressScript(c)
      BY <2>1, <1>2, <1>3, ScriptStep
    <2>2. CASE UNCHANGED redis
      <3>1. tokens' = tokens /\ rate' = rate
        BY <2>2 DEF redis
      <3>2. \A k \in RateKeys : RateOK(k)'
        BY <3>1, <1>1, <1>2 DEF RateOK
      <3>3. \A d \in Calls : call'[d].pc \in {"running", "new", "egress"} =>
               call'[d] = call[d]
        BY <1>3
      <3>4. TokenInv'
        BY <3>1, <3>3, <1>1, <1>2, TokenShrink
      <3> QED
        BY <3>1, <3>2, <3>4, <1>1 DEF TypeOK
    <2> QED
      BY <2>1, <2>2, <1>2
  <1> QED
    BY <1>1, <1>2, <1>3, <1>4 DEF QuotaInv, TypeOK

LEMMA ReleaseStep ==
    ASSUME QuotaInv, NEW c \in Calls, Release(c)
    PROVE  QuotaInv'
  <1>1. /\ TypeOK /\ now \in Nat /\ tokens \in [SetKeys -> SUBSET Token]
        /\ \A k \in RateKeys : RateOK(k)
    BY QuotaParts DEF TypeOK
  <1>2. /\ Holds(c) /\ localRelease(c) /\ End(c, "done")
        /\ rate' = rate /\ taken' = taken /\ now' = now
    BY DEF Release, Holds
  <1>3. /\ SlotInv' /\ call' \in [Calls -> CallRecord]
        /\ active' \in [Pods -> Int]
        /\ targets' \in [Pods -> [Targets -> Calls \cup {None}]]
        /\ count' \in [Calls -> Int]
        /\ call'[c].pc = "done"
        /\ \A d \in Calls \ {c} : call'[d] = call[d]
        /\ \A d \in Calls : CallOK(d)'
    BY <1>2, GiveBack
  <1>4. /\ \A k \in SetKeys : tokens'[k] \subseteq tokens[k]
        /\ \A k \in SetKeys : \A m \in tokens[k] : m.token # c => m \in tokens'[k]
        /\ tokens' \in [SetKeys -> SUBSET Token]
    <2>1. CASE releaseScript(c)
      BY <2>1, <1>1 DEF releaseScript
    <2>2. CASE UNCHANGED tokens
      BY <2>2, <1>1
    <2> QED
      BY <2>1, <2>2 DEF Release
  <1>5. \A k \in RateKeys : RateOK(k)'
    BY <1>1, <1>2 DEF RateOK
  <1>6. TokenInv'
    <2>1. \A d \in Calls : call'[d].pc \in {"running", "new", "egress"} =>
             d # c /\ call'[d] = call[d]
      BY <1>3
    <2>2. \A d \in Calls : call'[d].pc = "running" =>
             /\ call[d].pc = "running"
             /\ call'[d].target = call[d].target /\ call'[d].due = call[d].due
             /\ \A k \in SetKeys : \A m \in tokens[k] :
                  m.token = d /\ m.score > call[d].due => m \in tokens'[k]
      BY <2>1, <1>4
    <2> QED
      BY <2>1, <2>2, <1>1, <1>2, <1>4, TokenShrink
  <1> QED
    BY <1>1, <1>2, <1>3, <1>4, <1>5, <1>6 DEF QuotaInv, TypeOK

LEMMA RestartStep ==
    ASSUME QuotaInv, NEW p \in Pods, Restart(p)
    PROVE  QuotaInv'
  <1> DEFINE r == [New EXCEPT !.pc = "done"]
  <1>1. /\ TypeOK /\ now \in Nat /\ call \in [Calls -> CallRecord]
        /\ targets \in [Pods -> [Targets -> Calls \cup {None}]]
        /\ active \in [Pods -> Int] /\ count \in [Calls -> Int]
        /\ \A k \in RateKeys : RateOK(k)
    BY QuotaParts DEF TypeOK
  <1>2. /\ call' = [c \in Calls |-> IF call[c].pod = p THEN r ELSE call[c]]
        /\ active' = [active EXCEPT ![p] = 0]
        /\ targets' = [targets EXCEPT ![p] = [t \in Targets |-> None]]
        /\ count' = [c \in Calls |->
             IF \E d \in Calls : call[d].pod = p /\ call[d].entry = c THEN 0 ELSE count[c]]
        /\ rate' = rate /\ tokens' = tokens /\ taken' = taken /\ now' = now
    BY DEF Restart, redis
  <1>3. r \in CallRecord /\ r.pc = "done" /\ r.pod = None
    BY DEF New, CallRecord, Pcs
  <1> HIDE DEF r
  <1>4. call' \in [Calls -> CallRecord] /\ \A d \in Calls : call'[d] = r \/ call'[d] = call[d]
    BY <1>1, <1>2, <1>3
  <1>5. TypeOK'
    <2>1. active' \in [Pods -> Int]
      BY <1>1, <1>2
    <2>2. targets' \in [Pods -> [Targets -> Calls \cup {None}]]
      BY <1>1, <1>2
    <2>3. count' \in [Calls -> Int]
      BY <1>1, <1>2
    <2> QED
      BY <2>1, <2>2, <2>3, <1>1, <1>2, <1>4 DEF TypeOK
  <1>6. ASSUME NEW d \in Calls
        PROVE  CallOK(d)'
    <2>1. CASE call'[d] = r
      BY <2>1, <1>3 DEF CallOK, Holds
    <2>2. CASE call'[d] = call[d]
      BY <2>2, <1>2, CallKeep
    <2> QED
      BY <2>1, <2>2, <1>4
  <1>7. \A k \in RateKeys : RateOK(k)'
    BY <1>1, <1>2 DEF RateOK
  <1>8. TokenInv'
    <2>1. \A d \in Calls : call'[d].pc \in {"running", "new", "egress"} =>
             call'[d] = call[d]
      BY <1>3, <1>4
    <2> QED
      BY <2>1, <1>1, <1>2, TokenShrink
  <1>9. SlotInv'
    BY SlotRestart
  <1> QED
    BY <1>5, <1>6, <1>7, <1>8, <1>9 DEF QuotaInv

LEMMA IngressStep ==
    ASSUME QuotaInv, NEW client \in Clients, Ingress(client)
    PROVE  QuotaInv'
  <1>1. /\ TypeOK /\ SlotInv /\ now \in Nat /\ taken \in [RateKeys -> Nat]
    BY QuotaParts DEF TypeOK
  <1>2. /\ rateScript(client) /\ call' = call /\ UNCHANGED local_ /\ now' = now
        /\ tokens' = tokens
    BY DEF Ingress, rateScript
  <1>3. PICK answered \in BOOLEAN :
            taken' = [k \in RateKeys |->
                taken[k] + IF answered /\ k \in IngressKeys(client) THEN 1 ELSE 0]
    BY DEF Ingress
  <1>4. taken' \in [RateKeys -> Nat]
    BY <1>1, <1>3
  <1>5. \A k \in RateKeys :
            taken'[k] = taken[k] \/ (k \in IngressKeys(client) /\ taken'[k] = taken[k] + 1)
    BY <1>1, <1>3
  <1>6. /\ \A k \in RateKeys : RateOK(k)'
        /\ rate' \in [RateKeys -> [window : Int, count : Nat]]
    <2>1. Charge(IngressKeys(client)) /\ \A k \in IngressKeys(client) : ~Full(k)
      BY <1>2 DEF rateScript
    <2> QED
      BY <2>1, <1>2, <1>5, RateCharge
  <1>7. TokenInv'
    BY <1>1, <1>2, TokenShrink
  <1>8. SlotInv'
    <2>1. \A c \in Calls : Holds(c)' <=> Holds(c)
      BY <1>2 DEF Holds
    <2> QED
      BY <2>1, <1>1, <1>2, SlotKeep
  <1>9. \A c \in Calls : CallOK(c)'
    BY <1>2, CallKeep
  <1>10. TypeOK'
    BY <1>1, <1>2, <1>4, <1>6 DEF TypeOK, local_
  <1> QED
    BY <1>6, <1>7, <1>8, <1>9, <1>10 DEF QuotaInv

LEMMA TickStep ==
    ASSUME QuotaInv, Tick
    PROVE  QuotaInv'
  <1>1. /\ TypeOK /\ SlotInv /\ now \in Nat
        /\ \A c \in Calls : call[c] \in CallRecord /\ CallOK(c)
        /\ \A k \in RateKeys : RateOK(k)
    BY QuotaParts
  <1>2. /\ now' = now + 1 /\ taken' = [k \in RateKeys |-> 0] /\ call' = call
        /\ UNCHANGED local_ /\ rate' = rate /\ tokens' = tokens
        /\ \A c \in Calls : Holds(c) => now < call[c].due
    BY DEF Tick, redis
  <1>3. \A c \in Calls : Holds(c)' <=> Holds(c)
    BY <1>2 DEF Holds
  <1>4. SlotInv'
    BY <1>1, <1>2, <1>3, SlotKeep
  <1>5. TokenInv'
    BY <1>1, <1>2, TokenShrink
  <1>6. ASSUME NEW c \in Calls
        PROVE  CallOK(c)'
    <2>1. call[c].due \in Int
      BY <1>1 DEF CallRecord
    <2>2. Holds(c) => now + 1 <= call[c].due
      BY <2>1, <1>1, <1>2
    <2>3. call[c].pc = "egress" => call[c].due <= now + 1 + CallTimeout
      BY <2>1, <1>1, QuotaAssumption DEF CallOK, Holds
    <2> QED
      BY <2>2, <2>3, <1>1, <1>2, <1>3 DEF CallOK
  <1>7. ASSUME NEW k \in RateKeys
        PROVE  RateOK(k)'
    <2>1. rate[k].window \in Int /\ rate'[k] = rate[k] /\ taken'[k] = 0
      BY <1>1, <1>2 DEF TypeOK
    <2>2. RateLimit[k] > 0 => rate[k].window <= now + 1 /\ rate[k].window # now + 1
      BY <2>1, <1>1 DEF RateOK
    <2> QED
      BY <2>1, <2>2, <1>1, <1>2 DEF RateOK
  <1>8. TypeOK'
    <2>1. now' \in Nat /\ taken' \in [RateKeys -> Nat]
      BY <1>1, <1>2
    <2> QED
      BY <2>1, <1>1, <1>2 DEF TypeOK, local_
  <1> QED
    BY <1>4, <1>5, <1>6, <1>7, <1>8 DEF QuotaInv

LEMMA QuotaStep == QuotaInv /\ [Next]_vars => QuotaInv'
  <1> SUFFICES ASSUME QuotaInv, [Next]_vars
               PROVE  QuotaInv'
    OBVIOUS
  <1>1. CASE UNCHANGED vars
    <2>1. /\ call' = call /\ active' = active /\ targets' = targets /\ count' = count
          /\ rate' = rate /\ tokens' = tokens /\ taken' = taken /\ now' = now
      BY <1>1 DEF vars, local_, redis
    <2>2. TypeOK' /\ \A c \in Calls : CallOK(c)'
      BY <2>1 DEF QuotaInv, TypeOK, CallOK, Holds
    <2>3. \A k \in RateKeys : RateOK(k)'
      BY <2>1 DEF QuotaInv, RateOK
    <2>4. TokenInv'
      BY <2>1, QuotaParts, TokenShrink
    <2>5. SlotInv'
      <3>1. \A c \in Calls : Holds(c)' <=> Holds(c)
        BY <2>1 DEF Holds
      <3> QED
        BY <3>1, <2>1, QuotaParts, SlotKeep DEF local_
    <2> QED
      BY <2>2, <2>3, <2>4, <2>5 DEF QuotaInv
  <1>2. CASE Next
    <2>1. ASSUME NEW c \in Calls, NEW p \in Pods, NEW client \in Clients,
                 NEW target \in Targets, Local(c, p, client, target)
          PROVE  QuotaInv'
      BY <2>1, LocalStep
    <2>2. ASSUME NEW c \in Calls, Admit(c) \/ Refuse(c) \/ NoAnswer(c) \/ Release(c)
          PROVE  QuotaInv'
      BY <2>2, AdmitStep, RefuseStep, NoAnswerStep, ReleaseStep
    <2>3. ASSUME NEW p \in Pods, Restart(p)
          PROVE  QuotaInv'
      BY <2>3, RestartStep
    <2>4. ASSUME NEW client \in Clients, Ingress(client)
          PROVE  QuotaInv'
      BY <2>4, IngressStep
    <2>5. CASE Tick
      BY <2>5, TickStep
    <2> QED
      BY <1>2, <2>1, <2>2, <2>3, <2>4, <2>5 DEF Next
  <1> QED
    BY <1>1, <1>2
-----------------------------------------------------------------------------
(* quota.go: the limiter's counters, the tokens and the rates keep the     *)
(* inductive invariant whatever fails or restarts.                         *)
THEOREM QuotaInvariant == Spec => []QuotaInv
  BY QuotaInit, QuotaStep, PTL DEF Spec

(* quota.go:85-110: Limiter.active and localTarget.count are exact, and an *)
(* entry is in the map exactly while a delivery holds a slot of it.        *)
THEOREM CountersExact == Spec => []LocalCountsHolders
  <1>1. QuotaInv => LocalCountsHolders
    <2> SUFFICES ASSUME QuotaInv
                 PROVE  LocalCountsHolders
      OBVIOUS
    <2>1. SlotInv
      BY QuotaParts
    <2> QED
      BY <2>1 DEF SlotInv, EntryOK, LocalCountsHolders
  <1> QED
    BY <1>1, QuotaInvariant, PTL

(* quota.go:38-41: the running deliveries of a concurrency set are at most *)
(* its limit: each has a live token there, and no two have the same.       *)
THEOREM ConcurrencyRespected == Spec => []ClusterConcurrency
  <1>1. QuotaInv => ClusterConcurrency
    <2> SUFFICES ASSUME QuotaInv, NEW k \in SetKeys, Concurrency[k] > 0
                 PROVE  Cardinality({c \in Calls : call[c].pc = "running"
                                                   /\ k \in ConcurrencyKeys(c)})
                            <= Concurrency[k]
      BY DEF ClusterConcurrency
    <2> DEFINE R == {c \in Calls : call[c].pc = "running" /\ k \in ConcurrencyKeys(c)}
               f == [c \in R |-> CHOOSE m \in Live(k) : m.token = c]
    <2>1. TokenInv /\ now \in Nat /\ \A c \in Calls : CallOK(c)
      BY QuotaParts
    <2>2. /\ IsFiniteSet(Live(k)) /\ Cardinality(Live(k)) \in Nat /\ Concurrency[k] \in Nat
      BY TokenTypes
    <2>3. Cardinality(Live(k)) <= Concurrency[k]
      BY <2>1 DEF TokenInv, SetOK
    <2>4. ASSUME NEW c \in R
          PROVE  \E m \in Live(k) : m.token = c
      <3>1. HasToken(c, k)
        BY <2>1 DEF TokenInv
      <3>2. PICK m \in tokens[k] : m.token = c /\ m.score > call[c].due
        BY <3>1 DEF HasToken
      <3>3. now <= call[c].due /\ call[c].due \in Int
        BY <2>1, TokenTypes DEF CallOK, Holds
      <3>4. m.score \in Int
        BY <3>2, TokenTypes
      <3>5. m.score > now
        BY <3>2, <3>3, <3>4, <2>1
      <3> QED
        BY <3>2, <3>5 DEF Live
    <2>5. \A c \in R : f[c] \in Live(k) /\ f[c].token = c
      BY <2>4
    <2>6. f \in Injection(R, Live(k))
      <3>1. f \in [R -> Live(k)]
        BY <2>5
      <3>2. \A a, b \in R : f[a] = f[b] => a = b
        BY <2>5
      <3> QED
        BY <3>1, <3>2 DEF Injection, IsInjective
    <2>7. IsFiniteSet(R)
      <3>1. R \subseteq Calls
        OBVIOUS
      <3> QED
        BY <3>1, FS_Subset, QuotaAssumption
    <2> HIDE DEF f, R
    <2>8. Cardinality(R) <= Cardinality(Live(k)) /\ Cardinality(R) \in Nat
      BY <2>2, <2>6, <2>7, FS_Injection, FS_CardinalityType
    <2>9. Cardinality(R) <= Concurrency[k]
      BY <2>2, <2>3, <2>8
    <2> QED
      BY <2>9 DEF R
  <1> QED
    BY <1>1, QuotaInvariant, PTL

(* quota.go:17-30, quota.go:34-47: no rate admits more than its limit in   *)
(* one window, over all pods.                                              *)
THEOREM RatesRespected == Spec => []RateRespected
  <1>1. QuotaInv => RateRespected
    <2> SUFFICES ASSUME QuotaInv, NEW k \in RateKeys, RateLimit[k] > 0
                 PROVE  taken[k] <= RateLimit[k]
      BY DEF RateRespected
    <2>1. RateOK(k) /\ RateLimit[k] \in Nat /\ taken[k] \in Nat /\ rate[k].count \in Nat
      BY QuotaParts, QuotaAssumption DEF TypeOK
    <2> QED
      BY <2>1 DEF RateOK
  <1> QED
    BY <1>1, QuotaInvariant, PTL

(* quota.go:15: a delivery Redis refuses is charged to no rate and leaves  *)
(* no token, whether or not the answer arrives.                            *)
THEOREM RefusalsAreFree == Spec => RefusalIsFree
  <1>1. ASSUME QuotaInv, [Next]_vars, NEW c \in Calls,
               call[c].pc = "egress", ~EgressAllowed(c), call'[c].pc = "refused"
        PROVE  rate' = rate /\ \A k \in SetKeys : ~\E m \in tokens'[k] : m.token = c
    <2>1. call \in [Calls -> CallRecord] /\ TokenInv
      BY <1>1, QuotaParts DEF TypeOK
    <2>2. \A k \in SetKeys : \A m \in tokens[k] : m.token # c
      BY <2>1, <1>1 DEF TokenInv
    <2>3. ASSUME NEW d \in Calls, d # c, NEW r, call' = [call EXCEPT ![d] = r]
          PROVE  FALSE
      <3>1. call'[c] = call[c]
        BY <2>1, <2>3
      <3> QED
        BY <3>1, <1>1
    <2>4. Refuse(c) \/ NoAnswer(c)
      <3>1. ~UNCHANGED vars
        BY <1>1 DEF vars
      <3>2. ASSUME NEW d \in Calls, NEW p \in Pods, NEW client \in Clients,
                   NEW target \in Targets, Local(d, p, client, target)
            PROVE  FALSE
        <4>1. d # c
          BY <3>2, <1>1 DEF Local
        <4> QED
          BY <4>1, <3>2, <2>3 DEF Local
      <3>3. ASSUME NEW d \in Calls, Admit(d)
            PROVE  FALSE
        <4>1. d = c
          BY <3>3, <2>3 DEF Admit
        <4> QED
          BY <4>1, <3>3, <1>1 DEF Admit
      <3>4. ASSUME NEW d \in Calls, Refuse(d)
            PROVE  d = c
        BY <3>4, <2>3 DEF Refuse, End
      <3>5. ASSUME NEW d \in Calls, NoAnswer(d)
            PROVE  d = c
        BY <3>5, <2>3 DEF NoAnswer, End
      <3>6. ASSUME NEW d \in Calls, Release(d)
            PROVE  FALSE
        <4>1. d = c
          BY <3>6, <2>3 DEF Release, End
        <4> QED
          BY <4>1, <3>6, <1>1 DEF Release
      <3>7. ASSUME NEW p \in Pods, Restart(p)
            PROVE  FALSE
        <4>1. call'[c] = [New EXCEPT !.pc = "done"] \/ call'[c] = call[c]
          BY <3>7 DEF Restart
        <4>2. [New EXCEPT !.pc = "done"].pc = "done"
          BY DEF New
        <4> QED
          BY <4>1, <4>2, <1>1
      <3>8. ~Tick /\ ~\E client \in Clients : Ingress(client)
        BY <1>1 DEF Tick, Ingress
      <3>9. Next
        BY <3>1, <1>1
      <3> QED
        BY <3>2, <3>3, <3>4, <3>5, <3>6, <3>7, <3>8, <3>9 DEF Next
    <2>5. egressScript(c) \/ UNCHANGED redis
      BY <2>4 DEF Refuse, NoAnswer
    <2>6. CASE egressScript(c)
      <3>1. tokens' = Prune(ConcurrencyKeys(c)) /\ rate' = rate
        BY <2>6, <1>1 DEF egressScript
      <3>2. \A k \in SetKeys : tokens'[k] \subseteq tokens[k]
        BY <3>1 DEF Prune, Live
      <3> QED
        BY <3>1, <3>2, <2>2
    <2>7. CASE UNCHANGED redis
      BY <2>7, <2>2 DEF redis
    <2> QED
      BY <2>5, <2>6, <2>7
  <1>2. QuotaInv /\ [Next]_vars =>
          [\A c \in Calls :
             call[c].pc = "egress" /\ ~EgressAllowed(c) /\ call'[c].pc = "refused"
             => /\ rate' = rate
                /\ \A k \in SetKeys : ~\E m \in tokens'[k] : m.token = c]_vars
    BY <1>1
  <1> QED
    BY <1>2, QuotaInvariant, PTL DEF Spec, RefusalIsFree
=============================================================================
