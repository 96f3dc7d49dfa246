------------------------------- MODULE Quota -------------------------------
(***************************************************************************)
(* internal/quota/quota.go: admission of submissions (Ingress) and of      *)
(* deliveries (Acquire and the release it returns).  A delivery takes a    *)
(* slot of its pod's limiter, then runs a Redis script that checks two     *)
(* rates and two concurrency sets.  Redis may fail before or after the     *)
(* script ran, pods may crash.                                             *)
(*                                                                         *)
(* One tick is the one-second rate window.  The expiry of whole Redis keys *)
(* (PEXPIRE) removes only counters of past windows and sets of expired     *)
(* tokens, which the scripts ignore anyway; it is not modelled.            *)
(***************************************************************************)
EXTENDS Integers, FiniteSets

CONSTANTS
    Pods, Clients, Targets,
    Calls,          \* deliveries; each asks for admission once
    None,           \* no entry in Limiter.targets, no pod
    MaxGlobal, MaxTarget,           \* limits of a pod's Limiter
    RateLimit,      \* rates per window and key, 0 for unlimited
    Concurrency,    \* tokens per concurrency set, 0 for unlimited
    FailOpen,       \* targets whose quota has FailMode "open"
    CallTimeout,    \* 50 seconds: a delivery and its commit
    TokenTTL,       \* 60 seconds: score of a token in a concurrency set
    MaxTime, MaxIngress     \* bounds

RateKeys ==
    ({"ingress"} \X (Clients \cup {"global"}))
        \cup ({"egress"} \X Targets) \cup ({"egress"} \X Clients \X Targets)
SetKeys == {"global"} \cup Targets

ASSUME QuotaAssumption ==
    /\ MaxGlobal \in Nat /\ MaxTarget \in Nat
    /\ RateLimit \in [RateKeys -> Nat] /\ Concurrency \in [SetKeys -> Nat]
    /\ FailOpen \subseteq Targets
    /\ CallTimeout \in Nat /\ TokenTTL \in Nat /\ MaxTime \in Nat /\ MaxIngress \in Nat
    /\ IsFiniteSet(Calls) /\ None \notin Pods \cup Targets \cup Calls

(* 60 > 50: a token outlives the delivery it stands for.                   *)
ASSUME TokenAssumption == TokenTTL > CallTimeout

VARIABLES
    call,       \* where each delivery is: pc, pod, client, target, due, entry
    active,     \* Limiter.active of each pod
    targets,    \* Limiter.targets of each pod: the entry of each target
    count,      \* localTarget.count of the entry each delivery created
    rate,       \* Redis hashes: window and count of each rate key
    tokens,     \* Redis sorted sets: tokens and their scores
    taken,      \* history: what was admitted in the current window
    now         \* Redis TIME, in windows

local_ == <<active, targets, count>>
redis == <<rate, tokens>>
vars == <<call, local_, redis, taken, now>>

New ==
    [pc |-> "new", pod |-> None, client |-> None, target |-> None, due |-> 0, entry |-> None]
Holds(c) == call[c].pc \in {"egress", "running", "degraded"}

-----------------------------------------------------------------------------
(* Mutant: off by one at the limit.                                        *)
FullAboveLimit(k) == RateLimit[k] > 0 /\ rate[k].window = now /\ rate[k].count > RateLimit[k]

(* The rate part of both scripts: a key is full if its count was reached   *)
(* in this window; charging a key opens its window if need be.             *)
Full(k) == RateLimit[k] > 0 /\ rate[k].window = now /\ rate[k].count >= RateLimit[k]

Charge(K) ==
    rate' = [k \in RateKeys |->
        IF k \in K /\ RateLimit[k] > 0
        THEN [window |-> now, count |-> IF rate[k].window = now THEN rate[k].count + 1 ELSE 1]
        ELSE rate[k]]

IngressKeys(client) == {<<"ingress", "global">>, <<"ingress", client>>}
EgressKeys(c) ==
    {<<"egress", call[c].target>>, <<"egress", call[c].client, call[c].target>>}
ConcurrencyKeys(c) == {"global", call[c].target}

(* A token is in a set until its score is reached.                         *)
Live(k) == {m \in tokens[k] : m.score > now}
(* Mutant: off by one at the limit.                                        *)
CrowdedAbove(k) == Concurrency[k] > 0 /\ Cardinality(Live(k)) > Concurrency[k]

Crowded(k) == Concurrency[k] > 0 /\ Cardinality(Live(k)) >= Concurrency[k]

rateScript(client) ==
    /\ ~\E k \in IngressKeys(client) : Full(k)
    /\ Charge(IngressKeys(client))
    /\ UNCHANGED tokens

Prune(K) == [k \in SetKeys |-> IF k \in K THEN Live(k) ELSE tokens[k]]

EgressAllowed(c) ==
    /\ ~\E k \in EgressKeys(c) : Full(k)
    /\ ~\E k \in ConcurrencyKeys(c) : Crowded(k)

(* Mutant: the rates are charged before the concurrency is looked at.      *)
egressChargesFirst(c) ==
    /\ ~\E k \in EgressKeys(c) : Full(k)
    /\ Charge(EgressKeys(c))
    /\ tokens' = [k \in SetKeys |->
         IF k \in ConcurrencyKeys(c) /\ Concurrency[k] > 0 /\ EgressAllowed(c)
         THEN Live(k) \cup {[token |-> c, score |-> now + TokenTTL]}
         ELSE tokens[k]]

(* Expired tokens go whether or not the delivery is admitted.  (A refusal  *)
(* by the first set leaves the second one unpruned, which nothing reads.)  *)
egressScript(c) ==
    IF EgressAllowed(c)
    THEN /\ Charge(EgressKeys(c))
         /\ tokens' = [k \in SetKeys |->
              IF k \in ConcurrencyKeys(c) /\ Concurrency[k] > 0
              THEN Live(k) \cup {[token |-> c, score |-> now + TokenTTL]}
              ELSE tokens[k]]
    ELSE tokens' = Prune(ConcurrencyKeys(c)) /\ UNCHANGED rate

releaseScript(c) ==
    tokens' = [k \in SetKeys |->
        IF k \in ConcurrencyKeys(c) THEN {m \in tokens[k] : m.token # c} ELSE tokens[k]]

-----------------------------------------------------------------------------
(* Limiter.local.  The entry of a target is created by the first delivery  *)
(* that asks for it, and named after it here.                              *)
EntryOf(c, p, target) == IF targets[p][target] = None THEN c ELSE targets[p][target]

Local(c, p, client, target) ==
    LET e == EntryOf(c, p, target) IN
    /\ call[c].pc = "new"
    /\ IF active[p] >= MaxGlobal \/ count[e] >= MaxTarget
       THEN /\ call' = [call EXCEPT ![c].pc = "refused"]
            /\ targets' = IF count[e] = 0 THEN [targets EXCEPT ![p][target] = None] ELSE targets
            /\ UNCHANGED <<active, count>>
       ELSE /\ call' = [call EXCEPT ![c] =
                 [pc |-> "egress", pod |-> p, client |-> client, target |-> target,
                  due |-> now + CallTimeout, entry |-> e]]
            /\ targets' = [targets EXCEPT ![p][target] = e]
            /\ active' = [active EXCEPT ![p] = @ + 1]
            /\ count' = [count EXCEPT ![e] = @ + 1]
    /\ UNCHANGED <<redis, taken, now>>

(* Mutant: the entry is dropped with the first release.                    *)
localReleaseDropsEntry(c) ==
    /\ active' = [active EXCEPT ![call[c].pod] = @ - 1]
    /\ count' = [count EXCEPT ![call[c].entry] = @ - 1]
    /\ targets' = [targets EXCEPT ![call[c].pod][call[c].target] = None]

(* The function Limiter.local returns.                                     *)
localRelease(c) ==
    LET p == call[c].pod
        e == call[c].entry
    IN  /\ active' = [active EXCEPT ![p] = @ - 1]
        /\ count' = [count EXCEPT ![e] = @ - 1]
        /\ targets' = IF count[e] = 1
                      THEN [targets EXCEPT ![p][call[c].target] = None]
                      ELSE targets

End(c, pc) == call' = [call EXCEPT ![c] = [New EXCEPT !.pc = pc]]

(* Acquire, with the answer of Redis.                                      *)
Admit(c) ==
    /\ call[c].pc = "egress"
    /\ EgressAllowed(c)
    /\ egressScript(c)
    /\ call' = [call EXCEPT ![c].pc = "running"]
    /\ taken' = [k \in RateKeys |-> taken[k] + IF k \in EgressKeys(c) THEN 1 ELSE 0]
    /\ UNCHANGED <<local_, now>>

Refuse(c) ==
    /\ call[c].pc = "egress"
    /\ ~EgressAllowed(c)
    /\ egressScript(c)
    /\ localRelease(c)
    /\ End(c, "refused")
    /\ UNCHANGED <<taken, now>>

(* No answer from Redis; the script may have run.  The token it added, if  *)
(* any, is never released.                                                 *)
NoAnswer(c) ==
    /\ call[c].pc = "egress"
    /\ egressScript(c) \/ UNCHANGED redis
    /\ IF call[c].target \in FailOpen
       THEN call' = [call EXCEPT ![c].pc = "degraded"] /\ UNCHANGED local_
       ELSE localRelease(c) /\ End(c, "refused")
    /\ UNCHANGED <<taken, now>>

(* The release Acquire returned; Redis may fail to run its script.  In     *)
(* degraded mode the release is that of the pod alone.                     *)
Release(c) ==
    /\ \/ call[c].pc = "running" /\ releaseScript(c)
       \/ call[c].pc \in {"running", "degraded"} /\ UNCHANGED tokens
    /\ localRelease(c)
    /\ End(c, "done")
    /\ UNCHANGED <<rate, taken, now>>

(* The pod restarts with a new Limiter; its tokens stay in Redis.          *)
Restart(p) ==
    /\ \E c \in Calls : call[c].pod = p
    /\ call' = [c \in Calls |-> IF call[c].pod = p THEN [New EXCEPT !.pc = "done"] ELSE call[c]]
    /\ active' = [active EXCEPT ![p] = 0]
    /\ targets' = [targets EXCEPT ![p] = [t \in Targets |-> None]]
    /\ count' = [c \in Calls |->
         IF \E d \in Calls : call[d].pod = p /\ call[d].entry = c THEN 0 ELSE count[c]]
    /\ UNCHANGED <<redis, taken, now>>

(* A submission passes: the script said so, or Redis failed in open mode.  *)
(* Refusals change nothing, and neither does a failure the script escaped. *)
Ingress(client) ==
    /\ taken[<<"ingress", client>>] < MaxIngress
    /\ rateScript(client)
    /\ \E answered \in BOOLEAN :
         taken' = [k \in RateKeys |->
             taken[k] + IF answered /\ k \in IngressKeys(client) THEN 1 ELSE 0]
    /\ UNCHANGED <<call, local_, now>>

(* Deliveries end when their contexts expire (Delivery).                   *)
Tick ==
    /\ now < MaxTime
    /\ \A c \in Calls : Holds(c) => now < call[c].due
    /\ now' = now + 1
    /\ taken' = [k \in RateKeys |-> 0]
    /\ UNCHANGED <<call, local_, redis>>

Init ==
    /\ call = [c \in Calls |-> New]
    /\ active = [p \in Pods |-> 0]
    /\ targets = [p \in Pods |-> [t \in Targets |-> None]]
    /\ count = [c \in Calls |-> 0]
    /\ rate = [k \in RateKeys |-> [window |-> -1, count |-> 0]]
    /\ tokens = [k \in SetKeys |-> {}]
    /\ taken = [k \in RateKeys |-> 0]
    /\ now = 0

Next ==
    \/ \E c \in Calls :
         \/ \E p \in Pods, client \in Clients, target \in Targets : Local(c, p, client, target)
         \/ Admit(c) \/ Refuse(c) \/ NoAnswer(c) \/ Release(c)
    \/ \E p \in Pods : Restart(p)
    \/ \E client \in Clients : Ingress(client)
    \/ Tick

Spec == Init /\ [][Next]_vars

-----------------------------------------------------------------------------
Holders(p) == {c \in Calls : Holds(c) /\ call[c].pod = p}
HoldersOf(p, t) == {c \in Holders(p) : call[c].target = t}

(* quota.go:85-110: the pod's counters are exact: active counts the        *)
(* deliveries that hold a slot, the entry in the map counts those of its   *)
(* target, and there is no entry exactly when there is none.  A release    *)
(* never counts down an entry the map no longer has.                       *)
LocalCountsHolders ==
    \A p \in Pods :
        /\ active[p] = Cardinality(Holders(p))
        /\ \A t \in Targets :
             LET e == targets[p][t] IN
             IF e = None THEN HoldersOf(p, t) = {}
             ELSE count[e] = Cardinality(HoldersOf(p, t)) /\ count[e] > 0

(* quota.go:38-41, quota.go:49: the deliveries Redis admitted from any pod *)
(* never exceed the concurrency limits, with tokens leaked by failures and *)
(* restarts, and tokens expiring: a token outlives its delivery.           *)
ClusterConcurrency ==
    \A k \in SetKeys : Concurrency[k] > 0 =>
        Cardinality({c \in Calls : call[c].pc = "running" /\ k \in ConcurrencyKeys(c)})
            <= Concurrency[k]

(* quota.go:17-30, quota.go:34-47: per window, no rate key admits more     *)
(* than its limit, whichever pods and dimensions the admissions go through. *)
RateRespected == \A k \in RateKeys : RateLimit[k] > 0 => taken[k] <= RateLimit[k]

(* quota.go:15 "All dimensions are checked before any is incremented": a   *)
(* delivery that is refused is charged to no rate and leaves no token.     *)
RefusalIsFree ==
    [][\A c \in Calls :
        call[c].pc = "egress" /\ ~EgressAllowed(c) /\ call'[c].pc = "refused"
        => /\ rate' = rate
           /\ \A k \in SetKeys : ~\E m \in tokens'[k] : m.token = c]_vars
=============================================================================
