----------------------------- MODULE Lifecycle -----------------------------
(***************************************************************************)
(* What the store promises about one notification, without tables, leases  *)
(* or clocks (docs/design.md section 2.4): it moves along the published    *)
(* state machine; a generation is attempted at most once, by the step that *)
(* claims it; and every step that makes the notification wait for another  *)
(* attempt opens a new generation and announces it.                        *)
(***************************************************************************)
EXTENDS Naturals

CONSTANT Ids

VARIABLES
    status,     \* state of each notification in the published diagram
    gen,        \* its dispatch generation
    attempted,  \* generations for which an attempt was started
    announced   \* generations for which a trigger was recorded

lvars == <<status, gen, attempted, announced>>

LInit ==
    /\ status = [id \in Ids |-> "absent"]
    /\ gen = [id \in Ids |-> 0]
    /\ attempted = [id \in Ids |-> {}]
    /\ announced = [id \in Ids |-> {}]

(* The notification waits for the attempt of a new, announced generation.  *)
Open(id) ==
    /\ status' = [status EXCEPT ![id] = "pending"]
    /\ gen' = [gen EXCEPT ![id] = @ + 1]
    /\ announced' = [announced EXCEPT ![id] = @ \cup {gen[id] + 1}]
    /\ UNCHANGED attempted

Persist(id) == status[id] = "absent" /\ Open(id)

Begin(id) ==
    /\ status[id] = "pending"
    /\ gen[id] \notin attempted[id]
    /\ gen[id] \in announced[id]
    /\ status' = [status EXCEPT ![id] = "in_flight"]
    /\ attempted' = [attempted EXCEPT ![id] = @ \cup {gen[id]}]
    /\ UNCHANGED <<gen, announced>>

Deliver(id) ==
    /\ status[id] = "in_flight"
    /\ status' = [status EXCEPT ![id] = "delivered"]
    /\ UNCHANGED <<gen, attempted, announced>>

(* A terminal decision keeps the generation, a recovered lease burns it.   *)
GiveUp(id) ==
    /\ status[id] = "in_flight"
    /\ status' = [status EXCEPT ![id] = "failed"]
    /\ \E g \in {gen[id], gen[id] + 1} : gen' = [gen EXCEPT ![id] = g]
    /\ UNCHANGED <<attempted, announced>>

TryAgain(id) == status[id] = "in_flight" /\ Open(id)

RetryManually(id) == status[id] = "failed" /\ Open(id)

(* The triggers of several waiting notifications are replaced at once.     *)
Supersede(S) ==
    /\ S # {}
    /\ \A id \in S : status[id] = "pending"
    /\ gen' = [id \in Ids |-> IF id \in S THEN gen[id] + 1 ELSE gen[id]]
    /\ announced' = [id \in Ids |->
         IF id \in S THEN announced[id] \cup {gen[id] + 1} ELSE announced[id]]
    /\ UNCHANGED <<status, attempted>>

LNext ==
    \/ \E id \in Ids :
         \/ Persist(id) \/ Begin(id) \/ Deliver(id) \/ GiveUp(id)
         \/ TryAgain(id) \/ RetryManually(id)
    \/ \E S \in SUBSET Ids : Supersede(S)

LSpec == LInit /\ [][LNext]_lvars
=============================================================================
