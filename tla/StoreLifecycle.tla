--------------------------- MODULE StoreLifecycle ---------------------------
(* Store implements Lifecycle: the refinement mapping forgets leases,      *)
(* clocks, attempt results and the state of the outbox rows.               *)
EXTENDS Store

L == INSTANCE Lifecycle WITH
        status <- [id \in Ids |-> task[id].status],
        gen <- [id \in Ids |-> task[id].gen],
        attempted <- [id \in Ids |-> {attempts[id][i].gen : i \in Attempted(id)}],
        announced <- [id \in Ids |-> {outbox[id][o].gen : o \in Events(id)}]

(* Every step of the transactions of internal/repository/business is a     *)
(* step of the published state machine, and claims attempt an announced    *)
(* generation that was never attempted before.                             *)
ImplementsLifecycle == L!LSpec
=============================================================================
