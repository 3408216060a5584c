---------------------------- MODULE PolicyStore ----------------------------
(***************************************************************************)
(* The contract of policystore.Store: the versioned policies of every      *)
(* workspace, with each call one atomic step.  MemoryStore is exactly      *)
(* this (every method holds the store's mutex from its first to its last   *)
(* line); PolicyStoreTx shows what PostgresStore's transactions do.        *)
(*                                                                         *)
(* A version identifies its content: CreateCandidate names a policy by the *)
(* SHA-256 of its source, and no method changes a stored content, so the   *)
(* content itself is not a separate part of the state.                     *)
(***************************************************************************)
CONSTANTS
    Workspaces,   \* workspace ids
    Versions,     \* policy version identifiers
    NoVersion     \* the empty version string

ASSUME NoVersionAssumption == NoVersion \notin Versions

VARIABLE
    policies      \* policies[ws][v]: the lifecycle state of a row, "absent" if there is none

LifecycleStates == {"absent", "candidate", "active", "historical"}

StoreTypeOK == policies \in [Workspaces -> [Versions -> LifecycleStates]]

-----------------------------------------------------------------------------

Stored(ws, v) == v \in Versions /\ policies[ws][v] # "absent"

\* The row GetActivePolicy returns, NoVersion for ErrNoActivePolicy.
GetActivePolicy(ws) ==
    IF \E v \in Versions : policies[ws][v] = "active"
    THEN CHOOSE v \in Versions : policies[ws][v] = "active"
    ELSE NoVersion

\* Mutant of Replaced: the replaced row gets a state the schema does not know.
ReplacedUnknownState(rows, v) ==
    [u \in Versions |->
        IF u = v THEN "active"
        ELSE IF rows[u] = "active" THEN "retired" ELSE rows[u]]

\* The rows of one workspace after version v replaced whatever was active.
Replaced(rows, v) ==
    [u \in Versions |->
        IF u = v THEN "active"
        ELSE IF rows[u] = "active" THEN "historical" ELSE rows[u]]

StoreInit == policies = [ws \in Workspaces |-> [v \in Versions |-> "absent"]]

CreatePolicy(ws, v) ==
    /\ ~Stored(ws, v)
    /\ policies' = [policies EXCEPT ![ws][v] = "candidate"]

ActivatePolicy(ws, v) ==
    /\ Stored(ws, v)
    /\ policies' = [policies EXCEPT ![ws] = Replaced(@, v)]

RollbackPolicy(ws, v) ==
    /\ Stored(ws, v)
    /\ policies' = [policies EXCEPT ![ws] = Replaced(@, v)]

StoreNext ==
    \E ws \in Workspaces, v \in Versions :
        \/ CreatePolicy(ws, v)
        \/ ActivatePolicy(ws, v)
        \/ RollbackPolicy(ws, v)

StoreSpec == StoreInit /\ [][StoreNext]_policies

=============================================================================
