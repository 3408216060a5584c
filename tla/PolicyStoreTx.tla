--------------------------- MODULE PolicyStoreTx ---------------------------
(***************************************************************************)
(* PostgresStore's ActivatePolicy and RollbackPolicy, statement by         *)
(* statement, as concurrent READ COMMITTED transactions on the rows of one *)
(* workspace: a statement sees what was committed when it started, an      *)
(* UPDATE waits for the row's lock and then looks at the row again, and    *)
(* the partial unique index admits one active row (a conflict with a       *)
(* transaction in progress waits for it).  The two methods run the same    *)
(* statements, so a transaction stands for either.                         *)
(***************************************************************************)
EXTENDS Naturals

CONSTANTS
    Versions,     \* policy versions
    NoVersion,    \* the empty version string
    Txns,         \* activations and rollbacks, one transaction each
    NoTx          \* nobody holds a row's lock

ASSUME TxAssumption == NoVersion \notin Versions /\ NoTx \notin Txns

VARIABLES
    rows,         \* rows[v]: the committed state of a version's row
    owner,        \* owner[v]: the transaction that has locked and written the row
    draft,        \* draft[v]: what it wrote
    tx            \* tx[t]: where a transaction is and what it knows

vars == <<rows, owner, draft, tx>>

LifecycleStates == {"absent", "candidate", "active", "historical"}

TxSteps == {"new", "select", "scan", "demote", "promote", "index", "commit", "ok", "failed"}

MaybeVersion == Versions \cup {NoVersion}

\* previous is what the SELECT found and the method returns, victim the row the first UPDATE
\* wants to demote.
Tx == [step: TxSteps, target: MaybeVersion, previous: MaybeVersion, victim: MaybeVersion]

TypeOK ==
    /\ rows \in [Versions -> LifecycleStates]
    /\ owner \in [Versions -> Txns \cup {NoTx}]
    /\ draft \in [Versions -> LifecycleStates]
    /\ tx \in [Txns -> Tx]

Init ==
    /\ rows = [v \in Versions |-> "absent"]
    /\ owner = [v \in Versions |-> NoTx]
    /\ draft = [v \in Versions |-> "absent"]
    /\ tx = [t \in Txns |-> [step |-> "new", target |-> NoVersion, previous |-> NoVersion,
                             victim |-> NoVersion]]

\* SELECT ... WHERE state = 'active', on committed rows.
CommittedActive ==
    IF \E v \in Versions : rows[v] = "active"
    THEN CHOOSE v \in Versions : rows[v] = "active"
    ELSE NoVersion

Write(t, v, state) ==
    /\ owner' = [owner EXCEPT ![v] = t]
    /\ draft' = [draft EXCEPT ![v] = state]

Unlocked(t) == [v \in Versions |-> IF owner[v] = t THEN NoTx ELSE owner[v]]

-----------------------------------------------------------------------------

\* CreatePolicy: one INSERT.
CreatePolicy(v) ==
    /\ rows[v] = "absent"
    /\ rows' = [rows EXCEPT ![v] = "candidate"]
    /\ UNCHANGED <<owner, draft, tx>>

\* BEGIN and SELECT EXISTS.
Begin(t) ==
    /\ tx[t].step = "new"
    /\ \E v \in Versions :
         tx' = [tx EXCEPT ![t].target = v,
                          ![t].step = IF rows[v] = "absent" THEN "failed" ELSE "select"]
    /\ UNCHANGED <<rows, owner, draft>>

SelectActive(t) ==
    /\ tx[t].step = "select"
    /\ tx' = [tx EXCEPT ![t].previous = CommittedActive,
                        ![t].step = IF CommittedActive = NoVersion THEN "promote" ELSE "scan"]
    /\ UNCHANGED <<rows, owner, draft>>

\* The first UPDATE starts: its snapshot has at most one active row.
ScanActive(t) ==
    /\ tx[t].step = "scan"
    /\ tx' = [tx EXCEPT ![t].victim = CommittedActive,
                        ![t].step = IF CommittedActive = NoVersion THEN "promote" ELSE "demote"]
    /\ UNCHANGED <<rows, owner, draft>>

\* It has the row's lock: the row is demoted if it is still active, and skipped if not.
Demote(t) ==
    LET v == tx[t].victim
    IN  /\ tx[t].step = "demote"
        /\ owner[v] = NoTx
        /\ IF rows[v] = "active" THEN Write(t, v, "historical") ELSE UNCHANGED <<owner, draft>>
        /\ tx' = [tx EXCEPT ![t].step = "promote"]
        /\ UNCHANGED rows

\* The second UPDATE locks and writes the target's row.
Promote(t) ==
    LET v == tx[t].target
    IN  /\ tx[t].step = "promote"
        /\ owner[v] \in {NoTx, t}
        /\ Write(t, v, "active")
        /\ tx' = [tx EXCEPT ![t].step = "index"]
        /\ UNCHANGED rows

\* Mutant of IndexConflicts: the schema without idx_policies_unique_active.
NoConflicts(t) == {}

\* The other rows that idx_policies_unique_active holds or may come to hold: committed as
\* active and not demoted by t itself, or entered by a transaction that may still commit.
IndexConflicts(t) ==
    {u \in Versions \ {tx[t].target} :
        \/ rows[u] = "active" /\ owner[u] # t
        \/ /\ owner[u] \notin {NoTx, t}
           /\ draft[u] = "active"
           /\ tx[owner[u]].step = "commit"}

\* The new index entry goes in.
EnterIndex(t) ==
    /\ tx[t].step = "index"
    /\ IndexConflicts(t) = {}
    /\ tx' = [tx EXCEPT ![t].step = "commit"]
    /\ UNCHANGED <<rows, owner, draft>>

\* ROLLBACK: the deferred tx.Rollback of every early return.
Fail(t) ==
    /\ tx' = [tx EXCEPT ![t].step = "failed"]
    /\ owner' = Unlocked(t)
    /\ UNCHANGED <<rows, draft>>

\* Mutant of UniqueViolation: the transaction is left open.
UniqueViolationLeak(t) ==
    /\ tx[t].step = "index"
    /\ \E u \in IndexConflicts(t) : owner[u] = NoTx
    /\ tx' = [tx EXCEPT ![t].step = "failed"]
    /\ UNCHANGED <<rows, owner, draft>>

\* A committed row is in the way: unique_violation.
UniqueViolation(t) ==
    /\ tx[t].step = "index"
    /\ \E u \in IndexConflicts(t) : owner[u] = NoTx
    /\ Fail(t)

\* Mutant of Commit: the active row's demotion is written to a state the schema lacks.
CommitRetires(t) ==
    /\ tx[t].step = "commit"
    /\ rows' = [v \in Versions |->
                  IF owner[v] # t THEN rows[v]
                  ELSE IF draft[v] = "historical" THEN "retired" ELSE draft[v]]
    /\ owner' = Unlocked(t)
    /\ tx' = [tx EXCEPT ![t].step = "ok"]
    /\ UNCHANGED draft

\* COMMIT; its reply may be lost, and then the method returns an error all the same.
Commit(t) ==
    /\ tx[t].step = "commit"
    /\ rows' = [v \in Versions |-> IF owner[v] = t THEN draft[v] ELSE rows[v]]
    /\ owner' = Unlocked(t)
    /\ \E result \in {"ok", "failed"} : tx' = [tx EXCEPT ![t].step = result]
    /\ UNCHANGED draft

\* The request's context ends or the connection is lost before COMMIT.
Cancel(t) ==
    /\ tx[t].step \in {"select", "scan", "demote", "promote", "index", "commit"}
    /\ Fail(t)

\* Whom t's current statement waits for.
WaitsFor(t) ==
    CASE tx[t].step = "demote"  -> {owner[tx[t].victim]} \ {NoTx, t}
      [] tx[t].step = "promote" -> {owner[tx[t].target]} \ {NoTx, t}
      [] tx[t].step = "index"   -> {owner[u] : u \in IndexConflicts(t)} \ {NoTx, t}
      [] OTHER -> {}

\* The server aborts one transaction of a cycle of waits.
DeadlockVictim(t) ==
    /\ \E cycle \in SUBSET Txns :
         /\ t \in cycle
         /\ \A s \in cycle : WaitsFor(s) \cap cycle # {}
         /\ \A s \in cycle : \E u \in cycle : s \in WaitsFor(u)
    /\ Fail(t)

-----------------------------------------------------------------------------

TxStep(t) ==
    \/ Begin(t) \/ SelectActive(t) \/ ScanActive(t) \/ Demote(t) \/ Promote(t)
    \/ EnterIndex(t) \/ UniqueViolation(t) \/ Commit(t) \/ DeadlockVictim(t)

Finished ==
    /\ \A t \in Txns : tx[t].step \in {"ok", "failed"}
    /\ \A v \in Versions : rows[v] # "absent"
    /\ UNCHANGED vars

Next ==
    \/ \E v \in Versions : CreatePolicy(v)
    \/ \E t \in Txns : TxStep(t) \/ Cancel(t)
    \/ Finished

Spec == Init /\ [][Next]_vars

\* The server executes the statements it is sent and breaks deadlocks; nobody has to cancel
\* or to create a policy.
FairSpec == Spec /\ \A t \in Txns : WF_vars(TxStep(t))

-----------------------------------------------------------------------------
(* Properties.                                                             *)

Store == INSTANCE PolicyStore WITH
    Workspaces <- {"ws"},
    policies <- [ws \in {"ws"} |-> rows]

\* However their statements interleave, wait, deadlock or are cut off, the transactions
\* look like single atomic calls of Store.ActivatePolicy: the target becomes the one active
\* row in the step that makes its predecessor historical (store.go:25-31, postgres.go:194-274).
ImplementsStore == Store!StoreSpec

\* A transaction that began comes to an end: nobody waits for ever for a row, for the index
\* or for a deadlock (postgres.go:194-233).
ActivationsEnd ==
    \A t \in Txns : tx[t].step = "select" ~> tx[t].step \in {"ok", "failed"}

=============================================================================
