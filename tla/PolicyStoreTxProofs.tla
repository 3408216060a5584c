------------------------ MODULE PolicyStoreTxProofs ------------------------
(***************************************************************************)
(* PostgresStore's transactions, for any number of versions and of         *)
(* concurrent activations and rollbacks: the types, and that they          *)
(* implement the atomic contract of PolicyStore.                           *)
(*                                                                         *)
(* TxInv says what a transaction that holds locks has written, and what a  *)
(* transaction whose index entry is in may count on until it commits.      *)
(***************************************************************************)
EXTENDS PolicyStoreTx, TLAPS

Open == {"select", "scan", "demote", "promote", "index", "commit"}

\* A row is locked by a transaction that promotes it, or demotes it and found it active.
LocksMeanDrafts ==
    \A v \in Versions : owner[v] # NoTx =>
        \/ /\ tx[owner[v]].step \in {"index", "commit"}
           /\ v = tx[owner[v]].target
           /\ draft[v] = "active"
        \/ /\ tx[owner[v]].step \in {"promote", "index", "commit"}
           /\ v = tx[owner[v]].victim
           /\ draft[v] = "historical"
           /\ rows[v] = "active"

\* An open transaction's target is stored, and its own once it is written.
TargetsAreHeld ==
    \A t \in Txns :
        /\ tx[t].step \in Open => tx[t].target \in Versions /\ rows[tx[t].target] # "absent"
        /\ tx[t].step = "demote" => tx[t].victim \in Versions
        /\ tx[t].step \in {"index", "commit"} =>
             owner[tx[t].target] = t /\ draft[tx[t].target] = "active"

\* A transaction whose index entry is in has locked every other active row.
EntryIsAlone ==
    \A t \in Txns : tx[t].step = "commit" =>
        \A u \in Versions \ {tx[t].target} : rows[u] = "active" => owner[u] = t

\* The index lets one transaction at a time go on to its COMMIT.
OneCommits ==
    \A s, t \in Txns : tx[s].step = "commit" /\ tx[t].step = "commit" => s = t

OneActive ==
    \A u, v \in Versions : rows[u] = "active" /\ rows[v] = "active" => u = v

TxInv ==
    /\ TypeOK
    /\ LocksMeanDrafts
    /\ TargetsAreHeld
    /\ EntryIsAlone
    /\ OneCommits
    /\ OneActive
-----------------------------------------------------------------------------
(* Types.                                                                  *)

\* The SELECT finds an active row or none.
LEMMA CommittedActiveIsVersion ==
    ASSUME TypeOK
    PROVE  /\ CommittedActive \in MaybeVersion
           /\ CommittedActive # NoVersion => CommittedActive \in Versions
  BY TxAssumption DEF CommittedActive, MaybeVersion, TypeOK

\* A transaction that moves on keeps a place in the program and known versions.
LEMMA TypeMoves ==
    ASSUME TypeOK, NEW t \in Txns, NEW s \in TxSteps
    PROVE  [tx EXCEPT ![t].step = s] \in [Txns -> Tx]
  BY DEF TypeOK, Tx

\* Rolling back unlocks rows and changes nothing else of them.
LEMMA TypeFail ==
    ASSUME TypeOK, NEW t \in Txns, Fail(t)
    PROVE  TypeOK'
  <1>1. tx' \in [Txns -> Tx]
    BY TypeMoves DEF Fail, TxSteps
  <1>2. owner' \in [Versions -> Txns \cup {NoTx}]
    BY DEF Fail, Unlocked, TypeOK
  <1> QED
    BY <1>1, <1>2 DEF Fail, TypeOK

\* Every step keeps the types.
LEMMA TypeStep ==
    ASSUME TypeOK, [Next]_vars
    PROVE  TypeOK'
  <1>1. ASSUME NEW v \in Versions, CreatePolicy(v)
        PROVE  TypeOK'
    BY <1>1 DEF CreatePolicy, TypeOK, LifecycleStates
  <1>2. ASSUME NEW t \in Txns, Begin(t)
        PROVE  TypeOK'
    <2>1. PICK v \in Versions :
            tx' = [tx EXCEPT ![t].target = v,
                             ![t].step = IF rows[v] = "absent" THEN "failed" ELSE "select"]
      BY <1>2 DEF Begin
    <2>2. ASSUME NEW s \in {"failed", "select"}
          PROVE  [tx EXCEPT ![t].target = v, ![t].step = s] \in [Txns -> Tx]
      BY DEF TypeOK, Tx, TxSteps, MaybeVersion
    <2>3. tx' \in [Txns -> Tx]
      BY <2>1, <2>2
    <2> QED
      BY <1>2, <2>3 DEF Begin, TypeOK
  <1>3. ASSUME NEW t \in Txns, SelectActive(t)
        PROVE  TypeOK'
    <2>1. tx' \in [Txns -> Tx]
      BY <1>3, CommittedActiveIsVersion DEF SelectActive, TypeOK, Tx, TxSteps
    <2> QED
      BY <1>3, <2>1 DEF SelectActive, TypeOK
  <1>4. ASSUME NEW t \in Txns, ScanActive(t)
        PROVE  TypeOK'
    <2>1. tx' \in [Txns -> Tx]
      BY <1>4, CommittedActiveIsVersion DEF ScanActive, TypeOK, Tx, TxSteps
    <2> QED
      BY <1>4, <2>1 DEF ScanActive, TypeOK
  <1>5. ASSUME NEW t \in Txns, Demote(t)
        PROVE  TypeOK'
    <2>1. tx' \in [Txns -> Tx]
      BY <1>5, TypeMoves DEF Demote, TxSteps
    <2>2. /\ owner' \in [Versions -> Txns \cup {NoTx}]
          /\ draft' \in [Versions -> LifecycleStates]
      BY <1>5 DEF Demote, Write, TypeOK, LifecycleStates
    <2> QED
      BY <1>5, <2>1, <2>2 DEF Demote, TypeOK
  <1>6. ASSUME NEW t \in Txns, Promote(t)
        PROVE  TypeOK'
    <2>1. tx' \in [Txns -> Tx]
      BY <1>6, TypeMoves DEF Promote, TxSteps
    <2>2. /\ owner' \in [Versions -> Txns \cup {NoTx}]
          /\ draft' \in [Versions -> LifecycleStates]
      BY <1>6 DEF Promote, Write, TypeOK, LifecycleStates
    <2> QED
      BY <1>6, <2>1, <2>2 DEF Promote, TypeOK
  <1>7. ASSUME NEW t \in Txns, EnterIndex(t)
        PROVE  TypeOK'
    BY <1>7, TypeMoves DEF EnterIndex, TxSteps, TypeOK
  <1>8. ASSUME NEW t \in Txns, Commit(t)
        PROVE  TypeOK'
    <2>1. tx' \in [Txns -> Tx]
      <3>1. PICK result \in {"ok", "failed"} : tx' = [tx EXCEPT ![t].step = result]
        BY <1>8 DEF Commit
      <3> QED
        BY <3>1, TypeMoves DEF TxSteps
    <2>2. /\ rows' \in [Versions -> LifecycleStates]
          /\ owner' \in [Versions -> Txns \cup {NoTx}]
      BY <1>8 DEF Commit, Unlocked, TypeOK
    <2> QED
      BY <1>8, <2>1, <2>2 DEF Commit, TypeOK
  <1>9. ASSUME NEW t \in Txns, UniqueViolation(t) \/ DeadlockVictim(t) \/ Cancel(t)
        PROVE  TypeOK'
    BY <1>9, TypeFail DEF UniqueViolation, DeadlockVictim, Cancel
  <1>10. CASE UNCHANGED vars
    BY <1>10 DEF vars, TypeOK
  <1> QED
    BY <1>1, <1>2, <1>3, <1>4, <1>5, <1>6, <1>7, <1>8, <1>9, <1>10
       DEF Next, TxStep, Finished

(***************************************************************************)
(* The rows, the locks, the drafts and the transactions keep their types.  *)
(***************************************************************************)
THEOREM TypeCorrect == Spec => []TypeOK
  <1>1. Init => TypeOK
    BY DEF Init, TypeOK, LifecycleStates, Tx, TxSteps, MaybeVersion
  <1>2. TypeOK /\ [Next]_vars => TypeOK'
    BY TypeStep
  <1> QED
    BY <1>1, <1>2, PTL DEF Spec
-----------------------------------------------------------------------------
(* Who holds which rows.                                                   *)

\* A step of one transaction moves that one alone, and only its place in the program.
LEMMA Moves ==
    ASSUME TypeOK, NEW t \in Txns, NEW s, tx' = [tx EXCEPT ![t].step = s]
    PROVE  /\ tx'[t].step = s
           /\ \A q \in Txns : /\ tx'[q].target = tx[q].target
                              /\ tx'[q].victim = tx[q].victim
                              /\ q # t => tx'[q].step = tx[q].step
  BY DEF TypeOK, Tx

\* A transaction that has not written anything yet, or has come to its end, holds no row.
LEMMA HoldsNothing ==
    ASSUME TypeOK, LocksMeanDrafts, NEW t \in Txns,
           tx[t].step \notin {"promote", "index", "commit"}
    PROVE  \A v \in Versions : owner[v] # t
  BY TxAssumption DEF LocksMeanDrafts, TypeOK

\* What is left of the locks after one transaction lets go of its own.
LEMMA Unlocks ==
    ASSUME TypeOK, NEW t \in Txns, owner' = Unlocked(t)
    PROVE  \A v \in Versions : /\ owner'[v] # t
                               /\ owner'[v] \in {NoTx, owner[v]}
                               /\ owner[v] # t => owner'[v] = owner[v]
  BY TxAssumption DEF Unlocked, TypeOK

\* A new candidate is nobody's target and not active.
LEMMA TxCreate ==
    ASSUME TxInv, NEW v \in Versions, CreatePolicy(v)
    PROVE  TxInv'
  <1>1. TypeOK'
    BY TypeStep DEF TxInv, Next
  <1>2. /\ UNCHANGED <<owner, draft, tx>>
        /\ rows[v] = "absent"
        /\ rows'[v] = "candidate"
        /\ \A u \in Versions : u # v => rows'[u] = rows[u]
    BY DEF CreatePolicy, TxInv, TypeOK
  <1>3. LocksMeanDrafts'
    BY <1>2 DEF TxInv, LocksMeanDrafts
  <1>4. TargetsAreHeld'
    BY <1>2 DEF TxInv, TargetsAreHeld
  <1>5. EntryIsAlone'
    BY <1>2 DEF TxInv, EntryIsAlone
  <1>6. OneCommits'
    BY <1>2 DEF TxInv, OneCommits
  <1>7. OneActive'
    BY <1>2 DEF TxInv, OneActive
  <1> QED
    BY <1>1, <1>3, <1>4, <1>5, <1>6, <1>7 DEF TxInv

\* A transaction that begins holds nothing, and its target is stored if it goes on.
LEMMA TxBegin ==
    ASSUME TxInv, NEW t \in Txns, Begin(t)
    PROVE  TxInv'
  <1>1. TypeOK'
    BY TypeStep DEF TxInv, Next, TxStep
  <1>2. PICK v \in Versions :
          tx' = [tx EXCEPT ![t].target = v,
                           ![t].step = IF rows[v] = "absent" THEN "failed" ELSE "select"]
    BY DEF Begin
  <1>3. /\ tx'[t].target = v
        /\ rows[v] = "absent" => tx'[t].step = "failed"
        /\ rows[v] # "absent" => tx'[t].step = "select"
        /\ \A q \in Txns : q # t => tx'[q] = tx[q]
    BY <1>2 DEF TxInv, TypeOK, Tx
  <1>4. UNCHANGED <<rows, owner, draft>>
    BY DEF Begin
  <1>5. \A u \in Versions : owner[u] # t
    BY HoldsNothing DEF Begin, TxInv
  <1>6. LocksMeanDrafts'
    BY <1>3, <1>4, <1>5 DEF TxInv, TypeOK, LocksMeanDrafts
  <1>7. TargetsAreHeld'
    BY <1>3, <1>4 DEF TxInv, TargetsAreHeld, Open
  <1>8. EntryIsAlone'
    BY <1>3, <1>4 DEF TxInv, EntryIsAlone
  <1>9. OneCommits'
    BY <1>3 DEF TxInv, OneCommits
  <1>10. OneActive'
    BY <1>4 DEF TxInv, OneActive
  <1> QED
    BY <1>1, <1>6, <1>7, <1>8, <1>9, <1>10 DEF TxInv

\* A SELECT or the first UPDATE's scan takes no lock.
LEMMA TxLook ==
    ASSUME TxInv, NEW t \in Txns, SelectActive(t) \/ ScanActive(t)
    PROVE  TxInv'
  <1>1. TypeOK'
    BY TypeStep DEF TxInv, Next, TxStep
  <1>2. /\ tx[t].step \in {"select", "scan"}
        /\ tx'[t].target = tx[t].target
        /\ tx'[t].step \in {"scan", "demote", "promote"}
        /\ tx'[t].step = "demote" => tx'[t].victim \in Versions
        /\ \A q \in Txns : q # t => tx'[q] = tx[q]
    <2>1. CASE SelectActive(t)
      BY <2>1 DEF SelectActive, TxInv, TypeOK, Tx
    <2>2. CASE ScanActive(t)
      BY <2>2, CommittedActiveIsVersion DEF ScanActive, TxInv, TypeOK, Tx
    <2> QED
      BY <2>1, <2>2
  <1>3. UNCHANGED <<rows, owner, draft>>
    BY DEF SelectActive, ScanActive
  <1>4. \A u \in Versions : owner[u] # t
    BY <1>2, HoldsNothing DEF TxInv
  <1>5. LocksMeanDrafts'
    BY <1>2, <1>3, <1>4 DEF TxInv, TypeOK, LocksMeanDrafts
  <1>6. TargetsAreHeld'
    BY <1>2, <1>3 DEF TxInv, TargetsAreHeld, Open
  <1>7. EntryIsAlone'
    BY <1>2, <1>3 DEF TxInv, EntryIsAlone
  <1>8. OneCommits'
    BY <1>2 DEF TxInv, OneCommits
  <1>9. OneActive'
    BY <1>3 DEF TxInv, OneActive
  <1> QED
    BY <1>1, <1>5, <1>6, <1>7, <1>8, <1>9 DEF TxInv
\* The first UPDATE locks a row that nobody holds, and writes it only if it is still active.
LEMMA TxDemote ==
    ASSUME TxInv, NEW t \in Txns, Demote(t)
    PROVE  TxInv'
  <1>1. TypeOK'
    BY TypeStep DEF TxInv, Next, TxStep
  <1> DEFINE v == tx[t].victim
  <1>2. /\ tx[t].step = "demote"
        /\ v \in Versions
        /\ owner[v] = NoTx
        /\ tx' = [tx EXCEPT ![t].step = "promote"]
        /\ UNCHANGED rows
    BY DEF Demote, TxInv, TargetsAreHeld
  <1>3. /\ tx'[t].step = "promote"
        /\ \A q \in Txns : /\ tx'[q].target = tx[q].target
                           /\ tx'[q].victim = tx[q].victim
                           /\ q # t => tx'[q].step = tx[q].step
    BY <1>2, Moves DEF TxInv
  <1>4. \A u \in Versions : owner[u] # t
    BY <1>2, HoldsNothing DEF TxInv
  <1>5. /\ \A u \in Versions : u # v => owner'[u] = owner[u] /\ draft'[u] = draft[u]
        /\ \/ owner'[v] = NoTx /\ draft'[v] = draft[v]
           \/ owner'[v] = t /\ draft'[v] = "historical" /\ rows[v] = "active"
    BY <1>2 DEF Demote, Write, TxInv, TypeOK
  <1> HIDE DEF v
  <1>6. LocksMeanDrafts'
    <2> SUFFICES ASSUME NEW u \in Versions, owner'[u] # NoTx
                 PROVE  \/ /\ tx'[owner'[u]].step \in {"index", "commit"}
                           /\ u = tx'[owner'[u]].target
                           /\ draft'[u] = "active"
                        \/ /\ tx'[owner'[u]].step \in {"promote", "index", "commit"}
                           /\ u = tx'[owner'[u]].victim
                           /\ draft'[u] = "historical"
                           /\ rows'[u] = "active"
      BY DEF LocksMeanDrafts
    <2>1. CASE u = v
      BY <2>1, <1>2, <1>3, <1>5 DEF v
    <2>2. CASE u # v
      <3>1. /\ owner'[u] = owner[u] /\ draft'[u] = draft[u] /\ rows'[u] = rows[u]
            /\ owner[u] \in Txns /\ owner[u] # t
        BY <2>2, <1>2, <1>4, <1>5 DEF TxInv, TypeOK
      <3> QED
        BY <3>1, <1>3 DEF TxInv, LocksMeanDrafts
    <2> QED
      BY <2>1, <2>2
  <1>7. TargetsAreHeld'
    <2> SUFFICES ASSUME NEW q \in Txns
                 PROVE  /\ tx'[q].step \in Open =>
                             tx'[q].target \in Versions /\ rows'[tx'[q].target] # "absent"
                        /\ tx'[q].step = "demote" => tx'[q].victim \in Versions
                        /\ tx'[q].step \in {"index", "commit"} =>
                             owner'[tx'[q].target] = q /\ draft'[tx'[q].target] = "active"
      BY DEF TargetsAreHeld
    <2>1. CASE q = t
      BY <2>1, <1>2, <1>3 DEF TxInv, TargetsAreHeld, Open
    <2>2. CASE q # t
      <3>1. tx[q].step \in {"index", "commit"} => tx[q].target \in Versions \ {v}
        BY <1>2, TxAssumption DEF TxInv, TargetsAreHeld, Open
      <3> QED
        BY <2>2, <3>1, <1>2, <1>3, <1>5 DEF TxInv, TargetsAreHeld
    <2> QED
      BY <2>1, <2>2
  <1>8. EntryIsAlone'
    <2> SUFFICES ASSUME NEW q \in Txns, tx'[q].step = "commit",
                        NEW u \in Versions \ {tx'[q].target}, rows'[u] = "active"
                 PROVE  owner'[u] = q
      BY DEF EntryIsAlone
    <2>1. q # t /\ owner[u] = q
      BY <1>2, <1>3 DEF TxInv, EntryIsAlone
    <2>2. u # v
      BY <2>1, <1>2, TxAssumption
    <2> QED
      BY <2>1, <2>2, <1>5
  <1>9. OneCommits'
    BY <1>3 DEF TxInv, OneCommits
  <1>10. OneActive'
    BY <1>2 DEF TxInv, OneActive
  <1> QED
    BY <1>1, <1>6, <1>7, <1>8, <1>9, <1>10 DEF TxInv

\* The second UPDATE locks its target, which it may have demoted a statement before.
LEMMA TxPromote ==
    ASSUME TxInv, NEW t \in Txns, Promote(t)
    PROVE  TxInv'
  <1>1. TypeOK'
    BY TypeStep DEF TxInv, Next, TxStep
  <1> DEFINE v == tx[t].target
  <1>2. /\ tx[t].step = "promote"
        /\ v \in Versions
        /\ rows[v] # "absent"
        /\ owner[v] \in {NoTx, t}
        /\ tx' = [tx EXCEPT ![t].step = "index"]
        /\ UNCHANGED rows
    BY DEF Promote, TxInv, TargetsAreHeld, Open
  <1>3. /\ tx'[t].step = "index"
        /\ \A q \in Txns : /\ tx'[q].target = tx[q].target
                           /\ tx'[q].victim = tx[q].victim
                           /\ q # t => tx'[q].step = tx[q].step
    BY <1>2, Moves DEF TxInv
  <1>4. /\ \A u \in Versions : u # v => owner'[u] = owner[u] /\ draft'[u] = draft[u]
        /\ owner'[v] = t /\ draft'[v] = "active"
    BY <1>2 DEF Promote, Write, TxInv, TypeOK
  <1>5. tx'[t].target = v
    BY <1>3
  <1> HIDE DEF v
  <1>6. LocksMeanDrafts'
    <2> SUFFICES ASSUME NEW u \in Versions, owner'[u] # NoTx
                 PROVE  \/ /\ tx'[owner'[u]].step \in {"index", "commit"}
                           /\ u = tx'[owner'[u]].target
                           /\ draft'[u] = "active"
                        \/ /\ tx'[owner'[u]].step \in {"promote", "index", "commit"}
                           /\ u = tx'[owner'[u]].victim
                           /\ draft'[u] = "historical"
                           /\ rows'[u] = "active"
      BY DEF LocksMeanDrafts
    <2>1. CASE u = v
      BY <2>1, <1>3, <1>4, <1>5
    <2>2. CASE u # v
      <3>1. /\ owner'[u] = owner[u] /\ draft'[u] = draft[u] /\ rows'[u] = rows[u]
            /\ owner[u] \in Txns
        BY <2>2, <1>2, <1>4 DEF TxInv, TypeOK
      <3>2. CASE owner[u] = t
        BY <3>1, <3>2, <2>2, <1>2, <1>3 DEF TxInv, LocksMeanDrafts, v
      <3>3. CASE owner[u] # t
        BY <3>1, <3>3, <1>3 DEF TxInv, LocksMeanDrafts
      <3> QED
        BY <3>2, <3>3
    <2> QED
      BY <2>1, <2>2
  <1>7. TargetsAreHeld'
    <2> SUFFICES ASSUME NEW q \in Txns
                 PROVE  /\ tx'[q].step \in Open =>
                             tx'[q].target \in Versions /\ rows'[tx'[q].target] # "absent"
                        /\ tx'[q].step = "demote" => tx'[q].victim \in Versions
                        /\ tx'[q].step \in {"index", "commit"} =>
                             owner'[tx'[q].target] = q /\ draft'[tx'[q].target] = "active"
      BY DEF TargetsAreHeld
    <2>1. CASE q = t
      BY <2>1, <1>2, <1>3, <1>4, <1>5
    <2>2. CASE q # t
      <3>1. tx[q].step \in {"index", "commit"} => tx[q].target \in Versions \ {v}
        BY <2>2, <1>2, TxAssumption DEF TxInv, TargetsAreHeld, Open
      <3> QED
        BY <2>2, <3>1, <1>2, <1>3, <1>4 DEF TxInv, TargetsAreHeld
    <2> QED
      BY <2>1, <2>2
  <1>8. EntryIsAlone'
    <2> SUFFICES ASSUME NEW q \in Txns, tx'[q].step = "commit",
                        NEW u \in Versions \ {tx'[q].target}, rows'[u] = "active"
                 PROVE  owner'[u] = q
      BY DEF EntryIsAlone
    <2>1. q # t /\ owner[u] = q
      BY <1>2, <1>3 DEF TxInv, EntryIsAlone
    <2>2. u # v
      BY <2>1, <1>2, TxAssumption
    <2> QED
      BY <2>1, <2>2, <1>4
  <1>9. OneCommits'
    BY <1>3 DEF TxInv, OneCommits
  <1>10. OneActive'
    BY <1>2 DEF TxInv, OneActive
  <1> QED
    BY <1>1, <1>6, <1>7, <1>8, <1>9, <1>10 DEF TxInv

(***************************************************************************)
(* The index entry goes in only when no other row holds or may come to     *)
(* hold one: whoever else were about to commit would have an entry that    *)
(* conflicts, and every active row left is one this transaction demoted.   *)
(***************************************************************************)
LEMMA TxEnterIndex ==
    ASSUME TxInv, NEW t \in Txns, EnterIndex(t)
    PROVE  TxInv'
  <1>1. TypeOK'
    BY TypeStep DEF TxInv, Next, TxStep
  <1>2. /\ tx[t].step = "index"
        /\ IndexConflicts(t) = {}
        /\ tx' = [tx EXCEPT ![t].step = "commit"]
        /\ UNCHANGED <<rows, owner, draft>>
    BY DEF EnterIndex
  <1>3. /\ tx'[t].step = "commit"
        /\ \A q \in Txns : /\ tx'[q].target = tx[q].target
                           /\ tx'[q].victim = tx[q].victim
                           /\ q # t => tx'[q].step = tx[q].step
    BY <1>2, Moves DEF TxInv
  <1>4. \A u \in Versions \ {tx[t].target} : rows[u] = "active" => owner[u] = t
    BY <1>2 DEF IndexConflicts
  <1>5. \A q \in Txns : tx[q].step # "commit"
    <2> SUFFICES ASSUME NEW q \in Txns, tx[q].step = "commit"
                 PROVE  FALSE
      OBVIOUS
    <2>1. q # t
      BY <1>2
    <2>2. /\ tx[q].target \in Versions
          /\ owner[tx[q].target] = q
          /\ draft[tx[q].target] = "active"
          /\ owner[tx[t].target] = t
      BY <1>2 DEF TxInv, TargetsAreHeld, Open
    <2>3. tx[q].target \in IndexConflicts(t)
      BY <2>1, <2>2, TxAssumption DEF IndexConflicts
    <2> QED
      BY <2>3, <1>2
  <1>6. LocksMeanDrafts'
    BY <1>2, <1>3 DEF TxInv, TypeOK, LocksMeanDrafts
  <1>7. TargetsAreHeld'
    BY <1>2, <1>3 DEF TxInv, TargetsAreHeld, Open
  <1>8. EntryIsAlone'
    BY <1>2, <1>3, <1>4, <1>5 DEF EntryIsAlone
  <1>9. OneCommits'
    BY <1>3, <1>5 DEF OneCommits
  <1>10. OneActive'
    BY <1>2 DEF TxInv, OneActive
  <1> QED
    BY <1>1, <1>6, <1>7, <1>8, <1>9, <1>10 DEF TxInv
\* A rollback, for whatever reason, leaves the committed rows and the others' locks alone.
LEMMA TxFail ==
    ASSUME TxInv, NEW t \in Txns, Fail(t)
    PROVE  TxInv'
  <1>1. TypeOK'
    BY TypeFail DEF TxInv
  <1>2. /\ tx' = [tx EXCEPT ![t].step = "failed"]
        /\ owner' = Unlocked(t)
        /\ UNCHANGED <<rows, draft>>
    BY DEF Fail
  <1>3. /\ tx'[t].step = "failed"
        /\ \A q \in Txns : /\ tx'[q].target = tx[q].target
                           /\ tx'[q].victim = tx[q].victim
                           /\ q # t => tx'[q].step = tx[q].step
    BY <1>2, Moves DEF TxInv
  <1>4. \A u \in Versions : /\ owner'[u] # t
                            /\ owner'[u] \in {NoTx, owner[u]}
                            /\ owner[u] # t => owner'[u] = owner[u]
    BY <1>2, Unlocks DEF TxInv
  <1>5. LocksMeanDrafts'
    BY <1>2, <1>3, <1>4 DEF TxInv, TypeOK, LocksMeanDrafts
  <1>6. TargetsAreHeld'
    BY <1>2, <1>3, <1>4 DEF TxInv, TargetsAreHeld, Open
  <1>7. EntryIsAlone'
    BY <1>2, <1>3, <1>4 DEF TxInv, EntryIsAlone
  <1>8. OneCommits'
    BY <1>3 DEF TxInv, OneCommits
  <1>9. OneActive'
    BY <1>2 DEF TxInv, OneActive
  <1> QED
    BY <1>1, <1>5, <1>6, <1>7, <1>8, <1>9 DEF TxInv

(***************************************************************************)
(* What a COMMIT does to the rows: its target becomes active and whatever  *)
(* else was active becomes historical, in one step, and no third row       *)
(* changes.  It is here that the drafts, the locks and the index meet.     *)
(***************************************************************************)
LEMMA CommitReplaces ==
    ASSUME TxInv, NEW t \in Txns, Commit(t)
    PROVE  \A u \in Versions :
             rows'[u] = IF u = tx[t].target THEN "active"
                        ELSE IF rows[u] = "active" THEN "historical" ELSE rows[u]
  <1> SUFFICES ASSUME NEW u \in Versions
               PROVE  rows'[u] = IF u = tx[t].target THEN "active"
                                 ELSE IF rows[u] = "active" THEN "historical" ELSE rows[u]
    OBVIOUS
  <1>1. /\ tx[t].step = "commit"
        /\ rows'[u] = IF owner[u] = t THEN draft[u] ELSE rows[u]
    BY DEF Commit
  <1>2. CASE u = tx[t].target
    BY <1>1, <1>2 DEF TxInv, TargetsAreHeld
  <1>3. CASE u # tx[t].target /\ rows[u] = "active"
    <2>1. owner[u] = t
      BY <1>1, <1>3 DEF TxInv, EntryIsAlone
    <2>2. draft[u] = "historical"
      BY <2>1, <1>3, TxAssumption DEF TxInv, LocksMeanDrafts
    <2> QED
      BY <1>1, <1>3, <2>1, <2>2
  <1>4. CASE u # tx[t].target /\ rows[u] # "active"
    <2>1. owner[u] # t
      BY <1>4, TxAssumption DEF TxInv, LocksMeanDrafts
    <2> QED
      BY <1>1, <1>4, <2>1
  <1> QED
    BY <1>2, <1>3, <1>4

\* A COMMIT keeps the invariant, whether or not its reply is lost.
LEMMA TxCommit ==
    ASSUME TxInv, NEW t \in Txns, Commit(t)
    PROVE  TxInv'
  <1>1. TypeOK'
    BY TypeStep DEF TxInv, Next, TxStep
  <1>2. PICK result \in {"ok", "failed"} : tx' = [tx EXCEPT ![t].step = result]
    BY DEF Commit
  <1>3. /\ tx'[t].step \in {"ok", "failed"}
        /\ \A q \in Txns : /\ tx'[q].target = tx[q].target
                           /\ tx'[q].victim = tx[q].victim
                           /\ q # t => tx'[q].step = tx[q].step
    BY <1>2, Moves DEF TxInv
  <1>4. \A u \in Versions : /\ owner'[u] # t
                            /\ owner'[u] \in {NoTx, owner[u]}
                            /\ owner[u] # t => owner'[u] = owner[u]
    BY Unlocks DEF TxInv, Commit
  <1>5. /\ tx[t].step = "commit"
        /\ draft' = draft
        /\ \A u \in Versions : owner[u] # t => rows'[u] = rows[u]
    BY DEF Commit
  <1>6. \A u \in Versions :
          rows'[u] = IF u = tx[t].target THEN "active"
                     ELSE IF rows[u] = "active" THEN "historical" ELSE rows[u]
    BY CommitReplaces
  <1>7. \A q \in Txns : tx'[q].step # "commit"
    BY <1>3, <1>5 DEF TxInv, OneCommits
  <1>8. LocksMeanDrafts'
    BY <1>3, <1>4, <1>5 DEF TxInv, TypeOK, LocksMeanDrafts
  <1>9. TargetsAreHeld'
    <2> SUFFICES ASSUME NEW q \in Txns
                 PROVE  /\ tx'[q].step \in Open =>
                             tx'[q].target \in Versions /\ rows'[tx'[q].target] # "absent"
                        /\ tx'[q].step = "demote" => tx'[q].victim \in Versions
                        /\ tx'[q].step \in {"index", "commit"} =>
                             owner'[tx'[q].target] = q /\ draft'[tx'[q].target] = "active"
      BY DEF TargetsAreHeld
    <2>1. CASE q = t
      BY <2>1, <1>3 DEF Open
    <2>2. CASE q # t
      BY <2>2, <1>3, <1>4, <1>5, <1>6 DEF TxInv, TargetsAreHeld, Open
    <2> QED
      BY <2>1, <2>2
  <1>10. EntryIsAlone' /\ OneCommits'
    BY <1>7 DEF EntryIsAlone, OneCommits
  <1>11. OneActive'
    BY <1>6 DEF OneActive
  <1> QED
    BY <1>1, <1>8, <1>9, <1>10, <1>11 DEF TxInv

\* Every step keeps the invariant.
LEMMA TxInvStep ==
    ASSUME TxInv, [Next]_vars
    PROVE  TxInv'
  <1>1. ASSUME NEW v \in Versions, CreatePolicy(v)
        PROVE  TxInv'
    BY <1>1, TxCreate
  <1>2. ASSUME NEW t \in Txns, TxStep(t) \/ Cancel(t)
        PROVE  TxInv'
    <2>1. CASE UniqueViolation(t) \/ DeadlockVictim(t) \/ Cancel(t)
      BY <2>1, TxFail DEF UniqueViolation, DeadlockVictim, Cancel
    <2> QED
      BY <1>2, <2>1, TxBegin, TxLook, TxDemote, TxPromote, TxEnterIndex, TxCommit DEF TxStep
  <1>3. CASE UNCHANGED vars
    BY <1>3 DEF vars, TxInv, TypeOK, LocksMeanDrafts, TargetsAreHeld, EntryIsAlone,
       OneCommits, OneActive
  <1> QED
    BY <1>1, <1>2, <1>3 DEF Next, Finished

\* The invariant holds of an empty table that no transaction has touched.
LEMMA TxInvHolds == Spec => []TxInv
  <1>1. Init => TxInv
    <2> SUFFICES ASSUME Init
                 PROVE  TxInv
      OBVIOUS
    <2>1. TypeOK
      BY DEF Init, TypeOK, LifecycleStates, Tx, TxSteps, MaybeVersion
    <2>2. LocksMeanDrafts
      BY DEF Init, LocksMeanDrafts
    <2>3. TargetsAreHeld /\ EntryIsAlone /\ OneCommits
      BY DEF Init, TargetsAreHeld, EntryIsAlone, OneCommits, Open
    <2>4. OneActive
      BY DEF Init, OneActive
    <2> QED
      BY <2>1, <2>2, <2>3, <2>4 DEF TxInv
  <1>2. TxInv /\ [Next]_vars => TxInv'
    BY TxInvStep
  <1> QED
    BY <1>1, <1>2, PTL DEF Spec

(***************************************************************************)
(* However activations and rollbacks interleave, the table never holds two *)
(* committed active rows (idx_policies_unique_active).                     *)
(***************************************************************************)
THEOREM OneActiveRow == Spec => []OneActive
  <1>1. TxInv => OneActive
    BY DEF TxInv
  <1> QED
    BY <1>1, TxInvHolds, PTL

-----------------------------------------------------------------------------
(* The transactions implement the atomic store.                            *)

\* A step that leaves the committed rows alone is nothing to the store.
LEMMA StoreStutters ==
    ASSUME rows' = rows
    PROVE  [ws \in {"ws"} |-> rows]' = [ws \in {"ws"} |-> rows]
  OBVIOUS

\* Every step is a step of the store or leaves it alone: only a creation and a COMMIT are.
LEMMA StoreStep ==
    ASSUME TxInv, [Next]_vars
    PROVE  [Store!StoreNext]_([ws \in {"ws"} |-> rows])
  <1>1. ASSUME NEW v \in Versions, CreatePolicy(v)
        PROVE  Store!StoreNext
    <2>1. Store!CreatePolicy("ws", v)
      BY <1>1 DEF CreatePolicy, Store!CreatePolicy, Store!Stored
    <2> QED
      BY <2>1 DEF Store!StoreNext
  <1>2. ASSUME NEW t \in Txns, Commit(t)
        PROVE  Store!StoreNext
    <2> DEFINE v == tx[t].target
    <2>1. v \in Versions /\ rows[v] # "absent"
      BY <1>2 DEF Commit, TxInv, TargetsAreHeld, Open
    <2>2. rows' = Store!Replaced(rows, v)
      BY <1>2, CommitReplaces DEF Commit, Store!Replaced
    <2> HIDE DEF v
    <2>3. Store!ActivatePolicy("ws", v)
      BY <2>1, <2>2 DEF Store!ActivatePolicy, Store!Stored
    <2> QED
      BY <2>1, <2>3 DEF Store!StoreNext
  <1>3. ASSUME NEW t \in Txns,
               \/ Begin(t) \/ SelectActive(t) \/ ScanActive(t) \/ Demote(t) \/ Promote(t)
               \/ EnterIndex(t) \/ UniqueViolation(t) \/ DeadlockVictim(t) \/ Cancel(t)
        PROVE  rows' = rows
    BY <1>3 DEF Begin, SelectActive, ScanActive, Demote, Promote, EnterIndex, UniqueViolation,
       DeadlockVictim, Cancel, Fail
  <1>4. CASE UNCHANGED vars
    BY <1>4, StoreStutters DEF vars
  <1> QED
    BY <1>1, <1>2, <1>3, <1>4, StoreStutters DEF Next, TxStep, Finished

(***************************************************************************)
(* PostgresStore's statements, however they interleave, wait, deadlock or  *)
(* are cut off, implement the store's atomic calls: the target becomes     *)
(* active in the very step that makes its predecessor historical.          *)
(***************************************************************************)
THEOREM TransactionsAreAtomic == Spec => ImplementsStore
  <1>1. Init => Store!StoreInit
    BY DEF Init, Store!StoreInit
  <1>2. TxInv /\ [Next]_vars => [Store!StoreNext]_([ws \in {"ws"} |-> rows])
    BY StoreStep
  <1> QED
    BY <1>1, <1>2, TxInvHolds, PTL DEF Spec, ImplementsStore, Store!StoreSpec

=============================================================================
