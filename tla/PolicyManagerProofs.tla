------------------------ MODULE PolicyManagerProofs ------------------------
(* Theorems about PolicyManager, for every value of its constants.         *)
EXTENDS PolicyManager, SequenceTheorems, FiniteSetTheorems, TLAPS

CallType == [step: Steps, kind: Kinds, ws: Workspaces,
             version: Versions \cup {NoVersion}, prev: Versions \cup {NoVersion},
             from: Versions \cup {NoVersion}, reply: Versions \cup {NoVersion}]

EventType == [action: Kinds, ws: Workspaces,
              prev: Versions \cup {NoVersion}, new: Versions \cup {NoVersion}]

-----------------------------------------------------------------------------
(* The store's operators.                                                  *)

LEMMA ActiveType ==
    ASSUME NEW ws PROVE GetActivePolicy(ws) \in Versions \cup {NoVersion}
BY DEF GetActivePolicy

\* What a write of the store may do to a row: it never forgets one, and a version that
\* was active once stays active or historical.
RowsOnlyAdvance ==
    \A ws \in Workspaces, v \in Versions :
        policies[ws][v] \in {"active", "historical"} => policies'[ws][v] \in {"active", "historical"}

LEMMA CreateType ==
    ASSUME StoreTypeOK, NEW ws \in Workspaces, NEW v, CreatePolicy(ws, v)
    PROVE  StoreTypeOK' /\ RowsOnlyAdvance
<1>1. v \in Versions => policies[ws][v] = "absent"
  BY DEF CreatePolicy, Stored
<1>2. policies' = [policies EXCEPT ![ws] = [policies[ws] EXCEPT ![v] = "candidate"]]
  BY DEF CreatePolicy
<1>3. QED
  BY <1>1, <1>2 DEF StoreTypeOK, LifecycleStates, RowsOnlyAdvance

LEMMA ReplaceType ==
    ASSUME StoreTypeOK, NEW ws \in Workspaces, NEW v, Stored(ws, v),
           policies' = [policies EXCEPT ![ws] = Replaced(@, v)]
    PROVE  StoreTypeOK' /\ RowsOnlyAdvance /\ v \in Versions /\ policies'[ws][v] = "active"
<1>1. policies' = [policies EXCEPT ![ws] = Replaced(policies[ws], v)]
  OBVIOUS
<1>2. v \in Versions
  BY DEF Stored
<1>3. Replaced(policies[ws], v) \in [Versions -> LifecycleStates]
  BY DEF Replaced, StoreTypeOK, LifecycleStates
<1>4. StoreTypeOK'
  BY <1>1, <1>3 DEF StoreTypeOK
<1>5. policies'[ws] = Replaced(policies[ws], v)
  BY <1>1 DEF StoreTypeOK
<1>6. \A u \in Workspaces \ {ws} : policies'[u] = policies[u]
  BY <1>1 DEF StoreTypeOK
<1>7. \A u \in Versions : policies[ws][u] \in {"active", "historical"}
                            => policies'[ws][u] \in {"active", "historical"}
  BY <1>5 DEF Replaced
<1>8. RowsOnlyAdvance
  BY <1>6, <1>7 DEF RowsOnlyAdvance
<1>9. QED
  BY <1>2, <1>4, <1>5, <1>8 DEF Replaced

-----------------------------------------------------------------------------
(* Type correctness.                                                       *)

LEMMA CallIsTyped ==
    ASSUME NEW step \in Steps, NEW kind \in Kinds, NEW ws \in Workspaces,
           NEW v \in Versions \cup {NoVersion}
    PROVE  Call(step, kind, ws, v) \in CallType
BY DEF Call, CallType

LEMMA IdleIsTyped == Idle \in CallType
BY ManagerAssumption, CallIsTyped DEF Idle, Steps, Kinds

\* Every reachable state is well typed.
THEOREM TypeCorrect == Spec => []TypeOK
<1> USE ManagerAssumption, NoVersionAssumption
<1>0. TypeOK <=> /\ StoreTypeOK
                 /\ cached \in [Workspaces -> Versions \cup {NoVersion}]
                 /\ proc \in {"starting", "serving", "down"}
                 /\ call \in [Threads -> CallType]
                 /\ emitted \in Seq(EventType)
                 /\ calls \in 0..MaxCalls
                 /\ crashes \in 0..MaxCrashes
                 /\ overtaken \subseteq Threads /\ misread \in BOOLEAN
  BY DEF TypeOK, CallType, EventType
<1>1. Init => TypeOK
  <2> SUFFICES ASSUME Init PROVE TypeOK
    OBVIOUS
  <2>1. StoreTypeOK
    BY DEF Init, StoreInit, StoreTypeOK, LifecycleStates
  <2>2. call \in [Threads -> CallType]
    BY IdleIsTyped DEF Init
  <2>3. overtaken \subseteq Threads /\ misread \in BOOLEAN
    BY DEF Init
  <2>4. emitted \in Seq(EventType) /\ calls \in 0..MaxCalls /\ crashes \in 0..MaxCrashes
    BY EmptySeq DEF Init
  <2>5. QED
    BY <1>0, <2>1, <2>2, <2>3, <2>4 DEF Init
<1>2. ASSUME TypeOK, [Next]_vars PROVE TypeOK'
  <2> USE <1>2
  <2>t. TypeOK' <=> /\ StoreTypeOK'
                    /\ cached' \in [Workspaces -> Versions \cup {NoVersion}]
                    /\ proc' \in {"starting", "serving", "down"}
                    /\ call' \in [Threads -> CallType]
                    /\ emitted' \in Seq(EventType)
                    /\ calls' \in 0..MaxCalls
                    /\ crashes' \in 0..MaxCrashes
                    /\ overtaken' \subseteq Threads /\ misread' \in BOOLEAN
    BY DEF TypeOK, CallType, EventType, StoreTypeOK
  <2>a. ASSUME NEW t \in Threads PROVE call[t] \in CallType
    BY <1>0
  <2>b. ASSUME NEW t \in Threads, NEW r \in CallType, call' = [call EXCEPT ![t] = r]
        PROVE  call' \in [Threads -> CallType]
    BY <1>0, <2>b
  <2>c. ASSUME NEW t \in Threads, NEW s \in Steps, Goto(t, s) PROVE call' \in [Threads -> CallType]
    <3>1. [call[t] EXCEPT !.step = s] \in CallType
      BY <2>a DEF CallType
    <3>2. QED
      BY <2>b, <2>c, <3>1 DEF Goto
  <2>d. Boot \in Threads /\ Admins \subseteq Threads
    BY DEF Threads
  <2>1. CASE UNCHANGED vars
    BY <1>0, <2>1, <2>t DEF vars, StoreTypeOK
  <2>2. ASSUME NEW t \in Threads, Receive(t) PROVE TypeOK'
    <3>1. PICK kind \in Kinds, ws \in Workspaces, v \in Versions :
            call' = [call EXCEPT ![t] =
                       Call(CASE kind = "activate" -> "read"
                              [] kind = "rollback" -> "peek"
                              [] kind = "create" -> IF v \in Parses THEN "write" ELSE "failed",
                            kind, ws, v)]
      BY <2>2 DEF Receive
    <3> DEFINE first == CASE kind = "activate" -> "read"
                          [] kind = "rollback" -> "peek"
                          [] kind = "create" -> IF v \in Parses THEN "write" ELSE "failed"
    <3>2. first \in Steps
      BY DEF Kinds, Steps
    <3> HIDE DEF first
    <3>3. Call(first, kind, ws, v) \in CallType
      BY <3>2, CallIsTyped
    <3>4. call' = [call EXCEPT ![t] = Call(first, kind, ws, v)]
      BY <3>1 DEF first
    <3>5. call' \in [Threads -> CallType]
      BY <2>b, <3>3, <3>4
    <3>6. calls' \in 0..MaxCalls
      BY <1>0, <2>2 DEF Receive
    <3>7. QED
      BY <1>0, <2>2, <2>t, <3>5, <3>6 DEF Receive, StoreTypeOK
  <2>3. ASSUME NEW t \in Threads, Peek(t) PROVE TypeOK'
    <3>1. PICK from : /\ from \in {GetActivePolicy(call[t].ws)} \cup {NoVersion}
                      /\ call' = [call EXCEPT ![t] = [call[t] EXCEPT !.step = "read", !.from = from]]
      BY <2>3 DEF Peek
    <3>2. from \in Versions \cup {NoVersion}
      BY <3>1, ActiveType
    <3>3. [call[t] EXCEPT !.step = "read", !.from = from] \in CallType
      BY <2>a, <3>2 DEF CallType, Steps
    <3>4. call' \in [Threads -> CallType]
      BY <2>b, <3>1, <3>3
    <3>5. QED
      BY <1>0, <2>3, <2>t, <3>4 DEF Peek, history, StoreTypeOK
  <2>4. ASSUME NEW t \in Threads, ReadTarget(t) PROVE TypeOK'
    <3> DEFINE r == [call[t] EXCEPT !.step = "write", !.prev = GetActivePolicy(call[t].ws)]
    <3>1. r \in CallType
      BY <2>a, ActiveType DEF CallType, Steps
    <3>2. call' = [call EXCEPT ![t] = r] \/ Goto(t, "failed")
      BY <2>4 DEF ReadTarget
    <3>3. call' \in [Threads -> CallType]
      BY <2>b, <2>c, <3>1, <3>2 DEF Steps
    <3>4. QED
      BY <1>0, <2>4, <2>t, <3>3 DEF ReadTarget, history, StoreTypeOK
  <2>5. ASSUME NEW t \in Threads, WriteCandidate(t) PROVE TypeOK'
    <3>1. PICK step \in {"emit", "failed", "ok"} :
             call' = [call EXCEPT ![t] =
                        IF t = Boot /\ step # "emit"
                        THEN Call("read", "activate", call[t].ws, call[t].version)
                        ELSE [call[t] EXCEPT !.step = step]]
      BY <2>5 DEF WriteCandidate
    <3>2. call[t] \in CallType
      BY <2>a
    <3>3. Call("read", "activate", call[t].ws, call[t].version) \in CallType
      <4>1. call[t].ws \in Workspaces /\ call[t].version \in Versions \cup {NoVersion}
        BY <3>2 DEF CallType
      <4>2. QED
        BY <4>1, CallIsTyped DEF Steps, Kinds
    <3>4. [call[t] EXCEPT !.step = step] \in CallType
      BY <3>2 DEF CallType, Steps
    <3>5. call' \in [Threads -> CallType]
      BY <2>b, <3>1, <3>3, <3>4
    <3>6. StoreTypeOK'
      <4>1. CASE CreatePolicy(call[t].ws, call[t].version)
        <5>1. call[t].ws \in Workspaces
          BY <3>2 DEF CallType
        <5>2. QED
          BY <1>0, <4>1, <5>1, CreateType
      <4>2. CASE UNCHANGED policies
        BY <1>0, <4>2 DEF StoreTypeOK
      <4>3. QED
        BY <2>5, <4>1, <4>2 DEF WriteCandidate
    <3>7. QED
      BY <1>0, <2>5, <2>t, <3>5, <3>6 DEF WriteCandidate, history
  <2>6. ASSUME NEW t \in Threads, WriteActive(t) PROVE TypeOK'
    <3> DEFINE v == call[t].version
               ws == call[t].ws
    <3>1. call[t] \in CallType
      BY <2>a
    <3>2. Goto(t, "swap") \/ Goto(t, "failed")
      BY <2>6 DEF WriteActive
    <3>3. call' \in [Threads -> CallType]
      BY <2>c, <3>2 DEF Steps
    <3>4. CommitActive(t) \/ UNCHANGED <<policies, history>>
      BY <2>6 DEF WriteActive
    <3>5. overtaken' \subseteq Threads /\ misread' \in BOOLEAN
      BY <1>0, <3>4 DEF CommitActive, history
    <3>6. StoreTypeOK'
      <4>1. CASE UNCHANGED policies
        BY <1>0, <4>1 DEF StoreTypeOK
      <4>2. CASE ActivatePolicy(ws, v) \/ RollbackPolicy(ws, v)
        <5>1. ws \in Workspaces
          BY <3>1 DEF CallType
        <5>2. Stored(ws, v) /\ policies' = [policies EXCEPT ![ws] = Replaced(@, v)]
          BY <4>2 DEF ActivatePolicy, RollbackPolicy
        <5>3. QED
          BY <1>0, <5>1, <5>2, ReplaceType
      <4>3. QED
        BY <3>4, <4>1, <4>2 DEF CommitActive
    <3>7. QED
      BY <1>0, <2>6, <2>t, <3>3, <3>5, <3>6 DEF WriteActive
  <2>7. ASSUME NEW t \in Threads, Swap(t) PROVE TypeOK'
    <3>1. call[t].ws \in Workspaces /\ call[t].version \in Versions \cup {NoVersion}
      BY <2>a DEF CallType
    <3>2. cached' \in [Workspaces -> Versions \cup {NoVersion}]
      BY <1>0, <2>7, <3>1 DEF Swap
    <3>3. call' \in [Threads -> CallType]
      BY <2>c, <2>7 DEF Swap, Steps
    <3>4. QED
      BY <1>0, <2>7, <2>t, <3>2, <3>3 DEF Swap, history, StoreTypeOK
  <2>8. ASSUME NEW t \in Threads, Emit(t) PROVE TypeOK'
    <3>1. call[t] \in CallType
      BY <2>a
    <3>2. Event(call[t]) \in EventType
      BY <3>1 DEF Event, CallType, EventType
    <3>3. emitted' \in Seq(EventType)
      BY <1>0, <2>8, <3>2, AppendProperties DEF Emit
    <3> DEFINE r == IF call[t].kind # "create" THEN [call[t] EXCEPT !.step = "reread"]
                    ELSE IF t = Boot THEN Call("read", "activate", call[t].ws, call[t].version)
                    ELSE [call[t] EXCEPT !.step = "ok"]
    <3>4. Call("read", "activate", call[t].ws, call[t].version) \in CallType
      <4>1. call[t].ws \in Workspaces /\ call[t].version \in Versions \cup {NoVersion}
        BY <3>1 DEF CallType
      <4>2. QED
        BY <4>1, CallIsTyped DEF Steps, Kinds
    <3>5. r \in CallType
      BY <3>1, <3>4 DEF CallType, Steps
    <3>6. call' = [call EXCEPT ![t] = r]
      BY <2>8 DEF Emit
    <3>7. call' \in [Threads -> CallType]
      BY <2>b, <3>5, <3>6
    <3>8. QED
      BY <1>0, <2>8, <2>t, <3>3, <3>7 DEF Emit, history, StoreTypeOK
  <2>9. ASSUME NEW t \in Threads, Reread(t) PROVE TypeOK'
    <3> DEFINE r == [call[t] EXCEPT !.step = "ok", !.reply = GetActivePolicy(call[t].ws)]
    <3>1. r \in CallType
      BY <2>a, ActiveType DEF CallType, Steps
    <3>2. call' = [call EXCEPT ![t] = r] \/ Goto(t, "failed")
      BY <2>9 DEF Reread
    <3>3. call' \in [Threads -> CallType]
      BY <2>b, <2>c, <3>1, <3>2 DEF Steps
    <3>4. QED
      BY <1>0, <2>9, <2>t, <3>3 DEF Reread, history, StoreTypeOK
  <2>10. CASE Hydrate
    <3>1. Call("write", "create", Default, Baseline) \in CallType
      BY CallIsTyped DEF Steps, Kinds
    <3>2. call' = call \/ call' = [call EXCEPT ![Boot] = Call("write", "create", Default, Baseline)]
      BY <2>10 DEF Hydrate
    <3>3. call' \in [Threads -> CallType]
      BY <1>0, <2>b, <2>d, <3>1, <3>2
    <3>4. cached' \in [Workspaces -> Versions \cup {NoVersion}]
      BY <1>0, <2>10, ActiveType DEF Hydrate
    <3>5. QED
      BY <1>0, <2>10, <2>t, <3>3, <3>4 DEF Hydrate, history, StoreTypeOK
  <2>11. CASE Serve
    <3>1. call' \in [Threads -> CallType]
      BY <2>11, <2>b, <2>d, IdleIsTyped DEF Serve
    <3>2. QED
      BY <1>0, <2>11, <2>t, <3>1 DEF Serve, history, StoreTypeOK
  <2>12. ASSUME Stop, crashes' \in 0..MaxCrashes PROVE TypeOK'
    BY <1>0, <2>12, <2>t, IdleIsTyped DEF Stop, StoreTypeOK
  <2>13. CASE Crash
    <3>1. crashes' \in 0..MaxCrashes
      BY <1>0, <2>13 DEF Crash
    <3>2. QED
      BY <2>12, <2>13, <3>1 DEF Crash
  <2>14. CASE AbortStart
    BY <1>0, <2>12, <2>14 DEF AbortStart
  <2>15. CASE Restart
    BY <1>0, <2>15, <2>t DEF Restart, history, StoreTypeOK
  <2>16. CASE Finished
    BY <2>1, <2>16 DEF Finished
  <2>17. QED
    BY <2>1, <2>2, <2>3, <2>4, <2>5, <2>6, <2>7, <2>8, <2>9, <2>10, <2>11, <2>13, <2>14, <2>15, <2>16
       DEF Next, Step
<1>3. QED
  BY <1>1, <1>2, PTL DEF Spec

-----------------------------------------------------------------------------
(* What is enforced has been committed, and serving implies a default.     *)

\* Version v parses and was made active in workspace ws by a committed write.
Enforceable(ws, v) ==
    /\ v \in Parses
    /\ policies[ws][v] \in {"active", "historical"}

\* CacheIsCommitted is not inductive: a call that is about to swap must have committed, and
\* to have parsed what it commits it must have come through "read".
CacheInv ==
    /\ \A ws \in Workspaces : cached[ws] # NoVersion => Enforceable(ws, cached[ws])
    /\ \A t \in Threads :
         /\ (call[t].step = "write" /\ call[t].kind # "create") => call[t].version \in Parses
         /\ call[t].step = "swap" => Enforceable(call[t].ws, call[t].version)

\* ServingEnforcesDefault is not inductive: the start-up thread's call is on the default
\* workspace, and once its activation has swapped it stays enforced until the process stops.
BootInv ==
    /\ call[Boot].ws = Default
    /\ call[Boot].step \in {"swap", "reread", "ok"} => call[Boot].kind # "create"
    /\ (proc = "starting" /\ call[Boot].kind # "create" /\ call[Boot].step \in {"emit", "reread", "ok"})
         => cached[Default] # NoVersion
    /\ proc = "down" => call[Boot].step = "idle"
    /\ proc = "serving" => cached[Default] # NoVersion

LEMMA EnforceableStays ==
    ASSUME NEW ws \in Workspaces, NEW v \in Versions, Enforceable(ws, v),
           RowsOnlyAdvance \/ UNCHANGED policies
    PROVE  Enforceable(ws, v)'
BY DEF Enforceable, RowsOnlyAdvance

\* The writes of the store, seen from the Manager's steps.
LEMMA StepKeepsRows ==
    ASSUME TypeOK, [Next]_vars
    PROVE  RowsOnlyAdvance \/ UNCHANGED policies
<1>1. ASSUME NEW t \in Threads PROVE call[t].ws \in Workspaces
  BY DEF TypeOK
<1>2. ASSUME NEW t \in Threads, WriteCandidate(t) PROVE RowsOnlyAdvance \/ UNCHANGED policies
  <2>1. CreatePolicy(call[t].ws, call[t].version) \/ UNCHANGED policies
    BY <1>2 DEF WriteCandidate
  <2>2. QED
    BY <1>1, <2>1, CreateType DEF TypeOK
<1>3. ASSUME NEW t \in Threads, WriteActive(t) PROVE RowsOnlyAdvance \/ UNCHANGED policies
  <2>1. \/ UNCHANGED policies
        \/ /\ Stored(call[t].ws, call[t].version)
           /\ policies' = [policies EXCEPT ![call[t].ws] = Replaced(@, call[t].version)]
    BY <1>3 DEF WriteActive, CommitActive, ActivatePolicy, RollbackPolicy
  <2>2. QED
    BY <1>1, <2>1, ReplaceType DEF TypeOK
<1>4. QED
  BY <1>2, <1>3 DEF Next, Step, vars, Receive, Peek, ReadTarget, Swap, Emit, Reread, Hydrate,
                    Serve, Crash, AbortStart, Stop, Restart, Finished

\* The active version is a row that is active.
LEMMA ActiveRow ==
    ASSUME NEW ws, GetActivePolicy(ws) # NoVersion
    PROVE  GetActivePolicy(ws) \in Versions /\ policies[ws][GetActivePolicy(ws)] = "active"
BY NoVersionAssumption DEF GetActivePolicy

LEMMA CacheInvStep ==
    ASSUME TypeOK, TypeOK', CacheInv, [Next]_vars
    PROVE  CacheInv'
<1> USE ManagerAssumption, NoVersionAssumption
<1> DEFINE CacheSafe(ws) == cached[ws] # NoVersion => Enforceable(ws, cached[ws])
<1> DEFINE CallSafe(t) ==
      /\ (call[t].step = "write" /\ call[t].kind # "create") => call[t].version \in Parses
      /\ call[t].step = "swap" => Enforceable(call[t].ws, call[t].version)
<1>a. \A ws \in Workspaces : CacheSafe(ws)
  BY DEF CacheInv
<1>b. \A t \in Threads : CallSafe(t)
  BY DEF CacheInv
<1>c. SUFFICES (\A ws \in Workspaces : CacheSafe(ws)') /\ (\A t \in Threads : CallSafe(t)')
  BY DEF CacheInv
<1>d. ASSUME NEW ws \in Workspaces, NEW v, Enforceable(ws, v) PROVE Enforceable(ws, v)'
  <2>1. v \in Versions
    BY <1>d DEF Enforceable
  <2>2. QED
    BY <1>d, <2>1, StepKeepsRows, EnforceableStays
<1>e. call \in [Threads -> CallType] /\ cached \in [Workspaces -> Versions \cup {NoVersion}]
  BY DEF TypeOK, CallType
<1>f. ASSUME NEW t \in Threads PROVE call[t] \in CallType /\ call[t].ws \in Workspaces
  BY <1>e DEF CallType
<1>g. ASSUME UNCHANGED cached PROVE \A ws \in Workspaces : CacheSafe(ws)'
  BY <1>a, <1>d, <1>g
<1>h. ASSUME NEW t \in Threads, UNCHANGED call[t] PROVE CallSafe(t)'
  BY <1>b, <1>d, <1>f, <1>h
<1> HIDE DEF CacheSafe, CallSafe
\* A step of thread t alone.
<1>i. ASSUME NEW t \in Threads, NEW r, call' = [call EXCEPT ![t] = r], CallSafe(t)'
      PROVE  \A s \in Threads : CallSafe(s)'
  <2>1. ASSUME NEW s \in Threads, s # t PROVE UNCHANGED call[s]
    BY <1>e, <1>i, <2>1
  <2>2. QED
    BY <1>h, <1>i, <2>1
\* It ends in a step of which CacheInv says nothing.
<1>j. ASSUME NEW t \in Threads, NEW r, call' = [call EXCEPT ![t] = r], r.step \notin {"write", "swap"}
      PROVE  \A s \in Threads : CallSafe(s)'
  <2>1. call'[t].step \notin {"write", "swap"}
    BY <1>e, <1>j
  <2>2. CallSafe(t)'
    BY <2>1 DEF CallSafe
  <2>3. QED
    BY <1>i, <1>j, <2>2
<1>k. ASSUME NEW t \in Threads, NEW s \in Steps \ {"write", "swap"}, Goto(t, s)
      PROVE  \A u \in Threads : CallSafe(u)'
  <2>1. [call[t] EXCEPT !.step = s].step = s
    BY <1>f DEF CallType
  <2>2. QED
    BY <1>j, <1>k, <2>1 DEF Goto
<1>1. CASE UNCHANGED <<call, cached>>
  BY <1>1, <1>g, <1>h
<1>2. ASSUME NEW t \in Threads, Receive(t) PROVE \A s \in Threads : CallSafe(s)'
  <2>1. PICK kind \in Kinds, ws \in Workspaces, v \in Versions :
          call' = [call EXCEPT ![t] =
                     Call(CASE kind = "activate" -> "read"
                            [] kind = "rollback" -> "peek"
                            [] kind = "create" -> IF v \in Parses THEN "write" ELSE "failed",
                          kind, ws, v)]
    BY <1>2 DEF Receive
  <2> DEFINE first == CASE kind = "activate" -> "read"
                        [] kind = "rollback" -> "peek"
                        [] kind = "create" -> IF v \in Parses THEN "write" ELSE "failed"
  <2>2. first # "swap" /\ (first = "write" => kind = "create")
    BY DEF Kinds
  <2> HIDE DEF first
  <2>3. call'[t] = Call(first, kind, ws, v)
    BY <1>e, <2>1 DEF first
  <2>4. call'[t].step = first /\ call'[t].kind = kind
    BY <2>3 DEF Call
  <2>5. CallSafe(t)'
    BY <2>2, <2>4 DEF CallSafe
  <2>6. QED
    BY <1>i, <2>1, <2>5
<1>3. ASSUME NEW t \in Threads, Peek(t) PROVE \A s \in Threads : CallSafe(s)'
  <2>1. PICK from : call' = [call EXCEPT ![t] = [call[t] EXCEPT !.step = "read", !.from = from]]
    BY <1>3 DEF Peek
  <2>2. [call[t] EXCEPT !.step = "read", !.from = from].step = "read"
    BY <1>f DEF CallType
  <2>3. QED
    BY <1>j, <2>1, <2>2
<1>4. ASSUME NEW t \in Threads, ReadTarget(t) PROVE \A s \in Threads : CallSafe(s)'
  <2>1. CASE Goto(t, "failed")
    BY <1>k, <2>1 DEF Steps
  <2>2. ASSUME call[t].version \in Parses, NEW prev,
               call' = [call EXCEPT ![t] = [call[t] EXCEPT !.step = "write", !.prev = prev]]
        PROVE  \A s \in Threads : CallSafe(s)'
    <3>1. call'[t].step = "write" /\ call'[t].version = call[t].version
      BY <1>e, <1>f, <2>2 DEF CallType
    <3>2. CallSafe(t)'
      BY <2>2, <3>1 DEF CallSafe
    <3>3. QED
      BY <1>i, <2>2, <3>2
  <2>3. QED
    BY <1>4, <2>1, <2>2 DEF ReadTarget
<1>5. ASSUME NEW t \in Threads, WriteCandidate(t) PROVE \A s \in Threads : CallSafe(s)'
  <2>1. PICK step \in {"emit", "failed", "ok"} :
           call' = [call EXCEPT ![t] =
                      IF t = Boot /\ step # "emit"
                      THEN Call("read", "activate", call[t].ws, call[t].version)
                      ELSE [call[t] EXCEPT !.step = step]]
    BY <1>5 DEF WriteCandidate
  <2>2. call'[t].step \notin {"write", "swap"}
    BY <1>e, <1>f, <2>1 DEF Call, CallType
  <2>3. CallSafe(t)'
    BY <2>2 DEF CallSafe
  <2>4. QED
    BY <1>i, <2>1, <2>3
<1>6. ASSUME NEW t \in Threads, WriteActive(t) PROVE \A s \in Threads : CallSafe(s)'
  <2>1. CASE Goto(t, "failed")
    BY <1>k, <2>1 DEF Steps
  <2>2. CASE Goto(t, "swap") /\ CommitActive(t)
    <3>1. policies' = [policies EXCEPT ![call[t].ws] = Replaced(@, call[t].version)]
            /\ Stored(call[t].ws, call[t].version)
      BY <2>2 DEF CommitActive, ActivatePolicy, RollbackPolicy
    <3>2. policies'[call[t].ws][call[t].version] = "active"
      BY <1>f, <3>1, ReplaceType DEF TypeOK
    <3>3. call[t].step = "write" /\ call[t].kind # "create"
      BY <1>6 DEF WriteActive
    <3>4. call[t].version \in Parses
      BY <1>b, <3>3 DEF CallSafe
    <3>5. /\ call'[t].step = "swap" /\ call'[t].ws = call[t].ws
          /\ call'[t].version = call[t].version
      BY <1>e, <1>f, <2>2 DEF Goto, CallType
    <3>6. CallSafe(t)'
      BY <3>2, <3>4, <3>5 DEF CallSafe, Enforceable
    <3>7. QED
      BY <1>i, <2>2, <3>6 DEF Goto
  <2>3. QED
    BY <1>6, <2>1, <2>2 DEF WriteActive
<1>7. ASSUME NEW t \in Threads, Swap(t)
      PROVE  (\A s \in Threads : CallSafe(s)') /\ (\A ws \in Workspaces : CacheSafe(ws)')
  <2>1. \A s \in Threads : CallSafe(s)'
    BY <1>7, <1>k DEF Swap, Steps
  <2>2. Enforceable(call[t].ws, call[t].version)'
    <3>1. Enforceable(call[t].ws, call[t].version)
      BY <1>7, <1>b DEF CallSafe, Swap
    <3>2. policies' = policies
      BY <1>7 DEF Swap
    <3>3. call[t].version \in Parses /\ policies'[call[t].ws][call[t].version] \in {"active", "historical"}
      BY <3>1, <3>2 DEF Enforceable
    <3>4. call'[t].ws = call[t].ws /\ call'[t].version = call[t].version
      BY <1>7, <1>e, <1>f DEF Swap, Goto, CallType
    <3>5. QED
      BY <3>3, <3>4 DEF Enforceable
  <2>3. call'[t].ws = call[t].ws /\ call'[t].version = call[t].version
    BY <1>7, <1>e, <1>f DEF Swap, Goto, CallType
  <2>4. ASSUME NEW ws \in Workspaces PROVE CacheSafe(ws)'
    <3>1. CASE ws = call[t].ws
      <4>1. cached'[ws] = call[t].version
        BY <1>7, <1>e, <3>1 DEF Swap
      <4>2. QED
        BY <2>2, <2>3, <3>1, <4>1 DEF CacheSafe, Enforceable
    <3>2. CASE ws # call[t].ws
      <4>1. cached'[ws] = cached[ws]
        BY <1>7, <1>e, <3>2 DEF Swap
      <4>2. QED
        BY <1>a, <1>d, <4>1 DEF CacheSafe
    <3>3. QED
      BY <3>1, <3>2
  <2>5. QED
    BY <2>1, <2>4
<1>8. ASSUME NEW t \in Threads, Emit(t) PROVE \A s \in Threads : CallSafe(s)'
  <2> DEFINE r == IF call[t].kind # "create" THEN [call[t] EXCEPT !.step = "reread"]
                  ELSE IF t = Boot THEN Call("read", "activate", call[t].ws, call[t].version)
                  ELSE [call[t] EXCEPT !.step = "ok"]
  <2>1. call' = [call EXCEPT ![t] = r]
    BY <1>8 DEF Emit
  <2>2. r.step \notin {"write", "swap"}
    BY <1>f DEF Call, CallType
  <2> HIDE DEF r
  <2>3. QED
    BY <1>j, <2>1, <2>2
<1>9. ASSUME NEW t \in Threads, Reread(t) PROVE \A s \in Threads : CallSafe(s)'
  <2> DEFINE r == [call[t] EXCEPT !.step = "ok", !.reply = GetActivePolicy(call[t].ws)]
  <2>1. call' = [call EXCEPT ![t] = r] \/ Goto(t, "failed")
    BY <1>9 DEF Reread
  <2>2. r.step = "ok"
    BY <1>f DEF CallType
  <2> HIDE DEF r
  <2>3. QED
    BY <1>j, <1>k, <2>1, <2>2 DEF Steps
<1>10. CASE Hydrate
  <2>1. CASE GetActivePolicy(Default) \in Parses /\ UNCHANGED call
              /\ cached' = [cached EXCEPT ![Default] = GetActivePolicy(Default)]
    <3>1. policies[Default][GetActivePolicy(Default)] = "active"
      BY <2>1, ActiveRow
    <3>2. Enforceable(Default, GetActivePolicy(Default))
      BY <2>1, <3>1 DEF Enforceable
    <3>3. ASSUME NEW ws \in Workspaces PROVE CacheSafe(ws)'
      <4>1. \/ cached'[ws] = cached[ws]
            \/ ws = Default /\ cached'[ws] = GetActivePolicy(Default)
        BY <1>e, <2>1
      <4>2. policies' = policies
        BY <1>10 DEF Hydrate
      <4>3. QED
        BY <1>a, <1>d, <3>2, <4>1, <4>2 DEF CacheSafe, Enforceable
    <3>4. \A t \in Threads : CallSafe(t)'
      BY <1>h, <2>1
    <3>5. QED
      BY <3>3, <3>4
  <2>2. CASE call' = [call EXCEPT ![Boot] = Call("write", "create", Default, Baseline)]
              /\ UNCHANGED cached
    <3>1. Boot \in Threads
      BY DEF Threads
    <3>2. call'[Boot].kind = "create" /\ call'[Boot].step = "write"
      BY <1>e, <2>2, <3>1 DEF Call
    <3>3. CallSafe(Boot)'
      BY <3>2 DEF CallSafe
    <3>4. QED
      BY <1>g, <1>i, <2>2, <3>1, <3>3
  <2>3. QED
    BY <1>10, <2>1, <2>2 DEF Hydrate
<1>11. CASE Serve
  <2>1. Boot \in Threads /\ Idle.step = "idle"
    BY DEF Threads, Idle, Call
  <2>2. QED
    BY <1>11, <1>g, <1>j, <2>1 DEF Serve
<1>12. CASE Stop
  <2>1. Idle.step = "idle"
    BY DEF Idle, Call
  <2>2. \A ws \in Workspaces : cached'[ws] = NoVersion
    BY <1>12 DEF Stop
  <2>3. \A t \in Threads : call'[t].step = "idle"
    BY <1>12, <2>1 DEF Stop
  <2>4. QED
    BY <2>2, <2>3 DEF CacheSafe, CallSafe
<1>13. QED
  <2>1. ASSUME NEW t \in Threads, Receive(t) \/ Step(t)
        PROVE  (\A ws \in Workspaces : CacheSafe(ws)') /\ (\A s \in Threads : CallSafe(s)')
    <3>1. Swap(t) \/ UNCHANGED cached
      BY <2>1 DEF Receive, Step, Peek, ReadTarget, WriteCandidate, WriteActive, Emit, Reread
    <3>2. QED
      BY <2>1, <3>1, <1>2, <1>3, <1>4, <1>5, <1>6, <1>7, <1>8, <1>9, <1>g DEF Step
  <2>2. Restart \/ Finished \/ UNCHANGED vars => UNCHANGED <<call, cached>>
    BY DEF Restart, Finished, vars
  <2>3. Crash \/ AbortStart => Stop
    BY DEF Crash, AbortStart
  <2>4. QED
    BY <1>1, <1>10, <1>11, <1>12, <2>1, <2>2, <2>3 DEF Next

\* For any number of admins, calls, crashes and workspaces and any outcome of the writes,
\* an engine that is enforced parses and was made active by a committed write.
THEOREM CacheCommitted == Spec => []CacheIsCommitted
<1>1. Init => CacheInv
  BY ManagerAssumption DEF Init, CacheInv, Idle, Call
<1>2. TypeOK /\ TypeOK' /\ CacheInv /\ [Next]_vars => CacheInv'
  BY CacheInvStep
<1>3. CacheInv => CacheIsCommitted
  BY DEF CacheInv, CacheIsCommitted, Enforceable
<1>4. QED
  BY <1>1, <1>2, <1>3, TypeCorrect, PTL DEF Spec

-----------------------------------------------------------------------------

LEMMA BootInvStep ==
    ASSUME TypeOK, TypeOK', CacheInv, BootInv, [Next]_vars
    PROVE  BootInv'
<1> USE ManagerAssumption, NoVersionAssumption
<1>a. call \in [Threads -> CallType] /\ cached \in [Workspaces -> Versions \cup {NoVersion}]
  BY DEF TypeOK, CallType
<1>b. Boot \in Threads /\ call[Boot] \in CallType
  BY <1>a DEF Threads
<1>c. Idle.step = "idle" /\ Idle.ws = Default
  BY DEF Idle, Call
<1>d. ASSUME NEW t \in Threads, Swap(t) PROVE call[t].version # NoVersion
  <2>1. call[t].step = "swap"
    BY <1>d DEF Swap
  <2>2. call[t].version \in Parses
    BY <2>1 DEF CacheInv, Enforceable
  <2>3. QED
    BY <2>2
\* While the process stays what it is, the default workspace never loses its engine.
<1>e. ASSUME NEW t \in Threads, Receive(t) \/ Step(t)
      PROVE  UNCHANGED proc /\ (cached[Default] # NoVersion => cached'[Default] # NoVersion)
  <2>1. UNCHANGED proc
    BY <1>e DEF Receive, Step, Peek, ReadTarget, WriteCandidate, WriteActive, Swap, Emit, Reread
  <2>2. \/ UNCHANGED cached
        \/ Swap(t) /\ cached' = [cached EXCEPT ![call[t].ws] = call[t].version]
    BY <1>e DEF Receive, Step, Peek, ReadTarget, WriteCandidate, WriteActive, Swap, Emit, Reread
  <2>3. QED
    BY <1>a, <1>d, <2>1, <2>2
\* Only these steps of the start-up thread change its call.
<1>1. ASSUME NEW t \in Threads, Receive(t) \/ Step(t), t # Boot PROVE BootInv'
  <2>1. UNCHANGED call[Boot]
    BY <1>1, <1>a, <1>b DEF Receive, Step, Peek, ReadTarget, WriteCandidate, WriteActive, Swap, Emit,
                            Reread, Goto
  <2>2. QED
    BY <1>1, <1>e, <2>1 DEF BootInv
<1>2. ASSUME Step(Boot) PROVE BootInv'
  <2> DEFINE c == call[Boot]
             d == call'[Boot]
  <2>1. c.ws = Default /\ c.step # "idle" /\ proc # "down"
    BY <1>2, <1>b DEF BootInv, Step, Peek, ReadTarget, WriteCandidate, WriteActive, Swap, Emit, Reread
  <2>g. ASSUME NEW s \in Steps, Goto(Boot, s) PROVE d.step = s /\ d.ws = c.ws /\ d.kind = c.kind
    BY <1>a, <1>b, <2>g DEF Goto, CallType
  <2>2. CASE Peek(Boot)
    <3>1. PICK from : call' = [call EXCEPT ![Boot] = [c EXCEPT !.step = "read", !.from = from]]
      BY <2>2 DEF Peek
    <3>2. d.step = "read" /\ d.ws = c.ws
      BY <1>a, <1>b, <3>1 DEF CallType
    <3>3. QED
      BY <1>2, <1>b, <1>e, <2>1, <3>2 DEF BootInv
  <2>3. CASE ReadTarget(Boot)
    <3>1. \/ Goto(Boot, "failed")
          \/ \E prev : call' = [call EXCEPT ![Boot] = [c EXCEPT !.step = "write", !.prev = prev]]
      BY <2>3 DEF ReadTarget
    <3>2. d.step \in {"write", "failed"} /\ d.ws = c.ws
      <4>1. CASE Goto(Boot, "failed")
        BY <2>g, <4>1 DEF Steps
      <4>2. ASSUME NEW prev, call' = [call EXCEPT ![Boot] = [c EXCEPT !.step = "write", !.prev = prev]]
            PROVE  d.step = "write" /\ d.ws = c.ws
        BY <1>a, <1>b, <4>2 DEF CallType
      <4>3. QED
        BY <3>1, <4>1, <4>2
    <3>3. QED
      BY <1>2, <1>b, <1>e, <2>1, <3>2 DEF BootInv
  <2>4. CASE WriteCandidate(Boot)
    <3>1. \/ call' = [call EXCEPT ![Boot] = Call("read", "activate", c.ws, c.version)]
          \/ c.kind = "create" /\ call' = [call EXCEPT ![Boot] = [c EXCEPT !.step = "emit"]]
      BY <2>4 DEF WriteCandidate
    <3>2. d.ws = c.ws /\ (d.step = "read" \/ (d.step = "emit" /\ d.kind = "create"))
      BY <1>a, <1>b, <3>1 DEF Call, CallType
    <3>3. QED
      BY <1>2, <1>b, <1>e, <2>1, <3>2 DEF BootInv
  <2>5. CASE WriteActive(Boot)
    <3>1. Goto(Boot, "failed") \/ Goto(Boot, "swap")
      BY <2>5 DEF WriteActive
    <3>2. d.ws = c.ws /\ d.kind = c.kind /\ d.step \in {"failed", "swap"}
      BY <2>g, <3>1 DEF Steps
    <3>3. c.kind # "create"
      BY <2>5 DEF WriteActive
    <3>4. QED
      BY <1>2, <1>b, <1>e, <2>1, <3>2, <3>3 DEF BootInv
  <2>6. CASE Swap(Boot)
    <3>1. d.step = "emit" /\ d.ws = c.ws
      BY <2>6, <2>g DEF Swap, Steps
    <3>2. cached'[Default] # NoVersion
      BY <1>a, <1>b, <1>d, <2>1, <2>6 DEF Swap
    <3>3. QED
      BY <1>2, <1>b, <1>e, <2>1, <3>1, <3>2 DEF BootInv
  <2>7. CASE Emit(Boot)
    <3>1. IF c.kind # "create"
          THEN d = [c EXCEPT !.step = "reread"]
          ELSE d = Call("read", "activate", c.ws, c.version)
      BY <1>a, <1>b, <2>7 DEF Emit
    <3>2. /\ d.ws = c.ws
          /\ d.step = "read" \/ (d.step = "reread" /\ c.kind # "create" /\ d.kind = c.kind)
      BY <1>b, <3>1 DEF Call, CallType
    <3>3. c.step = "emit"
      BY <2>7 DEF Emit
    <3>4. QED
      BY <1>2, <1>b, <1>e, <2>1, <3>2, <3>3 DEF BootInv
  <2>8. CASE Reread(Boot)
    <3>1. \/ Goto(Boot, "failed")
          \/ \E reply : call' = [call EXCEPT ![Boot] = [c EXCEPT !.step = "ok", !.reply = reply]]
      BY <2>8 DEF Reread
    <3>2. d.ws = c.ws /\ d.kind = c.kind /\ d.step \in {"failed", "ok"}
      <4>1. CASE Goto(Boot, "failed")
        BY <2>g, <4>1 DEF Steps
      <4>2. ASSUME NEW reply, call' = [call EXCEPT ![Boot] = [c EXCEPT !.step = "ok", !.reply = reply]]
            PROVE  d.ws = c.ws /\ d.kind = c.kind /\ d.step = "ok"
        BY <1>a, <1>b, <4>2 DEF CallType
      <4>3. QED
        BY <3>1, <4>1, <4>2
    <3>3. c.step = "reread"
      BY <2>8 DEF Reread
    <3>4. QED
      BY <1>2, <1>b, <1>e, <2>1, <3>2, <3>3 DEF BootInv
  <2>9. QED
    BY <1>2, <2>2, <2>3, <2>4, <2>5, <2>6, <2>7, <2>8 DEF Step
<1>3. CASE Hydrate
  <2>1. CASE GetActivePolicy(Default) \in Parses /\ UNCHANGED call
              /\ cached' = [cached EXCEPT ![Default] = GetActivePolicy(Default)]
    BY <1>3, <1>a, <2>1 DEF Hydrate, BootInv
  <2>2. CASE call' = [call EXCEPT ![Boot] = Call("write", "create", Default, Baseline)]
              /\ UNCHANGED <<cached, proc>>
    <3>1. call'[Boot] = Call("write", "create", Default, Baseline)
      BY <1>a, <1>b, <2>2
    <3>2. call'[Boot].ws = Default /\ call'[Boot].step = "write"
      BY <3>1 DEF Call
    <3>3. QED
      BY <1>3, <2>2, <3>2 DEF BootInv, Hydrate
  <2>3. QED
    BY <1>3, <2>1, <2>2 DEF Hydrate
<1>4. CASE Serve
  <2>1. cached[Default] # NoVersion
    BY <1>4 DEF Serve, BootInv
  <2>2. call'[Boot] = Idle
    BY <1>4, <1>a, <1>b DEF Serve
  <2>3. QED
    BY <1>4, <1>c, <2>1, <2>2 DEF Serve, BootInv
<1>5. CASE Stop
  <2>1. call'[Boot] = Idle /\ proc' = "down"
    BY <1>5, <1>b DEF Stop
  <2>2. QED
    BY <1>c, <2>1 DEF BootInv
<1>6. CASE Restart
  BY <1>6 DEF Restart, BootInv
<1>7. CASE UNCHANGED vars
  BY <1>7 DEF vars, BootInv
<1>8. QED
  <2>1. Receive(Boot) => FALSE
    BY DEF Receive
  <2>2. (Crash \/ AbortStart => Stop) /\ (Finished => UNCHANGED vars)
    BY DEF Crash, AbortStart, Finished
  <2>3. QED
    BY <1>1, <1>2, <1>3, <1>4, <1>5, <1>6, <1>7, <2>1, <2>2 DEF Next

\* Whatever a crash or a failed start left half done in the store, a process that serves
\* has an engine for the default workspace.
THEOREM ServingImpliesDefault == Spec => []ServingEnforcesDefault
<1>1. Init => CacheInv /\ BootInv
  BY ManagerAssumption DEF Init, CacheInv, BootInv, Idle, Call, Threads
<1>2. TypeOK /\ TypeOK' /\ CacheInv /\ [Next]_vars => CacheInv'
  BY CacheInvStep
<1>3. TypeOK /\ TypeOK' /\ CacheInv /\ BootInv /\ [Next]_vars => BootInv'
  BY BootInvStep
<1>4. BootInv => ServingEnforcesDefault
  BY DEF BootInv, ServingEnforcesDefault
<1>5. QED
  BY <1>1, <1>2, <1>3, <1>4, TypeCorrect, PTL DEF Spec
-----------------------------------------------------------------------------
(* One active version, and who may be under way.                           *)

OneActive ==
    \A ws \in Workspaces : \A u, v \in Versions :
        policies[ws][u] = "active" /\ policies[ws][v] = "active" => u = v

\* The admin API is served, or start-up runs, never both.
WhoRuns ==
    /\ proc = "serving" => call[Boot].step = "idle"
    /\ proc # "serving" => \A t \in Admins : call[t].step = "idle"

-----------------------------------------------------------------------------
(* The trail of activations accounts for the active version.               *)

\* The events told, and the calls about to tell one, of activations into and out of v.
ToldInto(ws, v) ==
    {i \in DOMAIN emitted : emitted[i].ws = ws /\ emitted[i].action \in Activations
                              /\ emitted[i].new = v}
ToldOutOf(ws, v) ==
    {i \in DOMAIN emitted : emitted[i].ws = ws /\ emitted[i].action \in Activations
                              /\ emitted[i].prev = v}
Pending(t, ws) ==
    call[t].ws = ws /\ call[t].kind \in Activations /\ call[t].step \in {"swap", "emit"}
PendingInto(ws, v) == {t \in Threads : Pending(t, ws) /\ call[t].version = v}
PendingOutOf(ws, v) == {t \in Threads : Pending(t, ws) /\ call[t].prev = v}

\* What has come into v and what has gone out of it differ by whether it is active.
Balance(ws, v) ==
    Cardinality(ToldInto(ws, v)) + Cardinality(PendingInto(ws, v))
      = Cardinality(ToldOutOf(ws, v)) + Cardinality(PendingOutOf(ws, v))
          + (IF policies[ws][v] = "active" THEN 1 ELSE 0)

\* Version v was made active in workspace ws at some time.
WasActive(ws, v) == v \in Versions /\ policies[ws][v] \in {"active", "historical"}

\* What a call names as its target once it has committed, and as its source once it has read
\* it, was active at some time; so were the two ends of an event.
NamesActive(t) ==
    call[t].kind \in Activations =>
        /\ call[t].step \in {"write", "swap", "emit"} /\ call[t].prev # NoVersion
             => WasActive(call[t].ws, call[t].prev)
        /\ call[t].step \in {"swap", "emit"} => WasActive(call[t].ws, call[t].version)
TellsActive(i) ==
    emitted[i].action \in Activations =>
        /\ emitted[i].prev # NoVersion => WasActive(emitted[i].ws, emitted[i].prev)
        /\ WasActive(emitted[i].ws, emitted[i].new)

\* Some event, or some call on its way to the listener, made v active.
Told(ws, v) == ToldInto(ws, v) # {} \/ PendingInto(ws, v) # {}

TrailInv ==
    /\ OneActive
    /\ WhoRuns
    /\ \A t \in Threads : NamesActive(t)
    /\ \A i \in DOMAIN emitted : TellsActive(i)
    /\ crashes = 0 => \A ws \in Workspaces, v \in Versions :
         /\ WasActive(ws, v) => Told(ws, v)
         /\ ~misread => Balance(ws, v)

-----------------------------------------------------------------------------
(* One admin: what is enforced.                                            *)

\* Start-up has not come to its swap yet: nothing is enforced.
BeforeSwap ==
    \/ proc = "down"
    \/ /\ proc = "starting"
       /\ \/ call[Boot].step \in {"idle", "peek", "read", "write", "swap"}
          \/ call[Boot].step = "emit" /\ call[Boot].kind = "create"

\* What a call that has written, alone, knows until it replies.
Current(t) ==
    /\ call[t].step = "swap" \/ (call[t].step \in {"emit", "reread"} /\ call[t].kind \in Activations)
         => call[t].version \in Versions /\ policies[call[t].ws][call[t].version] = "active"
    /\ call[t].step \in {"swap", "reread"} => call[t].kind \in Activations

\* A call that is to swap the workspace's engine.
Swapping(t, ws) == call[t].step = "swap" /\ call[t].ws = ws

Enforced(ws) ==
    cached[ws] # NoVersion /\ (\A t \in Threads : ~Swapping(t, ws))
      => policies[ws][cached[ws]] = "active"

EnforcedInv ==
    /\ OneActive
    /\ WhoRuns
    /\ BeforeSwap => \A ws \in Workspaces : cached[ws] = NoVersion
    /\ \A t \in Threads : Current(t)
    /\ \A ws \in Workspaces : Enforced(ws)

-----------------------------------------------------------------------------
(* What a reply says.                                                      *)

\* What a workspace once had active it replaced by something else that is.
SomeActive ==
    \A ws \in Workspaces :
        (\E v \in Versions : WasActive(ws, v)) => \E v \in Versions : policies[ws][v] = "active"

\* What the activation of an admin knows until it replies, whoever else activates...
Committed(t) ==
    call[t].kind \in Activations =>
        /\ call[t].step \in {"swap", "emit", "reread", "ok"} => WasActive(call[t].ws, call[t].version)
        /\ call[t].step = "ok" => WasActive(call[t].ws, call[t].reply)

\* ...and what it knows as long as nobody else does.
Alone(t) ==
    /\ call[t].kind \in Activations =>
         /\ call[t].step \in {"swap", "emit", "reread"}
              => policies[call[t].ws][call[t].version] = "active"
         /\ call[t].step = "ok" => call[t].reply = call[t].version
    /\ call[t].kind = "rollback" =>
         /\ call[t].step = "read" => call[t].from \in {GetActivePolicy(call[t].ws), NoVersion}
         /\ call[t].step \in {"write", "swap", "emit", "reread", "ok"}
              => call[t].from \in {call[t].prev, NoVersion}

ReplyInv ==
    /\ OneActive
    /\ SomeActive
    /\ \A t \in Admins : Committed(t) /\ (t \notin overtaken => Alone(t))
-----------------------------------------------------------------------------
(* What a step does to the call that takes it.                             *)

\* The call goes on for the same purpose.
SamePurpose(t) ==
    /\ call'[t].kind = call[t].kind
    /\ call'[t].ws = call[t].ws
    /\ call'[t].version = call[t].version

\* A step of one thread leaves the other calls alone.
LEMMA OthersStay ==
    ASSUME TypeOK, NEW t \in Threads, Receive(t) \/ Step(t), NEW s \in Threads, s # t
    PROVE  call'[s] = call[s]
BY DEF TypeOK, Receive, Step, Peek, ReadTarget, WriteCandidate, WriteActive, Swap, Emit, Reread, Goto

\* A call that only moves to another step.
LEMMA GoesTo ==
    ASSUME TypeOK, NEW t \in Threads, NEW s \in Steps, Goto(t, s)
    PROVE  /\ call'[t].step = s /\ SamePurpose(t)
           /\ call'[t].prev = call[t].prev
           /\ call'[t].from = call[t].from
           /\ call'[t].reply = call[t].reply
<1>1. call[t] \in CallType /\ call' = [call EXCEPT ![t] = [call[t] EXCEPT !.step = s]]
  BY DEF TypeOK, CallType, Goto
<1>2. call'[t] = [call[t] EXCEPT !.step = s]
  BY <1>1 DEF TypeOK
<1>3. QED
  BY <1>1, <1>2 DEF CallType, SamePurpose

\* A call that becomes the record r.
LEMMA TurnsInto ==
    ASSUME TypeOK, NEW t \in Threads, NEW r, call' = [call EXCEPT ![t] = r]
    PROVE  call'[t] = r
BY DEF TypeOK

LEMMA ReceiveFacts ==
    ASSUME TypeOK, NEW t \in Threads, Receive(t)
    PROVE  /\ proc = "serving" /\ t \in Admins /\ call[t].step \in Resting
           /\ call'[t].step \in {"read", "peek", "write", "failed"}
           /\ call'[t].kind = "rollback" => call'[t].step = "peek"
           /\ call'[t].step \in {"write", "failed"} => call'[t].kind = "create"
           /\ UNCHANGED <<policies, cached, proc, emitted, crashes>>
<1>1. PICK kind \in Kinds, ws \in Workspaces, v \in Versions :
        call' = [call EXCEPT ![t] =
                   Call(CASE kind = "activate" -> "read"
                          [] kind = "rollback" -> "peek"
                          [] kind = "create" -> IF v \in Parses THEN "write" ELSE "failed",
                        kind, ws, v)]
  BY DEF Receive
<1> DEFINE first == CASE kind = "activate" -> "read"
                      [] kind = "rollback" -> "peek"
                      [] kind = "create" -> IF v \in Parses THEN "write" ELSE "failed"
<1>2. /\ first \in {"read", "peek", "write", "failed"}
      /\ kind = "rollback" => first = "peek"
      /\ first \in {"write", "failed"} => kind = "create"
  BY DEF Kinds
<1> HIDE DEF first
<1>3. call'[t] = Call(first, kind, ws, v)
  BY <1>1, TurnsInto DEF first
<1>4. call'[t].step = first /\ call'[t].kind = kind
  BY <1>3 DEF Call
<1>5. QED
  BY <1>2, <1>4 DEF Receive

LEMMA PeekFacts ==
    ASSUME TypeOK, NEW t \in Threads, Peek(t)
    PROVE  /\ call[t].step = "peek" /\ call'[t].step = "read" /\ SamePurpose(t)
           /\ call'[t].from \in {GetActivePolicy(call[t].ws), NoVersion}
           /\ UNCHANGED <<policies, cached, proc, emitted, crashes>>
<1>1. PICK from \in {GetActivePolicy(call[t].ws), NoVersion} :
        call' = [call EXCEPT ![t] = [call[t] EXCEPT !.step = "read", !.from = from]]
  BY DEF Peek
<1>2. call[t] \in CallType
  BY DEF TypeOK, CallType
<1>3. call'[t] = [call[t] EXCEPT !.step = "read", !.from = from]
  BY <1>1, TurnsInto
<1>4. call'[t].step = "read" /\ SamePurpose(t) /\ call'[t].from = from
  BY <1>2, <1>3 DEF CallType, SamePurpose
<1>5. QED
  BY <1>4 DEF Peek

LEMMA ReadFacts ==
    ASSUME TypeOK, NEW t \in Threads, ReadTarget(t)
    PROVE  /\ call[t].step = "read" /\ SamePurpose(t) /\ call'[t].from = call[t].from
           /\ \/ call'[t].step = "failed"
              \/ /\ call'[t].step = "write" /\ call[t].version \in Parses
                 /\ call'[t].prev = GetActivePolicy(call[t].ws)
           /\ UNCHANGED <<policies, cached, proc, emitted, crashes, overtaken, misread>>
<1>1. call[t] \in CallType
  BY DEF TypeOK, CallType
<1>2. CASE Goto(t, "failed")
  BY <1>2, GoesTo DEF ReadTarget, history, Steps
<1>3. CASE /\ call[t].version \in Parses
           /\ call' = [call EXCEPT ![t] = [call[t] EXCEPT !.step = "write",
                                                         !.prev = GetActivePolicy(call[t].ws)]]
  <2>1. call'[t] = [call[t] EXCEPT !.step = "write", !.prev = GetActivePolicy(call[t].ws)]
    BY <1>3, TurnsInto
  <2>2. /\ call'[t].step = "write" /\ call'[t].prev = GetActivePolicy(call[t].ws)
        /\ SamePurpose(t) /\ call'[t].from = call[t].from
    BY <1>1, <2>1 DEF CallType, SamePurpose
  <2>3. QED
    BY <1>3, <2>2 DEF ReadTarget, history
<1>4. QED
  BY <1>2, <1>3 DEF ReadTarget

LEMMA CandidateFacts ==
    ASSUME TypeOK, NEW t \in Threads, WriteCandidate(t)
    PROVE  /\ call[t].step = "write" /\ call[t].kind = "create"
           /\ call'[t].ws = call[t].ws
           /\ \/ call'[t].kind = "create" /\ call'[t].step \in {"emit", "failed", "ok"}
              \/ t = Boot /\ call'[t].kind = "activate" /\ call'[t].step = "read"
           /\ t = Boot => call'[t].step \in {"emit", "read"}
           /\ CreatePolicy(call[t].ws, call[t].version) \/ UNCHANGED policies
           /\ UNCHANGED <<cached, proc, emitted, crashes>>
<1>1. PICK step \in {"emit", "failed", "ok"} :
        call' = [call EXCEPT ![t] = IF t = Boot /\ step # "emit"
                                    THEN Call("read", "activate", call[t].ws, call[t].version)
                                    ELSE [call[t] EXCEPT !.step = step]]
  BY DEF WriteCandidate
<1>2. call[t] \in CallType
  BY DEF TypeOK, CallType
<1>3. call'[t] = IF t = Boot /\ step # "emit"
                 THEN Call("read", "activate", call[t].ws, call[t].version)
                 ELSE [call[t] EXCEPT !.step = step]
  BY <1>1, TurnsInto
<1>4. call[t].step = "write" /\ call[t].kind = "create"
  BY DEF WriteCandidate
<1>5. CASE t = Boot /\ step # "emit"
  BY <1>3, <1>4, <1>5 DEF Call, WriteCandidate
<1>6. CASE ~(t = Boot /\ step # "emit")
  <2>1. call'[t] = [call[t] EXCEPT !.step = step]
    BY <1>3, <1>6
  <2>2. call'[t].kind = "create" /\ call'[t].step = step /\ call'[t].ws = call[t].ws
    BY <1>2, <1>4, <2>1 DEF CallType
  <2>3. QED
    BY <1>4, <1>6, <2>2 DEF WriteCandidate
<1>7. QED
  BY <1>5, <1>6

\* The store replaces the active version by the one the call names.
Replaces(t) ==
    /\ Stored(call[t].ws, call[t].version)
    /\ policies' = [policies EXCEPT ![call[t].ws] = Replaced(@, call[t].version)]

\* The commit of an activation, and what it makes of the calls of the others.
Commits(t) ==
    /\ Replaces(t)
    /\ overtaken' = overtaken \cup {u \in Threads \ {t} : call[u].ws = call[t].ws}
    /\ misread' = (misread \/ call[t].prev # GetActivePolicy(call[t].ws))

LEMMA ActiveFacts ==
    ASSUME TypeOK, NEW t \in Threads, WriteActive(t)
    PROVE  /\ call[t].step = "write" /\ call[t].kind \in Activations /\ SamePurpose(t)
           /\ call'[t].from = call[t].from /\ call'[t].prev = call[t].prev
           /\ \/ call'[t].step = "swap" /\ Commits(t)
              \/ call'[t].step = "failed" /\ UNCHANGED <<policies, overtaken, misread>>
              \/ call'[t].step = "failed" /\ Commits(t) /\ "unknown" \in OutcomesOf(t)
           /\ UNCHANGED <<cached, proc, emitted, crashes>>
<1>1. CommitActive(t) => Commits(t)
  BY DEF CommitActive, ActivatePolicy, RollbackPolicy, Replaces, Commits
<1>2. \A s \in {"swap", "failed"} : Goto(t, s) =>
        /\ call'[t].step = s /\ SamePurpose(t)
        /\ call'[t].from = call[t].from /\ call'[t].prev = call[t].prev
  BY GoesTo DEF Steps
<1>3. QED
  BY <1>1, <1>2 DEF WriteActive, Activations, history

LEMMA SwapFacts ==
    ASSUME TypeOK, NEW t \in Threads, Swap(t)
    PROVE  /\ call[t].step = "swap" /\ call'[t].step = "emit" /\ SamePurpose(t)
           /\ call'[t].from = call[t].from /\ call'[t].prev = call[t].prev
           /\ cached' = [cached EXCEPT ![call[t].ws] = call[t].version]
           /\ UNCHANGED <<policies, proc, emitted, crashes>>
BY GoesTo DEF Swap, Steps

LEMMA EmitFacts ==
    ASSUME TypeOK, NEW t \in Threads, Emit(t)
    PROVE  /\ call[t].step = "emit"
           /\ call'[t].ws = call[t].ws
           /\ call[t].kind # "create" =>
                /\ call'[t].step = "reread" /\ SamePurpose(t)
                /\ call'[t].from = call[t].from /\ call'[t].prev = call[t].prev
           /\ call[t].kind = "create" =>
                \/ call'[t].step = "ok" /\ call'[t].kind = "create"
                \/ t = Boot /\ call'[t].step = "read" /\ call'[t].kind = "activate"
           /\ call[t].kind = "create" /\ t = Boot => call'[t].step = "read"
           /\ emitted' = Append(emitted, Event(call[t]))
           /\ UNCHANGED <<policies, cached, proc, crashes>>
<1>1. call[t] \in CallType
  BY DEF TypeOK, CallType
<1>2. call'[t] = IF call[t].kind # "create" THEN [call[t] EXCEPT !.step = "reread"]
                 ELSE IF t = Boot THEN Call("read", "activate", call[t].ws, call[t].version)
                 ELSE [call[t] EXCEPT !.step = "ok"]
  BY TurnsInto DEF Emit
<1>3. CASE call[t].kind # "create"
  BY <1>1, <1>2, <1>3 DEF CallType, SamePurpose, Emit
<1>4. CASE call[t].kind = "create" /\ t = Boot
  BY <1>2, <1>4 DEF Call, Emit
<1>5. CASE call[t].kind = "create" /\ t # Boot
  BY <1>1, <1>2, <1>5 DEF CallType, Emit
<1>6. QED
  BY <1>3, <1>4, <1>5

LEMMA RereadFacts ==
    ASSUME TypeOK, NEW t \in Threads, Reread(t)
    PROVE  /\ call[t].step = "reread" /\ call'[t].step \in {"ok", "failed"} /\ SamePurpose(t)
           /\ call'[t].from = call[t].from /\ call'[t].prev = call[t].prev
           /\ call'[t].step = "ok" => call'[t].reply = GetActivePolicy(call[t].ws)
           /\ UNCHANGED <<policies, cached, proc, emitted, crashes>>
<1>1. call[t] \in CallType
  BY DEF TypeOK, CallType
<1>2. CASE Goto(t, "failed")
  BY <1>2, GoesTo DEF Reread, Steps
<1>3. CASE call' = [call EXCEPT ![t] = [call[t] EXCEPT !.step = "ok",
                                                       !.reply = GetActivePolicy(call[t].ws)]]
  <2>1. call'[t] = [call[t] EXCEPT !.step = "ok", !.reply = GetActivePolicy(call[t].ws)]
    BY <1>3, TurnsInto
  <2>2. QED
    BY <1>1, <2>1 DEF CallType, SamePurpose, Reread
<1>4. QED
  BY <1>2, <1>3 DEF Reread

\* Only a call that arrives, a commit and the end of the process touch the history.
LEMMA HistoryStays ==
    ASSUME NEW t \in Threads,
           \/ Peek(t) \/ ReadTarget(t) \/ WriteCandidate(t) \/ Swap(t) \/ Emit(t) \/ Reread(t)
           \/ Hydrate \/ Serve \/ Restart \/ UNCHANGED vars
    PROVE  UNCHANGED <<overtaken, misread>>
BY DEF Peek, ReadTarget, WriteCandidate, Swap, Emit, Reread, Hydrate, Serve, Restart, vars, history
-----------------------------------------------------------------------------
(* Which row is active.                                                    *)

Active(ws, v) == policies[ws][v] = "active"

\* With one active row at most, it is the one GetActivePolicy returns.
LEMMA ActiveIs ==
    ASSUME OneActive, NEW ws \in Workspaces, NEW v \in Versions
    PROVE  GetActivePolicy(ws) = v <=> Active(ws, v)
<1>1. CASE \E u \in Versions : policies[ws][u] = "active"
  <2>1. GetActivePolicy(ws) \in Versions /\ policies[ws][GetActivePolicy(ws)] = "active"
    BY <1>1 DEF GetActivePolicy
  <2>2. QED
    BY <2>1 DEF OneActive, Active
<1>2. CASE ~\E u \in Versions : policies[ws][u] = "active"
  BY <1>2, NoVersionAssumption DEF GetActivePolicy, Active
<1>3. QED
  BY <1>1, <1>2

\* A new candidate is not active.
LEMMA CreateActive ==
    ASSUME StoreTypeOK, NEW ws \in Workspaces, NEW v, CreatePolicy(ws, v)
    PROVE  \A w \in Workspaces, u \in Versions : Active(w, u)' <=> Active(w, u)
<1>1. v \in Versions => policies[ws][v] = "absent"
  BY DEF CreatePolicy, Stored
<1>2. policies' = [policies EXCEPT ![ws] = [policies[ws] EXCEPT ![v] = "candidate"]]
  BY DEF CreatePolicy
<1>3. QED
  BY <1>1, <1>2 DEF StoreTypeOK, Active

\* What replaces the active version is the one active row afterwards, and was stored.
LEMMA ReplaceActive ==
    ASSUME TypeOK, NEW t \in Threads, Replaces(t)
    PROVE  /\ call[t].ws \in Workspaces /\ call[t].version \in Versions
           /\ \A w \in Workspaces, u \in Versions :
                Active(w, u)' <=> IF w = call[t].ws THEN u = call[t].version ELSE Active(w, u)
<1>1. call[t].ws \in Workspaces
  BY DEF TypeOK
<1>2. policies' = [policies EXCEPT ![call[t].ws] = Replaced(policies[call[t].ws], call[t].version)]
  BY DEF Replaces
<1>3. /\ policies'[call[t].ws] = Replaced(policies[call[t].ws], call[t].version)
      /\ \A w \in Workspaces : w # call[t].ws => policies'[w] = policies[w]
  BY <1>1, <1>2 DEF TypeOK, StoreTypeOK
<1>4. QED
  BY <1>1, <1>3 DEF Active, Replaced, Replaces, Stored

\* A step either leaves it alone which rows are active, or is an activation that commits.
LEMMA ActiveMoves ==
    ASSUME TypeOK, [Next]_vars
    PROVE  \/ \A w \in Workspaces, u \in Versions : Active(w, u)' <=> Active(w, u)
           \/ \E t \in Threads : WriteActive(t) /\ Replaces(t)
<1>1. ASSUME NEW t \in Threads, WriteCandidate(t)
      PROVE  \A w \in Workspaces, u \in Versions : Active(w, u)' <=> Active(w, u)
  <2>1. call[t].ws \in Workspaces /\ StoreTypeOK
    BY DEF TypeOK
  <2>2. CASE UNCHANGED policies
    BY <2>2 DEF Active
  <2>3. CASE CreatePolicy(call[t].ws, call[t].version)
    BY <2>1, <2>3, CreateActive
  <2>4. QED
    BY <1>1, <2>2, <2>3, CandidateFacts
<1>2. ASSUME NEW t \in Threads, WriteActive(t)
      PROVE  UNCHANGED policies \/ Replaces(t)
  BY <1>2, ActiveFacts DEF Commits
<1>3. ASSUME UNCHANGED policies
      PROVE  \A w \in Workspaces, u \in Versions : Active(w, u)' <=> Active(w, u)
  BY <1>3 DEF Active
<1>4. QED
  BY <1>1, <1>2, <1>3 DEF Next, Step, vars, Receive, Peek, ReadTarget, Swap, Emit, Reread, Hydrate,
                         Serve, Crash, AbortStart, Stop, Restart, Finished

\* A step never takes it back that a version was active, and only a commit adds one that was.
LEMMA WasActiveMoves ==
    ASSUME TypeOK, [Next]_vars, NEW ws \in Workspaces, NEW v \in Versions
    PROVE  /\ WasActive(ws, v) => WasActive(ws, v)'
           /\ WasActive(ws, v)' /\ ~WasActive(ws, v) =>
                \E t \in Threads : /\ WriteActive(t) /\ Replaces(t)
                                   /\ ws = call[t].ws /\ v = call[t].version
<1>1. WasActive(ws, v) => WasActive(ws, v)'
  BY StepKeepsRows DEF WasActive, RowsOnlyAdvance
<1>2. ASSUME NEW t \in Threads, WriteCandidate(t) PROVE WasActive(ws, v)' => WasActive(ws, v)
  <2>1. call[t].ws \in Workspaces /\ StoreTypeOK
    BY DEF TypeOK
  <2>2. CASE UNCHANGED policies
    BY <2>2 DEF WasActive
  <2>3. CASE CreatePolicy(call[t].ws, call[t].version)
    <3>1. policies' = [policies EXCEPT ![call[t].ws] =
                         [policies[call[t].ws] EXCEPT ![call[t].version] = "candidate"]]
      BY <2>3 DEF CreatePolicy
    <3>2. policies'[ws][v] = policies[ws][v] \/ policies'[ws][v] = "candidate"
      BY <2>1, <3>1 DEF StoreTypeOK
    <3>3. QED
      BY <3>2 DEF WasActive
  <2>4. QED
    BY <1>2, <2>2, <2>3, CandidateFacts
<1>3. ASSUME NEW t \in Threads, WriteActive(t)
      PROVE  \/ WasActive(ws, v)' => WasActive(ws, v)
             \/ Replaces(t) /\ ws = call[t].ws /\ v = call[t].version
  <2>1. UNCHANGED policies \/ Replaces(t)
    BY <1>3, ActiveFacts DEF Commits
  <2>2. CASE UNCHANGED policies
    BY <2>2 DEF WasActive
  <2>3. CASE Replaces(t) /\ ws # call[t].ws
    <3>1. call[t].ws \in Workspaces /\ StoreTypeOK
      BY DEF TypeOK
    <3>2. policies'[ws] = policies[ws]
      BY <2>3, <3>1 DEF Replaces, StoreTypeOK
    <3>3. QED
      BY <3>2 DEF WasActive
  <2>4. CASE Replaces(t) /\ ws = call[t].ws /\ v # call[t].version
    <3>1. policies' = [policies EXCEPT ![ws] = Replaced(policies[ws], call[t].version)]
      BY <2>4 DEF Replaces
    <3>2. policies'[ws] = Replaced(policies[ws], call[t].version)
      BY <3>1 DEF TypeOK, StoreTypeOK
    <3>3. policies'[ws][v] = IF policies[ws][v] = "active" THEN "historical" ELSE policies[ws][v]
      BY <2>4, <3>2 DEF Replaced
    <3>4. QED
      BY <3>3 DEF WasActive
  <2>5. QED
    BY <2>1, <2>2, <2>3, <2>4
<1>4. UNCHANGED policies => (WasActive(ws, v)' => WasActive(ws, v))
  BY DEF WasActive
<1>5. \/ UNCHANGED policies
      \/ \E t \in Threads : WriteCandidate(t) \/ WriteActive(t)
  BY DEF Next, Step, vars, Receive, Peek, ReadTarget, Swap, Emit, Reread, Hydrate,
         Serve, Crash, AbortStart, Stop, Restart, Finished
<1>6. QED
  BY <1>1, <1>2, <1>3, <1>4, <1>5

LEMMA OneActiveStep ==
    ASSUME TypeOK, OneActive, [Next]_vars
    PROVE  OneActive'
<1>1. CASE \A w \in Workspaces, u \in Versions : Active(w, u)' <=> Active(w, u)
  BY <1>1 DEF OneActive, Active
<1>2. ASSUME NEW t \in Threads, Replaces(t) PROVE OneActive'
  BY <1>2, ReplaceActive DEF OneActive, Active
<1>3. QED
  BY <1>1, <1>2, ActiveMoves

\* Admins only call a process that serves, and start-up is over before it does.
LEMMA WhoRunsStep ==
    ASSUME TypeOK, WhoRuns, [Next]_vars
    PROVE  WhoRuns'
<1> USE ManagerAssumption
<1>a. Boot \in Threads /\ Admins \subseteq Threads
  BY DEF Threads
<1>b. Idle.step = "idle"
  BY DEF Idle, Call
<1>1. ASSUME NEW t \in Threads, Receive(t) PROVE WhoRuns'
  <2>1. proc = "serving" /\ t \in Admins /\ UNCHANGED proc
    BY <1>1, ReceiveFacts
  <2>2. call'[Boot] = call[Boot]
    BY <1>1, <1>a, <2>1, OthersStay
  <2>3. QED
    BY <2>1, <2>2 DEF WhoRuns
<1>2. ASSUME NEW t \in Threads, Step(t) PROVE WhoRuns'
  <2>1. UNCHANGED proc /\ call[t].step # "idle"
    BY <1>2 DEF Step, Peek, ReadTarget, WriteCandidate, WriteActive, Swap, Emit, Reread
  <2>2. \A s \in Threads : s # t => call'[s] = call[s]
    BY <1>2, OthersStay
  <2>3. QED
    BY <1>a, <2>1, <2>2 DEF WhoRuns
<1>3. CASE Hydrate
  <2>1. \A s \in Admins : call'[s] = call[s]
    BY <1>3, <1>a DEF Hydrate, TypeOK
  <2>2. QED
    BY <1>3, <2>1 DEF Hydrate, WhoRuns
<1>4. CASE Serve
  <2>1. call'[Boot] = Idle
    BY <1>4, <1>a DEF Serve, TypeOK
  <2>2. QED
    BY <1>4, <1>b, <2>1 DEF Serve, WhoRuns
<1>5. CASE Stop
  BY <1>5, <1>a, <1>b DEF Stop, WhoRuns
<1>6. CASE Restart \/ UNCHANGED vars
  BY <1>6 DEF Restart, vars, WhoRuns
<1>7. QED
  BY <1>1, <1>2, <1>3, <1>4, <1>5, <1>6 DEF Next, Crash, AbortStart, Finished

\* Start-up and its end leave no call on its way, and the store as it is.
LEMMA ProcessCalls ==
    ASSUME TypeOK, Hydrate \/ Serve \/ Stop
    PROVE  /\ \A t \in Threads : \/ call'[t] = call[t] /\ ~Stop
                                 \/ call'[t].step \in {"idle", "write"} /\ call'[t].kind = "create"
           /\ Hydrate \/ Serve => \A t \in Threads : t # Boot => call'[t] = call[t]
           /\ UNCHANGED policies
<1>1. Boot \in Threads /\ Idle.step = "idle" /\ Idle.kind = "create"
  BY DEF Threads, Idle, Call
<1>2. CASE Hydrate
  <2>1. call'[Boot] = call[Boot] \/ call'[Boot] = Call("write", "create", Default, Baseline)
    BY <1>1, <1>2 DEF Hydrate, TypeOK
  <2>2. \A t \in Threads : t # Boot => call'[t] = call[t]
    BY <1>2 DEF Hydrate, TypeOK
  <2>3. ~Stop
    BY <1>2 DEF Hydrate, Stop
  <2>4. QED
    BY <1>2, <2>1, <2>2, <2>3 DEF Hydrate, Call
<1>3. CASE Serve
  <2>1. call'[Boot] = Idle /\ \A t \in Threads : t # Boot => call'[t] = call[t]
    BY <1>1, <1>3 DEF Serve, TypeOK
  <2>2. ~Stop
    BY <1>3 DEF Serve, Stop
  <2>3. QED
    BY <1>1, <1>3, <2>1, <2>2 DEF Serve
<1>4. CASE Stop
  <2>1. \A t \in Threads : call'[t] = Idle
    BY <1>4 DEF Stop
  <2>2. ~Hydrate /\ ~Serve
    BY <1>4 DEF Hydrate, Serve, Stop
  <2>3. QED
    BY <1>1, <1>4, <2>1, <2>2 DEF Stop
<1>5. QED
  BY <1>2, <1>3, <1>4
-----------------------------------------------------------------------------
(* Counting the trail.                                                     *)

\* The four sets of Balance are finite.
LEMMA TrailIsFinite ==
    ASSUME TypeOK, NEW ws, NEW v
    PROVE  /\ IsFiniteSet(ToldInto(ws, v)) /\ Cardinality(ToldInto(ws, v)) \in Nat
           /\ IsFiniteSet(ToldOutOf(ws, v)) /\ Cardinality(ToldOutOf(ws, v)) \in Nat
           /\ IsFiniteSet(PendingInto(ws, v)) /\ Cardinality(PendingInto(ws, v)) \in Nat
           /\ IsFiniteSet(PendingOutOf(ws, v)) /\ Cardinality(PendingOutOf(ws, v)) \in Nat
<1>1. IsFiniteSet(Threads)
  BY ManagerAssumption, FS_AddElement DEF Threads
<1>2. IsFiniteSet(DOMAIN emitted)
  <2>1. Len(emitted) \in Nat /\ DOMAIN emitted = 1..Len(emitted)
    BY DEF TypeOK
  <2>2. QED
    BY <2>1, FS_Interval
<1>3. ToldInto(ws, v) \subseteq DOMAIN emitted /\ ToldOutOf(ws, v) \subseteq DOMAIN emitted
  BY DEF ToldInto, ToldOutOf
<1>4. PendingInto(ws, v) \subseteq Threads /\ PendingOutOf(ws, v) \subseteq Threads
  BY DEF PendingInto, PendingOutOf
<1>5. ASSUME NEW S, IsFiniteSet(S), NEW T \in SUBSET S
      PROVE  IsFiniteSet(T) /\ Cardinality(T) \in Nat
  BY <1>5, FS_Subset, FS_CardinalityType
<1>6. QED
  BY <1>1, <1>2, <1>3, <1>4, <1>5

\* Handing one element over from one set to another leaves the sum of their sizes.
LEMMA Handover ==
    ASSUME NEW S, NEW T, IsFiniteSet(S), IsFiniteSet(T), NEW i, i \notin S, NEW t, t \in T
    PROVE  Cardinality(S \cup {i}) + Cardinality(T \ {t}) = Cardinality(S) + Cardinality(T)
<1>1. Cardinality(S) \in Nat /\ Cardinality(T) \in Nat
  BY FS_CardinalityType
<1>2. Cardinality(S \cup {i}) = Cardinality(S) + 1
  BY FS_AddElement
<1>3. Cardinality(T \ {t}) = Cardinality(T) - 1
  BY FS_RemoveElement
<1>4. QED
  BY <1>1, <1>2, <1>3

\* A thread whose call comes neither on its way to the listener nor off it.
PendingKept(t) ==
    \A ws \in Workspaces :
        /\ Pending(t, ws)' <=> Pending(t, ws)
        /\ Pending(t, ws) => call'[t].version = call[t].version /\ call'[t].prev = call[t].prev

\* The pending sets stay what they are.
LEMMA PendingStays ==
    ASSUME \A t \in Threads : PendingKept(t), NEW ws \in Workspaces, NEW v \in Versions
    PROVE  PendingInto(ws, v)' = PendingInto(ws, v) /\ PendingOutOf(ws, v)' = PendingOutOf(ws, v)
BY DEF PendingKept, PendingInto, PendingOutOf

\* Nothing is told and nothing comes on its way.
LEMMA BalanceStays ==
    ASSUME UNCHANGED emitted, \A t \in Threads : PendingKept(t),
           NEW ws \in Workspaces, NEW v \in Versions, Active(ws, v)' <=> Active(ws, v),
           Balance(ws, v)
    PROVE  Balance(ws, v)'
<1>1. PendingInto(ws, v)' = PendingInto(ws, v) /\ PendingOutOf(ws, v)' = PendingOutOf(ws, v)
  BY PendingStays
<1>2. ToldInto(ws, v)' = ToldInto(ws, v) /\ ToldOutOf(ws, v)' = ToldOutOf(ws, v)
  BY DEF ToldInto, ToldOutOf
<1>3. QED
  BY <1>1, <1>2 DEF Balance, Active

(***************************************************************************)
(* A committed activation that read what it replaces: the call comes on    *)
(* its way with what it has made active as its target and what was active  *)
(* before as its source.                                                   *)
(***************************************************************************)
LEMMA BalanceCommit ==
    ASSUME TypeOK, OneActive, NEW t \in Threads, WriteActive(t), Replaces(t),
           call'[t].step = "swap", call[t].prev = GetActivePolicy(call[t].ws),
           NEW ws \in Workspaces, NEW v \in Versions, Balance(ws, v)
    PROVE  Balance(ws, v)'
<1>1. /\ call[t].step = "write" /\ call[t].kind \in Activations /\ SamePurpose(t)
      /\ call'[t].prev = GetActivePolicy(call[t].ws)
      /\ UNCHANGED emitted
  BY ActiveFacts
<1>2. \A s \in Threads : s # t => call'[s] = call[s]
  BY OthersStay DEF Step
<1>3. ~Pending(t, ws) /\ (Pending(t, ws)' <=> call[t].ws = ws)
  BY <1>1 DEF Pending, SamePurpose
<1>4. ToldInto(ws, v)' = ToldInto(ws, v) /\ ToldOutOf(ws, v)' = ToldOutOf(ws, v)
  BY <1>1 DEF ToldInto, ToldOutOf
<1>5. t \notin PendingInto(ws, v) /\ t \notin PendingOutOf(ws, v)
  BY <1>3 DEF PendingInto, PendingOutOf
<1>6. Active(ws, v)' <=> IF ws = call[t].ws THEN v = call[t].version ELSE Active(ws, v)
  BY ReplaceActive
<1> DEFINE into == Cardinality(PendingInto(ws, v))
           out == Cardinality(PendingOutOf(ws, v))
<1>7. Cardinality(PendingInto(ws, v)') = IF ws = call[t].ws /\ v = call[t].version
                                         THEN into + 1 ELSE into
  <2>1. CASE ws = call[t].ws /\ v = call[t].version
    <3>1. PendingInto(ws, v)' = PendingInto(ws, v) \cup {t}
      BY <1>1, <1>2, <1>3, <2>1 DEF PendingInto, Pending, SamePurpose
    <3>2. Cardinality(PendingInto(ws, v) \cup {t}) = into + 1
      BY <1>5, TrailIsFinite, FS_AddElement
    <3>3. QED
      BY <2>1, <3>1, <3>2, Zenon
  <2>2. CASE ~(ws = call[t].ws /\ v = call[t].version)
    <3>1. PendingInto(ws, v)' = PendingInto(ws, v)
      BY <1>1, <1>2, <1>3, <2>2 DEF PendingInto, Pending, SamePurpose
    <3>2. QED
      BY <2>2, <3>1, Zenon
  <2>3. QED
    BY <2>1, <2>2
<1>8. Cardinality(PendingOutOf(ws, v)') = IF ws = call[t].ws /\ Active(ws, v)
                                          THEN out + 1 ELSE out
  <2>1. ws = call[t].ws => (call'[t].prev = v <=> Active(ws, v))
    BY <1>1, ActiveIs
  <2>2. CASE ws = call[t].ws /\ Active(ws, v)
    <3>1. PendingOutOf(ws, v)' = PendingOutOf(ws, v) \cup {t}
      BY <1>1, <1>2, <1>3, <2>1, <2>2 DEF PendingOutOf, Pending
    <3>2. Cardinality(PendingOutOf(ws, v) \cup {t}) = out + 1
      BY <1>5, TrailIsFinite, FS_AddElement
    <3>3. QED
      BY <2>2, <3>1, <3>2, Zenon
  <2>3. CASE ~(ws = call[t].ws /\ Active(ws, v))
    <3>1. PendingOutOf(ws, v)' = PendingOutOf(ws, v)
      BY <1>1, <1>2, <1>3, <2>1, <2>3 DEF PendingOutOf, Pending
    <3>2. QED
      BY <2>3, <3>1, Zenon
  <2>4. QED
    BY <2>2, <2>3
<1>9. /\ into \in Nat /\ out \in Nat
      /\ Cardinality(ToldInto(ws, v)) \in Nat /\ Cardinality(ToldOutOf(ws, v)) \in Nat
  BY TrailIsFinite
<1>10. Cardinality(ToldInto(ws, v)) + into
         = Cardinality(ToldOutOf(ws, v)) + out + (IF Active(ws, v) THEN 1 ELSE 0)
  BY DEF Balance, Active
<1>11. Cardinality(ToldInto(ws, v)) + Cardinality(PendingInto(ws, v)')
         = Cardinality(ToldOutOf(ws, v)) + Cardinality(PendingOutOf(ws, v)')
             + (IF Active(ws, v)' THEN 1 ELSE 0)
  <2> HIDE DEF into, out, Active
  <2>1. QED
    BY <1>6, <1>7, <1>8, <1>9, <1>10
<1>12. QED
  BY <1>4, <1>11 DEF Balance, Active

\* The event of a call joins the trail as the last one.
LEMMA TrailGrows ==
    ASSUME TypeOK, NEW t \in Threads, Emit(t)
    PROVE  /\ Len(emitted) + 1 \notin DOMAIN emitted
           /\ DOMAIN emitted' = DOMAIN emitted \cup {Len(emitted) + 1}
           /\ \A i \in DOMAIN emitted : emitted'[i] = emitted[i]
           /\ emitted'[Len(emitted) + 1] = Event(call[t])
<1>1. call[t] \in CallType /\ emitted \in Seq(EventType)
  BY DEF TypeOK, CallType, EventType
<1>2. Event(call[t]) \in EventType
  BY <1>1 DEF Event, CallType, EventType
<1>3. emitted' = Append(emitted, Event(call[t]))
  BY EmitFacts
<1>4. QED
  BY <1>1, <1>2, <1>3, AppendProperties

(***************************************************************************)
(* Telling an activation hands it over from the calls on their way to the  *)
(* trail, with the same source and target.                                 *)
(***************************************************************************)
LEMMA BalanceEmit ==
    ASSUME TypeOK, NEW t \in Threads, Emit(t),
           NEW ws \in Workspaces, NEW v \in Versions, Balance(ws, v)
    PROVE  Balance(ws, v)'
<1> DEFINE n == Len(emitted) + 1
           c == call[t]
           mine == c.ws = ws /\ c.kind \in Activations
<1>1. /\ n \notin DOMAIN emitted
      /\ DOMAIN emitted' = DOMAIN emitted \cup {n}
      /\ \A i \in DOMAIN emitted : emitted'[i] = emitted[i]
      /\ emitted'[n] = Event(c)
  BY TrailGrows
<1>2. /\ emitted'[n].ws = c.ws /\ emitted'[n].action = c.kind
      /\ emitted'[n].new = c.version /\ emitted'[n].prev = c.prev
  BY <1>1 DEF Event
<1>3. /\ c.step = "emit" /\ call'[t].step \notin {"swap", "emit"}
      /\ UNCHANGED policies
  BY EmitFacts
<1>4. \A s \in Threads : s # t => call'[s] = call[s]
  BY OthersStay DEF Step
<1>5. (Pending(t, ws) <=> mine) /\ ~Pending(t, ws)'
  BY <1>3 DEF Pending
<1> HIDE DEF n
<1>6. ASSUME NEW S, NEW T, NEW S2, NEW T2, IsFiniteSet(S), IsFiniteSet(T),
             \/ S2 = S /\ T2 = T
             \/ n \notin S /\ t \in T /\ S2 = S \cup {n} /\ T2 = T \ {t}
      PROVE  Cardinality(S2) + Cardinality(T2) = Cardinality(S) + Cardinality(T)
  <2>1. CASE S2 = S /\ T2 = T
    BY <2>1, Zenon
  <2>2. CASE n \notin S /\ t \in T /\ S2 = S \cup {n} /\ T2 = T \ {t}
    <3>1. Cardinality(S \cup {n}) + Cardinality(T \ {t}) = Cardinality(S) + Cardinality(T)
      BY <1>6, <2>2, Handover
    <3>2. QED
      BY <2>2, <3>1, Zenon
  <2>3. QED
    BY <1>6, <2>1, <2>2
<1>7. Cardinality(ToldInto(ws, v)') + Cardinality(PendingInto(ws, v)')
        = Cardinality(ToldInto(ws, v)) + Cardinality(PendingInto(ws, v))
  <2>1. CASE mine /\ c.version = v
    <3>1. /\ n \notin ToldInto(ws, v)
          /\ ToldInto(ws, v)' = ToldInto(ws, v) \cup {n}
      BY <1>1, <1>2, <2>1 DEF ToldInto
    <3>2. t \in PendingInto(ws, v) /\ PendingInto(ws, v)' = PendingInto(ws, v) \ {t}
      BY <1>4, <1>5, <2>1 DEF PendingInto, Pending
    <3>3. QED
      BY <1>6, <3>1, <3>2, TrailIsFinite
  <2>2. CASE ~(mine /\ c.version = v)
    <3>1. ToldInto(ws, v)' = ToldInto(ws, v)
      BY <1>1, <1>2, <2>2 DEF ToldInto
    <3>2. PendingInto(ws, v)' = PendingInto(ws, v)
      BY <1>4, <1>5, <2>2 DEF PendingInto, Pending
    <3>3. QED
      BY <1>6, <3>1, <3>2, TrailIsFinite
  <2>3. QED
    BY <2>1, <2>2
<1>8. Cardinality(ToldOutOf(ws, v)') + Cardinality(PendingOutOf(ws, v)')
        = Cardinality(ToldOutOf(ws, v)) + Cardinality(PendingOutOf(ws, v))
  <2>1. CASE mine /\ c.prev = v
    <3>1. /\ n \notin ToldOutOf(ws, v)
          /\ ToldOutOf(ws, v)' = ToldOutOf(ws, v) \cup {n}
      BY <1>1, <1>2, <2>1 DEF ToldOutOf
    <3>2. t \in PendingOutOf(ws, v) /\ PendingOutOf(ws, v)' = PendingOutOf(ws, v) \ {t}
      BY <1>4, <1>5, <2>1 DEF PendingOutOf, Pending
    <3>3. QED
      BY <1>6, <3>1, <3>2, TrailIsFinite
  <2>2. CASE ~(mine /\ c.prev = v)
    <3>1. ToldOutOf(ws, v)' = ToldOutOf(ws, v)
      BY <1>1, <1>2, <2>2 DEF ToldOutOf
    <3>2. PendingOutOf(ws, v)' = PendingOutOf(ws, v)
      BY <1>4, <1>5, <2>2 DEF PendingOutOf, Pending
    <3>3. QED
      BY <1>6, <3>1, <3>2, TrailIsFinite
  <2>3. QED
    BY <2>1, <2>2
<1>9. QED
  BY <1>3, <1>7, <1>8 DEF Balance
\* Every step but a committed activation and the listener's leaves what is on its way alone.
LEMMA StepPending ==
    ASSUME TypeOK, NEW t \in Threads, Receive(t) \/ Step(t), ~Emit(t),
           ~(WriteActive(t) /\ call'[t].step = "swap")
    PROVE  UNCHANGED emitted /\ \A s \in Threads : PendingKept(s)
<1>1. UNCHANGED emitted /\ PendingKept(t)
  <2>1. CASE Receive(t)
    BY <2>1, ReceiveFacts DEF PendingKept, Pending, Resting
  <2>2. CASE Peek(t)
    BY <2>2, PeekFacts DEF PendingKept, Pending
  <2>3. CASE ReadTarget(t)
    BY <2>3, ReadFacts DEF PendingKept, Pending
  <2>4. CASE WriteCandidate(t)
    BY <2>4, CandidateFacts DEF PendingKept, Pending, Activations
  <2>5. CASE WriteActive(t)
    BY <2>5, ActiveFacts DEF PendingKept, Pending
  <2>6. CASE Swap(t)
    BY <2>6, SwapFacts DEF PendingKept, Pending, SamePurpose
  <2>7. CASE Reread(t)
    BY <2>7, RereadFacts DEF PendingKept, Pending
  <2>8. QED
    BY <2>1, <2>2, <2>3, <2>4, <2>5, <2>6, <2>7 DEF Step
<1>2. ASSUME NEW s \in Threads, s # t PROVE PendingKept(s)
  BY <1>2, OthersStay DEF PendingKept, Pending
<1>3. QED
  BY <1>1, <1>2

\* Start-up and its end find nobody on the way.
LEMMA ProcessPending ==
    ASSUME TypeOK, WhoRuns, Hydrate \/ Serve \/ AbortStart \/ Restart \/ UNCHANGED vars
    PROVE  UNCHANGED <<emitted, crashes>> /\ \A s \in Threads : PendingKept(s)
<1> USE ManagerAssumption
<1>a. Boot \in Threads /\ Threads = Admins \cup {Boot}
  BY DEF Threads
<1>b. Idle.step = "idle"
  BY DEF Idle, Call
<1>1. CASE Hydrate
  <2>1. call'[Boot] = call[Boot] \/ call'[Boot] = Call("write", "create", Default, Baseline)
    BY <1>1, <1>a DEF Hydrate, TypeOK
  <2>2. \A s \in Threads : s # Boot => call'[s] = call[s]
    BY <1>1 DEF Hydrate, TypeOK
  <2>3. call[Boot].step = "idle" /\ call'[Boot].step \in {"idle", "write"}
    BY <1>1, <2>1 DEF Hydrate, Call
  <2>4. QED
    BY <1>1, <2>2, <2>3 DEF Hydrate, PendingKept, Pending
<1>2. CASE Serve
  <2>1. call'[Boot] = Idle /\ \A s \in Threads : s # Boot => call'[s] = call[s]
    BY <1>2, <1>a DEF Serve, TypeOK
  <2>2. QED
    BY <1>2, <1>b, <2>1 DEF Serve, PendingKept, Pending
<1>3. CASE AbortStart
  <2>1. \A s \in Threads : call[s].step \in {"idle", "failed"}
    BY <1>3, <1>a DEF AbortStart, WhoRuns
  <2>2. \A s \in Threads : call'[s].step = "idle"
    BY <1>3, <1>b DEF AbortStart, Stop
  <2>3. QED
    BY <1>3, <2>1, <2>2 DEF AbortStart, Stop, PendingKept, Pending
<1>4. CASE Restart \/ UNCHANGED vars
  BY <1>4 DEF Restart, vars, PendingKept, Pending
<1>5. QED
  BY <1>1, <1>2, <1>3, <1>4

(***************************************************************************)
(* What calls and events name.                                             *)
(***************************************************************************)
\* A call that is left as it is names what it named.
LEMMA NamesActiveStays ==
    ASSUME TypeOK, [Next]_vars, NEW t \in Threads, NamesActive(t), call'[t] = call[t]
    PROVE  NamesActive(t)'
<1>1. call[t].ws \in Workspaces
  BY DEF TypeOK
<1>2. ASSUME NEW v, WasActive(call[t].ws, v)
      PROVE  v \in Versions /\ policies'[call[t].ws][v] \in {"active", "historical"}
  <2> DEFINE ws == call[t].ws
  <2>1. WasActive(ws, v)
    BY <1>2
  <2>2. v \in Versions /\ policies[ws][v] \in {"active", "historical"}
    BY <2>1 DEF WasActive
  <2>3. RowsOnlyAdvance \/ UNCHANGED policies
    BY StepKeepsRows
  <2>4. QED
    BY <1>1, <2>2, <2>3 DEF RowsOnlyAdvance
<1>3. QED
  BY <1>2 DEF NamesActive, WasActive

\* A call that goes on with the same target and source, and named them before.
LEMMA NamesActiveGoesOn ==
    ASSUME TypeOK, [Next]_vars, NEW t \in Threads, SamePurpose(t),
           call'[t].kind \in Activations =>
             /\ call'[t].prev # NoVersion => WasActive(call[t].ws, call[t].prev)
                                               /\ call'[t].prev = call[t].prev
             /\ call'[t].step \in {"swap", "emit"} => WasActive(call[t].ws, call[t].version)
    PROVE  NamesActive(t)'
<1>1. call[t].ws \in Workspaces
  BY DEF TypeOK
<1>2. ASSUME NEW v, WasActive(call[t].ws, v)
      PROVE  v \in Versions /\ policies'[call[t].ws][v] \in {"active", "historical"}
  <2>1. v \in Versions /\ policies[call[t].ws][v] \in {"active", "historical"}
    BY <1>2 DEF WasActive
  <2>2. RowsOnlyAdvance \/ UNCHANGED policies
    BY StepKeepsRows
  <2>3. QED
    BY <1>1, <2>1, <2>2 DEF RowsOnlyAdvance
<1>3. QED
  BY <1>2 DEF NamesActive, WasActive, SamePurpose

LEMMA NamesActiveStep ==
    ASSUME TypeOK, WhoRuns, \A t \in Threads : NamesActive(t), [Next]_vars, NEW t \in Threads
    PROVE  NamesActive(t)'
<1>1. call[t].ws \in Workspaces /\ call[t] \in CallType
  BY DEF TypeOK, CallType
<1>2. CASE call'[t] = call[t]
  BY <1>2, NamesActiveStays
<1>3. CASE call'[t].step \notin {"write", "swap", "emit"} \/ call'[t].kind \notin Activations
  BY <1>3 DEF NamesActive
<1>4. ASSUME Receive(t) \/ Step(t) PROVE NamesActive(t)'
  <2>1. CASE Receive(t)
    BY <1>3, <2>1, ReceiveFacts DEF Activations
  <2>2. CASE Peek(t)
    BY <1>3, <2>2, PeekFacts
  <2>3. CASE ReadTarget(t)
    <3>1. CASE call'[t].step = "failed"
      BY <1>3, <3>1
    <3>2. CASE call'[t].step = "write" /\ call'[t].prev = GetActivePolicy(call[t].ws)
      <4>1. /\ SamePurpose(t) /\ UNCHANGED policies
        BY <2>3, ReadFacts
      <4>2. call'[t].prev # NoVersion =>
              call'[t].prev \in Versions /\ policies[call[t].ws][call'[t].prev] = "active"
        BY <3>2, ActiveRow
      <4>3. QED
        BY <3>2, <4>1, <4>2 DEF NamesActive, WasActive, SamePurpose
    <3>3. QED
      BY <2>3, <3>1, <3>2, ReadFacts
  <2>4. CASE WriteCandidate(t)
    BY <1>3, <2>4, CandidateFacts DEF Activations
  <2>5. CASE WriteActive(t)
    <3>1. CASE call'[t].step = "failed"
      BY <1>3, <3>1
    <3>2. CASE call'[t].step = "swap" /\ Replaces(t)
      <4>1. /\ SamePurpose(t) /\ call'[t].prev = call[t].prev
            /\ call[t].step = "write" /\ call[t].kind \in Activations
        BY <2>5, ActiveFacts
      <4>2. call[t].version \in Versions /\ policies'[call[t].ws][call[t].version] = "active"
        BY <1>1, <3>2, ReplaceActive DEF Active
      <4>3. call[t].prev # NoVersion => WasActive(call[t].ws, call[t].prev)
        BY <4>1 DEF NamesActive
      <4>4. call[t].prev # NoVersion =>
              call[t].prev \in Versions /\ policies'[call[t].ws][call[t].prev] \in {"active", "historical"}
        BY <1>1, <4>3, StepKeepsRows DEF WasActive, RowsOnlyAdvance
      <4>5. QED
        BY <3>2, <4>1, <4>2, <4>4 DEF NamesActive, WasActive, SamePurpose
    <3>3. QED
      BY <2>5, <3>1, <3>2, ActiveFacts DEF Commits
  <2>6. CASE Swap(t)
    <3>1. /\ SamePurpose(t) /\ call'[t].prev = call[t].prev /\ call[t].step = "swap"
      BY <2>6, SwapFacts
    <3>2. call'[t].kind = call[t].kind
      BY <3>1 DEF SamePurpose
    <3>3. QED
      BY <3>1, <3>2, NamesActiveGoesOn DEF NamesActive
  <2>7. CASE Emit(t)
    BY <1>3, <2>7, EmitFacts DEF Activations
  <2>8. CASE Reread(t)
    BY <1>3, <2>8, RereadFacts
  <2>9. QED
    BY <1>4, <2>1, <2>2, <2>3, <2>4, <2>5, <2>6, <2>7, <2>8 DEF Step
<1>5. ASSUME NEW s \in Threads, Receive(s) \/ Step(s), s # t PROVE NamesActive(t)'
  BY <1>2, <1>5, OthersStay
<1>6. ASSUME Hydrate \/ Serve \/ Stop PROVE NamesActive(t)'
  <2>1. call'[t] = call[t] \/ call'[t].kind = "create"
    BY <1>6, ProcessCalls
  <2>2. QED
    BY <1>2, <1>3, <2>1 DEF Activations
<1>7. CASE UNCHANGED call
  BY <1>2, <1>7
<1>8. QED
  BY <1>4, <1>5, <1>6, <1>7 DEF Next, Crash, AbortStart, Restart, Finished, vars

LEMMA TellsActiveStep ==
    ASSUME TypeOK, \A t \in Threads : NamesActive(t), \A i \in DOMAIN emitted : TellsActive(i),
           [Next]_vars, NEW i \in DOMAIN emitted'
    PROVE  TellsActive(i)'
<1>1. ASSUME NEW e \in EventType,
             e.action \in Activations =>
               (e.prev # NoVersion => WasActive(e.ws, e.prev)) /\ WasActive(e.ws, e.new),
             emitted'[i] = e
      PROVE  TellsActive(i)'
  <2>1. e.ws \in Workspaces
    BY DEF EventType
  <2>2. ASSUME NEW v, WasActive(e.ws, v)
        PROVE  v \in Versions /\ policies'[e.ws][v] \in {"active", "historical"}
    BY <2>1, <2>2, StepKeepsRows DEF WasActive, RowsOnlyAdvance
  <2>3. QED
    BY <1>1, <2>2 DEF TellsActive, WasActive
<1>2. ASSUME i \in DOMAIN emitted, emitted'[i] = emitted[i] PROVE TellsActive(i)'
  <2>1. emitted[i] \in EventType
    <3>1. emitted \in Seq(EventType)
      BY DEF TypeOK, EventType
    <3>2. QED
      BY <1>2, <3>1, ElementOfSeq
  <2>2. TellsActive(i)
    BY <1>2
  <2>3. QED
    BY <1>1, <1>2, <2>1, <2>2 DEF TellsActive
<1>3. CASE UNCHANGED emitted
  BY <1>2, <1>3
<1>4. ASSUME NEW t \in Threads, Emit(t) PROVE TellsActive(i)'
  <2>1. /\ DOMAIN emitted' = DOMAIN emitted \cup {Len(emitted) + 1}
        /\ \A k \in DOMAIN emitted : emitted'[k] = emitted[k]
        /\ emitted'[Len(emitted) + 1] = Event(call[t])
    BY <1>4, TrailGrows
  <2>2. CASE i \in DOMAIN emitted
    BY <1>2, <2>1, <2>2
  <2>3. CASE i = Len(emitted) + 1
    <3>1. call[t] \in CallType /\ call[t].step = "emit"
      BY <1>4, EmitFacts DEF TypeOK, CallType
    <3>2. Event(call[t]) \in EventType
      BY <3>1 DEF Event, CallType, EventType
    <3>3. NamesActive(t)
      OBVIOUS
    <3>4. Event(call[t]).action \in Activations =>
            /\ Event(call[t]).prev # NoVersion => WasActive(Event(call[t]).ws, Event(call[t]).prev)
            /\ WasActive(Event(call[t]).ws, Event(call[t]).new)
      BY <3>1, <3>3 DEF NamesActive, Event
    <3>5. QED
      BY <1>1, <2>1, <2>3, <3>2, <3>4
  <2>4. QED
    BY <2>1, <2>2, <2>3
<1>5. QED
  BY <1>3, <1>4 DEF Next, Step, vars, Receive, Peek, ReadTarget, WriteCandidate, WriteActive, Swap,
                    Reread, Hydrate, Serve, Crash, AbortStart, Stop, Restart, Finished

\* What has been told, or is on its way, stays so.
LEMMA ToldStays ==
    ASSUME TypeOK, NEW ws \in Workspaces, NEW v \in Versions, Told(ws, v),
           \/ UNCHANGED emitted /\ \A t \in Threads : PendingKept(t)
           \/ \E t \in Threads : Emit(t)
           \/ \E t \in Threads : WriteActive(t) /\ call'[t].step = "swap"
    PROVE  Told(ws, v)'
<1>1. CASE UNCHANGED emitted /\ \A t \in Threads : PendingKept(t)
  <2>1. PendingInto(ws, v)' = PendingInto(ws, v)
    BY <1>1, PendingStays
  <2>2. ToldInto(ws, v)' = ToldInto(ws, v)
    BY <1>1 DEF ToldInto
  <2>3. QED
    BY <2>1, <2>2 DEF Told
<1>2. ASSUME NEW t \in Threads, Emit(t) PROVE Told(ws, v)'
  <2>1. /\ DOMAIN emitted' = DOMAIN emitted \cup {Len(emitted) + 1}
        /\ \A i \in DOMAIN emitted : emitted'[i] = emitted[i]
        /\ emitted'[Len(emitted) + 1] = Event(call[t])
    BY <1>2, TrailGrows
  <2>2. CASE ToldInto(ws, v) # {}
    <3>1. PICK i \in DOMAIN emitted : i \in ToldInto(ws, v)
      BY <2>2 DEF ToldInto
    <3>2. i \in ToldInto(ws, v)'
      BY <2>1, <3>1 DEF ToldInto
    <3>3. QED
      BY <3>2 DEF Told
  <2>3. ASSUME NEW s \in Threads, s \in PendingInto(ws, v) PROVE Told(ws, v)'
    <3>1. CASE s = t
      <4>1. Len(emitted) + 1 \in ToldInto(ws, v)'
        BY <2>1, <2>3, <3>1 DEF ToldInto, PendingInto, Pending, Event
      <4>2. QED
        BY <4>1 DEF Told
    <3>2. CASE s # t
      <4>1. call'[s] = call[s]
        BY <1>2, <3>2, OthersStay DEF Step
      <4>2. s \in PendingInto(ws, v)'
        BY <2>3, <4>1 DEF PendingInto, Pending
      <4>3. QED
        BY <4>2 DEF Told
    <3>3. QED
      BY <3>1, <3>2
  <2>4. QED
    BY <2>2, <2>3 DEF Told, PendingInto
<1>3. ASSUME NEW t \in Threads, WriteActive(t), call'[t].step = "swap" PROVE Told(ws, v)'
  <2>1. call[t].step = "write" /\ UNCHANGED emitted
    BY <1>3, ActiveFacts
  <2>2. \A s \in Threads : s # t => call'[s] = call[s]
    BY <1>3, OthersStay DEF Step
  <2>3. ToldInto(ws, v)' = ToldInto(ws, v)
    BY <2>1 DEF ToldInto
  <2>4. PendingInto(ws, v) \subseteq PendingInto(ws, v)'
    BY <2>1, <2>2 DEF PendingInto, Pending
  <2>5. QED
    BY <2>3, <2>4 DEF Told
<1>4. QED
  BY <1>1, <1>2, <1>3

LEMMA TrailInvStep ==
    ASSUME "unknown" \notin Outcomes \cup BootOutcomes, TypeOK, TypeOK', TrailInv, [Next]_vars
    PROVE  TrailInv'
<1>1. OneActive' /\ WhoRuns'
  BY OneActiveStep, WhoRunsStep DEF TrailInv
<1>a. (\A t \in Threads : NamesActive(t)') /\ (\A i \in DOMAIN emitted' : TellsActive(i)')
  BY NamesActiveStep, TellsActiveStep DEF TrailInv
<1>2. SUFFICES ASSUME crashes' = 0, NEW ws \in Workspaces, NEW v \in Versions
               PROVE  /\ WasActive(ws, v)' => Told(ws, v)'
                      /\ ~misread' => Balance(ws, v)'
  BY <1>1, <1>a DEF TrailInv
<1>3. ~Crash /\ crashes = 0
  <2>1. crashes \in 0..MaxCrashes /\ MaxCrashes \in Nat
    BY ManagerAssumption DEF TypeOK
  <2>2. ~Crash
    BY <1>2, <2>1 DEF Crash
  <2>3. \A t \in Threads : Receive(t) \/ Step(t) => UNCHANGED crashes
    BY DEF Receive, Step, Peek, ReadTarget, WriteCandidate, WriteActive, Swap, Emit, Reread
  <2>4. Hydrate \/ Serve \/ AbortStart \/ Restart \/ UNCHANGED vars => UNCHANGED crashes
    BY DEF Hydrate, Serve, AbortStart, Restart, vars
  <2>5. QED
    BY <1>2, <2>2, <2>3, <2>4 DEF Next, Finished
<1>4. (WasActive(ws, v) => Told(ws, v)) /\ (~misread => Balance(ws, v))
  BY <1>3 DEF TrailInv
<1>5. ASSUME NEW t \in Threads, WriteActive(t)
      PROVE  \/ call'[t].step = "swap" /\ Commits(t)
             \/ call'[t].step = "failed" /\ UNCHANGED <<policies, overtaken, misread>>
  BY <1>5, ActiveFacts DEF OutcomesOf
<1>6. ASSUME NEW t \in Threads, Receive(t) \/ Step(t), ~Emit(t),
             ~(WriteActive(t) /\ call'[t].step = "swap")
      PROVE  UNCHANGED emitted /\ \A s \in Threads : PendingKept(s)
  BY <1>6, StepPending
<1>7. ASSUME Hydrate \/ Serve \/ AbortStart \/ Restart \/ UNCHANGED vars
      PROVE  UNCHANGED emitted /\ \A s \in Threads : PendingKept(s)
  BY <1>7, ProcessPending DEF TrailInv
<1>8. \/ UNCHANGED emitted /\ \A t \in Threads : PendingKept(t)
      \/ \E t \in Threads : Emit(t)
      \/ \E t \in Threads : WriteActive(t) /\ call'[t].step = "swap"
  BY <1>3, <1>6, <1>7 DEF Next, Finished
<1>9. WasActive(ws, v)' => Told(ws, v)'
  <2>1. CASE WasActive(ws, v)
    BY <1>4, <1>8, <2>1, ToldStays
  <2>2. ASSUME WasActive(ws, v)', ~WasActive(ws, v) PROVE Told(ws, v)'
    <3>1. PICK t \in Threads : /\ WriteActive(t) /\ Replaces(t)
                               /\ ws = call[t].ws /\ v = call[t].version
      BY <2>2, WasActiveMoves
    <3>2. call'[t].step = "swap"
      BY <1>5, <2>2, <3>1 DEF WasActive
    <3>3. /\ call[t].kind \in Activations /\ SamePurpose(t)
      BY <3>1, ActiveFacts
    <3>4. t \in PendingInto(ws, v)'
      BY <3>1, <3>2, <3>3 DEF PendingInto, Pending, SamePurpose
    <3>5. QED
      BY <3>4 DEF Told
  <2>3. QED
    BY <2>1, <2>2
<1>10. ASSUME ~misread' PROVE Balance(ws, v)'
  <2>1. ASSUME NEW t \in Threads, WriteActive(t), Replaces(t), call'[t].step = "swap"
        PROVE  Balance(ws, v)'
    <3>1. ~misread /\ call[t].prev = GetActivePolicy(call[t].ws)
      BY <1>5, <1>10, <2>1 DEF Commits
    <3>2. QED
      BY <1>4, <2>1, <3>1, BalanceCommit DEF TrailInv
  <2>2. ASSUME UNCHANGED misread, Active(ws, v)' <=> Active(ws, v),
               UNCHANGED emitted /\ \A t \in Threads : PendingKept(t)
        PROVE  Balance(ws, v)'
    BY <1>4, <1>10, <2>2, BalanceStays
  <2>3. ASSUME NEW t \in Threads, Emit(t) PROVE Balance(ws, v)'
    BY <1>4, <1>10, <2>3, BalanceEmit, HistoryStays
  <2>4. ASSUME NEW t \in Threads, WriteActive(t) PROVE Balance(ws, v)'
    <3>1. CASE call'[t].step = "swap" /\ Commits(t)
      BY <2>1, <2>4, <3>1 DEF Commits
    <3>2. CASE call'[t].step = "failed" /\ UNCHANGED <<policies, overtaken, misread>>
      <4>1. Active(ws, v)' <=> Active(ws, v)
        BY <3>2 DEF Active
      <4>2. ~Emit(t)
        BY <2>4 DEF WriteActive, Emit
      <4>3. UNCHANGED emitted /\ \A s \in Threads : PendingKept(s)
        BY <1>6, <2>4, <3>2, <4>2 DEF Step
      <4>4. QED
        BY <2>2, <3>2, <4>1, <4>3
    <3>3. QED
      BY <1>5, <2>4, <3>1, <3>2
  <2>5. CASE \E t \in Threads : WriteActive(t) \/ Emit(t)
    BY <2>3, <2>4, <2>5
  <2>6. CASE ~\E t \in Threads : WriteActive(t) \/ Emit(t)
    <3>1. Active(ws, v)' <=> Active(ws, v)
      BY <2>6, ActiveMoves
    <3>2. UNCHANGED emitted /\ \A t \in Threads : PendingKept(t)
      BY <1>8, <2>6
    <3>3. UNCHANGED misread
      <4>1. ASSUME NEW t \in Threads, Receive(t) \/ Step(t) PROVE UNCHANGED misread
        BY <2>6, <4>1, HistoryStays DEF Step, Receive
      <4>2. AbortStart => UNCHANGED misread
        BY DEF AbortStart, Stop
      <4>3. ASSUME Hydrate \/ Serve \/ Restart \/ UNCHANGED vars PROVE UNCHANGED misread
        BY <4>3 DEF Hydrate, Serve, Restart, vars, history
      <4>4. QED
        BY <1>3, <4>1, <4>2, <4>3 DEF Next, Finished
    <3>4. QED
      BY <2>2, <3>1, <3>2, <3>3
  <2>7. QED
    BY <2>5, <2>6
<1>11. QED
  BY <1>9, <1>10

(***************************************************************************)
(* As long as no crash cut one off and no write left its outcome unknown,  *)
(* the activations told and those on their way tell of each version that   *)
(* was ever active and of no other, and account exactly for the active     *)
(* one unless an activation replaced what it had not read, for any number  *)
(* of admins that overlap in any way.                                      *)
(***************************************************************************)
THEOREM TrailAccounts ==
    ASSUME "unknown" \notin Outcomes \cup BootOutcomes
    PROVE  Spec => []TrailAccountsForActive
<1>1. Init => TrailInv
  <2> SUFFICES ASSUME Init PROVE TrailInv
    OBVIOUS
  <2>1. OneActive
    BY DEF Init, StoreInit, OneActive
  <2>2. WhoRuns
    BY DEF Init, WhoRuns, Threads, Idle, Call
  <2>3. ASSUME NEW ws \in Workspaces, NEW v \in Versions PROVE Balance(ws, v) /\ ~WasActive(ws, v)
    <3>1. ToldInto(ws, v) = {} /\ ToldOutOf(ws, v) = {}
      BY DEF Init, ToldInto, ToldOutOf
    <3>2. Idle.step = "idle"
      BY DEF Idle, Call
    <3>3. PendingInto(ws, v) = {} /\ PendingOutOf(ws, v) = {}
      BY <3>2 DEF Init, PendingInto, PendingOutOf, Pending
    <3>4. policies[ws][v] = "absent"
      BY DEF Init, StoreInit
    <3>5. Balance(ws, v)
      BY <3>1, <3>3, <3>4, FS_EmptySet DEF Balance
    <3>6. QED
      BY <3>4, <3>5 DEF WasActive
  <2>4. \A t \in Threads : NamesActive(t)
    BY DEF Init, NamesActive, Idle, Call
  <2>5. \A i \in DOMAIN emitted : TellsActive(i)
    BY DEF Init
  <2>6. QED
    BY <2>1, <2>2, <2>3, <2>4, <2>5 DEF TrailInv
<1>2. TypeOK /\ TypeOK' /\ TrailInv /\ [Next]_vars => TrailInv'
  BY TrailInvStep
<1>3. ASSUME TypeOK, TrailInv PROVE TrailAccountsForActive
  <2> DEFINE pending(ws) == {t \in Threads : call[t].ws = ws /\ call[t].kind \in Activations
                                               /\ call[t].step \in {"swap", "emit"}}
             told(ws) == {i \in DOMAIN emitted : emitted[i].ws = ws
                                                   /\ emitted[i].action \in Activations}
             into(ws, v) == Cardinality({i \in told(ws) : emitted[i].new = v})
                              + Cardinality({t \in pending(ws) : call[t].version = v})
             outOf(ws, v) == Cardinality({i \in told(ws) : emitted[i].prev = v})
                               + Cardinality({t \in pending(ws) : call[t].prev = v})
  <2>1. ASSUME crashes = 0, NEW ws \in Workspaces, NEW v \in Versions
        PROVE  /\ policies[ws][v] \in {"active", "historical"} <=> into(ws, v) > 0
               /\ outOf(ws, v) > 0 => into(ws, v) > 0
               /\ ~misread => into(ws, v) - outOf(ws, v) = IF GetActivePolicy(ws) = v THEN 1 ELSE 0
    <3>1. {i \in told(ws) : emitted[i].new = v} = ToldInto(ws, v)
      BY DEF ToldInto
    <3>2. {i \in told(ws) : emitted[i].prev = v} = ToldOutOf(ws, v)
      BY DEF ToldOutOf
    <3>3. {t \in pending(ws) : call[t].version = v} = PendingInto(ws, v)
      BY DEF PendingInto, Pending
    <3>4. {t \in pending(ws) : call[t].prev = v} = PendingOutOf(ws, v)
      BY DEF PendingOutOf, Pending
    <3>5. /\ into(ws, v) = Cardinality(ToldInto(ws, v)) + Cardinality(PendingInto(ws, v))
          /\ outOf(ws, v) = Cardinality(ToldOutOf(ws, v)) + Cardinality(PendingOutOf(ws, v))
      BY <3>1, <3>2, <3>3, <3>4, Zenon
    <3> HIDE DEF into, outOf, told, pending
    <3>6. /\ Cardinality(ToldInto(ws, v)) \in Nat /\ Cardinality(PendingInto(ws, v)) \in Nat
          /\ Cardinality(ToldOutOf(ws, v)) \in Nat /\ Cardinality(PendingOutOf(ws, v)) \in Nat
          /\ Cardinality(ToldInto(ws, v)) = 0 <=> ToldInto(ws, v) = {}
          /\ Cardinality(PendingInto(ws, v)) = 0 <=> PendingInto(ws, v) = {}
          /\ Cardinality(ToldOutOf(ws, v)) = 0 <=> ToldOutOf(ws, v) = {}
          /\ Cardinality(PendingOutOf(ws, v)) = 0 <=> PendingOutOf(ws, v) = {}
      BY <1>3, TrailIsFinite, FS_EmptySet
    <3>7. into(ws, v) > 0 <=> Told(ws, v)
      BY <3>5, <3>6 DEF Told
    <3>8. outOf(ws, v) > 0 <=> ToldOutOf(ws, v) # {} \/ PendingOutOf(ws, v) # {}
      BY <3>5, <3>6
    <3>9. WasActive(ws, v) <=> policies[ws][v] \in {"active", "historical"}
      BY DEF WasActive
    <3>10. v # NoVersion
      BY NoVersionAssumption
    <3>11. Told(ws, v) => WasActive(ws, v)
      BY <1>3 DEF TrailInv, Told, ToldInto, PendingInto, Pending, TellsActive, NamesActive
    <3>12. ToldOutOf(ws, v) # {} \/ PendingOutOf(ws, v) # {} => WasActive(ws, v)
      BY <1>3, <3>10 DEF TrailInv, ToldOutOf, PendingOutOf, Pending, TellsActive, NamesActive
    <3>13. WasActive(ws, v) => Told(ws, v)
      BY <1>3, <2>1 DEF TrailInv
    <3>14. ~misread => into(ws, v) - outOf(ws, v) = IF GetActivePolicy(ws) = v THEN 1 ELSE 0
      <4>1. ~misread => Balance(ws, v)
        BY <1>3, <2>1 DEF TrailInv
      <4>2. GetActivePolicy(ws) = v <=> policies[ws][v] = "active"
        BY <1>3, ActiveIs DEF TrailInv, Active
      <4>3. QED
        BY <3>5, <3>6, <4>1, <4>2 DEF Balance
    <3>15. QED
      BY <3>7, <3>8, <3>9, <3>11, <3>12, <3>13, <3>14
  <2>2. QED
    BY <2>1, Zenon DEF TrailAccountsForActive
<1>4. QED
  BY <1>1, <1>2, <1>3, TypeCorrect, PTL DEF Spec
-----------------------------------------------------------------------------
(* One admin: nobody else is under way while a call takes its steps.       *)

LEMMA OneAtWork ==
    ASSUME NEW a, Admins = {a}, TypeOK, WhoRuns, NEW t \in Threads, Receive(t) \/ Step(t)
    PROVE  /\ \A s \in Threads : s # t => call[s].step = "idle" /\ call'[s] = call[s]
           /\ t = a => proc = "serving"
           /\ t = Boot => proc # "serving"
           /\ UNCHANGED proc
<1>1. Threads = {a, Boot} /\ a # Boot
  BY ManagerAssumption DEF Threads
<1>2. /\ Receive(t) => t = a /\ proc = "serving"
      /\ Step(t) => call[t].step # "idle"
      /\ UNCHANGED proc
  BY DEF Receive, Step, Peek, ReadTarget, WriteCandidate, WriteActive, Swap, Emit, Reread
<1>3. QED
  BY <1>1, <1>2, OthersStay DEF WhoRuns

\* What a call has made active it finds active until it replies, if nobody else writes.
LEMMA CurrentStep ==
    ASSUME TypeOK, NEW t \in Threads, Receive(t) \/ Step(t), Current(t)
    PROVE  Current(t)'
<1>1. CASE Receive(t)
  BY <1>1, ReceiveFacts DEF Current
<1>2. CASE Peek(t)
  BY <1>2, PeekFacts DEF Current
<1>3. CASE ReadTarget(t)
  BY <1>3, ReadFacts DEF Current
<1>4. CASE WriteCandidate(t)
  BY <1>4, CandidateFacts DEF Current, Activations
<1>5. CASE WriteActive(t)
  <2>1. Replaces(t) => /\ call[t].version \in Versions
                       /\ policies'[call[t].ws][call[t].version] = "active"
    BY ReplaceActive DEF Active
  <2>2. QED
    BY <1>5, <2>1, ActiveFacts DEF Current, Commits, SamePurpose
<1>6. CASE Swap(t)
  BY <1>6, SwapFacts DEF Current, SamePurpose
<1>7. CASE Emit(t)
  <2>1. call[t].kind # "create" => call[t].kind \in Activations
    BY DEF TypeOK, Kinds, Activations
  <2>2. QED
    BY <1>7, <2>1, EmitFacts DEF Current, SamePurpose
<1>8. CASE Reread(t)
  BY <1>8, RereadFacts DEF Current
<1>9. QED
  BY <1>1, <1>2, <1>3, <1>4, <1>5, <1>6, <1>7, <1>8 DEF Step

\* A call that has not written, or has ended, knows nothing.
LEMMA CurrentAtRest ==
    ASSUME NEW t, call'[t].step \notin {"swap", "emit", "reread"}
    PROVE  Current(t)'
BY DEF Current
-----------------------------------------------------------------------------
(* One admin: the engine enforced is the active version.                   *)

\* A step that neither swaps nor commits an activation.
LEMMA EnforcedStays ==
    ASSUME TypeOK, NEW t \in Threads, NEW ws \in Workspaces, Enforced(ws),
           \A s \in Threads : s # t => call'[s] = call[s],
           call[t].step # "swap", UNCHANGED cached,
           \A w \in Workspaces, u \in Versions : Active(w, u)' <=> Active(w, u)
    PROVE  Enforced(ws)'
<1>1. SUFFICES ASSUME cached[ws] # NoVersion, \A s \in Threads : ~Swapping(s, ws)'
               PROVE  policies'[ws][cached[ws]] = "active"
  BY DEF Enforced
<1>2. \A s \in Threads : ~Swapping(s, ws)
  BY <1>1 DEF Swapping
<1>3. cached[ws] \in Versions
  BY <1>1 DEF TypeOK
<1>4. QED
  BY <1>1, <1>2, <1>3 DEF Enforced, Active

\* The step that commits an activation excuses its workspace until the engine is swapped.
LEMMA EnforcedWrite ==
    ASSUME NEW a, Admins = {a}, "unknown" \notin Outcomes, TypeOK, EnforcedInv, BootInv,
           NEW t \in Threads, WriteActive(t), NEW ws \in Workspaces
    PROVE  Enforced(ws)'
<1>1. /\ call[t].step = "write" /\ SamePurpose(t) /\ UNCHANGED cached
      /\ \/ call'[t].step = "swap" /\ Replaces(t)
         \/ call'[t].step = "failed" /\ UNCHANGED policies
         \/ call'[t].step = "failed" /\ Replaces(t) /\ "unknown" \in OutcomesOf(t)
  BY ActiveFacts DEF Commits
<1>2. \A s \in Threads : s # t => call'[s] = call[s]
  BY OthersStay DEF Step
<1>3. CASE call'[t].step = "swap" /\ Replaces(t)
  <2>1. CASE ws = call[t].ws
    BY <1>1, <1>3, <2>1 DEF Enforced, Swapping, SamePurpose
  <2>2. CASE ws # call[t].ws
    <3>1. \A u \in Versions : Active(ws, u)' <=> Active(ws, u)
      BY <1>3, <2>2, ReplaceActive
    <3>2. SUFFICES ASSUME cached[ws] # NoVersion, \A s \in Threads : ~Swapping(s, ws)'
                   PROVE  policies'[ws][cached[ws]] = "active"
      BY <1>1 DEF Enforced
    <3>3. \A s \in Threads : ~Swapping(s, ws)
      BY <1>1, <1>2, <3>2 DEF Swapping
    <3>4. cached[ws] \in Versions
      BY <3>2 DEF TypeOK
    <3>5. QED
      BY <3>1, <3>2, <3>3, <3>4 DEF EnforcedInv, Enforced, Active
  <2>3. QED
    BY <2>1, <2>2
<1>4. CASE UNCHANGED policies
  <2>1. \A w \in Workspaces, u \in Versions : Active(w, u)' <=> Active(w, u)
    BY <1>4 DEF Active
  <2>2. QED
    BY <1>1, <1>2, <2>1, EnforcedStays DEF EnforcedInv
<1>5. CASE "unknown" \in OutcomesOf(t)
  <2>1. t = Boot
    BY <1>5 DEF OutcomesOf
  <2>2. proc = "starting"
    <3>1. proc # "serving"
      BY <2>1, OneAtWork DEF EnforcedInv, Step
    <3>2. proc # "down"
      BY <1>1, <2>1 DEF BootInv
    <3>3. QED
      BY <3>1, <3>2 DEF TypeOK
  <2>3. \A w \in Workspaces : cached[w] = NoVersion
    BY <1>1, <2>1, <2>2 DEF EnforcedInv, BeforeSwap
  <2>4. QED
    BY <1>1, <2>3 DEF Enforced
<1>6. QED
  BY <1>1, <1>3, <1>4, <1>5

LEMMA EnforcedSwap ==
    ASSUME NEW a, Admins = {a}, TypeOK, EnforcedInv, NEW t \in Threads, Swap(t),
           NEW ws \in Workspaces
    PROVE  Enforced(ws)'
<1>1. /\ call[t].step = "swap" /\ UNCHANGED policies
      /\ cached' = [cached EXCEPT ![call[t].ws] = call[t].version]
  BY SwapFacts
<1>2. CASE ws = call[t].ws
  <2>1. policies[ws][call[t].version] = "active"
    BY <1>1, <1>2 DEF EnforcedInv, Current
  <2>2. cached'[ws] = call[t].version
    BY <1>1, <1>2 DEF TypeOK
  <2>3. QED
    BY <1>1, <2>1, <2>2 DEF Enforced
<1>3. CASE ws # call[t].ws
  <2>1. cached'[ws] = cached[ws]
    BY <1>1, <1>3 DEF TypeOK
  <2>2. \A s \in Threads : ~Swapping(s, ws)
    BY <1>3, OneAtWork DEF EnforcedInv, Swapping, Step
  <2>3. QED
    BY <1>1, <2>1, <2>2 DEF EnforcedInv, Enforced
<1>4. QED
  BY <1>2, <1>3

\* Start-up's swap ends the time in which nothing is enforced.
LEMMA BeforeSwapStep ==
    ASSUME NEW a, Admins = {a}, TypeOK, EnforcedInv, BootInv, NEW t \in Threads,
           Receive(t) \/ Step(t), BeforeSwap'
    PROVE  BeforeSwap /\ UNCHANGED cached
<1>1. Threads = {a, Boot} /\ a # Boot
  BY ManagerAssumption DEF Threads
<1>2. UNCHANGED proc /\ (t = a => proc = "serving")
  BY OneAtWork DEF EnforcedInv
<1>3. t = Boot /\ Step(Boot)
  BY <1>1, <1>2 DEF BeforeSwap, Receive
<1>4. proc = "starting"
  BY <1>2, <1>3 DEF BeforeSwap, BootInv, Step, Peek, ReadTarget, WriteCandidate, WriteActive, Swap,
                    Emit, Reread
<1>5. Current(Boot)
  BY <1>1 DEF EnforcedInv
<1>6. ~Swap(Boot)
  BY <1>1, <1>2, <1>4, <1>5, SwapFacts DEF BeforeSwap, Current, SamePurpose, Activations
<1>7. ~Reread(Boot)
  BY <1>1, <1>2, <1>4, RereadFacts DEF BeforeSwap
<1>8. Emit(Boot) => call[Boot].step = "emit" /\ call[Boot].kind = "create"
  BY <1>1, <1>2, <1>4, EmitFacts DEF BeforeSwap
<1>9. QED
  BY <1>3, <1>4, <1>6, <1>7, <1>8 DEF BeforeSwap, Step, Peek, ReadTarget, WriteCandidate, WriteActive,
                                      Emit

LEMMA EnforcedInvStep ==
    ASSUME NEW a, Admins = {a}, "unknown" \notin Outcomes,
           TypeOK, TypeOK', BootInv, EnforcedInv, [Next]_vars
    PROVE  EnforcedInv'
<1> USE NoVersionAssumption
<1>1. OneActive' /\ WhoRuns'
  BY OneActiveStep, WhoRunsStep DEF EnforcedInv
<1>2. ASSUME NEW t \in Threads, Receive(t) \/ Step(t) PROVE EnforcedInv'
  <2>1. \A s \in Threads : s # t => call[s].step = "idle" /\ call'[s] = call[s]
    BY <1>2, OneAtWork DEF EnforcedInv
  <2>2. BeforeSwap' => \A ws \in Workspaces : cached'[ws] = NoVersion
    BY <1>2, BeforeSwapStep DEF EnforcedInv
  <2>3. ASSUME NEW s \in Threads PROVE Current(s)'
    <3>1. CASE s = t
      BY <1>2, <3>1, CurrentStep DEF EnforcedInv
    <3>2. CASE s # t
      BY <2>1, <3>2, CurrentAtRest
    <3>3. QED
      BY <3>1, <3>2
  <2>4. ASSUME NEW ws \in Workspaces PROVE Enforced(ws)'
    <3>1. CASE WriteActive(t)
      BY <3>1, EnforcedWrite
    <3>2. CASE Swap(t)
      BY <3>2, EnforcedSwap
    <3>3. CASE ~WriteActive(t) /\ ~Swap(t)
      <4>1. call[t].step # "swap" /\ UNCHANGED cached
        BY <1>2, <3>3 DEF Receive, Step, Peek, ReadTarget, WriteCandidate, Emit, Reread, Resting
      <4>2. \A w \in Workspaces, u \in Versions : Active(w, u)' <=> Active(w, u)
        <5>1. CASE WriteCandidate(t)
          <6>1. CASE UNCHANGED policies
            BY <6>1 DEF Active
          <6>2. CASE CreatePolicy(call[t].ws, call[t].version)
            BY <6>2, CreateActive DEF TypeOK
          <6>3. QED
            BY <5>1, <6>1, <6>2, CandidateFacts
        <5>2. CASE ~WriteCandidate(t)
          BY <1>2, <3>3, <5>2 DEF Receive, Step, Peek, ReadTarget, Emit, Reread, Active
        <5>3. QED
          BY <5>1, <5>2
      <4>3. QED
        BY <2>1, <4>1, <4>2, EnforcedStays DEF EnforcedInv
    <3>4. QED
      BY <3>1, <3>2, <3>3
  <2>5. QED
    BY <1>1, <2>2, <2>3, <2>4 DEF EnforcedInv
<1>3. ASSUME Hydrate \/ Serve \/ Stop PROVE \A t \in Threads : Current(t)'
  <2> TAKE t \in Threads
  <2>1. CASE call'[t] = call[t]
    BY <1>3, <2>1, ProcessCalls DEF EnforcedInv, Current
  <2>2. CASE call'[t].step \in {"idle", "write"}
    BY <2>2, CurrentAtRest
  <2>3. QED
    BY <1>3, <2>1, <2>2, ProcessCalls
<1>4. CASE Hydrate
  <2>1. \A ws \in Workspaces : cached[ws] = NoVersion
    BY <1>4 DEF Hydrate, BeforeSwap, EnforcedInv
  <2>2. CASE UNCHANGED cached
    BY <1>1, <1>3, <1>4, <2>1, <2>2 DEF EnforcedInv, Enforced
  <2>3. CASE /\ cached' = [cached EXCEPT ![Default] = GetActivePolicy(Default)]
             /\ GetActivePolicy(Default) \in Parses /\ proc' = "serving"
    <3>1. policies[Default][GetActivePolicy(Default)] = "active"
      BY <2>3, ActiveIs, ManagerAssumption DEF EnforcedInv, Active
    <3>2. ASSUME NEW ws \in Workspaces PROVE Enforced(ws)'
      BY <1>4, <2>1, <2>3, <3>1 DEF Hydrate, Enforced, TypeOK
    <3>3. ~BeforeSwap'
      BY <2>3 DEF BeforeSwap
    <3>4. QED
      BY <1>1, <1>3, <1>4, <3>2, <3>3 DEF EnforcedInv
  <2>4. QED
    BY <1>4, <2>2, <2>3 DEF Hydrate
<1>5. CASE Serve
  <2>1. ~BeforeSwap'
    BY <1>5 DEF Serve, BeforeSwap
  <2>2. ASSUME NEW ws \in Workspaces PROVE Enforced(ws)'
    <3>1. \A t \in Threads : t # Boot => call'[t] = call[t]
      BY <1>5, ProcessCalls
    <3>2. call[Boot].step = "ok" /\ UNCHANGED <<policies, cached>>
      BY <1>5 DEF Serve
    <3>3. \A w \in Workspaces, u \in Versions : Active(w, u)' <=> Active(w, u)
      BY <3>2 DEF Active
    <3>4. Boot \in Threads
      BY DEF Threads
    <3>5. QED
      BY <3>1, <3>2, <3>3, <3>4, EnforcedStays DEF EnforcedInv
  <2>3. QED
    BY <1>1, <1>3, <1>5, <2>1, <2>2 DEF EnforcedInv
<1>6. CASE Stop
  <2>1. \A ws \in Workspaces : cached'[ws] = NoVersion
    BY <1>6 DEF Stop
  <2>2. QED
    BY <1>1, <1>3, <1>6, <2>1 DEF EnforcedInv, Enforced
<1>7. CASE Restart
  <2>1. \A ws \in Workspaces : cached[ws] = NoVersion
    BY <1>7 DEF Restart, BeforeSwap, EnforcedInv
  <2>2. QED
    BY <1>1, <1>7, <2>1 DEF Restart, EnforcedInv, Enforced, Current
<1>8. CASE UNCHANGED vars
  BY <1>1, <1>8 DEF vars, EnforcedInv, Enforced, Swapping, Current, BeforeSwap
<1>9. QED
  BY <1>2, <1>4, <1>5, <1>6, <1>7, <1>8 DEF Next, Crash, AbortStart, Finished

(***************************************************************************)
(* With one admin whose writes end as they say, the engine the Manager     *)
(* enforces is the version the store calls active, but for a call between  *)
(* its store write and its swap, whatever crashes and however start-up's   *)
(* own writes end.                                                         *)
(***************************************************************************)
THEOREM EnforcesTheActive ==
    ASSUME NEW CONSTANT a, Admins = {a}, "unknown" \notin Outcomes
    PROVE  Spec => []EnforcedIsActive
<1>1. Init => CacheInv /\ BootInv /\ EnforcedInv
  <2> SUFFICES ASSUME Init PROVE CacheInv /\ BootInv /\ EnforcedInv
    OBVIOUS
  <2>1. Idle.step = "idle" /\ Idle.ws = Default
    BY DEF Idle, Call
  <2>2. \A t \in Threads : call[t] = Idle
    BY DEF Init
  <2>3. CacheInv /\ BootInv
    BY <2>1, <2>2, ManagerAssumption DEF Init, CacheInv, BootInv, Threads
  <2>4. OneActive /\ WhoRuns
    BY <2>1, <2>2 DEF Init, StoreInit, OneActive, WhoRuns, Threads
  <2>5. \A ws \in Workspaces : cached[ws] = NoVersion
    BY DEF Init
  <2>6. \A t \in Threads : Current(t)
    BY <2>1, <2>2 DEF Current
  <2>7. QED
    BY <2>3, <2>4, <2>5, <2>6 DEF EnforcedInv, Enforced
<1>2. TypeOK /\ TypeOK' /\ CacheInv /\ [Next]_vars => CacheInv'
  BY CacheInvStep
<1>3. TypeOK /\ TypeOK' /\ CacheInv /\ BootInv /\ [Next]_vars => BootInv'
  BY BootInvStep
<1>4. TypeOK /\ TypeOK' /\ BootInv /\ EnforcedInv /\ [Next]_vars => EnforcedInv'
  BY EnforcedInvStep
<1>5. ASSUME TypeOK, EnforcedInv PROVE EnforcedIsActive
  <2>1. ASSUME NEW ws \in Workspaces, cached[ws] # NoVersion,
               \A t \in Threads : ~(call[t].step = "swap" /\ call[t].ws = ws)
        PROVE  cached[ws] = GetActivePolicy(ws)
    <3>1. cached[ws] \in Versions
      BY <1>5, <2>1 DEF TypeOK
    <3>2. Active(ws, cached[ws])
      BY <1>5, <2>1 DEF EnforcedInv, Enforced, Swapping, Active
    <3>3. QED
      BY <1>5, <3>1, <3>2, ActiveIs DEF EnforcedInv
  <2>2. QED
    BY <2>1 DEF EnforcedIsActive
<1>6. QED
  BY <1>1, <1>2, <1>3, <1>4, <1>5, TypeCorrect, PTL DEF Spec
-----------------------------------------------------------------------------
(* What a reply says, for any number of admins.                            *)

LEMMA SomeActiveStep ==
    ASSUME TypeOK, SomeActive, [Next]_vars
    PROVE  SomeActive'
<1>1. ASSUME NEW ws \in Workspaces, NEW v \in Versions, WasActive(ws, v)'
      PROVE  \E u \in Versions : Active(ws, u)'
  <2>1. ASSUME NEW t \in Threads, Replaces(t), ws = call[t].ws
        PROVE  \E u \in Versions : Active(ws, u)'
    BY <2>1, ReplaceActive
  <2>2. CASE WasActive(ws, v)
    <3>1. PICK u \in Versions : Active(ws, u)
      BY <2>2 DEF SomeActive, Active
    <3>2. CASE \A w \in Workspaces, x \in Versions : Active(w, x)' <=> Active(w, x)
      BY <3>1, <3>2
    <3>3. ASSUME NEW t \in Threads, Replaces(t), ws # call[t].ws
          PROVE  \E x \in Versions : Active(ws, x)'
      BY <3>1, <3>3, ReplaceActive
    <3>4. QED
      BY <2>1, <3>2, <3>3, ActiveMoves
  <2>3. CASE ~WasActive(ws, v)
    BY <1>1, <2>1, <2>3, WasActiveMoves
  <2>4. QED
    BY <2>2, <2>3
<1>2. QED
  BY <1>1 DEF SomeActive, Active

\* What was made active for a call stays so.
LEMMA CommittedStays ==
    ASSUME TypeOK, [Next]_vars, NEW t \in Threads, SamePurpose(t),
           call'[t].kind \in Activations =>
             /\ call'[t].step \in {"swap", "emit", "reread", "ok"}
                  => WasActive(call[t].ws, call[t].version)
             /\ call'[t].step = "ok" => WasActive(call[t].ws, call'[t].reply)
    PROVE  Committed(t)'
<1>1. call[t].ws \in Workspaces
  BY DEF TypeOK
<1>2. ASSUME NEW v, WasActive(call[t].ws, v)
      PROVE  v \in Versions /\ policies'[call[t].ws][v] \in {"active", "historical"}
  <2>1. v \in Versions /\ policies[call[t].ws][v] \in {"active", "historical"}
    BY <1>2 DEF WasActive
  <2>2. RowsOnlyAdvance \/ UNCHANGED policies
    BY StepKeepsRows
  <2>3. QED
    BY <1>1, <2>1, <2>2 DEF RowsOnlyAdvance
<1>3. QED
  BY <1>2 DEF Committed, WasActive, SamePurpose

\* An admin's own step keeps what its call has committed.
LEMMA CommittedStep ==
    ASSUME TypeOK, SomeActive, [Next]_vars, NEW t \in Threads, Receive(t) \/ Step(t), t # Boot,
           Committed(t)
    PROVE  Committed(t)'
<1>1. CASE call'[t].step \notin {"swap", "emit", "reread", "ok"} \/ call'[t].kind \notin Activations
  BY <1>1 DEF Committed
<1>2. CASE Receive(t)
  BY <1>1, <1>2, ReceiveFacts DEF Activations
<1>3. CASE Peek(t)
  BY <1>1, <1>3, PeekFacts
<1>4. CASE ReadTarget(t)
  BY <1>1, <1>4, ReadFacts
<1>5. CASE WriteCandidate(t)
  BY <1>1, <1>5, CandidateFacts DEF Activations
<1>6. CASE WriteActive(t)
  <2>1. CASE call'[t].step = "failed"
    BY <1>1, <2>1
  <2>2. CASE call'[t].step = "swap" /\ Replaces(t)
    <3>1. call[t].version \in Versions /\ policies'[call[t].ws][call[t].version] = "active"
      <4>1. call[t].ws \in Workspaces /\ call[t].version \in Versions
        BY <2>2, ReplaceActive
      <4>2. Active(call[t].ws, call[t].version)' <=> TRUE
        BY <2>2, <4>1, ReplaceActive, <1>6, ActiveFacts DEF SamePurpose, Active
      <4>3. QED
        BY <1>6, <4>1, <4>2, ActiveFacts DEF SamePurpose, Active
    <3>2. SamePurpose(t)
      BY <1>6, ActiveFacts
    <3>3. QED
      BY <2>2, <3>1, <3>2 DEF Committed, WasActive, SamePurpose
  <2>3. QED
    BY <1>6, <2>1, <2>2, ActiveFacts DEF Commits
<1>7. CASE Swap(t)
  <2>1. SamePurpose(t) /\ call[t].step = "swap" /\ call'[t].step = "emit"
    BY <1>7, SwapFacts
  <2>2. QED
    BY <2>1, CommittedStays DEF Committed, SamePurpose
<1>8. CASE Emit(t)
  <2>1. CASE call[t].kind = "create"
    BY <1>1, <1>8, <2>1, EmitFacts DEF Activations
  <2>2. CASE call[t].kind # "create"
    <3>1. SamePurpose(t) /\ call[t].step = "emit" /\ call'[t].step = "reread"
      BY <1>8, <2>2, EmitFacts
    <3>2. QED
      BY <3>1, CommittedStays DEF Committed, SamePurpose
  <2>3. QED
    BY <2>1, <2>2
<1>9. CASE Reread(t)
  <2>1. /\ SamePurpose(t) /\ call[t].step = "reread" /\ call'[t].step \in {"ok", "failed"}
        /\ call'[t].step = "ok" => call'[t].reply = GetActivePolicy(call[t].ws)
    BY <1>9, RereadFacts
  <2>2. call[t].ws \in Workspaces
    BY DEF TypeOK
  <2>3. ASSUME call[t].kind \in Activations
        PROVE  WasActive(call[t].ws, GetActivePolicy(call[t].ws))
    <3>1. WasActive(call[t].ws, call[t].version)
      BY <2>1, <2>3 DEF Committed
    <3>2. \E v \in Versions : policies[call[t].ws][v] = "active"
      BY <2>2, <3>1 DEF SomeActive, WasActive
    <3>3. QED
      BY <3>2 DEF GetActivePolicy, WasActive
  <2>4. QED
    BY <2>1, <2>3, CommittedStays DEF Committed, SamePurpose
<1>10. QED
  BY <1>2, <1>3, <1>4, <1>5, <1>6, <1>7, <1>8, <1>9 DEF Step

\* An admin's own step keeps what its call knows as long as nobody overtakes it.
LEMMA AloneStep ==
    ASSUME TypeOK, OneActive, NEW t \in Threads, Step(t), t # Boot, Committed(t), Alone(t)
    PROVE  Alone(t)'
<1>1. call[t].ws \in Workspaces
  BY DEF TypeOK
<1>3. CASE Peek(t)
  <2>1. GetActivePolicy(call[t].ws)' = GetActivePolicy(call[t].ws)
    BY <1>3, PeekFacts DEF SamePurpose, GetActivePolicy
  <2>2. QED
    BY <1>3, <2>1, PeekFacts DEF Alone
<1>4. CASE ReadTarget(t)
  BY <1>4, ReadFacts DEF Alone, SamePurpose
<1>5. CASE WriteCandidate(t)
  BY <1>5, CandidateFacts DEF Alone, Activations
<1>6. CASE WriteActive(t)
  <2>1. /\ SamePurpose(t) /\ call[t].step = "write" /\ call[t].kind \in Activations
        /\ call'[t].prev = call[t].prev /\ call'[t].from = call[t].from
        /\ call'[t].step = "failed" \/ (call'[t].step = "swap" /\ Replaces(t))
    BY <1>6, ActiveFacts DEF Commits
  <2>2. Replaces(t) => policies'[call[t].ws][call[t].version] = "active"
    BY ReplaceActive DEF Active
  <2>3. QED
    BY <2>1, <2>2 DEF Alone, SamePurpose
<1>7. CASE Swap(t)
  BY <1>7, SwapFacts DEF Alone, SamePurpose
<1>8. CASE Emit(t)
  <2>1. CASE call[t].kind = "create"
    BY <1>8, <2>1, EmitFacts DEF Alone, Activations
  <2>2. CASE call[t].kind # "create"
    BY <1>8, <2>2, EmitFacts DEF Alone, SamePurpose
  <2>3. QED
    BY <2>1, <2>2
<1>9. CASE Reread(t)
  <2>1. call[t].kind \in Activations => GetActivePolicy(call[t].ws) = call[t].version
    <3>1. ASSUME call[t].kind \in Activations
          PROVE  /\ policies[call[t].ws][call[t].version] = "active"
                 /\ call[t].version \in Versions
      BY <1>9, <3>1, RereadFacts DEF Alone, Committed, WasActive
    <3>2. QED
      BY <1>1, <3>1, ActiveIs DEF Active
  <2>2. QED
    BY <1>9, <2>1, RereadFacts DEF Alone, SamePurpose
<1>10. QED
  BY <1>3, <1>4, <1>5, <1>6, <1>7, <1>8, <1>9 DEF Step

\* Nor does the step of another one that leaves the call's workspace its active row.
LEMMA AloneStays ==
    ASSUME TypeOK, OneActive, NEW t \in Threads, call'[t] = call[t], Alone(t), Committed(t),
           \A u \in Versions : Active(call[t].ws, u)' <=> Active(call[t].ws, u)
    PROVE  Alone(t)'
<1>1. call[t].ws \in Workspaces
  BY DEF TypeOK
<1>2. \A u \in Versions : policies'[call[t].ws][u] = "active" <=> policies[call[t].ws][u] = "active"
  BY DEF Active
<1>3. GetActivePolicy(call[t].ws)' = GetActivePolicy(call[t].ws)
  <2> DEFINE w == call[t].ws
  <2>1. CASE \E u \in Versions : policies[w][u] = "active"
    <3>1. GetActivePolicy(w) \in Versions /\ policies[w][GetActivePolicy(w)] = "active"
      BY <2>1 DEF GetActivePolicy
    <3>2. \E u \in Versions : policies'[w][u] = "active"
      BY <1>2, <2>1
    <3>3. GetActivePolicy(w)' \in Versions /\ policies'[w][GetActivePolicy(w)'] = "active"
      BY <3>2 DEF GetActivePolicy
    <3>4. QED
      BY <1>1, <1>2, <3>1, <3>3 DEF OneActive
  <2>2. CASE ~\E u \in Versions : policies[w][u] = "active"
    BY <1>2, <2>2 DEF GetActivePolicy
  <2>3. QED
    BY <2>1, <2>2
<1>4. call[t].kind \in Activations /\ call[t].step \in {"swap", "emit", "reread"} =>
        policies'[call[t].ws][call[t].version] = "active"
  BY <1>2 DEF Alone, Committed, WasActive
<1>5. QED
  BY <1>3, <1>4 DEF Alone

LEMMA ReplyInvStep ==
    ASSUME TypeOK, ReplyInv, [Next]_vars
    PROVE  ReplyInv'
<1> USE ManagerAssumption
<1>1. OneActive' /\ SomeActive'
  BY OneActiveStep, SomeActiveStep DEF ReplyInv
<1>2. SUFFICES ASSUME NEW t \in Admins PROVE Committed(t)' /\ (t \notin overtaken' => Alone(t)')
  BY <1>1 DEF ReplyInv
<1>3. t \in Threads /\ t # Boot /\ Committed(t) /\ (t \notin overtaken => Alone(t))
  BY DEF Threads, ReplyInv
<1>a. OneActive /\ SomeActive
  BY DEF ReplyInv
<1>4. CASE Receive(t)
  <2>1. Alone(t)'
    BY <1>3, <1>4, ReceiveFacts DEF Alone, Activations
  <2>2. QED
    BY <1>a, <1>3, <1>4, <2>1, CommittedStep
<1>5. CASE Step(t)
  <2>1. t \notin overtaken' => t \notin overtaken
    <3>1. CASE WriteActive(t)
      BY <1>3, <3>1, ActiveFacts DEF Commits
    <3>2. CASE ~WriteActive(t)
      BY <1>3, <1>5, <3>2, HistoryStays DEF Step
    <3>3. QED
      BY <3>1, <3>2
  <2>2. QED
    BY <1>a, <1>3, <1>5, <2>1, CommittedStep, AloneStep
\* Another thread's step, or one of the process.
<1>6. ASSUME call'[t] = call[t] PROVE Committed(t)'
  <2>1. SamePurpose(t)
    BY <1>6 DEF SamePurpose
  <2>2. QED
    BY <1>3, <1>6, <2>1, CommittedStays DEF Committed
<1>7. ASSUME call'[t] = call[t], t \in overtaken => t \in overtaken',
             \A u \in Versions : Active(call[t].ws, u)' <=> Active(call[t].ws, u)
      PROVE  t \notin overtaken' => Alone(t)'
  BY <1>a, <1>3, <1>7, AloneStays
<1>8. call[t].ws \in Workspaces
  BY <1>3 DEF TypeOK
<1>9. ASSUME NEW s \in Threads, Receive(s) \/ Step(s), s # t
      PROVE  Committed(t)' /\ (t \notin overtaken' => Alone(t)')
  <2>1. call'[t] = call[t]
    BY <1>3, <1>9, OthersStay
  <2>2. CASE WriteActive(s)
    <3>1. \/ UNCHANGED <<policies, overtaken>>
          \/ Commits(s)
      BY <2>2, ActiveFacts
    <3>2. CASE UNCHANGED <<policies, overtaken>>
      BY <1>6, <1>7, <2>1, <3>2 DEF Active
    <3>3. CASE Commits(s) /\ call[s].ws = call[t].ws
      BY <1>3, <1>6, <1>9, <2>1, <3>3 DEF Commits
    <3>4. CASE Commits(s) /\ call[s].ws # call[t].ws
      <4>1. \A u \in Versions : Active(call[t].ws, u)' <=> Active(call[t].ws, u)
        <5>1. policies'[call[t].ws] = policies[call[t].ws]
          BY <1>8, <3>4 DEF Commits, Replaces, TypeOK, StoreTypeOK
        <5>2. QED
          BY <2>1, <5>1 DEF Active
      <4>2. t \in overtaken => t \in overtaken'
        BY <3>4 DEF Commits
      <4>3. QED
        BY <1>6, <1>7, <2>1, <4>1, <4>2
    <3>5. QED
      BY <3>1, <3>2, <3>3, <3>4
  <2>3. CASE ~WriteActive(s)
    <3>1. t \in overtaken => t \in overtaken'
      <4>1. CASE Receive(s)
        BY <1>9, <4>1 DEF Receive
      <4>2. CASE Step(s)
        BY <2>3, <4>2, HistoryStays DEF Step
      <4>3. QED
        BY <1>9, <4>1, <4>2
    <3>2. \A u \in Versions : Active(call[t].ws, u)' <=> Active(call[t].ws, u)
      <4>1. CASE WriteCandidate(s)
        <5>1. call[s].ws \in Workspaces /\ StoreTypeOK
          BY DEF TypeOK
        <5>2. CASE UNCHANGED policies
          BY <2>1, <5>2 DEF Active
        <5>3. CASE CreatePolicy(call[s].ws, call[s].version)
          <6>1. \A w \in Workspaces, u \in Versions : Active(w, u)' <=> Active(w, u)
            BY <5>1, <5>3, CreateActive
          <6>2. QED
            BY <1>8, <2>1, <6>1 DEF Active
        <5>4. QED
          BY <4>1, <5>2, <5>3, CandidateFacts
      <4>2. CASE ~WriteCandidate(s)
        <5>1. UNCHANGED policies
          BY <1>9, <2>3, <4>2 DEF Receive, Step, Peek, ReadTarget, Swap, Emit, Reread
        <5>2. QED
          BY <2>1, <5>1 DEF Active
      <4>3. QED
        BY <4>1, <4>2
    <3>3. QED
      BY <1>6, <1>7, <2>1, <3>1, <3>2
  <2>4. QED
    BY <2>2, <2>3
<1>10. CASE Hydrate \/ Serve
  <2>1. call'[t] = call[t] /\ UNCHANGED policies
    BY <1>3, <1>10, ProcessCalls
  <2>2. UNCHANGED overtaken
    BY <1>3, <1>10, HistoryStays
  <2>3. QED
    BY <1>6, <1>7, <2>1, <2>2 DEF Active
<1>11. CASE Stop
  <2>1. call'[t].kind = "create"
    BY <1>3, <1>11 DEF Stop, Idle, Call
  <2>2. QED
    BY <2>1 DEF Committed, Alone, Activations
<1>12. CASE UNCHANGED <<call, policies, overtaken>>
  BY <1>6, <1>7, <1>12 DEF Active
<1>13. QED
  BY <1>4, <1>5, <1>9, <1>10, <1>11, <1>12
     DEF Next, Crash, AbortStart, Restart, Finished, vars, history

(***************************************************************************)
(* What a successful call tells its client was made active; and unless     *)
(* another call activated in its workspace meanwhile, it is the version it *)
(* activated, and for a rollback the version it replaced or nothing: for   *)
(* any number of admins, whatever the outcomes of the writes and however   *)
(* often the process crashes.                                              *)
(***************************************************************************)
THEOREM RepliesDescribe == Spec => []RepliesDescribeTheCall
<1>1. Init => ReplyInv
  <2> SUFFICES ASSUME Init PROVE ReplyInv
    OBVIOUS
  <2>1. OneActive
    BY DEF Init, StoreInit, OneActive
  <2>2. SomeActive
    BY DEF Init, StoreInit, SomeActive, WasActive
  <2>3. ASSUME NEW t \in Admins PROVE Committed(t) /\ Alone(t)
    <3>1. call[t] = Idle
      BY DEF Init, Threads
    <3>2. call[t].kind = "create"
      BY <3>1 DEF Idle, Call
    <3>3. QED
      BY <3>2 DEF Committed, Alone, Activations
  <2>4. QED
    BY <2>1, <2>2, <2>3 DEF ReplyInv
<1>2. TypeOK /\ ReplyInv /\ [Next]_vars => ReplyInv'
  BY ReplyInvStep
<1>3. ReplyInv => RepliesDescribeTheCall
  <2> SUFFICES ASSUME ReplyInv, NEW t \in Admins,
                      call[t].step = "ok", call[t].kind \in Activations
               PROVE  /\ call[t].reply \in Versions
                      /\ policies[call[t].ws][call[t].reply] \in {"active", "historical"}
                      /\ t \in overtaken \/ call[t].reply = call[t].version
                      /\ call[t].kind = "rollback" =>
                           t \in overtaken \/ call[t].from \in {call[t].prev, NoVersion}
    BY DEF RepliesDescribeTheCall
  <2>1. Committed(t) /\ (t \notin overtaken => Alone(t))
    BY DEF ReplyInv
  <2>2. QED
    BY <2>1 DEF Committed, Alone, WasActive
<1>4. QED
  BY <1>1, <1>2, <1>3, TypeCorrect, PTL DEF Spec

=============================================================================
