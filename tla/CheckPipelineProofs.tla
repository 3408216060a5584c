------------------------ MODULE CheckPipelineProofs ------------------------
(***************************************************************************)
(* Theorems about CheckPipeline.  The adapter's and the engine's decisions *)
(* are functions of the request, one snapshot and one policy: most of what *)
(* is proved here is about those, for every request and policy, and the    *)
(* invariant only ties each check's state to them.                         *)
(***************************************************************************)
EXTENDS CheckPipeline, TLAPS

-----------------------------------------------------------------------------
(* The first check that fails, and the first value that is given.          *)

LEMMA MinIs ==
    ASSUME NEW S \in SUBSET Int, NEW m \in S, \A k \in S : m <= k
    PROVE  Min(S) = m
<1>1. \E x \in S : \A y \in S : x =< y
  OBVIOUS
<1>2. Min(S) \in S /\ \A y \in S : Min(S) =< y
  BY <1>1 DEF Min
<1>3. \A x \in S : (\A y \in S : x =< y) => x = m
  OBVIOUS
<1>4. QED
  BY <1>2, <1>3, Zenon

\* What FirstRefusal finds, if any check fails and if none does.
LEMMA RefusesFirst ==
    ASSUME NEW checks, Len(checks) \in Nat, NEW n \in 1..Len(checks), checks[n].fails,
           \A k \in 1..Len(checks) : k < n => ~checks[k].fails
    PROVE  FirstRefusal(checks) = checks[n].reason
<1> DEFINE I == {k \in 1..Len(checks) : checks[k].fails}
<1>0. I \in SUBSET Int /\ n \in I /\ \A k \in I : n <= k
  OBVIOUS
<1>1. Min(I) = n
  BY <1>0, MinIs
<1>2. SelectInSeq(checks, LAMBDA c : c.fails) = IF I # {} THEN Min(I) ELSE 0
  BY DEF SelectInSeq
<1>3. QED
  BY <1>1, <1>2 DEF FirstRefusal

LEMMA RefusesNone ==
    ASSUME NEW checks, Len(checks) \in Nat, \A k \in 1..Len(checks) : ~checks[k].fails
    PROVE  FirstRefusal(checks) = "none"
<1> DEFINE I == {k \in 1..Len(checks) : checks[k].fails}
<1>1. I = {}
  OBVIOUS
<1>2. SelectInSeq(checks, LAMBDA c : c.fails) = IF I # {} THEN Min(I) ELSE 0
  BY DEF SelectInSeq
<1>3. QED
  BY <1>1, <1>2 DEF FirstRefusal

\* A sequence of five checks, one after the other.
LEMMA FirstOfFive ==
    ASSUME NEW checks, Len(checks) = 5
    PROVE  FirstRefusal(checks) =
             IF checks[1].fails THEN checks[1].reason ELSE IF checks[2].fails THEN checks[2].reason
             ELSE IF checks[3].fails THEN checks[3].reason
             ELSE IF checks[4].fails THEN checks[4].reason
             ELSE IF checks[5].fails THEN checks[5].reason ELSE "none"
<1>1. Len(checks) \in Nat /\ 1..Len(checks) = 1..5 /\ 1..5 = {1, 2, 3, 4, 5}
  OBVIOUS
<1>2. ASSUME NEW n \in 1..5, checks[n].fails, \A k \in 1..5 : k < n => ~checks[k].fails
      PROVE  FirstRefusal(checks) = checks[n].reason
  BY <1>1, <1>2, RefusesFirst, Zenon
<1>3. ASSUME \A n \in 1..5 : ~checks[n].fails PROVE FirstRefusal(checks) = "none"
  BY <1>1, <1>3, RefusesNone, Zenon
<1>4. QED
  BY <1>1, <1>2, <1>3

\* The same of FirstGiven.
LEMMA GivesFirst ==
    ASSUME NEW values, NEW none, Len(values) \in Nat, NEW n \in 1..Len(values), values[n] # none,
           \A k \in 1..Len(values) : k < n => values[k] = none
    PROVE  FirstGiven(values, none) = values[n]
<1> DEFINE I == {k \in 1..Len(values) : values[k] # none}
<1>1. I \in SUBSET Int /\ n \in I /\ \A k \in I : n <= k
  OBVIOUS
<1>2. Min(I) = n
  BY <1>1, MinIs
<1>3. SelectInSeq(values, LAMBDA v : v # none) = IF I # {} THEN Min(I) ELSE 0
  BY DEF SelectInSeq
<1>4. QED
  BY <1>1, <1>2, <1>3 DEF FirstGiven

LEMMA GivesNone ==
    ASSUME NEW values, NEW none, Len(values) \in Nat, \A k \in 1..Len(values) : values[k] = none
    PROVE  FirstGiven(values, none) = none
<1> DEFINE I == {k \in 1..Len(values) : values[k] # none}
<1>1. I = {}
  OBVIOUS
<1>2. SelectInSeq(values, LAMBDA v : v # none) = IF I # {} THEN Min(I) ELSE 0
  BY DEF SelectInSeq
<1>3. QED
  BY <1>1, <1>2 DEF FirstGiven

LEMMA FirstOfThree ==
    ASSUME NEW a, NEW b, NEW c, NEW none
    PROVE  FirstGiven(<<a, b, c>>, none) = IF a # none THEN a ELSE IF b # none THEN b ELSE c
<1> DEFINE values == <<a, b, c>>
<1>1. Len(values) = 3 /\ values[1] = a /\ values[2] = b /\ values[3] = c
  OBVIOUS
<1>2. 1..3 = {1, 2, 3}
  OBVIOUS
<1> HIDE DEF values
<1>3. Len(values) \in Nat /\ 1..Len(values) = 1..3
  BY <1>1
<1>4. ASSUME NEW n \in 1..3, values[n] # none, \A k \in 1..3 : k < n => values[k] = none
      PROVE  FirstGiven(values, none) = values[n]
  BY <1>3, <1>4, GivesFirst, Zenon
<1>5. ASSUME \A n \in 1..3 : values[n] = none PROVE FirstGiven(values, none) = none
  BY <1>3, <1>5, GivesNone, Zenon
<1>6. FirstGiven(values, none) = IF a # none THEN a ELSE IF b # none THEN b ELSE c
  BY <1>1, <1>2, <1>4, <1>5
<1>7. QED
  BY <1>6 DEF values

LEMMA FirstOfTwo ==
    ASSUME NEW a, NEW b, NEW none
    PROVE  FirstGiven(<<a, b>>, none) = IF a # none THEN a ELSE b
<1> DEFINE values == <<a, b>>
<1>1. Len(values) = 2 /\ values[1] = a /\ values[2] = b
  OBVIOUS
<1>2. 1..2 = {1, 2}
  OBVIOUS
<1> HIDE DEF values
<1>3. Len(values) \in Nat /\ 1..Len(values) = 1..2
  BY <1>1
<1>4. ASSUME NEW n \in 1..2, values[n] # none, \A k \in 1..2 : k < n => values[k] = none
      PROVE  FirstGiven(values, none) = values[n]
  BY <1>3, <1>4, GivesFirst, Zenon
<1>5. ASSUME \A n \in 1..2 : values[n] = none PROVE FirstGiven(values, none) = none
  BY <1>3, <1>5, GivesNone, Zenon
<1>6. FirstGiven(values, none) = IF a # none THEN a ELSE b
  BY <1>1, <1>2, <1>4, <1>5
<1>7. QED
  BY <1>6 DEF values

-----------------------------------------------------------------------------
(* What the adapter finds, one case after the other.                       *)

\* One snapshot gives the classification and the declarations.
LEMMA RefusalIs ==
    ASSUME NEW r, NEW snap
    PROVE  Refusal(r, snap, snap) =
             IF ~r.call THEN "malformed_request"
             ELSE IF ~Mapped(r.claims) THEN "invalid_identity"
             ELSE IF Lookup(r, snap) = NoTool THEN "unknown_tool"
             ELSE IF Drifted(r, snap) THEN "unknown_tool"
             ELSE IF Lookup(r, snap) # NoTool /\ ~Resolves(Lookup(r, snap).decls, r.args)
                  THEN "malformed_request"
             ELSE "none"
<1> DEFINE checks ==
      <<[fails |-> ~r.call, reason |-> "malformed_request"],
        [fails |-> ~Mapped(r.claims), reason |-> "invalid_identity"],
        [fails |-> Lookup(r, snap) = NoTool, reason |-> "unknown_tool"],
        [fails |-> Drifted(r, snap), reason |-> "unknown_tool"],
        [fails |-> Lookup(r, snap) # NoTool /\ ~Resolves(Lookup(r, snap).decls, r.args),
         reason |-> "malformed_request"]>>
<1>1. /\ Len(checks) = 5
      /\ checks[1].fails <=> ~r.call
      /\ checks[2].fails <=> ~Mapped(r.claims)
      /\ checks[3].fails <=> Lookup(r, snap) = NoTool
      /\ checks[4].fails <=> Drifted(r, snap)
      /\ checks[5].fails <=> Lookup(r, snap) # NoTool /\ ~Resolves(Lookup(r, snap).decls, r.args)
      /\ checks[1].reason = "malformed_request" /\ checks[2].reason = "invalid_identity"
      /\ checks[3].reason = "unknown_tool" /\ checks[4].reason = "unknown_tool"
      /\ checks[5].reason = "malformed_request"
  BY DEF Drifted
<1>2. Refusal(r, snap, snap) = FirstRefusal(checks)
  BY DEF Refusal
<1> HIDE DEF checks
<1>3. QED
  BY <1>1, <1>2, FirstOfFive

LEMMA UnfitIs ==
    ASSUME NEW q, NEW policy
    PROVE  Unfit(q, policy) =
             IF q.backend = <<>> \/ q.name = <<>> THEN "malformed_request"
             ELSE IF q.agent = Absent \/ q.roles = {} \/ q.agent = q.obo THEN "invalid_identity"
             ELSE IF ~q.known THEN "unknown_tool"
             ELSE IF q.risk = Absent THEN "malformed_request"
             ELSE IF policy = NoPolicy THEN "no_policy_loaded"
             ELSE "none"
<1> DEFINE checks ==
      <<[fails |-> q.backend = <<>> \/ q.name = <<>>, reason |-> "malformed_request"],
        [fails |-> q.agent = Absent \/ q.roles = {} \/ q.agent = q.obo,
         reason |-> "invalid_identity"],
        [fails |-> ~q.known, reason |-> "unknown_tool"],
        [fails |-> q.risk = Absent, reason |-> "malformed_request"],
        [fails |-> policy = NoPolicy, reason |-> "no_policy_loaded"]>>
<1>1. /\ Len(checks) = 5
      /\ checks[1].fails <=> q.backend = <<>> \/ q.name = <<>>
      /\ checks[2].fails <=> q.agent = Absent \/ q.roles = {} \/ q.agent = q.obo
      /\ checks[3].fails <=> ~q.known
      /\ checks[4].fails <=> q.risk = Absent
      /\ checks[5].fails <=> policy = NoPolicy
      /\ checks[1].reason = "malformed_request" /\ checks[2].reason = "invalid_identity"
      /\ checks[3].reason = "unknown_tool" /\ checks[4].reason = "malformed_request"
      /\ checks[5].reason = "no_policy_loaded"
  OBVIOUS
<1>2. Unfit(q, policy) = FirstRefusal(checks)
  BY DEF Unfit
<1> HIDE DEF checks
<1>3. QED
  BY <1>1, <1>2, FirstOfFive

LEMMA RequestTypes ==
    ASSUME NEW i \in CheckRequests, NEW snap \in Snapshots
    PROVE  /\ Backend(i) \in Backends /\ Workspace(i) \in Workspaces
           /\ Lookup(i, snap) \in Definitions \cup {NoTool}
<1>1. Backend(i) = IF i.backend # <<>> THEN i.backend
                   ELSE IF i.route.backend # <<>> THEN i.route.backend ELSE DefaultBackend
  BY FirstOfThree DEF Backend
<1>2. Workspace(i) = IF i.claims.workspace # Absent THEN i.claims.workspace
                     ELSE IF i.route.workspace # Absent THEN i.route.workspace
                     ELSE DefaultWorkspace
  BY FirstOfThree DEF Workspace
<1>3. /\ i.backend \in Backends \cup {<<>>} /\ i.route.backend \in Backends \cup {<<>>}
      /\ i.claims.workspace \in Workspaces \cup {Absent}
      /\ i.route.workspace \in Workspaces \cup {Absent}
      /\ i.name \in Names
  BY DEF CheckRequests, Claims
<1>4. Backend(i) \in Backends /\ Workspace(i) \in Workspaces
  BY <1>1, <1>2, <1>3, AdaptationAssumption
<1>5. ToolKey(Backend(i), i.name) \in Keys
  BY <1>3, <1>4 DEF Keys
<1>6. QED
  BY <1>4, <1>5 DEF Lookup, Snapshots


-----------------------------------------------------------------------------
(* The request the engine is asked about, and what the documents call it.  *)

\* The fields of the request of a check that is not refused.
LEMMA AssembledIs ==
    ASSUME NEW i, NEW snap, Lookup(i, snap) # NoTool
    PROVE  LET q == Assembled(i, snap, snap)
           IN  /\ q.executionID = ExecutionID(i) /\ q.workspace = Workspace(i)
               /\ q.agent = i.claims.agent /\ q.obo = i.claims.obo /\ q.roles = i.claims.roles
               /\ q.backend = Backend(i) /\ q.name = i.name
               /\ q.known /\ q.risk = Lookup(i, snap).risk
               /\ q.args = Resolved(Lookup(i, snap).decls, i.args)
BY DEF Assembled

\* The arguments it carries are those the definition declares.
LEMMA ResolvedIsDeclared ==
    ASSUME NEW i \in CheckRequests, NEW def \in Definitions
    PROVE  Resolved(def.decls, i.args) = [n \in Declared(i, def) |-> i.args[n]]
<1>1. \A d \in def.decls : d.name \in ArgNames
  BY DEF Definitions, Declarations
<1>2. {d.name : d \in {e \in def.decls : i.args[e.name] # "absent"}} = Declared(i, def)
  BY <1>1 DEF Declared
<1>3. QED
  BY <1>2 DEF Resolved

\* A rule applies to it, or fails on it, as it does to what the documents have it see.
LEMMA SeenAlike ==
    ASSUME NEW i \in CheckRequests, NEW snap \in Snapshots, Lookup(i, snap) # NoTool, NEW rule
    PROVE  LET q == Assembled(i, snap, snap)
               seen == Seen(i, Lookup(i, snap))
           IN  (Holds(rule, q) <=> Holds(rule, seen)) /\ (Errs(rule, q) <=> Errs(rule, seen))
<1> DEFINE q == Assembled(i, snap, snap)
           seen == Seen(i, Lookup(i, snap))
<1>1. Lookup(i, snap) \in Definitions
  BY RequestTypes
<1>2. /\ q.roles = seen.roles /\ q.risk = seen.risk /\ q.args = seen.args
  BY <1>1, AssembledIs, ResolvedIsDeclared DEF Seen
<1> HIDE DEF q, seen
<1>3. /\ Holds(rule, q) <=> Holds(rule, seen)
      /\ Errs(rule, q) <=> Errs(rule, seen)
  BY <1>2 DEF Holds, Errs, InScope
<1>4. QED
  BY <1>3 DEF q, seen

\* It is fit for evaluation, but for a policy.
LEMMA FitIfAdapted ==
    ASSUME NEW i \in CheckRequests, NEW snap \in Snapshots, Refusal(i, snap, snap) = "none",
           NEW policy
    PROVE  /\ Lookup(i, snap) \in Definitions /\ Lookup(i, snap) # NoTool
           /\ Unfit(Assembled(i, snap, snap), policy)
                = IF policy = NoPolicy THEN "no_policy_loaded" ELSE "none"
<1> DEFINE q == Assembled(i, snap, snap)
<1>1. Mapped(i.claims) /\ Lookup(i, snap) # NoTool
  BY RefusalIs
<1>2. Lookup(i, snap) \in Definitions /\ Backend(i) \in Backends /\ i.name \in Names
  BY <1>1, RequestTypes DEF CheckRequests
<1>3. q.backend # <<>> /\ q.name # <<>>
  BY <1>1, <1>2, AssembledIs, AdaptationAssumption
<1>4. q.agent # Absent /\ q.roles # {} /\ q.agent # q.obo
  BY <1>1, AssembledIs, AdaptationAssumption DEF Mapped
<1>5. q.known /\ q.risk # Absent
  BY <1>1, <1>2, AssembledIs DEF Definitions, Risks, Absent
<1> HIDE DEF q
<1>6. Unfit(q, policy) = IF policy = NoPolicy THEN "no_policy_loaded" ELSE "none"
  BY <1>3, <1>4, <1>5, UnfitIs
<1>7. QED
  BY <1>1, <1>2, <1>6 DEF q

\* What each verdict says of the rules.
LEMMA VerdictSays ==
    ASSUME NEW q, NEW policy \in Policies
    PROVE  LET v == Verdict(EvalOutput(policy, q))
           IN  /\ v \in {"evaluation_error", "policy_allow", "policy_deny", "no_matching_policy"}
               /\ v = "evaluation_error" => \E rule \in policy : Errs(rule, q)
               /\ v = "policy_allow" =>
                    /\ \E rule \in policy : rule.effect = "permit" /\ Holds(rule, q)
                    /\ \A rule \in policy :
                         ~Errs(rule, q) /\ (rule.effect = "forbid" => ~Holds(rule, q))
               /\ v = "policy_deny" => \E rule \in policy : rule.effect = "forbid" /\ Holds(rule, q)
               /\ v = "no_matching_policy" => \A rule \in policy : ~Holds(rule, q)
<1> DEFINE allowed == /\ \E rule \in policy : rule.effect = "permit" /\ Holds(rule, q)
                      /\ \A rule \in policy : rule.effect = "forbid" => ~Holds(rule, q)
           matched == \E rule \in policy : Holds(rule, q)
           hadError == \E rule \in policy : Errs(rule, q)
           out == EvalOutput(policy, q)
<1>1. (out.allowed <=> allowed) /\ (out.matched <=> matched) /\ (out.hadError <=> hadError)
  BY DEF EvalOutput
<1>2. \A rule \in policy : rule.effect \in {"permit", "forbid"}
  BY EngineAssumption DEF Rules
<1>3. allowed => matched
  OBVIOUS
<1>4. matched /\ ~allowed => \E rule \in policy : rule.effect = "forbid" /\ Holds(rule, q)
  BY <1>2
<1> HIDE DEF out, allowed, matched, hadError
<1>5. Verdict(out) = IF hadError THEN "evaluation_error" ELSE IF allowed THEN "policy_allow"
                     ELSE IF matched THEN "policy_deny" ELSE "no_matching_policy"
  BY <1>1 DEF Verdict
<1>6. QED
  BY <1>3, <1>4, <1>5 DEF out, allowed, matched, hadError


-----------------------------------------------------------------------------
(* What a check tells, as a function of the request, the snapshot and the  *)
(* policy.                                                                 *)

\* The engine's decision on a request that is not refused.
LEMMA EvaluatedIs ==
    ASSUME NEW i \in CheckRequests, NEW snap \in Snapshots, Refusal(i, snap, snap) = "none",
           NEW policy
    PROVE  LET q == Assembled(i, snap, snap)
           IN  Evaluated(q, policy) = IF policy = NoPolicy THEN "no_policy_loaded"
                                      ELSE Verdict(EvalOutput(policy, q))
BY FitIfAdapted DEF Evaluated

LEMMA IssuableIs ==
    ASSUME NEW i \in CheckRequests, NEW snap \in Snapshots, Refusal(i, snap, snap) = "none"
    PROVE  Issuable(Assembled(i, snap, snap)) <=> Backend(i) \in Audiences
<1>1. Lookup(i, snap) \in Definitions /\ Lookup(i, snap) # NoTool
  BY FitIfAdapted
<1>2. Lookup(i, snap).risk \in {"read", "write", "destructive"}
  BY <1>1 DEF Definitions, Risks
<1>3. Scopes(Lookup(i, snap).risk) # {}
  BY <1>2 DEF Scopes
<1>4. QED
  BY <1>1, <1>3, AssembledIs DEF Issuable

\* The cases of what is told of a request that is not refused.
LEMMA TellsWhenAdapted ==
    ASSUME NEW i \in CheckRequests, NEW snap \in Snapshots, NEW policy \in Candidates,
           Refusal(i, snap, snap) = "none"
    PROVE  LET v == Verdict(EvalOutput(policy, Assembled(i, snap, snap)))
               told == WouldTell(i, snap, policy)
           IN  \/ policy = NoPolicy /\ told = "no_policy_loaded"
               \/ policy \in Policies /\ v # "policy_allow" /\ told = v
               \/ policy \in Policies /\ v = "policy_allow" /\ Backend(i) \in Audiences
                    /\ told = "policy_allow"
               \/ policy \in Policies /\ v = "policy_allow" /\ Backend(i) \notin Audiences
                    /\ told = "credential_issuance_failure"
<1> DEFINE q == Assembled(i, snap, snap)
           v == Verdict(EvalOutput(policy, q))
<1>1. Evaluated(q, policy) = IF policy = NoPolicy THEN "no_policy_loaded" ELSE v
  BY EvaluatedIs
<1>2. Issuable(q) <=> Backend(i) \in Audiences
  BY IssuableIs
<1>3. WouldTell(i, snap, policy) =
        IF Evaluated(q, policy) = "policy_allow" /\ ~Issuable(q)
        THEN "credential_issuance_failure" ELSE Evaluated(q, policy)
  BY DEF WouldTell
<1> HIDE DEF q, v
<1>4. policy = NoPolicy \/ policy \in Policies
  BY DEF Candidates
<1>5. QED
  BY <1>1, <1>2, <1>3, <1>4, EngineAssumption DEF q, v

LEMMA RefusalReasons ==
    ASSUME NEW i, NEW snap
    PROVE  Refusal(i, snap, snap) \in {"none", "malformed_request", "invalid_identity", "unknown_tool"}
BY RefusalIs

\* Whatever is told is a reason.
LEMMA TellsAReason ==
    ASSUME NEW i \in CheckRequests, NEW snap \in Snapshots, NEW policy \in Candidates
    PROVE  WouldTell(i, snap, policy) \in Reasons
<1>1. CASE Refusal(i, snap, snap) = "none"
  <2> DEFINE v == Verdict(EvalOutput(policy, Assembled(i, snap, snap)))
  <2>1. policy \in Policies =>
          v \in {"evaluation_error", "policy_allow", "policy_deny", "no_matching_policy"}
    BY VerdictSays
  <2> HIDE DEF v
  <2>2. QED
    BY <1>1, <2>1, TellsWhenAdapted DEF Reasons, v
<1>2. CASE Refusal(i, snap, snap) # "none"
  BY <1>2, RefusalReasons DEF WouldTell, Reasons
<1>3. QED
  BY <1>1, <1>2

\* An ALLOW is told of a request that may pass only, and one a credential is issued for.
LEMMA AllowMayPass ==
    ASSUME NEW i \in CheckRequests, NEW snap \in Snapshots, NEW policy \in Candidates,
           WouldTell(i, snap, policy) = "policy_allow"
    PROVE  /\ Refusal(i, snap, snap) = "none"
           /\ MayPass(i, Lookup(i, snap), policy)
<1> DEFINE def == Lookup(i, snap)
           q == Assembled(i, snap, snap)
<1>1. Refusal(i, snap, snap) = "none"
  BY RefusalReasons DEF WouldTell
<1>2. i.call /\ Mapped(i.claims) /\ def # NoTool /\ ~Drifted(i, snap) /\ Resolves(def.decls, i.args)
  BY <1>1, RefusalIs
<1>3. policy \in Policies /\ policy # NoPolicy /\ Verdict(EvalOutput(policy, q)) = "policy_allow"
  BY <1>1, TellsWhenAdapted, EngineAssumption
<1>4. def \in Definitions
  BY <1>1, FitIfAdapted
<1>5. /\ i.claims.agent \in Agents /\ i.claims.roles # {}
      /\ i.claims.obo \in Agents => i.claims.obo # i.claims.agent
  BY <1>2 DEF Mapped
<1>6. i.fingerprint \in Fingerprints => i.fingerprint = def.fingerprint
  <2>1. LiveFingerprint(i) = IF i.fingerprint # Absent THEN i.fingerprint ELSE i.route.fingerprint
    BY FirstOfTwo DEF LiveFingerprint
  <2>2. QED
    BY <1>2, <2>1, AdaptationAssumption DEF Drifted
<1>7. ASSUME NEW d \in def.decls
      PROVE  /\ d.required => d.name \in Declared(i, def)
             /\ d.name \in Declared(i, def) => KindOf(i.args[d.name]) = d.type
  <2>1. d.name \in ArgNames
    BY <1>4, <1>7 DEF Definitions, Declarations
  <2>2. IF i.args[d.name] = "absent" THEN ~d.required ELSE KindOf(i.args[d.name]) = d.type
    BY <1>2, <1>7 DEF Resolves
  <2>3. d.name \in Declared(i, def) <=> i.args[d.name] # "absent"
    BY <1>7, <2>1 DEF Declared
  <2>4. QED
    BY <2>2, <2>3
<1>8. /\ \E rule \in policy : rule.effect = "permit" /\ Holds(rule, Seen(i, def))
      /\ \A rule \in policy :
           /\ ~Errs(rule, Seen(i, def))
           /\ rule.effect = "forbid" => ~Holds(rule, Seen(i, def))
  BY <1>2, <1>3, VerdictSays, SeenAlike
<1>9. QED
  BY <1>1, <1>2, <1>3, <1>5, <1>6, <1>7, <1>8 DEF MayPass

\* Whatever reason is told is true.
LEMMA ReasonIsTrue ==
    ASSUME NEW i \in CheckRequests, NEW snap \in Snapshots, NEW policy \in Candidates
    PROVE  True(WouldTell(i, snap, policy), i, Lookup(i, snap), policy)
<1> DEFINE def == Lookup(i, snap)
           q == Assembled(i, snap, snap)
           v == Verdict(EvalOutput(policy, q))
           told == WouldTell(i, snap, policy)
<1>1. CASE Refusal(i, snap, snap) = "none"
  <2>1. def # NoTool
    BY <1>1, FitIfAdapted
  <2>2. \A rule : /\ Holds(rule, q) <=> Holds(rule, Seen(i, def))
                  /\ Errs(rule, q) <=> Errs(rule, Seen(i, def))
    BY <2>1, SeenAlike
  <2>3. policy \in Policies =>
          /\ v \in {"evaluation_error", "policy_allow", "policy_deny", "no_matching_policy"}
          /\ v = "evaluation_error" => \E rule \in policy : Errs(rule, q)
          /\ v = "policy_deny" => \E rule \in policy : rule.effect = "forbid" /\ Holds(rule, q)
          /\ v = "no_matching_policy" => \A rule \in policy : ~Holds(rule, q)
    BY VerdictSays
  <2>4. \/ policy = NoPolicy /\ told = "no_policy_loaded"
        \/ policy \in Policies /\ v # "policy_allow" /\ told = v
        \/ told = "policy_allow"
        \/ Backend(i) \notin Audiences /\ told = "credential_issuance_failure"
    BY <1>1, TellsWhenAdapted
  <2> HIDE DEF def, q, v, told
  <2>5. True(told, i, def, policy)
    BY <2>2, <2>3, <2>4, EngineAssumption DEF True
  <2>6. QED
    BY <2>5 DEF told, def
<1>2. CASE Refusal(i, snap, snap) # "none"
  <2>1. told = Refusal(i, snap, snap)
    BY <1>2 DEF WouldTell
  <2>2. CASE ~i.call
    BY <2>1, <2>2, RefusalIs DEF True
  <2>3. CASE i.call /\ ~Mapped(i.claims)
    BY <2>1, <2>3, RefusalIs DEF True, Mapped
  <2>4. CASE i.call /\ Mapped(i.claims) /\ (def = NoTool \/ Drifted(i, snap))
    BY <2>1, <2>4, RefusalIs DEF True, Drifted
  <2>5. CASE def # NoTool /\ ~Resolves(def.decls, i.args) /\ told = "malformed_request"
    <3>1. PICK d \in def.decls :
            IF i.args[d.name] = "absent" THEN d.required ELSE KindOf(i.args[d.name]) # d.type
      BY <2>5 DEF Resolves
    <3>2. d.name \in Declared(i, def) <=> i.args[d.name] # "absent"
      BY <2>5, <3>1, RequestTypes DEF Declared, Definitions, Declarations
    <3>3. QED
      BY <2>5, <3>1, <3>2 DEF True
  <2>6. QED
    BY <1>2, <2>1, <2>2, <2>3, <2>4, <2>5, RefusalIs
<1>3. QED
  BY <1>1, <1>2


\* What it is without its undeclared arguments is told the same.
LEMMA UndeclaredIsNotSeen ==
    ASSUME NEW i \in CheckRequests, NEW snap \in Snapshots, NEW policy
    PROVE  WouldTell(Without(i, Undeclared(i, Lookup(i, snap))), snap, policy)
             = WouldTell(i, snap, policy)
<1> DEFINE def == Lookup(i, snap)
           names == Undeclared(i, def)
           j == Without(i, names)
<1>1. /\ j.call = i.call /\ j.name = i.name /\ j.claims = i.claims /\ j.backend = i.backend
      /\ j.fingerprint = i.fingerprint /\ j.executionID = i.executionID
      /\ j.requestID = i.requestID /\ j.route = i.route
      /\ j.args = [n \in ArgNames |-> IF n \in names THEN "absent" ELSE i.args[n]]
  BY DEF Without, CheckRequests
<1> HIDE DEF j
<1>2. /\ Backend(j) = Backend(i) /\ Workspace(j) = Workspace(i)
      /\ LiveFingerprint(j) = LiveFingerprint(i) /\ ExecutionID(j) = ExecutionID(i)
  BY <1>1 DEF Backend, Workspace, LiveFingerprint, ExecutionID
<1>3. Lookup(j, snap) = def /\ (Drifted(j, snap) <=> Drifted(i, snap))
  BY <1>1, <1>2 DEF Lookup, Drifted
<1>4. ASSUME def # NoTool
      PROVE  /\ Resolves(def.decls, j.args) <=> Resolves(def.decls, i.args)
             /\ Resolved(def.decls, j.args) = Resolved(def.decls, i.args)
  <2>1. def \in Definitions
    BY <1>4, RequestTypes
  <2>2. \A d \in def.decls : d.name \in ArgNames /\ d.name \notin names
    BY <1>4, <2>1 DEF Definitions, Declarations, Undeclared
  <2> HIDE DEF names, def
  <2>3. \A d \in def.decls : j.args[d.name] = i.args[d.name]
    BY <1>1, <2>2
  <2>4. Resolves(def.decls, j.args) <=> Resolves(def.decls, i.args)
    BY <2>3 DEF Resolves
  <2> DEFINE given(args) == {d.name : d \in {e \in def.decls : args[e.name] # "absent"}}
  <2>5. given(j.args) = given(i.args) /\ \A n \in given(i.args) : j.args[n] = i.args[n]
    BY <2>3
  <2>6. Resolved(def.decls, j.args) = Resolved(def.decls, i.args)
    BY <2>5 DEF Resolved
  <2>7. QED
    BY <2>4, <2>6
<1>5. Refusal(j, snap, snap) = Refusal(i, snap, snap)
  <2> HIDE DEF def
  <2>1. def = Lookup(i, snap)
    BY DEF def
  <2>2. QED
    BY <1>1, <1>3, <1>4, <2>1, RefusalIs
<1>6. CASE Refusal(i, snap, snap) # "none"
  BY <1>5, <1>6 DEF WouldTell, j
<1>7. CASE Refusal(i, snap, snap) = "none"
  <2>1. def # NoTool
    BY <1>7, RefusalIs
  <2>2. Assembled(j, snap, snap) = Assembled(i, snap, snap)
    BY <1>1, <1>2, <1>3, <1>4, <2>1 DEF Assembled
  <2>3. QED
    BY <1>5, <2>2 DEF WouldTell, j
<1>8. QED
  BY <1>6, <1>7

\* A sample that describes the call is decided as the call is, if the policy looks at none
\* of its arguments.
LEMMA SampleDecidesAlike ==
    ASSUME NEW i \in CheckRequests, NEW snap \in Snapshots, Refusal(i, snap, snap) = "none",
           NEW t \in Trials, Describes(t.sample, i, Lookup(i, snap)),
           \A rule \in t.policy : rule.arg \notin Declared(i, Lookup(i, snap))
    PROVE  Evaluated(Assembled(i, snap, snap), t.policy) = Tried(t)
<1> DEFINE def == Lookup(i, snap)
           q == Assembled(i, snap, snap)
           s == Converted(t.workspace, t.sample)
           policy == t.policy
<1>1. def \in Definitions /\ def # NoTool
  BY FitIfAdapted
<1>2. /\ q.agent = i.claims.agent /\ q.obo = i.claims.obo /\ q.roles = i.claims.roles
      /\ q.backend = Backend(i) /\ q.name = i.name
      /\ q.known /\ q.risk = def.risk
      /\ q.args = [n \in Declared(i, def) |-> i.args[n]]
  BY <1>1, AssembledIs, ResolvedIsDeclared
<1>3. /\ s.agent = t.sample.principal /\ s.obo = t.sample.onBehalfOf
      /\ s.roles = t.sample.roles /\ s.backend = t.sample.backend /\ s.name = t.sample.tool
      /\ s.known /\ s.risk = t.sample.risk /\ s.args = <<>>
  BY DEF Converted
<1>4. /\ q.agent = s.agent /\ q.obo = s.obo /\ q.roles = s.roles /\ q.backend = s.backend
      /\ q.name = s.name /\ q.risk = s.risk
  BY <1>2, <1>3 DEF Describes
<1> HIDE DEF q, s
<1>5. Unfit(q, policy) = Unfit(s, policy)
  BY <1>2, <1>3, <1>4, UnfitIs
<1>6. ASSUME NEW rule \in policy
      PROVE  (Holds(rule, q) <=> Holds(rule, s)) /\ (Errs(rule, q) <=> Errs(rule, s))
  <2>1. rule.arg \notin DOMAIN q.args
    BY <1>2, <1>6
  <2>2. rule.arg = NoArg \/ rule.arg \in ArgNames
    BY <1>6, PipelineAssumption, EngineAssumption DEF Rules
  <2>3. rule.arg \in ArgNames \/ rule.arg = NoArg => rule.arg \notin DOMAIN s.args
    BY <1>3
  <2>4. QED
    BY <1>4, <2>1, <2>2, <2>3 DEF Holds, Errs, InScope
<1>7. EvalOutput(policy, q) = EvalOutput(policy, s)
  BY <1>6 DEF EvalOutput
<1>8. Evaluated(q, policy) = Evaluated(s, policy)
  BY <1>5, <1>7 DEF Evaluated
<1>9. QED
  BY <1>8 DEF q, s, Tried

\* The engine never lets the stand-in of a refused request through.
LEMMA StandInIsDenied ==
    ASSUME NEW i, NEW reason, NEW policy
    PROVE  /\ Evaluated(StandIn(i, reason), policy) \in Reasons \ {"policy_allow"}
           /\ StandIn(i, reason).executionID = RefusedExecutionID(i)
<1> DEFINE q == StandIn(i, reason)
<1>1. ~q.known /\ q.executionID = RefusedExecutionID(i)
  BY DEF StandIn
<1> HIDE DEF q
<1>2. Unfit(q, policy) \in {"malformed_request", "invalid_identity", "unknown_tool"}
  BY <1>1, UnfitIs
<1>3. QED
  BY <1>1, <1>2 DEF Evaluated, Reasons, q


-----------------------------------------------------------------------------
(* The invariant: where a check is, what it has found so far is a function *)
(* of its input, its snapshot, its policy and what went wrong.             *)

IsCheck(k) ==
    k = [step |-> k.step, input |-> k.input, snapshot |-> k.snapshot, policy |-> k.policy,
         refusal |-> k.refusal, request |-> k.request, result |-> k.result,
         credential |-> k.credential, faults |-> k.faults, told |-> k.told]

Begun(k) == k.step \notin {"new", "adapt"}
Decided(k) == k.step \in {"record", "answer", "done"}
Appended(k) == k.step \in {"answer", "done"}

RequestOf(k) ==
    IF k.refusal = "none" THEN Assembled(k.input, k.snapshot, k.snapshot)
    ELSE StandIn(k.input, k.refusal)

\* The engine's answer, or the evaluator's error.
Found(k) ==
    IF "evaluator" \in k.faults THEN "evaluation_error" ELSE Evaluated(k.request, k.policy)

\* The decision that is to be recorded, once a credential has been asked for.
Decision(k) ==
    IF Found(k) = "policy_allow" /\ (~Issuable(k.request) \/ "issuer" \in k.faults)
    THEN "credential_issuance_failure" ELSE Found(k)

\* The decision that is returned.
Final(k) ==
    IF "append" \in k.faults /\ Decision(k) = "policy_allow" THEN "evaluation_error"
    ELSE Decision(k)

Placed(k) ==
    /\ IsCheck(k)
    /\ k.step \in Steps /\ k.input \in Inputs /\ k.snapshot \in Catalogs /\ k.policy \in Candidates
    /\ ~Begun(k) => k.refusal = "none"
    /\ Begun(k) => k.refusal = Refusal(k.input, k.snapshot, k.snapshot) /\ k.request = RequestOf(k)

FaultInv(k) ==
    /\ k.faults \subseteq Faults
    /\ "timeout" \in k.faults => Begun(k)
    /\ "evaluator" \in k.faults => Begun(k) /\ k.step # "evaluate"
    /\ "issuer" \in k.faults => Decided(k)
    /\ "append" \in k.faults => Appended(k)

ResultInv(k) ==
    /\ ~Begun(k) \/ k.step = "evaluate" => k.result = "none"
    /\ k.step = "issue" => k.result = Found(k)
    /\ ~Decided(k) => k.credential = NoCredential
    /\ Decided(k) =>
         /\ k.result = Final(k)
         /\ k.credential = IF k.result = "policy_allow" THEN Minted(k.request) ELSE NoCredential

ToldInv(k) ==
    /\ "timeout" \in k.faults =>
         /\ k.refusal = "none"
         /\ k.told = [reason |-> "evaluation_error", executionID |-> k.request.executionID,
                      credential |-> NoCredential]
    /\ "timeout" \notin k.faults /\ k.step # "done" => k.told.reason = "none"
    /\ "timeout" \notin k.faults /\ k.step = "done" =>
         k.told = [reason |-> IF k.refusal = "none" THEN k.result ELSE k.refusal,
                   executionID |-> k.request.executionID, credential |-> k.credential]

StageInv(k) == Placed(k) /\ FaultInv(k) /\ ResultInv(k) /\ ToldInv(k)

\* The row of a check, if it has one.
Filed(k) ==
    LET q == k.request
    IN  [executionID |-> q.executionID, workspace |-> q.workspace, agent |-> q.agent,
         obo |-> q.obo, backend |-> q.backend, name |-> q.name, risk |-> q.risk,
         reason |-> Decision(k)]

RowInv(k, r) ==
    /\ r = NoRow \/ r = Filed(k)
    /\ ~Appended(k) => r = NoRow
    /\ Appended(k) /\ "append" \notin k.faults => r = Filed(k)

PipelineInv ==
    /\ live \in Catalogs
    /\ engine \in [Workspaces -> Candidates]
    /\ changes \in 0..MaxChanges
    /\ check = [c \in Checks |-> check[c]]
    /\ row = [c \in Checks |-> row[c]]
    /\ dry = [t \in Trials |-> dry[t]]
    /\ \A t \in Trials : dry[t] \in {"none", Tried(t)}
    /\ \A c \in Checks : StageInv(check[c]) /\ RowInv(check[c], row[c])

\* Whatever the request and the policy, the engine answers with a reason.
LEMMA EvaluatesToAReason ==
    ASSUME NEW q, NEW policy
    PROVE  Evaluated(q, policy) \in Reasons
<1>1. Unfit(q, policy) \in Reasons \cup {"none"}
  BY UnfitIs DEF Reasons
<1> DEFINE out == EvalOutput(policy, q)
<1>2. Verdict(out) \in {"evaluation_error", "policy_allow", "policy_deny", "no_matching_policy"}
  <2> HIDE DEF out
  <2>1. QED
    BY DEF Verdict
<1>3. QED
  BY <1>1, <1>2 DEF Evaluated, Reasons

LEMMA ResultsAreReasons ==
    ASSUME NEW k
    PROVE  Found(k) \in Reasons /\ Decision(k) \in Reasons /\ Final(k) \in Reasons
<1>1. Evaluated(k.request, k.policy) \in Reasons
  BY EvaluatesToAReason
<1>2. QED
  BY <1>1 DEF Found, Decision, Final, Reasons

\* What is decided does not depend on how far the check is, nor on the append or the time.
LEMMA DecidedAlike ==
    ASSUME NEW k, NEW l, l.request = k.request, l.policy = k.policy,
           "evaluator" \in l.faults <=> "evaluator" \in k.faults,
           "issuer" \in l.faults <=> "issuer" \in k.faults
    PROVE  Found(l) = Found(k) /\ Decision(l) = Decision(k) /\ Filed(l) = Filed(k)
<1>1. Found(l) = Found(k)
  BY DEF Found
<1>2. Decision(l) = Decision(k)
  BY <1>1 DEF Decision
<1>3. QED
  BY <1>1, <1>2 DEF Filed

\* A check's own step; the others stay as they are.
LEMMA CheckMoves ==
    ASSUME PipelineInv, NEW c \in Checks, NEW k, NEW r,
           check' = [check EXCEPT ![c] = k], row' = [row EXCEPT ![c] = r],
           UNCHANGED <<live, engine, changes, dry>>, StageInv(k), RowInv(k, r)
    PROVE  PipelineInv'
<1>1. check = [d \in Checks |-> check[d]] /\ row = [d \in Checks |-> row[d]]
  BY DEF PipelineInv
<1>2. /\ check' = [d \in Checks |-> check'[d]] /\ row' = [d \in Checks |-> row'[d]]
      /\ check'[c] = k /\ row'[c] = r
      /\ \A d \in Checks : d # c => check'[d] = check[d] /\ row'[d] = row[d]
  BY <1>1
<1>3. \A d \in Checks : StageInv(check'[d]) /\ RowInv(check'[d], row'[d])
  BY <1>2 DEF PipelineInv
<1>4. \A t \in Trials : dry'[t] \in {"none", Tried(t)}
  BY DEF PipelineInv
<1>5. QED
  BY <1>2, <1>3, <1>4 DEF PipelineInv

LEMMA RowStays ==
    ASSUME PipelineInv, NEW c \in Checks, UNCHANGED row
    PROVE  row' = [row EXCEPT ![c] = row[c]]
BY DEF PipelineInv

LEMMA ArriveKeeps ==
    ASSUME PipelineInv, NEW c \in Checks, Arrive(c)
    PROVE  PipelineInv'
<1>1. StageInv(check[c]) /\ RowInv(check[c], row[c]) /\ check[c].step = "new"
  BY DEF PipelineInv, Arrive
<1>2. PICK i \in Inputs :
        check' = [check EXCEPT ![c] = [check[c] EXCEPT !.step = "adapt", !.input = i,
                                                       !.snapshot = live]]
  BY DEF Arrive
<1> DEFINE k == [check[c] EXCEPT !.step = "adapt", !.input = i, !.snapshot = live]
<1>3. /\ k.step = "adapt" /\ k.input = i /\ k.snapshot = live /\ k.policy = check[c].policy
      /\ k.refusal = check[c].refusal /\ k.result = check[c].result
      /\ k.credential = check[c].credential /\ k.faults = check[c].faults
      /\ k.told = check[c].told /\ IsCheck(k)
  <2>1. IsCheck(check[c])
    BY <1>1 DEF StageInv, Placed
  <2>2. k = [check[c] EXCEPT !.step = "adapt", !.input = i, !.snapshot = live]
    OBVIOUS
  <2> HIDE DEF k
  <2>3. QED
    BY <2>1, <2>2 DEF IsCheck
<1> HIDE DEF k
<1>4. Placed(k)
  BY <1>1, <1>3 DEF StageInv, Placed, Begun, Steps, PipelineInv
<1>5. FaultInv(k) /\ ResultInv(k) /\ ToldInv(k)
  BY <1>1, <1>3 DEF StageInv, FaultInv, ResultInv, ToldInv, Begun, Decided, Appended
<1>6. RowInv(k, row[c])
  BY <1>1, <1>3 DEF RowInv, Appended
<1>7. QED
  BY <1>2, <1>4, <1>5, <1>6, CheckMoves, RowStays DEF Arrive, StageInv, k

LEMMA AdaptKeeps ==
    ASSUME PipelineInv, NEW c \in Checks, Adapt(c)
    PROVE  PipelineInv'
<1> DEFINE i == check[c].input
           snap == check[c].snapshot
           refusal == Refusal(i, snap, snap)
           request == IF refusal = "none" THEN Assembled(i, snap, snap) ELSE StandIn(i, refusal)
           k == [check[c] EXCEPT !.step = "evaluate", !.refusal = refusal, !.request = request]
<1>1. StageInv(check[c]) /\ RowInv(check[c], row[c]) /\ check[c].step = "adapt"
  BY DEF PipelineInv, Adapt
<1>2. check' = [check EXCEPT ![c] = k]
  BY DEF Adapt, DeclaredIn
<1> HIDE DEF refusal, request
<1>3. /\ k.step = "evaluate" /\ k.input = i /\ k.snapshot = snap /\ k.policy = check[c].policy
      /\ k.refusal = refusal /\ k.request = request /\ k.result = check[c].result
      /\ k.credential = check[c].credential /\ k.faults = check[c].faults
      /\ k.told = check[c].told /\ IsCheck(k)
  <2>1. IsCheck(check[c])
    BY <1>1 DEF StageInv, Placed
  <2>2. k = [check[c] EXCEPT !.step = "evaluate", !.refusal = refusal,
                                !.request = request]
    OBVIOUS
  <2> HIDE DEF k
  <2>3. QED
    BY <2>1, <2>2 DEF IsCheck
<1> HIDE DEF k
<1>4. k.request = RequestOf(k)
  BY <1>3 DEF request, refusal, RequestOf
<1>5. Placed(k)
  BY <1>1, <1>3, <1>4 DEF StageInv, Placed, Begun, Steps, refusal
<1>6. FaultInv(k) /\ ResultInv(k) /\ ToldInv(k)
  BY <1>1, <1>3 DEF StageInv, FaultInv, ResultInv, ToldInv, Begun, Decided, Appended
<1>7. RowInv(k, row[c])
  BY <1>1, <1>3 DEF RowInv, Appended
<1>8. QED
  BY <1>2, <1>5, <1>6, <1>7, CheckMoves, RowStays DEF Adapt, StageInv

\* The policy is that of the caller's workspace, or of the default one for a stand-in.
LEMMA RequestHasWorkspace ==
    ASSUME NEW k, Placed(k), Begun(k)
    PROVE  k.request.workspace \in Workspaces
<1>1. k.input \in CheckRequests /\ k.snapshot \in Snapshots /\ k.request = RequestOf(k)
  BY PipelineAssumption DEF Placed
<1>2. Workspace(k.input) \in Workspaces
  BY <1>1, RequestTypes
<1>3. QED
  BY <1>1, <1>2, AdaptationAssumption DEF RequestOf, Assembled, StandIn

\* A step of a check whose request is already there leaves it.
LEMMA StaysPlaced ==
    ASSUME NEW k, NEW l, Placed(k), Begun(k), IsCheck(l), l.step \in Steps, Begun(l),
           l.input = k.input, l.snapshot = k.snapshot, l.refusal = k.refusal,
           l.request = k.request, l.policy \in Candidates
    PROVE  Placed(l)
BY DEF Placed, RequestOf

LEMMA EvaluateKeeps ==
    ASSUME PipelineInv, NEW c \in Checks, Evaluate(c)
    PROVE  PipelineInv'
<1> DEFINE q == check[c].request
           policy == engine[q.workspace]
           result == Evaluated(q, policy)
           k == [check[c] EXCEPT !.step = "issue", !.policy = policy, !.result = result]
<1>1. StageInv(check[c]) /\ RowInv(check[c], row[c]) /\ check[c].step = "evaluate"
  BY DEF PipelineInv, Evaluate
<1>2. check' = [check EXCEPT ![c] = k]
  BY DEF Evaluate
<1>3. policy \in Candidates /\ Begun(check[c])
  <2>1. Begun(check[c])
    BY <1>1 DEF Begun
  <2>2. QED
    BY <1>1, <2>1, RequestHasWorkspace DEF PipelineInv, StageInv
<1> HIDE DEF policy, result
<1>4. /\ k.step = "issue" /\ k.input = check[c].input /\ k.snapshot = check[c].snapshot
      /\ k.policy = policy /\ k.refusal = check[c].refusal /\ k.request = q
      /\ k.result = result /\ k.credential = check[c].credential
      /\ k.faults = check[c].faults /\ k.told = check[c].told /\ IsCheck(k)
  <2>1. IsCheck(check[c])
    BY <1>1 DEF StageInv, Placed
  <2>2. k = [check[c] EXCEPT !.step = "issue", !.policy = policy,
                                !.result = result]
    OBVIOUS
  <2> HIDE DEF k
  <2>3. QED
    BY <2>1, <2>2 DEF IsCheck
<1> HIDE DEF k
<1>5. Placed(k)
  BY <1>1, <1>3, <1>4, StaysPlaced DEF StageInv, Begun, Steps
<1>6. FaultInv(k) /\ ToldInv(k)
  BY <1>1, <1>4 DEF StageInv, FaultInv, ToldInv, Begun, Decided, Appended
<1>7. ResultInv(k)
  <2>1. k.result = Found(k)
    BY <1>1, <1>4 DEF Found, result, StageInv, FaultInv
  <2>2. QED
    BY <1>1, <1>4, <2>1 DEF StageInv, ResultInv, Begun, Decided
<1>8. RowInv(k, row[c])
  BY <1>1, <1>4 DEF RowInv, Appended
<1>9. QED
  BY <1>2, <1>5, <1>6, <1>7, <1>8, CheckMoves, RowStays DEF Evaluate, StageInv

LEMMA EvaluateFailsKeeps ==
    ASSUME PipelineInv, NEW c \in Checks, EvaluateFails(c)
    PROVE  PipelineInv'
<1> DEFINE faults == check[c].faults \cup {"evaluator"}
           k == [check[c] EXCEPT !.step = "issue", !.result = "evaluation_error",
                                 !.faults = faults]
<1>1. StageInv(check[c]) /\ RowInv(check[c], row[c]) /\ check[c].step = "evaluate"
  BY DEF PipelineInv, EvaluateFails
<1>2. check' = [check EXCEPT ![c] = k]
  BY DEF EvaluateFails
<1>3. /\ k.step = "issue" /\ k.input = check[c].input /\ k.snapshot = check[c].snapshot
      /\ k.policy = check[c].policy /\ k.refusal = check[c].refusal
      /\ k.request = check[c].request /\ k.result = "evaluation_error"
      /\ k.credential = check[c].credential /\ k.faults = faults
      /\ k.told = check[c].told /\ IsCheck(k)
  <2>1. IsCheck(check[c])
    BY <1>1 DEF StageInv, Placed
  <2>2. k = [check[c] EXCEPT !.step = "issue", !.result = "evaluation_error",
                                !.faults = faults]
    OBVIOUS
  <2> HIDE DEF k, faults
  <2>3. QED
    BY <2>1, <2>2 DEF IsCheck
<1> HIDE DEF k
<1>4. Placed(k)
  BY <1>1, <1>3, StaysPlaced DEF StageInv, Placed, Begun, Steps
<1>5. FaultInv(k) /\ ToldInv(k)
  BY <1>1, <1>3 DEF StageInv, FaultInv, ToldInv, Begun, Decided, Appended, Faults
<1>6. ResultInv(k)
  BY <1>1, <1>3 DEF StageInv, ResultInv, Begun, Decided, Found
<1>7. RowInv(k, row[c])
  BY <1>1, <1>3 DEF RowInv, Appended
<1>8. QED
  BY <1>2, <1>4, <1>5, <1>6, <1>7, CheckMoves, RowStays DEF EvaluateFails, StageInv

LEMMA IssueKeeps ==
    ASSUME PipelineInv, NEW c \in Checks, Issue(c)
    PROVE  PipelineInv'
<1> DEFINE q == check[c].request
           allowed == check[c].result = "policy_allow"
           Issued(credential, result, faults) ==
             [check[c] EXCEPT !.step = "record", !.credential = credential, !.result = result,
                              !.faults = faults]
<1>1. StageInv(check[c]) /\ RowInv(check[c], row[c]) /\ check[c].step = "issue"
  BY DEF PipelineInv, Issue
<1>2. PICK credential, result, faults :
        /\ check' = [check EXCEPT ![c] = Issued(credential, result, faults)]
        /\ faults = check[c].faults \/ (faults = check[c].faults \cup {"issuer"} /\ allowed)
        /\ result = IF allowed /\ (~Issuable(q) \/ "issuer" \in faults)
                    THEN "credential_issuance_failure" ELSE check[c].result
        /\ credential = IF result = "policy_allow" THEN Minted(q) ELSE NoCredential
  <2>1. IsCheck(check[c]) /\ check[c].credential = NoCredential /\ "issuer" \notin check[c].faults
    BY <1>1 DEF StageInv, Placed, ResultInv, FaultInv, Decided
  <2>2. CASE /\ allowed /\ Issuable(q)
             /\ check' = [check EXCEPT ![c] = [check[c] EXCEPT !.step = "record",
                                                               !.credential = Minted(q)]]
    <3>1. [check[c] EXCEPT !.step = "record", !.credential = Minted(q)]
            = Issued(Minted(q), check[c].result, check[c].faults)
      BY <2>1 DEF IsCheck
    <3>2. QED
      BY <2>1, <2>2, <3>1
  <2>3. CASE /\ allowed /\ ~Issuable(q)
             /\ check' = [check EXCEPT ![c] = [check[c] EXCEPT !.step = "record",
                                                  !.result = "credential_issuance_failure"]]
    <3>1. [check[c] EXCEPT !.step = "record", !.result = "credential_issuance_failure"]
            = Issued(NoCredential, "credential_issuance_failure", check[c].faults)
      BY <2>1 DEF IsCheck
    <3>2. QED
      BY <2>1, <2>3, <3>1
  <2>4. CASE /\ allowed
             /\ check' = [check EXCEPT ![c] = [check[c] EXCEPT !.step = "record",
                                                  !.result = "credential_issuance_failure",
                                                  !.faults = check[c].faults \cup {"issuer"}]]
    <3>1. [check[c] EXCEPT !.step = "record", !.result = "credential_issuance_failure",
                           !.faults = check[c].faults \cup {"issuer"}]
            = Issued(NoCredential, "credential_issuance_failure",
                     check[c].faults \cup {"issuer"})
      BY <2>1 DEF IsCheck
    <3> DEFINE fs == check[c].faults \cup {"issuer"}
    <3>2. check' = [check EXCEPT ![c] = Issued(NoCredential, "credential_issuance_failure", fs)]
      BY <2>4, <3>1
    <3>3. fs = check[c].faults \cup {"issuer"} /\ "issuer" \in fs
      OBVIOUS
    <3> HIDE DEF fs, Issued
    <3> DEFINE why == "credential_issuance_failure"
    <3>4. /\ why = IF allowed /\ (~Issuable(q) \/ "issuer" \in fs)
                   THEN "credential_issuance_failure" ELSE check[c].result
          /\ NoCredential = IF why = "policy_allow" THEN Minted(q) ELSE NoCredential
      BY <2>4, <3>3
    <3>5. QED
      BY <2>4, <3>2, <3>3, <3>4, Zenon
  <2>5. CASE /\ ~allowed
             /\ check' = [check EXCEPT ![c] = [check[c] EXCEPT !.step = "record"]]
    <3>1. [check[c] EXCEPT !.step = "record"]
            = Issued(NoCredential, check[c].result, check[c].faults)
      BY <2>1 DEF IsCheck
    <3>2. QED
      BY <2>1, <2>5, <3>1
  <2>6. QED
    BY <2>2, <2>3, <2>4, <2>5 DEF Issue
<1> DEFINE k == Issued(credential, result, faults)
<1>3. /\ k.step = "record" /\ k.input = check[c].input /\ k.snapshot = check[c].snapshot
      /\ k.policy = check[c].policy /\ k.refusal = check[c].refusal /\ k.request = q
      /\ k.result = result /\ k.credential = credential /\ k.faults = faults
      /\ k.told = check[c].told /\ IsCheck(k)
  <2>1. IsCheck(check[c])
    BY <1>1 DEF StageInv, Placed
  <2>2. k = [check[c] EXCEPT !.step = "record", !.credential = credential,
                                !.result = result, !.faults = faults]
    OBVIOUS
  <2> HIDE DEF k, Issued
  <2>3. QED
    BY <2>1, <2>2 DEF IsCheck
<1> HIDE DEF k, Issued
<1>4. Placed(k)
  BY <1>1, <1>3, StaysPlaced DEF StageInv, Placed, Begun, Steps
<1>5. FaultInv(k) /\ ToldInv(k)
  BY <1>1, <1>2, <1>3 DEF StageInv, FaultInv, ToldInv, Begun, Decided, Appended, Faults
<1>6. k.result = Decision(k) /\ "append" \notin k.faults
  <2>1. check[c].result = Found(check[c])
    BY <1>1 DEF StageInv, ResultInv
  <2>2. Found(k) = Found(check[c])
    BY <1>2, <1>3 DEF Found
  <2>3. "append" \notin k.faults
    BY <1>1, <1>2, <1>3 DEF StageInv, FaultInv, Appended
  <2>4. QED
    BY <1>2, <1>3, <2>1, <2>2, <2>3 DEF Decision
<1>7. ResultInv(k)
  BY <1>2, <1>3, <1>6 DEF ResultInv, Begun, Decided, Final
<1>8. RowInv(k, row[c])
  BY <1>1, <1>3 DEF RowInv, Appended
<1>9. QED
  BY <1>2, <1>4, <1>5, <1>7, <1>8, CheckMoves, RowStays DEF Issue, StageInv, k

\* What a check that is about to be recorded, or was, is recorded as.
LEMMA RowIsFiled ==
    ASSUME NEW c \in Checks, StageInv(check[c]), check[c].step = "record"
    PROVE  /\ RowOf(c) = Filed(check[c]) /\ check[c].result = Decision(check[c])
           /\ "append" \notin check[c].faults
<1>1. check[c].result = Final(check[c]) /\ "append" \notin check[c].faults
  BY DEF StageInv, ResultInv, FaultInv, Decided, Appended
<1>2. check[c].result = Decision(check[c])
  BY <1>1 DEF Final
<1>3. QED
  BY <1>1, <1>2 DEF RowOf, Filed

LEMMA RecordKeeps ==
    ASSUME PipelineInv, NEW c \in Checks, Record(c)
    PROVE  PipelineInv'
<1> DEFINE k == [check[c] EXCEPT !.step = "answer"]
<1>1. StageInv(check[c]) /\ check[c].step = "record"
  BY DEF PipelineInv, Record
<1>2. check' = [check EXCEPT ![c] = k] /\ row' = [row EXCEPT ![c] = RowOf(c)]
  BY DEF Record
<1>3. /\ k.step = "answer" /\ k.input = check[c].input /\ k.snapshot = check[c].snapshot
      /\ k.policy = check[c].policy /\ k.refusal = check[c].refusal
      /\ k.request = check[c].request /\ k.result = check[c].result
      /\ k.credential = check[c].credential /\ k.faults = check[c].faults
      /\ k.told = check[c].told /\ IsCheck(k)
  <2>1. IsCheck(check[c])
    BY <1>1 DEF StageInv, Placed
  <2>2. k = [check[c] EXCEPT !.step = "answer"]
    OBVIOUS
  <2> HIDE DEF k
  <2>3. QED
    BY <2>1, <2>2 DEF IsCheck
<1> HIDE DEF k
<1>4. Placed(k)
  BY <1>1, <1>3, StaysPlaced DEF StageInv, Placed, Begun, Steps
<1>5. FaultInv(k) /\ ToldInv(k)
  BY <1>1, <1>3 DEF StageInv, FaultInv, ToldInv, Begun, Decided, Appended
<1>6. Decision(k) = Decision(check[c]) /\ Filed(k) = Filed(check[c])
  BY <1>3, DecidedAlike
<1>7. ResultInv(k)
  BY <1>1, <1>3, <1>6 DEF StageInv, ResultInv, Begun, Decided, Final
<1>8. RowInv(k, RowOf(c))
  BY <1>1, <1>3, <1>6, RowIsFiled DEF RowInv, Appended
<1>9. QED
  BY <1>2, <1>4, <1>5, <1>7, <1>8, CheckMoves DEF Record, StageInv

LEMMA RecordFailsKeeps ==
    ASSUME PipelineInv, NEW c \in Checks, RecordFails(c)
    PROVE  PipelineInv'
<1> DEFINE result == IF check[c].result = "policy_allow" THEN "evaluation_error"
                     ELSE check[c].result
           faults == check[c].faults \cup {"append"}
           k == [check[c] EXCEPT !.step = "answer", !.result = result,
                                 !.credential = NoCredential, !.faults = faults]
<1>1. StageInv(check[c]) /\ RowInv(check[c], row[c]) /\ check[c].step = "record"
  BY DEF PipelineInv, RecordFails
<1>2. /\ check' = [check EXCEPT ![c] = k]
      /\ row' = row \/ row' = [row EXCEPT ![c] = RowOf(c)]
  BY DEF RecordFails
<1>3. PICK r \in {row[c], RowOf(c)} : row' = [row EXCEPT ![c] = r]
  BY <1>2, RowStays
<1> HIDE DEF result, faults
<1>4. /\ k.step = "answer" /\ k.input = check[c].input /\ k.snapshot = check[c].snapshot
      /\ k.policy = check[c].policy /\ k.refusal = check[c].refusal
      /\ k.request = check[c].request /\ k.result = result
      /\ k.credential = NoCredential /\ k.faults = faults
      /\ k.told = check[c].told /\ IsCheck(k)
  <2>1. IsCheck(check[c])
    BY <1>1 DEF StageInv, Placed
  <2>2. k = [check[c] EXCEPT !.step = "answer", !.result = result,
                                !.credential = NoCredential, !.faults = faults]
    OBVIOUS
  <2> HIDE DEF k
  <2>3. QED
    BY <2>1, <2>2 DEF IsCheck
<1> HIDE DEF k
<1>5. Placed(k)
  BY <1>1, <1>4, StaysPlaced DEF StageInv, Placed, Begun, Steps
<1>6. FaultInv(k) /\ ToldInv(k)
  BY <1>1, <1>4 DEF StageInv, FaultInv, ToldInv, Begun, Decided, Appended, Faults, faults
<1>7. Decision(k) = Decision(check[c]) /\ Filed(k) = Filed(check[c])
  BY <1>4, DecidedAlike DEF faults
<1>8. ResultInv(k)
  <2>1. check[c].result = Decision(check[c])
    BY <1>1, RowIsFiled
  <2>2. k.result = Final(k) /\ k.result # "policy_allow"
    BY <1>4, <1>7, <2>1 DEF Final, result, faults
  <2>3. QED
    BY <1>4, <2>2 DEF ResultInv, Begun, Decided
<1>9. RowInv(k, r)
  <2>1. r = NoRow \/ r = Filed(k)
    BY <1>1, <1>3, <1>7, RowIsFiled DEF RowInv, Appended
  <2>2. QED
    BY <1>4, <2>1 DEF RowInv, Appended, faults
<1>10. QED
  BY <1>2, <1>3, <1>5, <1>6, <1>8, <1>9, CheckMoves DEF RecordFails, StageInv

LEMMA AnswerKeeps ==
    ASSUME PipelineInv, NEW c \in Checks, Answer(c)
    PROVE  PipelineInv'
<1> DEFINE reason == IF check[c].refusal = "none" THEN check[c].result ELSE check[c].refusal
           told == IF "timeout" \in check[c].faults THEN check[c].told
                   ELSE [reason |-> reason, executionID |-> check[c].request.executionID,
                         credential |-> check[c].credential]
           k == [check[c] EXCEPT !.step = "done", !.told = told]
<1>1. StageInv(check[c]) /\ RowInv(check[c], row[c]) /\ check[c].step = "answer"
  BY DEF PipelineInv, Answer
<1>2. check' = [check EXCEPT ![c] = k]
  BY DEF Answer, Response
<1> HIDE DEF told
<1>3. /\ k.step = "done" /\ k.input = check[c].input /\ k.snapshot = check[c].snapshot
      /\ k.policy = check[c].policy /\ k.refusal = check[c].refusal
      /\ k.request = check[c].request /\ k.result = check[c].result
      /\ k.credential = check[c].credential /\ k.faults = check[c].faults
      /\ k.told = told /\ IsCheck(k)
  <2>1. IsCheck(check[c])
    BY <1>1 DEF StageInv, Placed
  <2>2. k = [check[c] EXCEPT !.step = "done", !.told = told]
    OBVIOUS
  <2> HIDE DEF k
  <2>3. QED
    BY <2>1, <2>2 DEF IsCheck
<1> HIDE DEF k
<1>4. Placed(k)
  BY <1>1, <1>3, StaysPlaced DEF StageInv, Placed, Begun, Steps
<1>5. FaultInv(k)
  BY <1>1, <1>3 DEF StageInv, FaultInv, Begun, Decided, Appended
<1>6. ToldInv(k)
  BY <1>1, <1>3 DEF StageInv, ToldInv, told
<1>7. Decision(k) = Decision(check[c]) /\ Filed(k) = Filed(check[c])
  BY <1>3, DecidedAlike
<1>8. ResultInv(k)
  BY <1>1, <1>3, <1>7 DEF StageInv, ResultInv, Begun, Decided, Final
<1>9. RowInv(k, row[c])
  BY <1>1, <1>3, <1>7 DEF RowInv, Appended
<1>10. QED
  BY <1>2, <1>4, <1>5, <1>6, <1>8, <1>9, CheckMoves, RowStays DEF Answer, StageInv

LEMMA TimeOutKeeps ==
    ASSUME PipelineInv, NEW c \in Checks, TimeOut(c)
    PROVE  PipelineInv'
<1> DEFINE told == [reason |-> "evaluation_error", executionID |-> check[c].request.executionID,
                    credential |-> NoCredential]
           faults == check[c].faults \cup {"timeout"}
           k == [check[c] EXCEPT !.told = told, !.faults = faults]
<1>1. /\ StageInv(check[c]) /\ RowInv(check[c], row[c]) /\ check[c].refusal = "none"
      /\ check[c].step \in {"evaluate", "issue", "record", "answer"}
  BY DEF PipelineInv, TimeOut
<1>2. check' = [check EXCEPT ![c] = k]
  BY DEF TimeOut, Response
<1> HIDE DEF told, faults
<1>3. /\ k.step = check[c].step /\ k.input = check[c].input /\ k.snapshot = check[c].snapshot
      /\ k.policy = check[c].policy /\ k.refusal = check[c].refusal
      /\ k.request = check[c].request /\ k.result = check[c].result
      /\ k.credential = check[c].credential /\ k.faults = faults
      /\ k.told = told /\ IsCheck(k)
  <2>1. IsCheck(check[c])
    BY <1>1 DEF StageInv, Placed
  <2>2. k = [check[c] EXCEPT !.told = told, !.faults = faults]
    OBVIOUS
  <2> HIDE DEF k
  <2>3. QED
    BY <2>1, <2>2 DEF IsCheck
<1> HIDE DEF k
<1>4. Placed(k)
  BY <1>1, <1>3, StaysPlaced DEF StageInv, Placed, Begun, Steps
<1>5. FaultInv(k) /\ ToldInv(k)
  BY <1>1, <1>3 DEF StageInv, FaultInv, ToldInv, Begun, Decided, Appended, Faults, faults, told
<1>6. Found(k) = Found(check[c]) /\ Decision(k) = Decision(check[c]) /\ Filed(k) = Filed(check[c])
  BY <1>3, DecidedAlike DEF faults
<1>7. ResultInv(k)
  <2>1. Final(k) = Final(check[c])
    BY <1>3, <1>6 DEF Final, faults
  <2>2. QED
    BY <1>1, <1>3, <1>6, <2>1 DEF StageInv, ResultInv, Begun, Decided
<1>8. RowInv(k, row[c])
  BY <1>1, <1>3, <1>6 DEF RowInv, Appended, faults
<1>9. QED
  BY <1>2, <1>4, <1>5, <1>7, <1>8, CheckMoves, RowStays DEF TimeOut, StageInv


-----------------------------------------------------------------------------

LEMMA PipelineInit == Init => PipelineInv
<1> SUFFICES ASSUME Init PROVE PipelineInv
  OBVIOUS
<1> USE PipelineAssumption
<1>1. NoInput \in Inputs
  BY DEF NoInput
<1>2. engine \in [Workspaces -> Candidates] /\ NoPolicy \in Candidates
  BY DEF Init, Candidates
<1>3. ASSUME NEW c \in Checks PROVE StageInv(check[c]) /\ RowInv(check[c], row[c])
  <2> DEFINE k == check[c]
  <2>1. k = [step |-> "new", input |-> NoInput, snapshot |-> live, policy |-> NoPolicy,
             refusal |-> "none", request |-> NoRequest, result |-> "none",
             credential |-> NoCredential, faults |-> {},
             told |-> [reason |-> "none", executionID |-> "none",
                       credential |-> NoCredential]]
    BY DEF Init
  <2>2. live \in Catalogs /\ row[c] = NoRow
    BY DEF Init
  <2> HIDE DEF k
  <2>3. /\ k.step = "new" /\ k.input = NoInput /\ k.snapshot = live
        /\ k.policy = NoPolicy /\ k.refusal = "none" /\ k.result = "none"
        /\ k.credential = NoCredential /\ k.faults = {} /\ k.told.reason = "none"
    BY <2>1
  <2>4. IsCheck(k)
    BY <2>1 DEF IsCheck
  <2>5. Placed(k)
    BY <1>1, <1>2, <2>2, <2>3, <2>4 DEF Placed, Begun, Steps
  <2>6. FaultInv(k) /\ ResultInv(k) /\ ToldInv(k)
    BY <2>3 DEF FaultInv, ResultInv, ToldInv, Begun, Decided, Appended
  <2>7. RowInv(k, row[c])
    BY <2>2, <2>3 DEF RowInv, Appended
  <2>8. QED
    BY <2>5, <2>6, <2>7 DEF StageInv, k
<1>4. dry = [t \in Trials |-> dry[t]] /\ \A t \in Trials : dry[t] = "none"
  BY DEF Init
<1>5. check = [c \in Checks |-> check[c]] /\ row = [c \in Checks |-> row[c]]
  BY DEF Init
<1>6. live \in Catalogs /\ changes \in 0..MaxChanges
  BY DEF Init
<1>7. QED
  BY <1>2, <1>3, <1>4, <1>5, <1>6 DEF PipelineInv

LEMMA PipelineStep ==
    ASSUME PipelineInv, [Next]_vars
    PROVE  PipelineInv'
<1>1. CASE ReplaceCatalog
  <2>1. live' \in Catalogs /\ changes' \in 0..MaxChanges
    BY <1>1, PipelineAssumption DEF ReplaceCatalog, PipelineInv
  <2>2. QED
    BY <1>1, <2>1 DEF ReplaceCatalog, PipelineInv
<1>2. ASSUME NEW w \in Workspaces, ActivatePolicy(w) PROVE PipelineInv'
  <2>1. engine' \in [Workspaces -> Candidates] /\ changes' \in 0..MaxChanges
    BY <1>2, PipelineAssumption DEF ActivatePolicy, PipelineInv, Candidates
  <2>2. QED
    BY <1>2, <2>1 DEF ActivatePolicy, PipelineInv
<1>3. ASSUME NEW t \in Trials, DryRun(t) PROVE PipelineInv'
  <2>1. /\ dry' = [u \in Trials |-> dry'[u]]
        /\ \A u \in Trials : dry'[u] \in {"none", Tried(u)}
    BY <1>3 DEF DryRun, PipelineInv
  <2>2. QED
    BY <1>3, <2>1 DEF DryRun, PipelineInv
<1>4. CASE UNCHANGED vars
  BY <1>4 DEF vars, PipelineInv
<1>5. ASSUME NEW c \in Checks, CheckStep(c) PROVE PipelineInv'
  BY <1>5, ArriveKeeps, AdaptKeeps, EvaluateKeeps, EvaluateFailsKeeps, IssueKeeps, RecordKeeps,
     RecordFailsKeeps, AnswerKeeps, TimeOutKeeps DEF CheckStep
<1>6. QED
  BY <1>1, <1>2, <1>3, <1>4, <1>5 DEF Next

LEMMA PipelineInvariant == Spec => []PipelineInv
<1>1. Init => PipelineInv
  BY PipelineInit
<1>2. PipelineInv /\ [Next]_vars => PipelineInv'
  BY PipelineStep
<1>3. QED
  BY <1>1, <1>2, PTL DEF Spec

\* The facts of an answered check.
LEMMA AnsweredFacts ==
    ASSUME PipelineInv, NEW c \in Checks, Answered(c)
    PROVE  LET k == check[c]
           IN  /\ k.input \in CheckRequests /\ k.input \in Inputs /\ k.snapshot \in Snapshots
               /\ k.policy \in Candidates
               /\ k.refusal = Refusal(k.input, k.snapshot, k.snapshot) /\ k.request = RequestOf(k)
               /\ k.told.executionID = k.request.executionID
               /\ \/ /\ "timeout" \in k.faults /\ k.refusal = "none"
                     /\ k.told.reason = "evaluation_error"
                  \/ /\ "timeout" \notin k.faults /\ Appended(k)
                     /\ k.told.reason = IF k.refusal = "none" THEN Final(k) ELSE k.refusal
                     /\ k.told.credential = IF Final(k) = "policy_allow" THEN Minted(k.request)
                                            ELSE NoCredential
               /\ RowInv(k, row[c])
<1> DEFINE k == check[c]
<1>1. Placed(k) /\ FaultInv(k) /\ ResultInv(k) /\ ToldInv(k) /\ RowInv(k, row[c])
  BY DEF PipelineInv, StageInv
<1>2. k.told.reason # "none"
  BY DEF Answered
<1>3. "timeout" \in k.faults \/ k.step = "done"
  BY <1>1, <1>2 DEF ToldInv
<1>4. Begun(k)
  BY <1>1, <1>3 DEF FaultInv, Begun
<1>5. /\ k.input \in CheckRequests /\ k.input \in Inputs /\ k.snapshot \in Snapshots
      /\ k.policy \in Candidates
  BY <1>1, PipelineAssumption DEF Placed
<1>6. k.refusal = Refusal(k.input, k.snapshot, k.snapshot) /\ k.request = RequestOf(k)
  BY <1>1, <1>4 DEF Placed
<1>7. CASE "timeout" \in k.faults
  <2>1. /\ k.told.reason = "evaluation_error" /\ k.refusal = "none"
        /\ k.told.executionID = k.request.executionID
    BY <1>1, <1>7 DEF ToldInv
  <2>2. QED
    BY <1>1, <1>5, <1>6, <1>7, <2>1
<1>8. CASE "timeout" \notin k.faults
  <2>1. k.step = "done"
    BY <1>3, <1>8
  <2>2. /\ k.told.reason = IF k.refusal = "none" THEN k.result ELSE k.refusal
        /\ k.told.executionID = k.request.executionID
        /\ k.told.credential = k.credential
    BY <1>1, <1>8, <2>1 DEF ToldInv
  <2>3. /\ k.result = Final(k) /\ Appended(k)
        /\ k.credential = IF k.result = "policy_allow" THEN Minted(k.request) ELSE NoCredential
    BY <1>1, <2>1 DEF ResultInv, Decided, Appended
  <2>4. QED
    BY <1>1, <1>5, <1>6, <1>8, <2>2, <2>3
<1>9. QED
  BY <1>7, <1>8

\* A fault aside, what is told is a function of the input, the snapshot and the policy.
LEMMA ToldIs ==
    ASSUME PipelineInv, NEW c \in Checks, Answered(c)
    PROVE  \/ check[c].told.reason =
                WouldTell(check[c].input, check[c].snapshot, check[c].policy)
           \/ Faulty(c)
<1> DEFINE k == check[c]
           would == WouldTell(k.input, k.snapshot, k.policy)
<1>1. /\ k.refusal = Refusal(k.input, k.snapshot, k.snapshot) /\ k.request = RequestOf(k)
      /\ \/ "timeout" \in k.faults /\ k.told.reason = "evaluation_error"
         \/ k.told.reason = IF k.refusal = "none" THEN Final(k) ELSE k.refusal
  BY AnsweredFacts
<1>2. CASE "timeout" \in k.faults /\ k.told.reason = "evaluation_error"
  BY <1>2 DEF Faulty
<1>3. CASE k.refusal # "none" /\ k.told.reason = k.refusal
  BY <1>1, <1>3 DEF WouldTell
<1>4. CASE k.refusal = "none" /\ k.told.reason = Final(k)
  <2>1. would = IF Evaluated(k.request, k.policy) = "policy_allow" /\ ~Issuable(k.request)
                THEN "credential_issuance_failure" ELSE Evaluated(k.request, k.policy)
    BY <1>1, <1>4 DEF WouldTell, RequestOf
  <2> HIDE DEF would
  <2>2. CASE "evaluator" \in k.faults
    BY <1>4, <2>2 DEF Final, Decision, Found, Faulty
  <2>3. CASE "append" \in k.faults /\ Decision(k) = "policy_allow"
    BY <1>4, <2>3 DEF Final, Faulty
  <2>4. CASE "evaluator" \notin k.faults /\ k.told.reason = Decision(k)
    <3>1. Found(k) = Evaluated(k.request, k.policy)
      BY <2>4 DEF Found
    <3>2. CASE "issuer" \in k.faults /\ Found(k) = "policy_allow"
      BY <2>4, <3>2 DEF Decision, Faulty
    <3>3. CASE ~("issuer" \in k.faults /\ Found(k) = "policy_allow")
      BY <2>1, <2>4, <3>1, <3>3 DEF Decision, would
    <3>4. QED
      BY <3>2, <3>3
  <2>5. QED
    BY <1>4, <2>2, <2>3, <2>4 DEF Final
<1>5. QED
  BY <1>1, <1>2, <1>3, <1>4


-----------------------------------------------------------------------------

\* Every check, at every step, holds an input, a snapshot, a policy and reasons of the kind
\* it should, and has been told one when it is done.
THEOREM TypeCorrect == Spec => []TypeOK
<1>1. ASSUME PipelineInv PROVE TypeOK
  <2>1. ASSUME NEW c \in Checks
        PROVE  /\ check[c].step \in Steps
               /\ check[c].input \in Inputs
               /\ check[c].snapshot \in Catalogs
               /\ check[c].policy \in Candidates
               /\ check[c].refusal \in Reasons \cup {"none"}
               /\ check[c].result \in Reasons \cup {"none"}
               /\ check[c].faults \subseteq Faults
               /\ check[c].told.reason \in Reasons \cup {"none"}
               /\ check[c].step = "done" => check[c].told.reason # "none"
    <3> DEFINE k == check[c]
    <3>1. Placed(k) /\ FaultInv(k) /\ ResultInv(k) /\ ToldInv(k)
      BY <1>1 DEF PipelineInv, StageInv
    <3>2. k.refusal \in Reasons \cup {"none"}
      BY <3>1, RefusalReasons DEF Placed, Reasons
    <3>3. Found(k) \in Reasons /\ Final(k) \in Reasons /\ "none" \notin Reasons
      BY ResultsAreReasons DEF Reasons
    <3>4. k.result \in Reasons \cup {"none"}
      BY <3>1, <3>3 DEF Placed, ResultInv, Begun, Decided, Steps
    <3>5. ASSUME k.told.reason # "none" \/ k.step = "done" PROVE k.told.reason \in Reasons
      <4>1. CASE "timeout" \in k.faults
        <5>1. k.told.reason = "evaluation_error"
          BY <3>1, <4>1 DEF ToldInv
        <5>2. QED
          BY <5>1 DEF Reasons
      <4>2. CASE "timeout" \notin k.faults
        <5>1. k.step = "done"
          BY <3>1, <3>5, <4>2 DEF ToldInv
        <5>2. k.told.reason = IF k.refusal = "none" THEN k.result ELSE k.refusal
          BY <3>1, <4>2, <5>1 DEF ToldInv
        <5>3. k.result = Final(k)
          BY <3>1, <5>1 DEF ResultInv, Decided
        <5>4. QED
          BY <3>2, <3>3, <5>2, <5>3
      <4>3. QED
        BY <4>1, <4>2
    <3>6. QED
      BY <3>1, <3>2, <3>3, <3>4, <3>5 DEF Placed, FaultInv
  <2>2. dry \in [Trials -> Reasons \cup {"none"}]
    <3>1. \A t \in Trials : Tried(t) \in Reasons
      BY EvaluatesToAReason DEF Tried
    <3>2. QED
      BY <1>1, <3>1 DEF PipelineInv
  <2>3. QED
    BY <1>1, <2>1, <2>2 DEF PipelineInv, TypeOK
<1>2. QED
  BY <1>1, PipelineInvariant, PTL

(***************************************************************************)
(* For any number of checks and whatever requests, catalogs, policies,     *)
(* changes and faults there are: a call is let through only if it may pass *)
(* under the one snapshot it was adapted against and one policy, and with  *)
(* the credential of that tool, backend, agent and risk.                   *)
(***************************************************************************)
THEOREM AllowsAreEarned == Spec => []AllowIsEarned
<1>1. ASSUME PipelineInv, NEW c \in Checks, Answered(c), check[c].told.reason = "policy_allow"
      PROVE  LET i == check[c].input
                 def == Lookup(i, check[c].snapshot)
             IN  /\ MayPass(i, def, check[c].policy)
                 /\ check[c].told.credential =
                      [audience |-> Backend(i), tool |-> i.name, scopes |-> Scopes(def.risk),
                       sub |-> i.claims.agent, act |-> i.claims.obo]
  <2> DEFINE k == check[c]
             i == k.input
             def == Lookup(i, k.snapshot)
  <2>1. /\ i \in CheckRequests /\ k.snapshot \in Snapshots /\ k.policy \in Candidates
        /\ k.refusal = Refusal(i, k.snapshot, k.snapshot) /\ k.request = RequestOf(k)
        /\ k.told.reason = IF k.refusal = "none" THEN Final(k) ELSE k.refusal
        /\ k.told.credential = IF Final(k) = "policy_allow" THEN Minted(k.request)
                               ELSE NoCredential
    BY <1>1, AnsweredFacts
  <2>2. k.told.reason = WouldTell(i, k.snapshot, k.policy)
    BY <1>1, ToldIs DEF Faulty
  <2>3. k.refusal = "none" /\ MayPass(i, def, k.policy)
    BY <1>1, <2>1, <2>2, AllowMayPass
  <2>4. def # NoTool /\ k.request = Assembled(i, k.snapshot, k.snapshot)
    BY <2>1, <2>3 DEF RequestOf, MayPass
  <2>5. k.told.credential = Minted(k.request)
    BY <1>1, <2>1, <2>3
  <2>6. Minted(k.request) = [audience |-> Backend(i), tool |-> i.name, scopes |-> Scopes(def.risk),
                             sub |-> i.claims.agent, act |-> i.claims.obo]
    BY <2>4, AssembledIs DEF Minted
  <2>7. QED
    BY <2>3, <2>5, <2>6
<1>2. PipelineInv => AllowIsEarned
  BY <1>1 DEF AllowIsEarned
<1>3. QED
  BY <1>2, PipelineInvariant, PTL

\* The reason a client is told is true of its request, the snapshot and the policy, or of
\* a fault, for whatever requests, catalogs, policies and faults there are.
THEOREM ReasonsHold == Spec => []ReasonsAreTrue
<1>1. PipelineInv => ReasonsAreTrue
  BY AnsweredFacts, ToldIs, ReasonIsTrue DEF ReasonsAreTrue
<1>2. QED
  BY <1>1, PipelineInvariant, PTL

\* Whatever a call carries beside what its tool declares, it is told what it would be
\* told without it, or of a fault.
THEOREM UndeclaredIsIgnored == Spec => []UndeclaredHasNoSay
<1>1. PipelineInv => UndeclaredHasNoSay
  BY AnsweredFacts, ToldIs, UndeclaredIsNotSeen DEF UndeclaredHasNoSay
<1>2. QED
  BY <1>1, PipelineInvariant, PTL

(***************************************************************************)
(* Whatever fails and whenever it is given up: an ALLOW is on record, so   *)
(* is a DENY that waited for its append, and every row has the id that was *)
(* told and the caller, tool and workspace of its request unless it was    *)
(* refused before those were looked at.                                    *)
(***************************************************************************)
THEOREM AnswersRecorded == Spec => []AnswersAreOnRecord
<1>1. ASSUME PipelineInv, NEW c \in Checks, Answered(c)
      PROVE  LET i == check[c].input
                 told == check[c].told
             IN  /\ row[c] = NoRow => told.reason # "policy_allow" /\ Unconfirmed(c)
                 /\ row[c] # NoRow =>
                      /\ row[c].executionID = told.executionID
                      /\ told.reason = "policy_allow" => row[c].reason = "policy_allow"
                      /\ ~Unconfirmed(c) =>
                           /\ row[c].reason = "policy_allow" => told.reason = "policy_allow"
                           /\ Adapted(c) => row[c].reason = told.reason
                      /\ Adapted(c) \/ told.reason = "unknown_tool" =>
                           /\ row[c].workspace = Workspace(i)
                           /\ row[c].agent = i.claims.agent /\ row[c].obo = i.claims.obo
                           /\ row[c].backend = Backend(i) /\ row[c].name = i.name
  <2> DEFINE k == check[c]
             i == k.input
             q == k.request
             told == k.told
  <2>1. /\ i \in CheckRequests /\ k.snapshot \in Snapshots
        /\ k.refusal = Refusal(i, k.snapshot, k.snapshot) /\ q = RequestOf(k)
        /\ told.executionID = q.executionID
        /\ RowInv(k, row[c])
    BY <1>1, AnsweredFacts
  <2>2. \/ /\ "timeout" \in k.faults /\ k.refusal = "none"
           /\ told.reason = "evaluation_error"
        \/ /\ "timeout" \notin k.faults /\ Appended(k)
           /\ told.reason = IF k.refusal = "none" THEN Final(k) ELSE k.refusal
    BY <1>1, AnsweredFacts
  <2>3. k.refusal \in {"none", "malformed_request", "invalid_identity", "unknown_tool"}
    BY <2>1, RefusalReasons
  <2>4. Filed(k).executionID = q.executionID /\ Filed(k).reason = Decision(k)
    BY DEF Filed
  <2>5. told.reason = "policy_allow" => Decision(k) = "policy_allow" /\ row[c] = Filed(k)
    <3>1. SUFFICES ASSUME told.reason = "policy_allow"
                   PROVE  Decision(k) = "policy_allow" /\ row[c] = Filed(k)
      OBVIOUS
    <3>2. Final(k) = "policy_allow" /\ Appended(k)
      BY <2>2, <2>3, <3>1
    <3>3. Decision(k) = "policy_allow" /\ "append" \notin k.faults
      BY <3>2 DEF Final
    <3>4. QED
      BY <2>1, <3>2, <3>3 DEF RowInv
  <2>6. ~Unconfirmed(c) =>
          /\ row[c] = Filed(k)
          /\ told.reason = IF k.refusal = "none" THEN Decision(k) ELSE k.refusal
    <3>1. SUFFICES ASSUME "append" \notin k.faults /\ "timeout" \notin k.faults
                   PROVE  /\ row[c] = Filed(k)
                          /\ told.reason = IF k.refusal = "none" THEN Decision(k) ELSE k.refusal
      BY DEF Unconfirmed
    <3>2. QED
      BY <2>1, <2>2, <3>1 DEF RowInv, Final
  <2>7. k.refusal # "none" => Decision(k) # "policy_allow"
    <3>1. SUFFICES ASSUME k.refusal # "none" PROVE Decision(k) # "policy_allow"
      OBVIOUS
    <3>2. q = StandIn(i, k.refusal)
      BY <2>1, <3>1 DEF RequestOf
    <3>3. Evaluated(q, k.policy) # "policy_allow"
      BY <3>2, StandInIsDenied
    <3>4. QED
      BY <3>3 DEF Decision, Found
  <2>8. Adapted(c) \/ told.reason = "unknown_tool" =>
          /\ q.workspace = Workspace(i) /\ q.agent = i.claims.agent /\ q.obo = i.claims.obo
          /\ q.backend = Backend(i) /\ q.name = i.name
    <3>1. CASE k.refusal = "none"
      <4>1. Lookup(i, k.snapshot) # NoTool /\ q = Assembled(i, k.snapshot, k.snapshot)
        BY <2>1, <3>1, FitIfAdapted DEF RequestOf
      <4>2. QED
        BY <4>1, AssembledIs
    <3>2. CASE k.refusal # "none"
      <4>1. q = StandIn(i, k.refusal) /\ (told.reason = "unknown_tool" => k.refusal = "unknown_tool")
        BY <2>1, <2>2, <3>2 DEF RequestOf
      <4>2. QED
        BY <3>2, <4>1 DEF StandIn, Adapted
    <3>3. QED
      BY <3>1, <3>2
  <2>9. /\ Filed(k).workspace = q.workspace /\ Filed(k).agent = q.agent /\ Filed(k).obo = q.obo
        /\ Filed(k).backend = q.backend /\ Filed(k).name = q.name
    BY DEF Filed
  <2>10. row[c] = NoRow \/ row[c] = Filed(k)
    BY <2>1 DEF RowInv
  <2>11. Filed(k) # NoRow
    <3>1. "reason" \in DOMAIN Filed(k)
      BY DEF Filed
    <3>2. "reason" \notin DOMAIN NoRow
      BY DEF NoRow
    <3>3. QED
      BY <3>1, <3>2
  <2>12. row[c] = NoRow => told.reason # "policy_allow" /\ Unconfirmed(c)
    BY <2>5, <2>6, <2>11
  <2>13. ASSUME row[c] = Filed(k)
         PROVE  /\ row[c].executionID = told.executionID
                /\ told.reason = "policy_allow" => row[c].reason = "policy_allow"
                /\ ~Unconfirmed(c) =>
                     /\ row[c].reason = "policy_allow" => told.reason = "policy_allow"
                     /\ Adapted(c) => row[c].reason = told.reason
    BY <2>1, <2>4, <2>5, <2>6, <2>7, <2>13 DEF Adapted
  <2>14. ASSUME row[c] = Filed(k)
         PROVE  Adapted(c) \/ told.reason = "unknown_tool" =>
                  /\ row[c].workspace = Workspace(i)
                  /\ row[c].agent = i.claims.agent /\ row[c].obo = i.claims.obo
                  /\ row[c].backend = Backend(i) /\ row[c].name = i.name
    BY <2>8, <2>9, <2>14
  <2>15. QED
    BY <2>10, <2>12, <2>13, <2>14
<1>2. PipelineInv => AnswersAreOnRecord
  BY <1>1 DEF AnswersAreOnRecord
<1>3. QED
  BY <1>2, PipelineInvariant, PTL

(***************************************************************************)
(* Whatever is activated or changed in between: a check that runs on the   *)
(* candidate of a dry run, of the call that the sample describes, is told  *)
(* what the dry run showed if the candidate looks at none of the call's    *)
(* arguments, or of a missing credential or a fault.                       *)
(***************************************************************************)
THEOREM DryRunsForetell == Spec => []DryRunForetells
<1>1. ASSUME PipelineInv, NEW c \in Checks, NEW t \in Trials, Answered(c), Adapted(c),
             dry[t] # "none", check[c].policy = t.policy,
             Describes(t.sample, check[c].input, Lookup(check[c].input, check[c].snapshot)),
             \A rule \in t.policy :
               rule.arg \notin Declared(check[c].input,
                                        Lookup(check[c].input, check[c].snapshot))
      PROVE  \/ check[c].told.reason = dry[t]
             \/ dry[t] = "policy_allow" /\ check[c].told.reason = "credential_issuance_failure"
             \/ Faulty(c)
  <2> DEFINE k == check[c]
             q == Assembled(k.input, k.snapshot, k.snapshot)
  <2>1. /\ k.input \in CheckRequests /\ k.snapshot \in Snapshots
        /\ Refusal(k.input, k.snapshot, k.snapshot) = "none"
    BY <1>1, AnsweredFacts DEF Adapted
  <2>2. Evaluated(q, t.policy) = Tried(t)
    BY <1>1, <2>1, SampleDecidesAlike
  <2>3. dry[t] = Tried(t)
    BY <1>1 DEF PipelineInv
  <2>4. k.told.reason = WouldTell(k.input, k.snapshot, k.policy) \/ Faulty(c)
    BY <1>1, ToldIs
  <2>5. WouldTell(k.input, k.snapshot, k.policy) =
          IF Evaluated(q, t.policy) = "policy_allow" /\ ~Issuable(q)
          THEN "credential_issuance_failure" ELSE Evaluated(q, t.policy)
    BY <1>1, <2>1 DEF WouldTell
  <2>6. QED
    BY <2>2, <2>3, <2>4, <2>5
<1>2. PipelineInv => DryRunForetells
  BY <1>1 DEF DryRunForetells
<1>3. QED
  BY <1>2, PipelineInvariant, PTL

=============================================================================
