--------------------------- MODULE CheckPipeline ---------------------------
(***************************************************************************)
(* One ext_authz check from the gateway's request to the answer: adapted   *)
(* against a snapshot of the tool catalog, evaluated against the engine    *)
(* its workspace has by then, sent on with a credential, recorded and      *)
(* answered, while admins change the catalog, activate policies and try    *)
(* candidates out.  The evaluator, the issuer and the audit append may     *)
(* fail, and an adapted check is given up after three seconds, while its   *)
(* goroutine goes on.  An issuer is configured.  AuditedDecision has the   *)
(* chain, abandoned appends and crashes; ToolCatalog and PolicyManager how *)
(* the snapshot and the engines come about.                                *)
(***************************************************************************)
EXTENDS PolicyEngine, FiniteSets

CONSTANTS
    Checks,         \* the checks of a behaviour
    Inputs,         \* what a check may carry, a set of CheckRequests
    Catalogs,       \* the snapshots that may be live
    Engines,        \* the engines that workspaces may have at first
    Trials,         \* the dry runs: a workspace, a sample and a candidate of the store
    MaxChanges      \* bound: catalog changes and activations

\* A sample request, as the admin words it.
Samples ==
    [executionID: {"given"}, principal: Agents \cup {Absent}, onBehalfOf: Agents \cup {Absent},
     roles: SUBSET Roles, backend: Backends \cup {<<>>}, tool: Names \cup {<<>>},
     risk: Risks \cup {Absent}]

ASSUME PipelineAssumption ==
    /\ Inputs \subseteq CheckRequests /\ Inputs # {}
    /\ Catalogs \subseteq Snapshots
    /\ Engines \subseteq [Workspaces -> Policies \cup {NoPolicy}]
    /\ MaxChanges \in Nat
    /\ Trials \subseteq [workspace: Workspaces, sample: Samples, policy: Policies]

VARIABLES
    live,           \* Catalog.Current()
    engine,         \* the Manager's engine of each workspace
    changes,
    check,          \* check[c]: where check c is
    row,            \* row[c]: its audit record
    dry             \* dry[t]: what the dry run t showed of the candidate

vars == <<live, engine, changes, check, row, dry>>

Steps == {"new", "adapt", "evaluate", "issue", "record", "answer", "done"}
\* What went wrong with a check, in the process or with the time it was given.
Faults == {"evaluator", "issuer", "append", "timeout"}
NoInput == CHOOSE i \in Inputs : TRUE
NoRequest == StandIn(NoInput, "malformed_request")
NoRow == [agent |-> "none"]

Candidates == Policies \cup {NoPolicy}

TypeOK ==
    /\ live \in Catalogs
    /\ engine \in [Workspaces -> Candidates]
    /\ changes \in 0..MaxChanges
    /\ \A c \in Checks :
         /\ check[c].step \in Steps
         /\ check[c].input \in Inputs
         /\ check[c].snapshot \in Catalogs
         /\ check[c].policy \in Candidates
         /\ check[c].refusal \in Reasons \cup {"none"}
         /\ check[c].result \in Reasons \cup {"none"}
         /\ check[c].faults \subseteq Faults
         /\ check[c].told.reason \in Reasons \cup {"none"}
         /\ check[c].step = "done" => check[c].told.reason # "none"
    /\ dry \in [Trials -> Reasons \cup {"none"}]

Init ==
    /\ live \in Catalogs
    /\ engine \in Engines
    /\ changes = 0
    /\ check = [c \in Checks |->
                  [step |-> "new", input |-> NoInput, snapshot |-> live, policy |-> NoPolicy,
                   refusal |-> "none", request |-> NoRequest, result |-> "none",
                   credential |-> NoCredential, faults |-> {},
                   told |-> [reason |-> "none", executionID |-> "none",
                             credential |-> NoCredential]]]
    /\ row = [c \in Checks |-> NoRow]
    /\ dry = [t \in Trials |-> "none"]

-----------------------------------------------------------------------------
(* What admins do meanwhile.                                               *)

\* Catalog.Replace
ReplaceCatalog ==
    /\ changes < MaxChanges
    /\ changes' = changes + 1
    /\ live' \in Catalogs \ {live}
    /\ UNCHANGED <<engine, check, row, dry>>

\* Manager.Activate
ActivatePolicy(w) ==
    /\ changes < MaxChanges
    /\ changes' = changes + 1
    /\ \E p \in Policies \ {engine[w]} : engine' = [engine EXCEPT ![w] = p]
    /\ UNCHANGED <<live, check, row, dry>>

\* Mutant of Converted: the sample is not said to be of a known tool.
ConvertedUnknown(w, s) ==
    [executionID |-> s.executionID, workspace |-> w, agent |-> s.principal,
     obo |-> s.onBehalfOf, roles |-> s.roles, backend |-> s.backend, name |-> s.tool,
     known |-> FALSE, risk |-> s.risk, args |-> <<>>]

\* The decision.Request that the handler makes of a sample: of whatever tool and risk the
\* admin says, and without arguments.
Converted(w, s) ==
    [executionID |-> s.executionID, workspace |-> w, agent |-> s.principal,
     obo |-> s.onBehalfOf, roles |-> s.roles, backend |-> s.backend, name |-> s.tool,
     known |-> TRUE, risk |-> s.risk, args |-> <<>>]

Tried(t) == Evaluated(Converted(t.workspace, t.sample), t.policy)

\* DryRunCompare, as far as the candidate goes: the active policy is tried beside it.  One
\* dry run of a behaviour is enough, since they do not touch each other (bound).
DryRun(t) ==
    /\ \A u \in Trials : dry[u] = "none"
    /\ dry' = [dry EXCEPT ![t] = Tried(t)]
    /\ UNCHANGED <<live, engine, changes, check, row>>

-----------------------------------------------------------------------------
(* The check.                                                              *)

\* Adapt takes one Current() per request, before it looks at anything else.
Arrive(c) ==
    /\ check[c].step = "new"
    /\ \E i \in Inputs :
         check' = [check EXCEPT ![c].step = "adapt", ![c].input = i, ![c].snapshot = live]
    /\ UNCHANGED <<live, engine, changes, row, dry>>

\* Mutant of DeclaredIn: the declarations come from a second Current().
DeclaredInLive(c) == live

DeclaredIn(c) == check[c].snapshot

Adapt(c) ==
    LET i == check[c].input
        refusal == Refusal(i, check[c].snapshot, DeclaredIn(c))
    IN  /\ check[c].step = "adapt"
        /\ check' = [check EXCEPT
             ![c].step = "evaluate",
             ![c].refusal = refusal,
             ![c].request = IF refusal = "none" THEN Assembled(i, check[c].snapshot, DeclaredIn(c))
                            ELSE StandIn(i, refusal)]
        /\ UNCHANGED <<live, engine, changes, row, dry>>

\* EvaluateWithActivePolicy, for the stand-in of a refused request too.  Whatever error an
\* evaluator returns is a DENY; the one that runServe wires in returns none.
Evaluate(c) ==
    LET q == check[c].request
    IN  /\ check[c].step = "evaluate"
        /\ check' = [check EXCEPT ![c].step = "issue", ![c].policy = engine[q.workspace],
                                  ![c].result = Evaluated(q, engine[q.workspace])]
        /\ UNCHANGED <<live, engine, changes, row, dry>>

EvaluateFails(c) ==
    /\ check[c].step = "evaluate"
    /\ check' = [check EXCEPT ![c].step = "issue", ![c].result = "evaluation_error",
                              ![c].faults = @ \cup {"evaluator"}]
    /\ UNCHANGED <<live, engine, changes, row, dry>>

\* A credential is asked for an ALLOW only; without one, because it has no scopes or no
\* audience or cannot be signed, the decision becomes a DENY.
Issue(c) ==
    LET q == check[c].request
    IN  /\ check[c].step = "issue"
        /\ \/ /\ check[c].result = "policy_allow" /\ Issuable(q)
              /\ check' = [check EXCEPT ![c].step = "record", ![c].credential = Minted(q)]
           \/ /\ check[c].result = "policy_allow" /\ ~Issuable(q)
              /\ check' = [check EXCEPT ![c].step = "record",
                                        ![c].result = "credential_issuance_failure"]
           \/ /\ check[c].result = "policy_allow" /\ Issuable(q)
              /\ check' = [check EXCEPT ![c].step = "record",
                                        ![c].result = "credential_issuance_failure",
                                        ![c].faults = @ \cup {"issuer"}]
           \/ /\ check[c].result # "policy_allow"
              /\ check' = [check EXCEPT ![c].step = "record"]
        /\ UNCHANGED <<live, engine, changes, row, dry>>

RowOf(c) ==
    LET q == check[c].request
    IN  [executionID |-> q.executionID, workspace |-> q.workspace, agent |-> q.agent,
         obo |-> q.obo, backend |-> q.backend, name |-> q.name, risk |-> q.risk,
         reason |-> check[c].result]

Record(c) ==
    /\ check[c].step = "record"
    /\ row' = [row EXCEPT ![c] = RowOf(c)]
    /\ check' = [check EXCEPT ![c].step = "answer"]
    /\ UNCHANGED <<live, engine, changes, dry>>

\* Mutant of RecordFails: the decision stands although it is not on record.
RecordFailsOpen(c) ==
    /\ check[c].step = "record"
    /\ row' \in {row, [row EXCEPT ![c] = RowOf(c)]}
    /\ check' = [check EXCEPT ![c].step = "answer", ![c].faults = @ \cup {"append"}]
    /\ UNCHANGED <<live, engine, changes, dry>>

\* The payload cannot be made, or the append returns an error, with the row committed or
\* not: an ALLOW becomes a DENY without its credential, a DENY is returned as it is.
RecordFails(c) ==
    LET allowed == check[c].result = "policy_allow"
    IN  /\ check[c].step = "record"
        /\ row' \in {row, [row EXCEPT ![c] = RowOf(c)]}
        /\ check' = [check EXCEPT
             ![c].step = "answer",
             ![c].result = IF allowed THEN "evaluation_error" ELSE @,
             ![c].credential = NoCredential,
             ![c].faults = @ \cup {"append"}]
        /\ UNCHANGED <<live, engine, changes, dry>>

Response(c, reason, credential) ==
    [reason |-> reason, executionID |-> check[c].request.executionID, credential |-> credential]

\* Mutant of Answer: the adapter's reason is told of every request.
AnswerRefusal(c) ==
    /\ check[c].step = "answer"
    /\ check' = [check EXCEPT ![c].step = "done", ![c].told.reason = check[c].refusal]
    /\ UNCHANGED <<live, engine, changes, row, dry>>

\* The client of a refused request is told the adapter's reason, not the engine's.  Nobody
\* receives what a check was given up on finds in the end.
Answer(c) ==
    LET reason == IF check[c].refusal = "none" THEN check[c].result ELSE check[c].refusal
    IN  /\ check[c].step = "answer"
        /\ check' = [check EXCEPT
             ![c].step = "done",
             ![c].told = IF "timeout" \in check[c].faults THEN @
                         ELSE Response(c, reason, check[c].credential)]
        /\ UNCHANGED <<live, engine, changes, row, dry>>

\* ctx.Done() before the goroutine's result.  A refused check has no goroutine and waits.
TimeOut(c) ==
    /\ check[c].step \in {"evaluate", "issue", "record", "answer"}
    /\ check[c].refusal = "none" /\ "timeout" \notin check[c].faults
    /\ check' = [check EXCEPT
         ![c].told = Response(c, "evaluation_error", NoCredential),
         ![c].faults = @ \cup {"timeout"}]
    /\ UNCHANGED <<live, engine, changes, row, dry>>

CheckStep(c) ==
    \/ Arrive(c) \/ Adapt(c) \/ Evaluate(c) \/ EvaluateFails(c) \/ Issue(c)
    \/ Record(c) \/ RecordFails(c) \/ Answer(c) \/ TimeOut(c)

Next ==
    \/ ReplaceCatalog
    \/ \E w \in Workspaces : ActivatePolicy(w)
    \/ \E t \in Trials : DryRun(t)
    \/ \E c \in Checks : CheckStep(c)

Spec == Init /\ [][Next]_vars

-----------------------------------------------------------------------------
Answered(c) == check[c].told.reason # "none"
Adapted(c) == check[c].refusal = "none"

\* What is told may be put down to a fault rather than to the request and the policy.
Faulty(c) ==
    \/ check[c].told.reason = "evaluation_error"
         /\ check[c].faults \cap {"evaluator", "append", "timeout"} # {}
    \/ check[c].told.reason = "credential_issuance_failure" /\ "issuer" \in check[c].faults

\* The answer did not wait for a confirmed append.
Unconfirmed(c) == check[c].faults \cap {"append", "timeout"} # {}

(***************************************************************************)
(* What the documents ask for before a call may pass, said of the request, *)
(* the definition and the policy rather than of the code's steps: a usable *)
(* identity; a known tool whose schema has not changed; every required     *)
(* argument there and every declared one of its type; a policy of the      *)
(* caller's workspace of which a permit holds, no forbid does and no rule  *)
(* fails to evaluate, on the declared arguments alone.                     *)
(***************************************************************************)
Declared(i, def) ==
    {n \in ArgNames : i.args[n] # "absent" /\ \E d \in def.decls : d.name = n}

Seen(i, def) ==
    [roles |-> i.claims.roles, risk |-> def.risk, args |-> [n \in Declared(i, def) |-> i.args[n]]]

MayPass(i, def, policy) ==
    /\ i.call
    /\ i.claims.agent \in Agents /\ i.claims.roles # {}
    /\ i.claims.obo \in Agents => i.claims.obo # i.claims.agent
    /\ def # NoTool
    /\ \A f \in {i.fingerprint} : f \in Fingerprints => f = def.fingerprint
    /\ \A d \in def.decls :
         /\ d.required => d.name \in Declared(i, def)
         /\ d.name \in Declared(i, def) => KindOf(i.args[d.name]) = d.type
    /\ policy # NoPolicy
    /\ \E rule \in policy : rule.effect = "permit" /\ Holds(rule, Seen(i, def))
    /\ \A rule \in policy :
         /\ ~Errs(rule, Seen(i, def))
         /\ rule.effect = "forbid" => ~Holds(rule, Seen(i, def))

(***************************************************************************)
(* A call is let through only if it may pass under one snapshot of the     *)
(* catalog, the one live when the check arrived, and under one policy of   *)
(* its own workspace, whatever admins change in between; and only with a   *)
(* credential for that agent, tool and backend whose scopes are those of   *)
(* the risk the policy was asked about (Adapt, Evaluate, Issue).           *)
(***************************************************************************)
AllowIsEarned ==
    \A c \in Checks :
      Answered(c) /\ check[c].told.reason = "policy_allow" =>
        LET i == check[c].input
            def == Lookup(i, check[c].snapshot)
        IN  /\ MayPass(i, def, check[c].policy)
            /\ check[c].told.credential =
                 [audience |-> Backend(i), tool |-> i.name, scopes |-> Scopes(def.risk),
                  sub |-> i.claims.agent, act |-> i.claims.obo]

(***************************************************************************)
(* The reason a client is told is true of its request, the snapshot and    *)
(* the policy, although earlier checks shadow later ones: an operator who  *)
(* reads "policy_deny" finds a forbid that applies, one who reads          *)
(* "unknown_tool" a tool that is absent or a fingerprint that is not its   *)
(* own.  Two reasons are told of faults as well: of an evaluator, an       *)
(* append or a deadline that failed, and of an issuer                      *)
(* (decision.ReasonCode, Engine.Evaluate, Server.Check).                   *)
(***************************************************************************)
True(reason, i, def, policy) ==
    CASE reason = "policy_allow" -> TRUE
      [] reason = "malformed_request" ->
           \/ ~i.call
           \/ \E d \in def.decls :
                IF d.name \in Declared(i, def) THEN KindOf(i.args[d.name]) # d.type ELSE d.required
      [] reason = "invalid_identity" ->
           \/ i.claims.agent \notin Agents \/ i.claims.roles = {}
           \/ i.claims.obo \in {Blank, i.claims.agent}
      [] reason = "unknown_tool" ->
           def = NoTool \/ \E f \in {LiveFingerprint(i)} \ {Absent} : f # def.fingerprint
      [] reason = "no_policy_loaded" -> policy = NoPolicy
      [] reason = "evaluation_error" ->
           policy # NoPolicy /\ \E rule \in policy : Errs(rule, Seen(i, def))
      [] reason = "policy_deny" ->
           \E rule \in policy : rule.effect = "forbid" /\ Holds(rule, Seen(i, def))
      [] reason = "no_matching_policy" -> \A rule \in policy : ~Holds(rule, Seen(i, def))
      [] reason = "credential_issuance_failure" -> Backend(i) \notin Audiences

ReasonsAreTrue ==
    \A c \in Checks :
      Answered(c) =>
        LET i == check[c].input
        IN  \/ True(check[c].told.reason, i, Lookup(i, check[c].snapshot), check[c].policy)
            \/ Faulty(c)

(***************************************************************************)
(* An argument that the tool's definition does not declare has no say: the *)
(* answer is what it would have been without it, or tells of a fault       *)
(* (PRODUCTION-INVARIANTS, 2.6; DeclarationSet.Resolve).                   *)
(***************************************************************************)
Without(i, names) == [i EXCEPT !.args = [n \in ArgNames |-> IF n \in names THEN "absent" ELSE @[n]]]

Undeclared(i, def) == {n \in ArgNames : def = NoTool \/ \A d \in def.decls : d.name # n}

WouldTell(i, snap, policy) ==
    IF Refusal(i, snap, snap) # "none" THEN Refusal(i, snap, snap)
    ELSE LET q == Assembled(i, snap, snap)
         IN  IF Evaluated(q, policy) = "policy_allow" /\ ~Issuable(q)
             THEN "credential_issuance_failure" ELSE Evaluated(q, policy)

UndeclaredHasNoSay ==
    \A c \in Checks :
      Answered(c) =>
        LET i == check[c].input
            snap == check[c].snapshot
        IN  \/ check[c].told.reason =
                 WouldTell(Without(i, Undeclared(i, Lookup(i, snap))), snap, check[c].policy)
            \/ Faulty(c)

(***************************************************************************)
(* What the audit trail has of the answers.  An ALLOW is on record as an   *)
(* ALLOW; a DENY that waited for its append is on record as a DENY, with   *)
(* its reason unless it was refused.  A DENY that did not, because the     *)
(* append failed or took too long, may be missing, or be on record as the  *)
(* ALLOW it would have been.  Whatever row there is, at once or late, is   *)
(* filed under the execution id that was told, and under the workspace,    *)
(* the caller and the tool of the request, unless it was refused before    *)
(* its tool was looked up or for its arguments (Server.Check, service.go). *)
(***************************************************************************)
AnswersAreOnRecord ==
    \A c \in Checks :
      Answered(c) =>
        LET i == check[c].input
            told == check[c].told
        IN  /\ row[c] = NoRow => told.reason # "policy_allow" /\ Unconfirmed(c)
            /\ row[c] # NoRow =>
                 /\ row[c].executionID = told.executionID
                 /\ told.reason = "policy_allow" => row[c].reason = "policy_allow"
                 /\ ~Unconfirmed(c) =>
                      /\ row[c].reason = "policy_allow" => told.reason = "policy_allow"
                      /\ Adapted(c) => row[c].reason = told.reason
                 /\ Adapted(c) \/ told.reason = "unknown_tool" =>
                      /\ row[c].workspace = Workspace(i)
                      /\ row[c].agent = i.claims.agent /\ row[c].obo = i.claims.obo
                      /\ row[c].backend = Backend(i) /\ row[c].name = i.name

(***************************************************************************)
(* A dry run foretells.  Its sample describes a call in the admin's words, *)
(* and the check of that call goes through the gateway's claims, headers   *)
(* and catalog instead.  Once the candidate is the policy that the check   *)
(* runs on, the client is told what the dry run showed, whatever was       *)
(* activated or changed in between, if no rule of the candidate looks at   *)
(* an argument the call carries: the dry run has none.  Only a credential  *)
(* or a fault may come in between (handleDryRunCompare, DryRunCompare).    *)
(***************************************************************************)
Describes(s, i, def) ==
    /\ s.principal = i.claims.agent /\ s.onBehalfOf = i.claims.obo /\ s.roles = i.claims.roles
    /\ s.backend = Backend(i) /\ s.tool = i.name /\ s.risk = def.risk

DryRunForetells ==
    \A c \in Checks, t \in Trials :
      LET i == check[c].input
          def == Lookup(i, check[c].snapshot)
      IN  /\ Answered(c) /\ Adapted(c)
          /\ dry[t] # "none" /\ check[c].policy = t.policy
          /\ Describes(t.sample, i, def)
          /\ \A rule \in t.policy : rule.arg \notin Declared(i, def)
          => \/ check[c].told.reason = dry[t]
             \/ dry[t] = "policy_allow"
                  /\ check[c].told.reason = "credential_issuance_failure"
             \/ Faulty(c)

=============================================================================
