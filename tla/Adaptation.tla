----------------------------- MODULE Adaptation -----------------------------
(***************************************************************************)
(* From an ext_authz CheckRequest to a decision.Request: the claims the    *)
(* gateway verified, the tool's classification and the arguments its       *)
(* definition declares, read from one catalog snapshot.  Pure functions,   *)
(* used by CheckPipeline.                                                  *)
(*                                                                         *)
(* An empty or blank string is Absent wherever the code treats the two     *)
(* alike.  Backends and tool names are sequences of the parts between the  *)
(* slashes, because the registry's key joins the two with a slash.         *)
(***************************************************************************)
EXTENDS Naturals, SequencesExt

CONSTANTS
    Agents,             \* agents and the humans they act for
    Roles,
    Workspaces, DefaultWorkspace,
    Backends, DefaultBackend,
    Names,              \* tool names
    ArgNames,
    Fingerprints,       \* of tool schemas
    NoTool              \* stands for "not in the catalog"

Absent == "absent"
Blank == "blank"
Risks == {"read", "write", "destructive"}
ArgTypes == {"string", "int64", "bool"}

\* Argument values as JSON: two integers, and one value of each other kind.
RawValues == {"absent", "null", "small", "large", "text", "yes", "fraction"}
KindOf(value) ==
    CASE value \in {"small", "large"} -> "int64"
      [] value = "text" -> "string"
      [] value = "yes" -> "bool"
      [] OTHER -> "none"

ASSUME AdaptationAssumption ==
    /\ DefaultWorkspace \in Workspaces
    /\ DefaultBackend \in Backends /\ <<>> \notin Backends \cup Names
    /\ {Absent, Blank} \cap (Agents \cup Roles \cup Workspaces \cup Fingerprints) = {}

Declarations == [name: ArgNames, type: ArgTypes, required: BOOLEAN]
Definitions == [risk: Risks, fingerprint: Fingerprints, decls: SUBSET Declarations]

ToolKey(backend, name) == backend \o name
Keys == {ToolKey(b, n) : b \in Backends, n \in Names}
Snapshots == [Keys -> Definitions \cup {NoTool}]

\* roles = {} is a roles claim that is absent or blank.
Claims ==
    [agent: Agents \cup {Absent, Blank}, obo: Agents \cup {Absent, Blank},
     roles: SUBSET Roles, workspace: Workspaces \cup {Absent}]

CheckRequests ==
    [call: BOOLEAN,         \* the body is a tools/call with a tool name
     name: Names,
     args: [ArgNames -> RawValues],
     claims: Claims,        \* in the metadata of the gateway's jwt_authn filter
     backend: Backends \cup {<<>>}, fingerprint: Fingerprints \cup {Absent},   \* headers
     executionID: BOOLEAN, requestID: BOOLEAN,                                  \* headers
     route: [workspace: Workspaces \cup {Absent}, backend: Backends \cup {<<>>},
             fingerprint: Fingerprints \cup {Absent}]]   \* context extensions

FirstGiven(values, none) ==
    LET i == SelectInSeq(values, LAMBDA v : v # none)
    IN  IF i = 0 THEN none ELSE values[i]

\* The first of a sequence of checks that fails, or "none".
FirstRefusal(checks) ==
    LET i == SelectInSeq(checks, LAMBDA c : c.fails)
    IN  IF i = 0 THEN "none" ELSE checks[i].reason

-----------------------------------------------------------------------------
(* What the adapter reads.                                                 *)

\* Mapper.Map
Mapped(c) == c.agent \in Agents /\ c.obo # Blank /\ c.roles # {} /\ c.obo # c.agent

Workspace(r) ==
    FirstGiven(<<r.claims.workspace, r.route.workspace, DefaultWorkspace>>, Absent)

Backend(r) == FirstGiven(<<r.backend, r.route.backend, DefaultBackend>>, <<>>)

LiveFingerprint(r) == FirstGiven(<<r.fingerprint, r.route.fingerprint>>, Absent)

\* The source of the execution id; on a refusal only the first header is looked at.
ExecutionID(r) ==
    IF r.executionID THEN "execution_id" ELSE IF r.requestID THEN "request_id" ELSE "generated"
RefusedExecutionID(r) == IF r.executionID THEN "execution_id" ELSE "generated"

Lookup(r, snap) == snap[ToolKey(Backend(r), r.name)]

Drifted(r, snap) ==
    /\ Lookup(r, snap) # NoTool
    /\ LiveFingerprint(r) \notin {Absent, Lookup(r, snap).fingerprint}

-----------------------------------------------------------------------------
(* DeclarationSet.Resolve.                                                 *)

Resolves(decls, args) ==
    \A d \in decls : IF args[d.name] = "absent" THEN ~d.required
                                                ELSE KindOf(args[d.name]) = d.type

\* Mutant of Resolved: every argument of the call is passed on.
ResolvedAll(decls, args) == [n \in {a \in ArgNames : args[a] # "absent"} |-> args[n]]

Resolved(decls, args) == [n \in {d.name : d \in {e \in decls : args[e.name] # "absent"}} |-> args[n]]

-----------------------------------------------------------------------------
(* Adapter.Adapt and contextassembly.Assemble.                             *)

\* classified and declared: the snapshots that the classification and the declarations are
\* read from.
Refusal(r, classified, declared) ==
    FirstRefusal(
      <<[fails |-> ~r.call, reason |-> "malformed_request"],
        [fails |-> ~Mapped(r.claims), reason |-> "invalid_identity"],
        [fails |-> Lookup(r, classified) = NoTool, reason |-> "unknown_tool"],
        [fails |-> Drifted(r, classified), reason |-> "unknown_tool"],
        [fails |-> Lookup(r, declared) # NoTool /\ ~Resolves(Lookup(r, declared).decls, r.args),
         reason |-> "malformed_request"]>>)

Assembled(r, classified, declared) ==
    [executionID |-> ExecutionID(r), workspace |-> Workspace(r),
     agent |-> r.claims.agent, obo |-> r.claims.obo, roles |-> r.claims.roles,
     backend |-> Backend(r), name |-> r.name,
     known |-> TRUE, risk |-> Lookup(r, classified).risk,
     args |-> IF Lookup(r, declared) = NoTool THEN <<>>
              ELSE Resolved(Lookup(r, declared).decls, r.args)]

(***************************************************************************)
(* What Server.Check has audited for a request it refuses.  Only the       *)
(* refusals of an unknown or drifted tool carry what the adapter knew of   *)
(* the caller and the tool.                                                *)
(***************************************************************************)
StandIn(r, reason) ==
    LET identified == reason = "unknown_tool"
    IN  [executionID |-> RefusedExecutionID(r),
         workspace |-> IF identified THEN Workspace(r) ELSE DefaultWorkspace,
         agent |-> IF identified THEN r.claims.agent ELSE "unauthenticated",
         obo |-> IF identified THEN r.claims.obo ELSE Absent,
         roles |-> IF identified THEN r.claims.roles ELSE {"unauthenticated"},
         backend |-> IF identified THEN Backend(r) ELSE DefaultBackend,
         name |-> IF identified THEN r.name ELSE <<"unknown">>,
         known |-> FALSE, risk |-> Absent, args |-> <<>>]

=============================================================================
