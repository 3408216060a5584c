---------------------------- MODULE PolicyEngine ----------------------------
(***************************************************************************)
(* decision.Engine.Evaluate over a decision.Request (Adaptation) and one   *)
(* loaded policy, and the credential an ALLOW is sent on with.  Pure       *)
(* functions, used by CheckPipeline.                                       *)
(***************************************************************************)
EXTENDS Adaptation

CONSTANTS
    Policies,       \* the policies that may be active, each a set of Rules
    NoPolicy,       \* stands for "no engine for the workspace"
    Audiences       \* the backends that CREDENTIAL_AUDIENCES names

NoArg == "no_arg"

(***************************************************************************)
(* A Cedar rule: permit or forbid a principal in one of the roles a tool   *)
(* of one of the risks, when the argument arg, if there is one, is small;  *)
(* has tells whether the condition first asks if the argument is there.    *)
(***************************************************************************)
Rules ==
    [effect: {"permit", "forbid"}, roles: SUBSET Roles, risks: SUBSET Risks,
     arg: ArgNames \cup {NoArg}, has: BOOLEAN]

ASSUME EngineAssumption ==
    /\ Policies \subseteq SUBSET Rules
    /\ NoPolicy \notin Policies
    /\ NoArg \notin ArgNames
    /\ Audiences \subseteq Backends

Reasons ==
    {"policy_allow", "policy_deny", "no_matching_policy", "unknown_tool", "invalid_identity",
     "evaluation_error", "no_policy_loaded", "malformed_request",
     "credential_issuance_failure"}

-----------------------------------------------------------------------------
(* Cedar.                                                                  *)

InScope(rule, q) == rule.roles \cap q.roles # {} /\ q.risk \in rule.risks

\* The condition cannot be evaluated: a missing attribute, or not a number.
Errs(rule, q) ==
    /\ InScope(rule, q)
    /\ rule.arg # NoArg
    /\ IF rule.arg \in DOMAIN q.args THEN KindOf(q.args[rule.arg]) # "int64" ELSE ~rule.has

Holds(rule, q) ==
    /\ InScope(rule, q)
    /\ rule.arg = NoArg \/ (rule.arg \in DOMAIN q.args /\ q.args[rule.arg] = "small")

\* Engine.Evaluate of package policy.  Cedar leaves out a rule that errs.
EvalOutput(policy, q) ==
    [allowed |-> /\ \E rule \in policy : rule.effect = "permit" /\ Holds(rule, q)
                 /\ \A rule \in policy : rule.effect = "forbid" => ~Holds(rule, q),
     matched |-> \E rule \in policy : Holds(rule, q),
     hadError |-> \E rule \in policy : Errs(rule, q)]

-----------------------------------------------------------------------------
(* The decision engine.                                                    *)

\* Mutant of Verdict: a denial is an explicit one.
VerdictUnmatched(out) ==
    CASE out.hadError -> "evaluation_error"
      [] ~out.hadError /\ out.allowed -> "policy_allow"
      [] OTHER -> "policy_deny"

Verdict(out) ==
    CASE out.hadError -> "evaluation_error"
      [] ~out.hadError /\ out.allowed -> "policy_allow"
      [] ~out.hadError /\ ~out.allowed /\ out.matched -> "policy_deny"
      [] OTHER -> "no_matching_policy"

\* What Evaluate asks of a request before Cedar sees it.
Unfit(q, policy) ==
    FirstRefusal(
      <<[fails |-> q.backend = <<>> \/ q.name = <<>>, reason |-> "malformed_request"],
        [fails |-> q.agent = Absent \/ q.roles = {} \/ q.agent = q.obo,
         reason |-> "invalid_identity"],
        [fails |-> ~q.known, reason |-> "unknown_tool"],
        [fails |-> q.risk = Absent, reason |-> "malformed_request"],
        [fails |-> policy = NoPolicy, reason |-> "no_policy_loaded"]>>)

Evaluated(q, policy) ==
    IF Unfit(q, policy) = "none" THEN Verdict(EvalOutput(policy, q)) ELSE Unfit(q, policy)

-----------------------------------------------------------------------------
(* JWTIssuer.Issue.                                                        *)

\* DefaultScopeMapper
Scopes(risk) ==
    CASE risk = "read" -> {"tickets:read"}
      [] risk = "write" -> {"tickets:read", "tickets:write"}
      [] risk = "destructive" -> {"tickets:read", "tickets:delete"}
      [] OTHER -> {}

NoCredential == [audience |-> <<>>, tool |-> <<>>, scopes |-> {}, sub |-> Absent, act |-> Absent]

Minted(q) ==
    [audience |-> q.backend, tool |-> q.name, scopes |-> Scopes(q.risk), sub |-> q.agent,
     act |-> q.obo]

Issuable(q) == Scopes(q.risk) # {} /\ q.backend \in Audiences

=============================================================================
