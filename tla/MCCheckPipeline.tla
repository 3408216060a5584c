-------------------------- MODULE MCCheckPipeline --------------------------
(* CheckPipeline on small instances: see pipeline.cfg for the other constants. *)
EXTENDS CheckPipeline, TLC

CONSTANTS ada, bob, agent, w1, w2, f1, f2

\* A backend whose name ends where another's tool begins.
SomeBackends == {<<"a">>, <<"a", "b">>}
SomeNames == {<<"t">>, <<"b", "t">>}
OneAudience == {<<"a">>}
FirstBackend == <<"a">>

Read == [risk |-> "read", fingerprint |-> f1, decls |-> {}]
Write ==
    [risk |-> "write", fingerprint |-> f1,
     decls |-> {[name |-> "n", type |-> "int64", required |-> TRUE]}]
Bare == [risk |-> "write", fingerprint |-> f1, decls |-> {}]
Changed ==
    [risk |-> "write", fingerprint |-> f2,
     decls |-> {[name |-> "n", type |-> "string", required |-> FALSE]}]

With(defs) == [k \in Keys |-> IF k \in DOMAIN defs THEN defs[k] ELSE NoTool]
SomeSnapshots ==
    {With(<<"a", "t">> :> d) : d \in {Read, Write, Changed}}
      \cup {With((<<"a", "t">> :> Bare) @@ (<<"a", "b", "t">> :> Write))}

Permit(risks) ==
    [effect |-> "permit", roles |-> {agent}, risks |-> risks, arg |-> NoArg, has |-> FALSE]
ForbidSmall(has) ==
    [Permit({"write"}) EXCEPT !.effect = "forbid", !.arg = "n", !.has = has]

\* Permits everything; writes unless the number is small; the same, asking first if it is there.
Open == {Permit(Risks)}
Careless == {Permit(Risks), ForbidSmall(FALSE)}
Careful == {Permit(Risks), ForbidSmall(TRUE)}
SomePolicies == {{}, Open, Careless, Careful}

Good ==
    [call |-> TRUE, name |-> <<"t">>, args |-> ("n" :> "large") @@ ("m" :> "absent"),
     claims |-> [agent |-> ada, obo |-> bob, roles |-> {agent}, workspace |-> w2],
     backend |-> <<>>, fingerprint |-> Absent, executionID |-> TRUE, requestID |-> TRUE,
     route |-> [workspace |-> w1, backend |-> <<"a">>, fingerprint |-> Absent]]

\* Good with a thing or two changed.
Variants ==
    {Good, [Good EXCEPT !.backend = <<"a", "b">>],
     [Good EXCEPT !.name = <<"b", "t">>], [Good EXCEPT !.route.backend = <<>>],
     [Good EXCEPT !.claims.agent = Absent], [Good EXCEPT !.claims.agent = Blank],
     [Good EXCEPT !.claims.obo = Absent], [Good EXCEPT !.claims.obo = Blank],
     [Good EXCEPT !.claims.obo = ada], [Good EXCEPT !.claims.roles = {}],
     [Good EXCEPT !.claims.workspace = Absent, !.executionID = FALSE],
     [Good EXCEPT !.claims.workspace = Absent, !.route.workspace = Absent,
                  !.executionID = FALSE, !.requestID = FALSE],
     [Good EXCEPT !.fingerprint = f2],
     [Good EXCEPT !.fingerprint = f1, !.route.fingerprint = f2],
     [Good EXCEPT !.route.fingerprint = f2], [Good EXCEPT !.call = FALSE],
     [Good EXCEPT !.executionID = FALSE, !.call = FALSE]}

SomeInputs ==
    Variants
      \cup {[Good EXCEPT !.args = ("n" :> v) @@ ("m" :> "absent")] : v \in RawValues}
      \cup {[Good EXCEPT !.args = ("n" :> v) @@ ("m" :> "small")] : v \in {"absent", "small"}}

\* The usual caller's call, tried on a tool of either risk.
Trial(risk, policy) ==
    [workspace |-> w2, policy |-> policy,
     sample |-> [executionID |-> "given", principal |-> ada, onBehalfOf |-> bob,
                 roles |-> {agent}, backend |-> <<"a">>, tool |-> <<"t">>, risk |-> risk]]
SomeTrials == {Trial("write", Careless), Trial("read", Open)}
SomeEngines ==
    {(w1 :> Open) @@ (w2 :> p) : p \in {NoPolicy, Open, Careful}}
      \cup {(w1 :> NoPolicy) @@ (w2 :> Open)}

=============================================================================
