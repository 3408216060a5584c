---------------------------- MODULE MCAdminGate ----------------------------
(* AdminGate on small instances: see the cfg files for the other constants. *)
EXTENDS AdminGate, TLC

CONSTANTS k1, k2, s1, root, a1

\* An admin with a token under the first key, which the clock never sees expire, and the
\* shared token.
First ==
    [bearer |-> TRUE, kid |-> k1, genuine |-> TRUE, exp |-> MaxTime + 1, nbf |-> 0,
     admin |-> TRUE, sub |-> s1, static |-> TRUE, from |-> a1, large |-> FALSE]

\* Under the key that is rotated in, and too large; of a principal without the role, whose token soon
\* expires; with the wrong kind of credential and the admin's subject for an address.
Second == [First EXCEPT !.kid = k2, !.static = FALSE, !.large = TRUE]
Unfit == [First EXCEPT !.admin = FALSE, !.exp = 4, !.nbf = 2]
Bare == [First EXCEPT !.bearer = FALSE, !.from = s1]

SomeInputs == (1 :> {First}) @@ (2 :> {First, Second}) @@ (3 :> {Unfit, Bare})
AllBuckets == {s1, root, a1}

=============================================================================
