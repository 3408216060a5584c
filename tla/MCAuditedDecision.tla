------------------------- MODULE MCAuditedDecision -------------------------
(* AuditedDecision on small instances: see the cfg files for the constants. *)
EXTENDS AuditedDecision, TLC

CONSTANTS c1, c2, c3, v1, v2

\* Version v1 permits c1 and c3, v2 permits c2 and c3.
MCPermits == {<<v1, c1>>, <<v1, c3>>, <<v2, c2>>, <<v2, c3>>} \cap (Versions \X Checks)

=============================================================================
