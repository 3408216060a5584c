---------------------------- MODULE MCAuditTrail ----------------------------
(* AuditTrail on small instances: see trail.cfg for the other constants.   *)
EXTENDS AuditTrail

\* The same roles in two orders.
SomeRoleLists == {<<1, 2>>, <<2, 1>>}

=============================================================================
