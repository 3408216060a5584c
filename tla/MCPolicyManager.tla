-------------------------- MODULE MCPolicyManager --------------------------
(* PolicyManager on small instances: see the cfg files for the constants.  *)
EXTENDS PolicyManager, TLC

\* Admin threads are interchangeable (the safety runs only).
AdminSymmetry == Permutations(Admins)

=============================================================================
