-------------------------- MODULE MCPolicyStoreTx --------------------------
(* PolicyStoreTx on small instances: see the cfg files for the constants.  *)
EXTENDS PolicyStoreTx, TLC
=============================================================================
