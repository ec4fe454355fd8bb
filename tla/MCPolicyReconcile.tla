------------------------- MODULE MCPolicyReconcile -------------------------
(***************************************************************************)
(* PolicyReconcile for TLC.  The configurations choose the replicas, the   *)
(* databases and the kinds of disturbance.                                 *)
(***************************************************************************)
EXTENDS PolicyReconcile, TLC

\* Replicas are alike, and so are the databases.
Alike == Permutations(Replicas) \cup Permutations(Targets)
=============================================================================
