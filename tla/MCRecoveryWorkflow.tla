------------------------- MODULE MCRecoveryWorkflow -------------------------
(***************************************************************************)
(* Model checking of RecoveryWorkflow.  Requests and workflows are         *)
(* interchangeable: the specification compares them for equality only.     *)
(***************************************************************************)
EXTENDS RecoveryWorkflow, TLC

Symmetry == Permutations(Requests) \cup Permutations(Workflows)
=============================================================================
