------------------------- MODULE MCWorkflowExecution -------------------------
(* Model values and symmetry for WorkflowExecution. *)
EXTENDS WorkflowExecution, TLC

Symmetry == Permutations(Runs) \cup Permutations(Handlers)
=============================================================================
