-------------------------- MODULE MCInstanceShutdown --------------------------
(* Model values and symmetry for InstanceShutdown. *)
EXTENDS InstanceShutdown, TLC

Symmetry == Permutations(Runs) \cup Permutations(Handlers)
=============================================================================
