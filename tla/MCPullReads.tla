----------------------------- MODULE MCPullReads -----------------------------
(* Model values and symmetry for PullReads. *)
EXTENDS PullReads, TLC

Symmetry == Permutations(Refs) \cup Permutations(SHAs) \cup Permutations(Pushes)
=============================================================================
