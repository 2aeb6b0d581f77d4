----------------------------- MODULE MCRefEvents -----------------------------
(* Model values and symmetry for RefEvents. *)
EXTENDS RefEvents, TLC

Symmetry == Permutations(Refs) \cup Permutations(SHAs) \cup Permutations(Pushes)
=============================================================================
