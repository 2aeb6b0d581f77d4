----------------------------- MODULE MCRefRestart -----------------------------
(* Model values and symmetry for RefRestart. *)
EXTENDS RefRestart, TLC

Symmetry == Permutations(Refs) \cup Permutations(SHAs) \cup Permutations(Pushes)
=============================================================================
