------------------------------ MODULE MCDelivery ------------------------------
(* Model values and symmetry for Delivery. *)
EXTENDS Delivery, TLC

Symmetry == Permutations(Deliveries)
=============================================================================
