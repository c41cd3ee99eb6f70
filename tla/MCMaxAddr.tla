----------------------------- MODULE MCMaxAddr ------------------------------
(* A small instance of MaxAddr: one device, whose addresses are symmetric. *)
EXTENDS MaxAddr, TLC

CONSTANT d1

OneDevice == [a \in Address |-> d1]

Symmetry == Permutations(Address) \cup Permutations(Request)
=============================================================================
