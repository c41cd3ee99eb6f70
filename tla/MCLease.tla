------------------------------ MODULE MCLease -------------------------------
(* Instances of Lease with one device.                                     *)
EXTENDS Lease, TLC

CONSTANT d1

OneDevice == [a \in Address |-> d1]

Symmetry == Permutations(Address) \cup Permutations(Request)
=============================================================================
