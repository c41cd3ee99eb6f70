--------------------------- MODULE MCPolicyCache ----------------------------
(* Instances of PolicyCache: every address belongs to the one device, or   *)
(* there is none at all.                                                   *)
EXTENDS PolicyCache, TLC

CONSTANT d1

OneDevice == [a \in Address |-> d1]
Symmetry == Permutations(Request) \cup Permutations(User)
=============================================================================
