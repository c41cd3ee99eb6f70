----------------------------- MODULE MCHistory ------------------------------
(* An instance of History: a device with two addresses and a device with   *)
(* one.  Device ids are ordered, so devices are not symmetric.             *)
EXTENDS History, TLC

CONSTANTS d1, d2, a1, a2, b1

Owners == [a \in Address |-> IF a = b1 THEN d2 ELSE d1]
Ids == (d1 :> 1) @@ (d2 :> 2)
Inexact == {<<0, 8>>, <<5, 13>>}
Symmetric == Permutations({a1, a2})
=============================================================================
