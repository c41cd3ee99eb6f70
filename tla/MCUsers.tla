------------------------------ MODULE MCUsers -------------------------------
(* An instance of Users with symmetric sessions, requests and accounts.    *)
EXTENDS Users, TLC

Symmetry ==
    Permutations(User \ {Root}) \cup Permutations(Session) \cup Permutations(Request)
=============================================================================
