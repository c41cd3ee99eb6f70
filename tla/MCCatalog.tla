----------------------------- MODULE MCCatalog ------------------------------
(* Instances of Catalog for TLC.                                           *)
EXTENDS Catalog

LinkSets == {{}, {1, 2}}

(* Requests, host names and group names are interchangeable.               *)
Symmetric == Permutations(Request) \cup Permutations(Fqdn) \cup Permutations(Name)
=============================================================================
