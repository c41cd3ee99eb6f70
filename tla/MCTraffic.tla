----------------------------- MODULE MCTraffic ------------------------------
(* Instances of Traffic: see the configurations.                           *)
EXTENDS Traffic
=============================================================================
