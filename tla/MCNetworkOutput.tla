-------------------------- MODULE MCNetworkOutput --------------------------
(* Instances of NetworkOutput for TLC. *)
EXTENDS NetworkOutput

CONSTANTS c1, c2, c3
ThreeConnections == {c1, c2, c3}
=============================================================================
