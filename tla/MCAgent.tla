------------------------------ MODULE MCAgent ------------------------------
(* Instances of Agent for TLC.                                              *)
EXTENDS Agent

CONSTANTS c1, c2, a1, a2

OneType == {"nistp256"}
TwoTypes == {"nistp256", "ed25519"}

(* Clients are only compared with each other.                               *)
ClientSymmetry == Permutations(Clients)
=============================================================================
