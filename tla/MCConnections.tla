--------------------------- MODULE MCConnections ---------------------------
(* Instances of Connections for TLC.                                       *)
EXTENDS Connections, TLC

Symmetric == Permutations(Dialers) \cup Permutations(Peers) \cup Permutations(Slots)
=============================================================================
