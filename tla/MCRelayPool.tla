----------------------------- MODULE MCRelayPool -----------------------------
(* Instances of RelayPool for TLC.                                         *)
EXTENDS RelayPool, TLC

CallerSymmetry == Permutations(Callers)
=============================================================================
