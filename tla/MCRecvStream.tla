---------------------------- MODULE MCRecvStream ----------------------------
(* Instances of RecvStream for TLC.                                        *)
EXTENDS RecvStream
=============================================================================
