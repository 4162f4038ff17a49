---------------------------- MODULE MCRelayProbe ----------------------------
(* The instance of RelayProbe for TLC.                                     *)
EXTENDS RelayProbe
=============================================================================
