----------------------------- MODULE MCConnCalls -----------------------------
(* Instances of ConnCalls for TLC.                                         *)
EXTENDS ConnCalls, TLC

CONSTANTS c1, c2, bi

TwoCallers ==
    c1 :> {<<"accept", bi>>, <<"open", bi>>, <<"recv">>} @@
    c2 :> {<<"accept", bi>>, <<"wait">>, <<"watch">>}
=============================================================================
