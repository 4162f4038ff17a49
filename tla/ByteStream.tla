------------------------------ MODULE ByteStream ------------------------------
(***************************************************************************)
(* What one direction of a stream promises its two applications, as        *)
(* iroh.wit states it for send-stream and recv-stream: bytes arrive once   *)
(* and in order, and the reader is told one of three ends.  The clean end  *)
(* is the FIN with every byte before it; a reset is one the sender made,   *)
(* never one that dropping a finished stream brought; a closed connection  *)
(* is one that failed.  A reader that stopped the stream itself may be     *)
(* told that it ended.                                                     *)
(***************************************************************************)
EXTENDS Naturals

VARIABLES
    written,   \* bytes accepted from the sending application
    finished,  \* a FIN was sent after them
    aborted,   \* the stream was reset
    released,  \* the sending resource is gone
    got,       \* bytes handed to the receiving application
    quit,      \* the receiving application gave the stream up
    broken,    \* its connection failed
    outcome    \* the end it was told first: "none", "fin", "reset", "closed"

vars == <<written, finished, aborted, released, got, quit, broken, outcome>>

Init ==
    /\ written = 0 /\ finished = FALSE /\ aborted = FALSE /\ released = FALSE
    /\ got = 0 /\ quit = FALSE /\ broken = FALSE /\ outcome = "none"

Accept ==
    /\ ~finished /\ ~aborted /\ ~released
    /\ written' = written + 1
    /\ UNCHANGED <<finished, aborted, released, got, quit, broken, outcome>>

Finish ==
    /\ ~finished /\ ~aborted /\ ~released
    /\ finished' = TRUE
    /\ UNCHANGED <<written, aborted, released, got, quit, broken, outcome>>

\* The application's own reset may replace a FIN that is still under way.
Abort ==
    /\ ~aborted /\ ~released
    /\ aborted' = TRUE
    /\ UNCHANGED <<written, finished, released, got, quit, broken, outcome>>

\* Dropping the resource may reset an unfinished stream, never a finished one.
Release ==
    /\ ~released /\ released' = TRUE
    /\ aborted' \in {aborted, aborted \/ ~finished}
    /\ UNCHANGED <<written, finished, got, quit, broken, outcome>>

Deliver ==
    /\ outcome = "none" /\ ~quit
    /\ got < written
    /\ got' = got + 1
    /\ UNCHANGED <<written, finished, aborted, released, quit, broken, outcome>>

Quit ==
    /\ ~quit
    /\ quit' = TRUE
    /\ UNCHANGED <<written, finished, aborted, released, got, broken, outcome>>

Break ==
    /\ ~broken
    /\ broken' = TRUE
    /\ UNCHANGED <<written, finished, aborted, released, got, quit, outcome>>

Tell(end) ==
    /\ outcome = "none"
    /\ \/ end = "fin" /\ (quit \/ (finished /\ got = written))
       \/ end = "reset" /\ aborted /\ ~quit
       \/ end = "closed" /\ broken
    /\ outcome' = end
    /\ UNCHANGED <<written, finished, aborted, released, got, quit, broken>>

Next ==
    \/ Accept \/ Finish \/ Abort \/ Release \/ Deliver \/ Quit \/ Break
    \/ \E end \in {"fin", "reset", "closed"} : Tell(end)

Spec == Init /\ [][Next]_vars
=============================================================================
