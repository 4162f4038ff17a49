-------------------------------- MODULE Streams --------------------------------
(***************************************************************************)
(* One direction of a QUIC stream from end to end: a SendStream at one     *)
(* endpoint, a RecvStream at the other, and noq between them (external),   *)
(* which retransmits until the receiver has everything, grants credit as   *)
(* the receiving application consumes, and carries RESET_STREAM and        *)
(* STOP_SENDING.  Each endpoint loses the connection in its own time.      *)
(***************************************************************************)
EXTENDS Integers, Sequences

CONSTANTS
    Writers, ChunksPerWrite, MaxOps, MaxChunks,  \* see SendStream
    Readers,                                     \* see RecvStream
    Window                                       \* chunks of receive window

ASSUME StreamsBounds ==
    /\ ChunksPerWrite \in Nat \ {0} /\ MaxOps \in Nat /\ MaxChunks \in Nat
    /\ Window \in Nat \ {0}

VARIABLES
    sStreaming, writing, ended, sDropped, call, done, sVia, viaOp, snd,
    sStopped, alive, nextOp, accepted,
    rStreaming, terminal, reading, rDropped, parked, rVia, arrived, fin, rst,
    spent, rStopped, conn, taken,
    finSent,  \* the FIN is on the wire, even if a reset followed it
    outcome   \* history: the end the receiving application was told

sendVars == <<sStreaming, writing, ended, sDropped, call, done, sVia, viaOp, snd,
              sStopped, alive, nextOp, accepted>>
recvVars == <<rStreaming, terminal, reading, rDropped, parked, rVia, arrived, fin,
              rst, spent, rStopped, conn, taken>>
vars == <<sendVars, recvVars, finSent, outcome>>

S == INSTANCE SendStream WITH
        streaming <- sStreaming, dropped <- sDropped, via <- sVia, stopped <- sStopped
R == INSTANCE RecvStream WITH
        MaxBytes <- MaxChunks, streaming <- rStreaming, dropped <- rDropped,
        via <- rVia, stopped <- rStopped

TypeOK ==
    /\ S!TypeOK /\ R!TypeOK
    /\ finSent \in BOOLEAN
    /\ outcome \in {"none", "fin", "reset", "closed"}

Init == S!Init /\ R!Init /\ finSent = FALSE /\ outcome = "none"

-----------------------------------------------------------------------------
\* noq accepts a chunk only within the window the reader has opened; without
\* credit the write stays parked.  One it must refuse fails at once.
Credit == S!Writable => Len(accepted) < taken + Window

SenderSteps(step) ==
    /\ step
    /\ finSent' = (finSent \/ snd' = "fin")
    /\ UNCHANGED <<recvVars, outcome>>

WritePoll(w) == SenderSteps(Credit /\ S!WritePoll(w))
WriteViaPoll == SenderSteps(Credit /\ S!ViaPoll)
SenderCalls ==
    \/ \E w \in Writers : SenderSteps(S!Write(w)) \/ SenderSteps(S!CancelWrite(w))
    \/ SenderSteps(S!Finish) \/ SenderSteps(S!Reset) \/ SenderSteps(S!Drop)
    \/ SenderSteps(S!WriteViaStream) \/ SenderSteps(S!ViaData)
    \/ SenderSteps(S!ViaEnds) \/ SenderSteps(S!CancelVia)

\* The end a step of the receiver tells, if it tells one.
Told ==
    CASE terminal' # terminal -> terminal'
      [] rVia' # rVia /\ rVia' = "ok" -> "fin"
      [] rVia' # rVia /\ rVia' \in {"reset", "closed"} -> rVia'
      [] OTHER -> "none"

\* The first end it tells counts, and a `read` that goes back on what `read`
\* latched (finding A2).
ReceiverSteps(step) ==
    /\ step
    /\ outcome' = IF outcome = "none" \/ (terminal # "none" /\ terminal' # terminal)
                  THEN Told ELSE outcome
    /\ UNCHANGED <<sendVars, finSent>>

ReadResolves(r) == ReceiverSteps(R!ReadResolves(r))
ReadViaReads == ReceiverSteps(R!ViaReads)
ReadViaHandsOver == ReceiverSteps(R!ViaHandsOver)
ReceiverCalls ==
    \/ \E r \in Readers : ReceiverSteps(R!Read(r)) \/ ReceiverSteps(R!CancelRead(r))
    \/ ReceiverSteps(R!Stop) \/ ReceiverSteps(R!Drop) \/ ReceiverSteps(R!ReadViaStream)

-----------------------------------------------------------------------------
\* noq's wire.  After a reset nothing is retransmitted, but what was in flight
\* may still arrive before it.
BytesArrive == arrived < Len(accepted) /\ ReceiverSteps(R!BytesArrive)
FinArrives == finSent /\ arrived = Len(accepted) /\ ReceiverSteps(R!FinArrives)
ResetArrives == snd = "reset" /\ ReceiverSteps(R!ResetArrives)
StopArrives == rStopped /\ alive /\ SenderSteps(S!PeerStops)

\* The connection ends at either endpoint, by itself or because the other's
\* close, or its silence, reached it.
SenderLosesConn == SenderSteps(S!ConnectionDies)
ReceiverLosesConn == ReceiverSteps(R!ConnFails)
ReceiverConnGone == ReceiverSteps(R!ConnGone)

SenderPolls == (\E w \in Writers : WritePoll(w)) \/ WriteViaPoll
ViaTask == ReadViaReads \/ ReadViaHandsOver
Wire == BytesArrive \/ FinArrives \/ ResetArrives \/ StopArrives

Next ==
    \/ SenderCalls \/ SenderPolls
    \/ ReceiverCalls \/ (\E r \in Readers : ReadResolves(r)) \/ ViaTask
    \/ Wire \/ SenderLosesConn \/ ReceiverLosesConn \/ ReceiverConnGone

Spec == Init /\ [][Next]_vars

\* Woken calls and tasks are polled (one operation at a time holds the sender's
\* claim); the consumer of a byte stream reads it or drops it; noq delivers
\* while both ends have the connection, and ends it at one endpoint (its close
\* frame, or the idle timeout) once the other lost it.  No application call is
\* fair.
FairSpec ==
    /\ Spec
    /\ WF_vars(SenderPolls) /\ WF_vars(ViaTask) /\ WF_vars(Wire)
    /\ \A r \in Readers : WF_vars(ReadResolves(r))
    /\ WF_vars((conn # "live" /\ SenderLosesConn) \/ (~alive /\ ReceiverLosesConn))

-----------------------------------------------------------------------------
(***************************************************************************)
(* Properties                                                              *)
(***************************************************************************)

\* Writes parked at flow-control boundaries never interleave their bytes
\* (finding B4), whatever the receiver's pace of consumption.
WritesNeverInterleave == S!WritesNeverInterleave

\* A FIN never lands under an operation in flight.
FinTruncatesNothing == S!FinTruncatesNothing

\* Once write-via-stream claimed the stream no other call adds a byte to it.
ViaOwnsTheStream == S!ViaOwnsTheStream

\* The two resources and noq together are the byte stream iroh.wit promises: no
\* byte is invented, lost before a clean end or delivered after it; the first
\* end the reader is told, "fin", "reset" or "closed", is what happened, and
\* `read` delivers nothing after it (finding A2).  What read-via-stream answers
\* once `read` has told an end is ViaOkIsFin's question.
B == INSTANCE ByteStream WITH
        written <- Len(accepted), finished <- finSent, aborted <- (snd = "reset"),
        released <- sDropped, got <- taken, quit <- rStopped, broken <- (conn # "live")

ImplementsByteStream == B!Spec

\* Once the sending resource is dropped the reader is not left waiting: every
\* parked read resolves, and the read-via-stream task reports an end.
ReaderLearns ==
    /\ \A r \in Readers : sDropped /\ r \in parked ~> r \notin parked
    /\ sDropped /\ rVia \in {"reading", "handing"} ~> rVia \notin {"reading", "handing"}

\* A write parked for credit is released once the receiving resource is dropped:
\* by STOP_SENDING, by the read-via-stream task's reads, or by the end of the
\* stream.  A byte stream dropped half-way is the exception iroh.wit makes.
WriterReleased ==
    \A w \in Writers :
        rDropped /\ call[w] # S!NoOp ~> call[w] = S!NoOp \/ rVia = "abandoned"
=============================================================================
