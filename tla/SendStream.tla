------------------------------ MODULE SendStream ------------------------------
(***************************************************************************)
(* One send-stream resource: concurrent `write` calls, the one-shot        *)
(* `write-via-stream`, `finish`, `reset`, cancellation and the drop, over  *)
(* noq's send half of the QUIC stream (external).                          *)
(*                                                                         *)
(* A call that passed its claim checks is an operation with a number.  The *)
(* payload of a `write` is ChunksPerWrite chunks; noq accepts one chunk    *)
(* per step, so flow control may park a write after any chunk.  A call the *)
(* checks refuse changes nothing and is not a step.                        *)
(***************************************************************************)
EXTENDS Integers, Sequences, FiniteSets

CONSTANTS
    Writers,         \* concurrent callers of write
    ChunksPerWrite,  \* flow-control boundaries inside one write
    MaxOps,          \* bound: operations started in one behaviour
    MaxChunks        \* bound: chunks asked for in one behaviour

VARIABLES
    streaming,  \* SendStreamRes.streaming
    writing,    \* SendStreamRes.writing
    ended,      \* SendStreamRes.ended
    dropped,    \* the resource is gone
    call,       \* per writer: its operation in flight, or NoOp
    done,       \* per writer: chunks of it that noq accepted
    via,        \* the write-via-stream call
    viaOp,      \* its operation
    snd,        \* noq's send half
    stopped,    \* the peer sent STOP_SENDING
    alive,      \* entry_for finds the connection and it has no error
    nextOp,     \* operations started so far
    accepted    \* history: the operation of each accepted chunk, in order

vars == <<streaming, writing, ended, dropped, call, done, via, viaOp,
          snd, stopped, alive, nextOp, accepted>>

NoOp == 0

TypeOK ==
    /\ streaming \in BOOLEAN /\ writing \in BOOLEAN /\ ended \in BOOLEAN
    /\ dropped \in BOOLEAN /\ stopped \in BOOLEAN /\ alive \in BOOLEAN
    /\ call \in [Writers -> 0..nextOp]
    /\ done \in [Writers -> Nat]
    /\ via \in {"off", "reading", "writing", "over"}
    /\ viaOp \in 0..nextOp
    /\ snd \in {"ready", "fin", "reset"}
    /\ nextOp \in Nat
    /\ accepted \in Seq(1..nextOp)

Init ==
    /\ streaming = FALSE /\ writing = FALSE /\ ended = FALSE /\ dropped = FALSE
    /\ call = [w \in Writers |-> NoOp] /\ done = [w \in Writers |-> 0]
    /\ via = "off" /\ viaOp = NoOp
    /\ snd = "ready" /\ stopped = FALSE /\ alive = TRUE
    /\ nextOp = 0 /\ accepted = <<>>

-----------------------------------------------------------------------------
\* noq's write accepts a chunk; otherwise write_all fails (the connection died,
\* the peer stopped the stream, or the stream is finished or reset).
Writable == alive /\ ~stopped /\ snd = "ready"

\* Mutant: write does not look at the claim of another write.
WriteUnclaimed == ~streaming

\* The checks of `write`.
WriteAllowed == ~streaming /\ ~writing

Write(w) ==
    /\ ~dropped /\ call[w] = NoOp /\ WriteAllowed
    /\ nextOp < MaxOps /\ Len(accepted) + ChunksPerWrite <= MaxChunks
    /\ nextOp' = nextOp + 1
    /\ writing' = TRUE
    /\ call' = [call EXCEPT ![w] = nextOp + 1]
    /\ UNCHANGED <<streaming, ended, dropped, done, via, viaOp, snd, stopped,
                   alive, accepted>>

\* Every exit of an operation, cancellation included, drops its Unclaim.
Unclaim == FALSE

\* offset == bytes.len() once the next chunk is in.
LastChunk(n) == n + 1 = ChunksPerWrite

\* One pass of write_all's loop for a `write`.
WritePoll(w) ==
    /\ call[w] # NoOp
    /\ IF Writable
       THEN /\ accepted' = Append(accepted, call[w])
            /\ IF LastChunk(done[w])
               THEN /\ writing' = Unclaim
                    /\ call' = [call EXCEPT ![w] = NoOp]
                    /\ done' = [done EXCEPT ![w] = 0]
               ELSE /\ done' = [done EXCEPT ![w] = @ + 1]
                    /\ UNCHANGED <<call, writing>>
       ELSE /\ writing' = Unclaim
            /\ call' = [call EXCEPT ![w] = NoOp]
            /\ done' = [done EXCEPT ![w] = 0]
            /\ UNCHANGED accepted
    /\ UNCHANGED <<streaming, ended, dropped, via, viaOp, snd, stopped, alive, nextOp>>

\* The host cancels a parked write.
CancelWrite(w) ==
    /\ call[w] # NoOp
    /\ writing' = Unclaim
    /\ call' = [call EXCEPT ![w] = NoOp]
    /\ done' = [done EXCEPT ![w] = 0]
    /\ UNCHANGED <<streaming, ended, dropped, via, viaOp, snd, stopped, alive,
                   nextOp, accepted>>

-----------------------------------------------------------------------------
\* do_finish: `ended` is set first, whatever noq answers.
DoFinish ==
    /\ ended' = TRUE
    /\ snd' = IF Writable THEN "fin" ELSE snd

\* Mutant: finish does not wait for a write in flight.
FinishUnclaimed == ~streaming

\* The checks of `finish`.
FinishAllowed == ~streaming /\ ~writing

Finish ==
    /\ ~dropped /\ FinishAllowed
    /\ DoFinish
    /\ UNCHANGED <<streaming, writing, dropped, call, done, via, viaOp, stopped,
                   alive, nextOp, accepted>>

\* noq's reset, which also replaces a pending FIN.
NoqReset == IF alive /\ snd \in {"ready", "fin"} THEN "reset" ELSE snd

Reset ==
    /\ ~dropped
    /\ ended' = TRUE
    /\ snd' = NoqReset
    /\ UNCHANGED <<streaming, writing, dropped, call, done, via, viaOp, stopped,
                   alive, nextOp, accepted>>

\* Mutant: the drop implies nothing.
DropSilently == snd

\* SendStreamRes::drop
DropImplies == IF ended THEN snd ELSE NoqReset

\* The resource is dropped; a call in flight borrows it, so none is.
Drop ==
    /\ ~dropped /\ \A w \in Writers : call[w] = NoOp
    /\ via \in {"off", "over"}
    /\ dropped' = TRUE
    /\ snd' = DropImplies
    /\ UNCHANGED <<streaming, writing, ended, call, done, via, viaOp, stopped,
                   alive, nextOp, accepted>>

-----------------------------------------------------------------------------
\* write_via_stream takes both claims, unless it is refused.
WriteViaStream ==
    /\ ~dropped /\ ~streaming /\ ~writing
    /\ nextOp < MaxOps
    /\ nextOp' = nextOp + 1
    /\ writing' = TRUE /\ streaming' = TRUE
    /\ via' = "reading" /\ viaOp' = nextOp + 1
    /\ UNCHANGED <<ended, dropped, call, done, snd, stopped, alive, accepted>>

\* The byte stream hands over a non-empty buffer.
ViaData ==
    /\ via = "reading" /\ via' = "writing"
    /\ Len(accepted) < MaxChunks
    /\ UNCHANGED <<streaming, writing, ended, dropped, call, done, viaOp, snd,
                   stopped, alive, nextOp, accepted>>

\* write_all of one buffer: accepted, or the call fails without a finish.
ViaPoll ==
    /\ via = "writing"
    /\ IF Writable
       THEN /\ accepted' = Append(accepted, viaOp)
            /\ via' = "reading"
            /\ UNCHANGED writing
       ELSE /\ writing' = Unclaim
            /\ via' = "over"
            /\ UNCHANGED accepted
    /\ UNCHANGED <<streaming, ended, dropped, call, done, viaOp, snd, stopped,
                   alive, nextOp>>

\* The byte stream ends: finish, release the claim.
ViaEnds ==
    /\ via = "reading" /\ via' = "over"
    /\ DoFinish
    /\ writing' = Unclaim
    /\ UNCHANGED <<streaming, dropped, call, done, viaOp, stopped, alive, nextOp, accepted>>

\* Mutant: a cancelled write-via-stream gives its one-shot claim back.
ViaClaimReturned == FALSE

\* `streaming` after a cancelled write-via-stream.
ViaClaimKept == TRUE

\* The host cancels write-via-stream: claimed for good and unfinished.
CancelVia ==
    /\ via \in {"reading", "writing"} /\ via' = "over"
    /\ writing' = Unclaim
    /\ streaming' = ViaClaimKept
    /\ UNCHANGED <<ended, dropped, call, done, viaOp, snd, stopped, alive,
                   nextOp, accepted>>

-----------------------------------------------------------------------------
\* The peer stops the stream; the connection fails or its slot is reused.
PeerStops ==
    /\ ~stopped /\ stopped' = TRUE
    /\ UNCHANGED <<streaming, writing, ended, dropped, call, done, via, viaOp,
                   snd, alive, nextOp, accepted>>

ConnectionDies ==
    /\ alive /\ alive' = FALSE
    /\ UNCHANGED <<streaming, writing, ended, dropped, call, done, via, viaOp,
                   snd, stopped, nextOp, accepted>>

Next ==
    \/ \E w \in Writers : Write(w) \/ WritePoll(w) \/ CancelWrite(w)
    \/ Finish \/ Reset \/ Drop
    \/ WriteViaStream \/ ViaData \/ ViaPoll \/ ViaEnds \/ CancelVia
    \/ PeerStops \/ ConnectionDies

Spec == Init /\ [][Next]_vars

-----------------------------------------------------------------------------
(***************************************************************************)
(* Properties                                                              *)
(***************************************************************************)

\* The bytes of two operations never interleave on the stream (finding B4:
\* interleaving at flow-control boundaries corrupts framed payloads), whatever
\* mix of writes, cancellations and write-via-stream the callers try.
WritesNeverInterleave ==
    \A i, j, k \in 1..Len(accepted) :
        i < j /\ j < k /\ accepted[i] = accepted[k] => accepted[j] = accepted[i]

InFlight(op) ==
    (\E w \in Writers : call[w] = op) \/ (viaOp = op /\ via \in {"reading", "writing"})

\* A FIN never lands under an operation in flight: everything a finished stream
\* carries comes from operations that are over.
FinTruncatesNothing ==
    snd = "fin" => \A i \in 1..Len(accepted) : ~InFlight(accepted[i])

\* Once write-via-stream has claimed the stream, no other call adds a byte to
\* it, not even after that call is cancelled.
ViaOwnsTheStream ==
    [][viaOp # NoOp /\ accepted' # accepted => accepted'[Len(accepted')] = viaOp]_vars
=============================================================================
