------------------------------ MODULE RecvStream ------------------------------
(***************************************************************************)
(* One recv-stream resource: `read` calls, their cancellation, `stop`, the *)
(* one-shot `read-via-stream` and its spawned task, and the drop, over     *)
(* noq's receive half of the QUIC stream (external).                       *)
(*                                                                         *)
(* Bytes are counted, not represented.  A call that its checks refuse, or  *)
(* that the latch or max = 0 answers at once, changes nothing and is not a *)
(* step.                                                                   *)
(***************************************************************************)
EXTENDS Integers

CONSTANTS
    Readers,   \* concurrent callers of read
    MaxBytes   \* bound: bytes the peer sends

VARIABLES
    streaming,    \* RecvStreamRes.streaming
    terminal,     \* RecvStreamRes.terminal
    reading,      \* RecvStreamRes.reading
    dropped,      \* the resource is gone
    parked,       \* readers whose read call is in flight
    via,          \* the task read-via-stream spawned, and its outcome
    arrived,      \* bytes noq has received in order
    fin,          \* the peer's FIN follows them
    rst,          \* the peer reset the stream
    spent,        \* noq freed the stream: its FIN or reset was consumed
    stopped,      \* stop() ran on it
    conn,         \* "live", "failed" (entry.error), "gone" (entry_for: None)
    taken         \* bytes noq has delivered

noqVars == <<arrived, fin, rst, conn>>
vars == <<streaming, terminal, reading, dropped, parked, via, noqVars, spent,
          stopped, taken>>

TypeOK ==
    /\ streaming \in BOOLEAN /\ reading \in BOOLEAN /\ dropped \in BOOLEAN
    /\ terminal \in {"none", "fin", "reset", "closed"}
    /\ parked \subseteq Readers
    /\ via \in {"off", "reading", "handing", "ok", "reset", "closed", "abandoned"}
    /\ arrived \in Nat /\ fin \in BOOLEAN /\ rst \in BOOLEAN
    /\ spent \in BOOLEAN /\ stopped \in BOOLEAN
    /\ conn \in {"live", "failed", "gone"}
    /\ taken \in 0..arrived

Init ==
    /\ streaming = FALSE /\ reading = FALSE /\ dropped = FALSE
    /\ terminal = "none" /\ parked = {} /\ via = "off"
    /\ arrived = 0 /\ fin = FALSE /\ rst = FALSE
    /\ spent = FALSE /\ stopped = FALSE /\ conn = "live"
    /\ taken = 0

-----------------------------------------------------------------------------
\* ReadError::Blocked: pending, unless the connection failed.
BlockedResult == IF conn = "failed" THEN "closed" ELSE "blocked"

\* ReadableError::ClosedStream: noq no longer has the stream.
ClosedStreamResult == IF conn = "failed" THEN "closed" ELSE "fin"

\* Mutant: bytes are reported before they are there.
BytesEarly == taken <= arrived

\* noq has a byte to deliver.
BytesReady == taken < arrived

\* What read_some's check finds.  A reset discards undelivered bytes; bytes
\* already delivered drain before a connection failure surfaces.
ReadSome ==
    IF conn = "gone" THEN "closed"
    ELSE IF spent \/ stopped THEN ClosedStreamResult
    ELSE IF rst THEN "reset"
    ELSE IF BytesReady THEN "bytes"
    ELSE IF fin THEN "fin"
    ELSE BlockedResult

\* What a read_some that resolved leaves behind in noq.
Consume ==
    /\ ReadSome # "blocked"
    /\ taken' = IF ReadSome = "bytes" THEN taken + 1 ELSE taken
    /\ spent' = (spent \/ (conn # "gone" /\ ~stopped /\ ReadSome \in {"fin", "reset"}))

-----------------------------------------------------------------------------
\* Mutant: the latched outcome is not consulted.
ReadUnlatched == ~streaming /\ ~reading

\* The checks of `read` that let it go on to read_some.
ReadAllowed == ~streaming /\ terminal = "none" /\ ~reading

Read(r) ==
    /\ ~dropped /\ r \notin parked /\ ReadAllowed
    /\ reading' = TRUE
    /\ parked' = parked \cup {r}
    /\ UNCHANGED <<streaming, terminal, dropped, via, noqVars, spent, stopped,
                   taken>>

\* The read resolves; its first terminal outcome is latched.
ReadResolves(r) ==
    /\ r \in parked
    /\ Consume
    /\ terminal' = IF ReadSome = "bytes" THEN terminal ELSE ReadSome
    /\ reading' = FALSE
    /\ parked' = parked \ {r}
    /\ UNCHANGED <<streaming, dropped, via, noqVars, stopped>>

\* The host cancels a parked read: Unclaim::drop, and nothing was consumed.
CancelRead(r) ==
    /\ r \in parked
    /\ reading' = FALSE
    /\ parked' = parked \ {r}
    /\ UNCHANGED <<streaming, terminal, dropped, via, noqVars, spent, stopped,
                   taken>>

\* stop: STOP_SENDING, unless noq is done with the stream already.
Stop ==
    /\ ~dropped
    /\ stopped' = (stopped \/ (conn # "gone" /\ ~spent))
    /\ UNCHANGED <<streaming, terminal, reading, dropped, parked, via, noqVars,
                   spent, taken>>

\* read_via_stream: refused only if it was called before.
ReadViaStream ==
    /\ ~dropped /\ ~streaming
    /\ streaming' = TRUE /\ via' = "reading"
    /\ UNCHANGED <<terminal, reading, dropped, parked, noqVars, spent, stopped,
                   taken>>

\* The spawned task's read_some resolves: bytes go to the byte stream, the
\* rest is the outcome the future reports.
ViaReads ==
    /\ via = "reading"
    /\ Consume
    /\ via' = CASE ReadSome = "bytes" -> "handing"
                [] ReadSome = "fin" -> "ok"
                [] OTHER -> ReadSome
    /\ UNCHANGED <<streaming, terminal, reading, dropped, parked, noqVars, stopped>>

\* The consumer takes the buffer, or has dropped the byte stream.
ViaHandsOver ==
    /\ via = "handing"
    /\ via' \in {"reading", "abandoned"}
    /\ UNCHANGED <<streaming, terminal, reading, dropped, parked, noqVars, spent,
                   stopped, taken>>

\* Mutant: the drop tells the peer nothing.
DropSilently == stopped

\* RecvStreamRes::drop: stop(0), unless the end was seen or a task owns the
\* bytes.
DropImplies ==
    stopped \/ (~streaming /\ terminal = "none" /\ conn # "gone" /\ ~spent)

\* The resource is dropped; a read in flight borrows it, so none is.
Drop ==
    /\ ~dropped /\ parked = {}
    /\ dropped' = TRUE
    /\ stopped' = DropImplies
    /\ UNCHANGED <<streaming, terminal, reading, parked, via, noqVars, spent,
                   taken>>

-----------------------------------------------------------------------------
\* The receive half and the connection, as noq learns of them.
ourVars == <<streaming, terminal, reading, dropped, parked, via, spent, stopped,
             taken>>

\* The next bytes of the stream are complete.
BytesArrive ==
    /\ conn = "live" /\ ~fin /\ ~rst
    /\ arrived < MaxBytes
    /\ arrived' = arrived + 1
    /\ UNCHANGED <<fin, rst, conn, ourVars>>

\* The FIN is known and every byte before it has arrived.
FinArrives ==
    /\ conn = "live" /\ ~fin /\ ~rst
    /\ fin' = TRUE
    /\ UNCHANGED <<arrived, rst, conn, ourVars>>

ResetArrives ==
    /\ conn = "live" /\ ~fin /\ ~rst
    /\ rst' = TRUE
    /\ UNCHANGED <<arrived, fin, conn, ourVars>>

\* The connection is lost; later its slot is reused.
ConnFails ==
    /\ conn = "live" /\ conn' = "failed"
    /\ UNCHANGED <<arrived, fin, rst, ourVars>>

ConnGone ==
    /\ conn = "failed" /\ conn' = "gone"
    /\ UNCHANGED <<arrived, fin, rst, ourVars>>

Next ==
    \/ \E r \in Readers : Read(r) \/ ReadResolves(r) \/ CancelRead(r)
    \/ Stop \/ Drop
    \/ ReadViaStream \/ ViaReads \/ ViaHandsOver
    \/ BytesArrive \/ FinArrives \/ ResetArrives \/ ConnFails \/ ConnGone

Spec == Init /\ [][Next]_vars

-----------------------------------------------------------------------------
(***************************************************************************)
(* Properties                                                              *)
(***************************************************************************)

\* "It resolves ok for the FIN, and otherwise the error read would report"
\* (iroh.wit:545), for a stream the application did not stop itself.
ViaOkIsFin == via = "ok" => fin \/ stopped
=============================================================================
