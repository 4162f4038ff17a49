----------------------------- MODULE RelayProbe -----------------------------
(***************************************************************************)
(* The clocked liveness probe of one pooled relay connection: the stamp    *)
(* every inbound frame leaves, the sweep the pump's tick runs, and the     *)
(* websocket behind them.                                                  *)
(*                                                                         *)
(* Time is discrete and moves only when the pump has nothing it could do:  *)
(* the pump is prompt unless it is held by an inline send.  The answer to  *)
(* a ping takes at least one unit, so it never carries the instant of the  *)
(* ping itself.  RelayPool.tla abstracts this module's verdict.            *)
(***************************************************************************)
EXTENDS Integers

CONSTANTS
    QuietAfter,  \* RELAY_PING_INTERVAL
    Deadline,    \* RELAY_PING_TIMEOUT
    TickPeriod,  \* TICK_NS
    MaxRtt,      \* the slowest answer of a live relay
    MaxTime      \* bound: the clock of one behaviour

ASSUME ProbeAssumption ==
    /\ QuietAfter \in Nat \ {0} /\ Deadline \in Nat \ {0} /\ TickPeriod \in Nat \ {0}
    /\ MaxRtt \in Nat \ {0} /\ MaxRtt < Deadline
    /\ MaxTime \in Nat

VARIABLES
    now,          \* Instant::now
    lastInbound,  \* RelayConn.last_inbound
    probe,        \* RelayConn.probe: when the outstanding ping was sent
    dead,         \* a sweep answered Dead and retired the connection
    tickAt,       \* when the pump's tick timer fires
    held,         \* the pump awaits an inline send
    buffered,     \* the websocket holds a frame no receive has read
    heard,        \* when the last frame reached the websocket
    pongDue,      \* when the live relay's answer arrives at the latest
    live,         \* the relay sends
    heldFor       \* units the pump was held since the last frame

vars == <<now, lastInbound, probe, dead, tickAt, held, buffered, heard, pongDue, live, heldFor>>

Never == -1
Times == 0..MaxTime

TypeOK ==
    /\ now \in Times /\ lastInbound \in 0..now /\ heard \in 0..now
    /\ probe \in (0..now) \cup {Never}
    /\ tickAt \in Nat /\ pongDue \in Nat \cup {Never}
    /\ heldFor \in 0..now
    /\ dead \in BOOLEAN /\ held \in BOOLEAN /\ buffered \in BOOLEAN /\ live \in BOOLEAN

\* RelayConn::connect returns and the connection is pooled.
Init ==
    /\ now = 0 /\ lastInbound = 0 /\ heard = 0 /\ heldFor = 0
    /\ probe = Never /\ pongDue = Never
    /\ tickAt = TickPeriod
    /\ dead = FALSE /\ held = FALSE /\ buffered = FALSE /\ live = TRUE

-----------------------------------------------------------------------------
\* A frame of any kind reaches the websocket; a pong answers the ping.
FrameArrives(pong) ==
    /\ live /\ ~dead
    /\ pong => pongDue # Never /\ now > probe
    /\ buffered' = TRUE /\ heard' = now
    /\ pongDue' = IF pong THEN Never ELSE pongDue
    /\ heldFor' = 0
    /\ UNCHANGED <<now, lastInbound, probe, dead, tickAt, held, live>>

\* The armed receive reads a frame: the stamp precedes the tag dispatch.
Receive ==
    /\ ~held /\ ~dead /\ buffered
    /\ buffered' = FALSE
    /\ lastInbound' = now
    /\ UNCHANGED <<now, probe, dead, tickAt, held, heard, pongDue, live, heldFor>>

\* Whether a frame arrived since the ping.
Answered(sent) == lastInbound > sent

\* Mutant: the receive arm comes after the tick.
TickAnyway == ~held /\ ~dead /\ now >= tickAt

\* The tick arm is the last of the biased select: it runs only when no receive
\* can.
TickRuns == ~held /\ ~dead /\ now >= tickAt /\ ~buffered

\* Mutant: the deadline is one tick too long.
WaitingLonger(sent) == now - sent < Deadline + TickPeriod

\* The outstanding ping keeps the sweep from doing anything: unanswered, and
\* within its deadline.
Waiting(sent) == now - sent < Deadline

\* A wire quiet long enough to be pinged.
Quiet == now - lastInbound >= QuietAfter

\* Mutant: the probe keeps the deadline of the ping.
PingDeadline == now + Deadline

\* What the probe keeps of a ping: when it was sent.
PingSent == now

\* The liveness sweep: probe_step for this connection, the detached ping, or
\* the retirement of a dead one.
Sweep ==
    /\ TickRuns
    /\ tickAt' = now + TickPeriod
    /\ IF probe # Never /\ ~Answered(probe)
       THEN /\ dead' = ~Waiting(probe)
            /\ UNCHANGED <<probe, pongDue>>
       ELSE /\ probe' = IF Quiet THEN PingSent ELSE Never
            /\ pongDue' = IF Quiet /\ live THEN now + MaxRtt ELSE pongDue
            /\ UNCHANGED dead
    /\ UNCHANGED <<now, lastInbound, held, buffered, heard, live, heldFor>>

\* The pump enters or leaves an inline send of another datagram.
Hold ==
    /\ held' = ~held
    /\ UNCHANGED <<now, lastInbound, probe, dead, tickAt, buffered, heard, pongDue, live, heldFor>>

\* The relay goes silent without erroring the websocket.
GoSilent ==
    /\ live
    /\ live' = FALSE /\ pongDue' = Never
    /\ UNCHANGED <<now, lastInbound, probe, dead, tickAt, held, buffered, heard, heldFor>>

\* Time passes once the pump has done what it can, and not past the arrival of
\* a live relay's answer.
Advance ==
    /\ now < MaxTime
    /\ held \/ dead \/ ~(buffered \/ now >= tickAt)
    /\ pongDue # Never => now < pongDue
    /\ now' = now + 1
    /\ heldFor' = IF held THEN heldFor + 1 ELSE heldFor
    /\ UNCHANGED <<lastInbound, probe, dead, tickAt, held, buffered, heard, pongDue, live>>

Next ==
    \/ \E pong \in BOOLEAN : FrameArrives(pong)
    \/ Receive \/ Sweep \/ Hold \/ GoSilent \/ Advance

Spec == Init /\ [][Next]_vars

-----------------------------------------------------------------------------
\* A relay that answers within its round trip is never declared dead, however
\* long inline sends keep the pump from reading the answer: what is buffered is
\* read, and stamped, before the sweep decides.
LiveRelayKept == live => ~dead

\* A silent relay is declared dead within the quiet interval, the ping's
\* deadline and what two ticks round them up by, plus the time the pump was
\* held.
DetectedInTime ==
    ~live /\ ~dead => now - heard <= QuietAfter + Deadline + 2 * (TickPeriod - 1) + heldFor
=============================================================================
