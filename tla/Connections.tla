----------------------------- MODULE Connections -----------------------------
(***************************************************************************)
(* The connection table of one endpoint: noq's slab slots and the entries  *)
(* the endpoint keeps for them, the epochs that tell two occupants of a    *)
(* slot apart, dials and their cancellation, the accept queue and its      *)
(* backlog, the identity check, and the resources handed to the            *)
(* application, which may outlive their connection.                        *)
(*                                                                         *)
(* `conns` entries are never removed: noq reuses a slot once its occupant  *)
(* has drained, and the new occupant overwrites the entry.  The QUIC state *)
(* machine is external; `phase` is what the endpoint can tell of it.  The  *)
(* pump drains noq's events in the turn that produced them, so an event    *)
(* and its on_event are one action.  Parking and waking are left out: a    *)
(* waiting call may re-check its condition at any time.                    *)
(***************************************************************************)
EXTENDS Integers, Sequences, FiniteSets

CONSTANTS
    Slots,          \* slab slots of noq
    Peers,          \* endpoint ids
    AnyPeer,        \* expected_peer = None: a direct-path accept
    Dialers,        \* concurrent connect calls
    MaxEpochs,      \* bound: connections created in one behaviour
    ACCEPT_BACKLOG  \* un-accepted connections kept before refusing

ASSUME PeersAssumption == AnyPeer \notin Peers
ASSUME SizesAssumption == MaxEpochs \in Nat /\ ACCEPT_BACKLOG \in Nat \ {0}

VARIABLES
    closed,     \* State.closed
    conns,      \* State.conns, one entry per slot
    nextEpoch,  \* State.next_conn_epoch
    queue,      \* State.accept_queue: <<slot, epoch>>
    dial,       \* per dialer: the connect call parked on its handshake
    res,        \* live ConnectionRes resources: <<slot, epoch>>
    minted,     \* history: resources delivered for each connection
    asked       \* history: epochs whose owner closed or abandoned them

vars == <<closed, conns, nextEpoch, queue, dial, res, minted, asked>>

Epochs == 0..(MaxEpochs - 1)
NoEpoch == -1

\* The phases noq takes a connection through.  "closing": close() was called
\* and ConnectionLost(LocallyClosed) is not polled yet.
Phases == {"vacant", "handshaking", "established", "closing", "draining", "drained"}

Entry ==
    [epoch : Epochs \cup {NoEpoch}, expected : Peers \cup {AnyPeer},
     peer : Peers \cup {AnyPeer}, accepted_side : BOOLEAN, connected : BOOLEAN,
     error : {"none", "closed", "failed"}, peer_close : BOOLEAN,
     drained : BOOLEAN, phase : Phases]

\* ConnEntry::new
NewEntry(expected, accepted_side, epoch) ==
    [epoch |-> epoch, expected |-> expected, peer |-> AnyPeer,
     accepted_side |-> accepted_side, connected |-> FALSE, error |-> "none",
     peer_close |-> FALSE, drained |-> FALSE, phase |-> "handshaking"]

NoEntry == [NewEntry(AnyPeer, FALSE, NoEpoch) EXCEPT !.phase = "vacant"]

NoDial == <<>>

TypeOK ==
    /\ closed \in BOOLEAN
    /\ conns \in [Slots -> Entry]
    /\ nextEpoch \in 0..MaxEpochs
    /\ queue \in Seq(Slots \X Epochs) /\ Len(queue) <= ACCEPT_BACKLOG
    /\ dial \in [Dialers -> (Slots \X Epochs) \cup {NoDial}]
    /\ res \subseteq Slots \X Epochs
    /\ minted \in [Epochs -> Nat]
    /\ asked \subseteq Epochs

Init ==
    /\ closed = FALSE
    /\ conns = [s \in Slots |-> NoEntry]
    /\ nextEpoch = 0
    /\ queue = <<>>
    /\ dial = [d \in Dialers |-> NoDial]
    /\ res = {}
    /\ minted = [e \in Epochs |-> 0]
    /\ asked = {}

-----------------------------------------------------------------------------
\* Mutant: a lookup by slot alone.
SlotTaken(s, e) == conns[s].epoch # NoEpoch

\* entry_for: the slot's entry, while it is still the caller's connection.
EntryFor(s, e) == conns[s].epoch = e

\* Slots noq may hand to a new connection.
Vacant(s) == conns[s].phase \in {"vacant", "drained"}

Live(s) == conns[s].error = "none" /\ ~conns[s].drained

\* conn.close(): a no-op on a connection already closing.
CloseConn(entry) ==
    IF entry.phase \in {"handshaking", "established"}
    THEN [entry EXCEPT !.phase = "closing"] ELSE entry

\* What connection.close, its drop and DialGuard::drop do to the table: close
\* the caller's own connection unless it failed or drained already.
CloseEntry(s, e) ==
    IF EntryFor(s, e) /\ Live(s) THEN [conns EXCEPT ![s] = CloseConn(@)] ELSE conns

\* Mutant: a cancelled dial is left alone.
LeaveDial(s, e) == conns

\* DialGuard::drop while armed.
DropDialGuard(s, e) == CloseEntry(s, e)

\* Mutant: handshakes in progress are not part of the backlog.
QueueLength == Len(queue)

\* accept_backlog: connections on their way to an acceptor.
AcceptBacklog ==
    Len(queue) +
    Cardinality({s \in Slots : /\ conns[s].epoch # NoEpoch
                               /\ conns[s].accepted_side /\ ~conns[s].connected
                               /\ Live(s)})

-----------------------------------------------------------------------------
(***************************************************************************)
(* Dialing                                                                 *)
(***************************************************************************)

\* connect, from its last check of `closed` to the parked wait_until.
Connect(d, s, peer) ==
    /\ dial[d] = NoDial
    /\ ~closed
    /\ Vacant(s) /\ nextEpoch < MaxEpochs
    /\ conns' = [conns EXCEPT ![s] = NewEntry(peer, FALSE, nextEpoch)]
    /\ nextEpoch' = nextEpoch + 1
    /\ dial' = [dial EXCEPT ![d] = <<s, nextEpoch>>]
    /\ UNCHANGED <<closed, queue, res, minted, asked>>

\* The wait_until of connect resolves Ok: the guard is disarmed, and the
\* connection belongs to the resource the call returns.
ConnectOk(d) ==
    /\ dial[d] # NoDial
    /\ LET s == dial[d][1]
       IN /\ EntryFor(s, dial[d][2]) /\ conns[s].error = "none" /\ conns[s].connected
          /\ minted' = [minted EXCEPT ![conns[s].epoch] = @ + 1]
    /\ res' = res \cup {dial[d]}
    /\ dial' = [dial EXCEPT ![d] = NoDial]
    /\ UNCHANGED <<closed, conns, nextEpoch, queue, asked>>

\* It resolves with an error, or the host cancels the call: the guard is
\* dropped armed.
ConnectAborts(d) ==
    /\ dial[d] # NoDial
    /\ conns' = DropDialGuard(dial[d][1], dial[d][2])
    /\ dial' = [dial EXCEPT ![d] = NoDial]
    /\ asked' = asked \cup {dial[d][2]}
    /\ UNCHANGED <<closed, nextEpoch, queue, res, minted>>

-----------------------------------------------------------------------------
(***************************************************************************)
(* Accepting                                                               *)
(***************************************************************************)

\* A datagram opens a new connection: ignored when closed, refused past the
\* backlog, otherwise entered with the wire's authenticated source.
NewConnection(s, source) ==
    /\ ~closed
    /\ AcceptBacklog < ACCEPT_BACKLOG
    /\ Vacant(s) /\ nextEpoch < MaxEpochs
    /\ conns' = [conns EXCEPT ![s] = NewEntry(source, TRUE, nextEpoch)]
    /\ nextEpoch' = nextEpoch + 1
    /\ UNCHANGED <<closed, queue, dial, res, minted, asked>>

\* One poll of an accept call: it pops until an entry passes entry_for, and
\* mints a resource for it; the entries it skips are gone for good.
Accept ==
    /\ queue # <<>>
    /\ LET fits == {i \in 1..Len(queue) : EntryFor(queue[i][1], queue[i][2])}
           first == CHOOSE i \in fits : \A j \in fits : i <= j
       IN IF fits = {}
          THEN queue' = <<>> /\ UNCHANGED <<res, minted>>
          ELSE /\ queue' = SubSeq(queue, first + 1, Len(queue))
               /\ res' = res \cup {queue[first]}
               /\ minted' = [minted EXCEPT ![conns[queue[first][1]].epoch] = @ + 1]
    /\ UNCHANGED <<closed, conns, nextEpoch, dial, asked>>

-----------------------------------------------------------------------------
(***************************************************************************)
(* noq's events                                                            *)
(***************************************************************************)

\* Mutant: whoever completes the handshake is surfaced.
AdmitAnyone(entry, id) == TRUE

\* The authenticated key is the expected one, or none was expected.
Admit(entry, id) == entry.expected \in {AnyPeer, id}

\* Event::Connected with the TLS identity `id`.  A dial's TLS verifier already
\* pins the dialed identity.
Connected(s, id) ==
    /\ conns[s].phase = "handshaking"
    /\ conns[s].accepted_side \/ id = conns[s].expected
    /\ IF Admit(conns[s], id)
       THEN /\ conns' = [conns EXCEPT ![s].phase = "established", ![s].peer = id,
                                      ![s].connected = TRUE]
            /\ queue' = IF conns[s].accepted_side
                        THEN Append(queue, <<s, conns[s].epoch>>) ELSE queue
            /\ UNCHANGED asked
       ELSE /\ conns' = [conns EXCEPT ![s].phase = "closing", ![s].peer = AnyPeer,
                                      ![s].error = "failed"]
            /\ asked' = asked \cup {conns[s].epoch}
            /\ UNCHANGED queue
    /\ UNCHANGED <<closed, nextEpoch, dial, res, minted>>

\* Event::ConnectionLost: the peer's application close, a timeout or a
\* transport failure (both "failed" here); LocallyClosed after a local close.
ConnectionLost(s, reason) ==
    /\ \/ conns[s].phase \in {"handshaking", "established"}
          /\ reason \in {"app", "failed"}
       \/ conns[s].phase = "closing" /\ reason = "local"
    /\ conns' = [conns EXCEPT
          ![s].phase = "draining",
          ![s].error = IF reason \in {"app", "local"} THEN "closed" ELSE reason,
          ![s].peer_close = (reason = "app") \/ @]
    /\ UNCHANGED <<closed, nextEpoch, queue, dial, res, minted, asked>>

\* The drain sees is_drained; noq frees the slot.
Drained(s) ==
    /\ conns[s].phase = "draining"
    /\ conns' = [conns EXCEPT ![s].phase = "drained", ![s].drained = TRUE]
    /\ UNCHANGED <<closed, nextEpoch, queue, dial, res, minted, asked>>

-----------------------------------------------------------------------------
(***************************************************************************)
(* The application's resources                                             *)
(***************************************************************************)

\* connection.close
ResClose(r) ==
    /\ conns' = CloseEntry(r[1], r[2])
    /\ asked' = asked \cup {r[2]}
    /\ UNCHANGED <<closed, nextEpoch, queue, dial, res, minted>>

\* Dropping the resource: close(0, "").
ResDrop(r) ==
    /\ conns' = CloseEntry(r[1], r[2])
    /\ asked' = asked \cup {r[2]}
    /\ res' = res \ {r}
    /\ UNCHANGED <<closed, nextEpoch, queue, dial, minted>>

\* endpoint.close or its drop: close_all.
EndpointClose ==
    /\ ~closed
    /\ closed' = TRUE
    /\ conns' = [s \in Slots |-> IF Live(s) THEN CloseConn(conns[s]) ELSE conns[s]]
    /\ UNCHANGED <<nextEpoch, queue, dial, res, minted, asked>>

\* connection.wait_closed: parked, or resolved with or without a close-info.
WaitClosed(r) ==
    IF ~EntryFor(r[1], r[2]) THEN "none"
    ELSE IF Live(r[1]) THEN "pending"
    ELSE IF conns[r[1]].peer_close THEN "info" ELSE "none"

Next ==
    \/ \E d \in Dialers, s \in Slots, peer \in Peers : Connect(d, s, peer)
    \/ \E d \in Dialers : ConnectOk(d) \/ ConnectAborts(d)
    \/ \E s \in Slots, source \in Peers \cup {AnyPeer} : NewConnection(s, source)
    \/ Accept
    \/ \E s \in Slots, id \in Peers : Connected(s, id)
    \/ \E s \in Slots, reason \in {"app", "failed", "local"} :
          ConnectionLost(s, reason)
    \/ \E s \in Slots : Drained(s)
    \/ \E r \in res : ResClose(r) \/ ResDrop(r)
    \/ EndpointClose

Spec == Init /\ [][Next]_vars

-----------------------------------------------------------------------------
(***************************************************************************)
(* Properties                                                              *)
(***************************************************************************)

\* No connection is handed to two owners: an accept queue entry whose slot was
\* reused is skipped, so the slot's next occupant is delivered only once.  And
\* the application never sees one, open or closed, whose authenticated key
\* differs from the one dialed or the one the wire vouched for.
DeliveredOnceAsExpected ==
    /\ \A e \in Epochs : minted[e] <= 1
    /\ \A r \in res : conns[r[1]].epoch = r[2] =>
          /\ conns[r[1]].peer # AnyPeer
          /\ conns[r[1]].expected \in {AnyPeer, conns[r[1]].peer}

\* A connection is closed locally only by its own owner, by the identity check
\* or by the endpoint's close: a resource or a dial that outlived its
\* connection never closes the stranger that now occupies its slot.
OnlyOwnersClose ==
    \A s \in Slots : conns[s].phase = "closing" => closed \/ conns[s].epoch \in asked

\* An established connection has someone to close it: a parked dial, the accept
\* queue or a resource (issue #13, B5: a cancelled dial must not leave a live
\* connection that nobody owns).
NoOrphan ==
    \A s \in Slots : conns[s].phase = "established" =>
        LET c == <<s, conns[s].epoch>>
        IN \/ c \in res
           \/ \E i \in 1..Len(queue) : queue[i] = c
           \/ \E d \in Dialers : dial[d] = c

\* The connections that no acceptor has claimed, handshakes included, stay
\* within the backlog whatever the order of handshakes, accepts and failures.
UnacceptedBounded ==
    Cardinality({s \in Slots : /\ conns[s].accepted_side
                               /\ conns[s].phase \in {"handshaking", "established"}
                               /\ minted[conns[s].epoch] = 0}) <= ACCEPT_BACKLOG

\* "The result is latched: once the connection is closed, this resolves
\* immediately with the same value, any number of times" (iroh.wit:458).
WaitClosedLatched ==
    [][\A r \in res : r \in res' /\ WaitClosed(r) # "pending" =>
          WaitClosed(r)' = WaitClosed(r)]_vars
=============================================================================
