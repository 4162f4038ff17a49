------------------------------ MODULE ConnCalls ------------------------------
(***************************************************************************)
(* The calls of one established connection that wait: stream accepts and   *)
(* opens, datagram receives, wait-closed and the path watch, with the      *)
(* wakers they park and the pump that wakes them.                          *)
(*                                                                         *)
(* The pump's task gives way only where it awaits: in its inline sends     *)
(* ("flush") and in its select.  Between the two it runs in one step: an   *)
(* arm of the select and the drain that follows it, or the close check.    *)
(* What the drain polls is noq's state of the connection (external).       *)
(* After the connection's slot is reused (entry_for: None) every call here *)
(* answers at once; Connections models that.                               *)
(***************************************************************************)
EXTENDS Integers, Sequences

CONSTANTS
    Dirs,         \* stream directions: bidirectional, unidirectional
    Callers,      \* concurrent calls on the connection
    Does,         \* per caller: the operations it calls
    MaxStreams    \* bound: streams the peer opens in one behaviour

Ops == {<<"accept", d>> : d \in Dirs} \cup {<<"open", d>> : d \in Dirs}
          \cup {<<"recv">>, <<"wait">>, <<"watch">>}

ASSUME CallsAssumption ==
    /\ MaxStreams \in Nat
    /\ Does \in [Callers -> SUBSET Ops]

VARIABLES
    opened,    \* noq: streams the peer has opened, per direction
    credit,    \* noq: streams we may open now, per direction
    dgram,     \* noq: a received datagram is buffered
    unsent,    \* noq: something to transmit since the last drain
    closing,   \* noq: closed locally, not yet polled
    queue,     \* ConnEntry.bi_queue, uni_queue: stream numbers
    failed,    \* ConnEntry.error is set
    path,      \* current_path
    call,      \* per caller: its operation, and how its future stands
    watching,  \* ConnectionRes.watching
    last,      \* the path watch's last element
    pump,      \* where the pump awaits: "flush", "select"; "done"
    kicked,    \* State.pump_kicked
    closed,    \* State.closed
    lingered,  \* LINGER has passed since
    handed,    \* history: streams handed to acceptors, in order
    told       \* history: directions whose acceptors were told of the end

noqVars == <<opened, credit, dgram, unsent, closing>>
callVars == <<call, watching, last>>
pumpVars == <<pump, kicked, closed, lingered>>
vars == <<noqVars, queue, failed, path, callVars, pumpVars, handed, told>>

Paths == {"relay", "webrtc"}
Idle == [op |-> <<>>, st |-> "idle"]
Stream == 1..MaxStreams

\* Does a call wait?  "fresh" is an open before its first poll, "woken" any
\* other call about to be polled, "parked" one with its waker in State.waiters,
\* "handing" a path in the consumer's hands.
Waiting(c) == call[c].st # "idle"

TypeOK ==
    /\ opened \in [Dirs -> 0..MaxStreams] /\ credit \in [Dirs -> 0..1]
    /\ dgram \in BOOLEAN /\ unsent \in BOOLEAN /\ closing \in BOOLEAN
    /\ queue \in [Dirs -> Seq(Stream)] /\ handed \in [Dirs -> Seq(Stream)]
    /\ failed \in BOOLEAN /\ path \in Paths
    /\ \A c \in Callers :
          \/ call[c] = Idle
          \/ call[c].op \in Does[c] /\ call[c].st \in {"fresh", "parked", "woken", "handing"}
    /\ watching \in BOOLEAN /\ last \in Paths \cup {"none"}
    /\ pump \in {"flush", "select", "done"} /\ kicked \in BOOLEAN
    /\ closed \in BOOLEAN /\ lingered \in BOOLEAN
    /\ told \subseteq Dirs

Init ==
    /\ opened = [d \in Dirs |-> 0] /\ credit = [d \in Dirs |-> 0]
    /\ dgram = FALSE /\ unsent = FALSE /\ closing = FALSE
    /\ queue = [d \in Dirs |-> <<>>] /\ handed = [d \in Dirs |-> <<>>]
    /\ failed = FALSE /\ path = "relay"
    /\ call = [c \in Callers |-> Idle] /\ watching = FALSE /\ last = "none"
    /\ pump = "select" /\ kicked = FALSE /\ closed = FALSE /\ lingered = FALSE
    /\ told = {}

-----------------------------------------------------------------------------
\* State::wake_waiters
Wake(calls) ==
    [c \in Callers |-> IF calls[c].st = "parked" THEN [calls[c] EXCEPT !.st = "woken"]
                       ELSE calls[c]]

\* Mutant: an Opened event takes one stream.
TakeOne(d, n) ==
    LET first == Len(queue[d]) + Len(handed[d])
    IN IF first = n THEN queue[d] ELSE Append(queue[d], first + 1)

\* Mutant: one stream too many.
TakePast(d, n) ==
    LET first == Len(queue[d]) + Len(handed[d])
    IN queue[d] \o [i \in 1..(n + 1 - first) |-> first + i]

\* StreamEvent::Opened: accept(dir) until noq has no more.
TakeStreams(d, n) ==
    LET first == Len(queue[d]) + Len(handed[d])
    IN queue[d] \o [i \in 1..(n - first) |-> first + i]

\* The top of the pump's loop, after the arm that left noq with the given
\* streams and lost or kept the connection: drain, and wake the waiters if it
\* made progress or the tick forces it.
Turn(streams, lost, progress, force) ==
    /\ pump = "select" /\ pump' = "flush"
    /\ opened' = streams
    /\ queue' = IF streams # opened THEN [d \in Dirs |-> TakeStreams(d, streams[d])] ELSE queue
    /\ failed' = (failed \/ lost \/ closing)
    /\ closing' = FALSE /\ unsent' = FALSE
    /\ call' = IF progress \/ unsent \/ closing \/ lost \/ force THEN Wake(call) ELSE call
    /\ UNCHANGED <<watching, last, closed, lingered, handed, told>>

Receiving == ~failed /\ ~closing

\* A receive arm: the peer's packet opens streams, grants credit, carries a
\* datagram, or closes the connection.
StreamsArrive ==
    \E more \in [Dirs -> 0..MaxStreams] :
        LET streams == [d \in Dirs |-> opened[d] + more[d]]
        IN /\ Receiving /\ \E d \in Dirs : more[d] > 0
           /\ \A d \in Dirs : streams[d] <= MaxStreams
           /\ Turn(streams, FALSE, TRUE, FALSE)
           /\ UNCHANGED <<credit, dgram, path, kicked>>

CreditArrives(d) ==
    /\ Receiving /\ credit[d] = 0
    /\ credit' = [credit EXCEPT ![d] = 1]
    /\ Turn(opened, FALSE, TRUE, FALSE)
    /\ UNCHANGED <<dgram, path, kicked>>

\* At the bound of the buffer the oldest datagram makes room.
DatagramArrives ==
    /\ Receiving
    /\ dgram' = TRUE
    /\ Turn(opened, FALSE, TRUE, FALSE)
    /\ UNCHANGED <<credit, path, kicked>>

PeerCloses ==
    /\ Receiving
    /\ Turn(opened, TRUE, TRUE, FALSE)
    /\ UNCHANGED <<credit, dgram, path, kicked>>

\* The kick arm.
Kick ==
    /\ kicked /\ kicked' = FALSE
    /\ Turn(opened, FALSE, FALSE, FALSE)
    /\ UNCHANGED <<credit, dgram, path>>

\* The tick arm: handle_timeouts may lose the connection.
Tick ==
    /\ \E lost \in {FALSE, Receiving} : Turn(opened, lost, FALSE, TRUE)
    /\ UNCHANGED <<credit, dgram, path, kicked>>

\* The channel arm: a dead channel gives the route back.
ChannelDies ==
    /\ path = "webrtc" /\ path' = "relay"
    /\ Turn(opened, FALSE, FALSE, FALSE)
    /\ UNCHANGED <<credit, dgram, kicked>>

\* Mutant: the flag does not survive until the select.
ForgetKick == FALSE

\* pump_kicked while no kicked() future polls it.
KeepKick == kicked

\* The inline sends are done; the close check, then the select or the end.
FlushDone ==
    /\ pump = "flush"
    /\ IF closed /\ (failed \/ lingered)
       THEN pump' = "done" /\ call' = Wake(call)
       ELSE pump' = "select" /\ UNCHANGED call
    /\ kicked' = KeepKick
    /\ UNCHANGED <<noqVars, queue, failed, path, watching, last, closed, lingered,
                   handed, told>>

\* LINGER passes, wherever the pump is: nothing bounds its inline sends.
LingerPasses ==
    /\ closed /\ ~lingered
    /\ lingered' = TRUE
    /\ UNCHANGED <<noqVars, queue, failed, path, callVars, pump, kicked, closed,
                   handed, told>>

-----------------------------------------------------------------------------
\* A caller enters wait_until; the path watch is taken once.
Call(c, op) ==
    /\ ~Waiting(c) /\ op \in Does[c]
    /\ op = <<"watch">> => ~watching
    /\ watching' = (watching \/ op = <<"watch">>)
    /\ call' = [call EXCEPT ![c] = [op |-> op, st |-> IF op[1] = "open" THEN "fresh" ELSE "woken"]]
    /\ UNCHANGED <<noqVars, queue, failed, path, last, pumpVars, handed, told>>

Polled(c, op) == call[c].op = op /\ call[c].st \in {"fresh", "woken"}
Resolve(c) == call' = [call EXCEPT ![c] = Idle]
Park(c) == call' = [call EXCEPT ![c].st = "parked"]

\* Mutant: the error is looked at before the queue.
ErrorFirst(d) == failed

\* Mutant: the error is not looked at.
ErrorIgnored(d) == FALSE

\* accept_stream answers with the error.
AcceptFails(d) == queue[d] = <<>> /\ failed

\* Mutant: pop_back
NewestFirst(d) == Len(queue[d])

\* pop_front
OldestFirst(d) == 1

AcceptStream(c, d) ==
    /\ Polled(c, <<"accept", d>>)
    /\ \/ /\ AcceptFails(d)
          /\ told' = told \cup {d}
          /\ Resolve(c) /\ UNCHANGED <<queue, handed>>
       \/ /\ ~AcceptFails(d) /\ queue[d] # <<>>
          /\ LET i == OldestFirst(d)
             IN /\ handed' = [handed EXCEPT ![d] = Append(@, queue[d][i])]
                /\ queue' = [queue EXCEPT ![d] = SubSeq(@, 1, i - 1) \o SubSeq(@, i + 1, Len(@))]
          /\ Resolve(c) /\ UNCHANGED told
       \/ /\ ~AcceptFails(d) /\ queue[d] = <<>>
          /\ Park(c) /\ UNCHANGED <<queue, handed, told>>
    /\ UNCHANGED <<noqVars, failed, path, watching, last, pumpVars>>

\* A blocked open flushes STREAMS_BLOCKED once.
OpenStream(c, d) ==
    /\ Polled(c, <<"open", d>>)
    /\ \/ failed /\ Resolve(c) /\ UNCHANGED <<credit, unsent, kicked>>
       \/ /\ ~failed /\ credit[d] > 0 /\ ~closing
          /\ credit' = [credit EXCEPT ![d] = @ - 1]
          /\ Resolve(c) /\ UNCHANGED <<unsent, kicked>>
       \/ /\ ~failed /\ (credit[d] = 0 \/ closing)
          /\ Park(c) /\ UNCHANGED credit
          /\ unsent' = (unsent \/ call[c].st = "fresh")
          /\ kicked' = (kicked \/ call[c].st = "fresh")
    /\ UNCHANGED <<opened, dgram, closing, queue, failed, path, watching, last,
                   pump, closed, lingered, handed, told>>

RecvDatagram(c) ==
    /\ Polled(c, <<"recv">>)
    /\ dgram' = FALSE
    /\ IF dgram \/ failed THEN Resolve(c) ELSE Park(c)
    /\ UNCHANGED <<opened, credit, unsent, closing, queue, failed, path, watching,
                   last, pumpVars, handed, told>>

WaitClosed(c) ==
    /\ Polled(c, <<"wait">>)
    /\ IF failed THEN Resolve(c) ELSE Park(c)
    /\ UNCHANGED <<noqVars, queue, failed, path, watching, last, pumpVars, handed, told>>

\* Mutant: only the first path counts as a change.
ChangedOnce == last = "none"

\* last != Some(current)
Changed == last # path

\* One turn of the path watch's task: end, hand the new path over, or park.
WatchPath(c) ==
    /\ Polled(c, <<"watch">>)
    /\ \/ failed /\ Resolve(c) /\ UNCHANGED last
       \/ /\ ~failed /\ Changed
          /\ last' = path
          /\ call' = [call EXCEPT ![c].st = "handing"]
       \/ ~failed /\ ~Changed /\ Park(c) /\ UNCHANGED last
    /\ UNCHANGED <<noqVars, queue, failed, path, watching, pumpVars, handed, told>>

\* The consumer reads the element, or has dropped the stream.
WatcherTakes(c) ==
    /\ call[c].st = "handing"
    /\ call' = [call EXCEPT ![c].st = "woken"] \/ Resolve(c)
    /\ UNCHANGED <<noqVars, queue, failed, path, watching, last, pumpVars, handed, told>>

Poll(c) ==
    \/ \E d \in Dirs : AcceptStream(c, d) \/ OpenStream(c, d)
    \/ RecvDatagram(c) \/ WaitClosed(c) \/ WatchPath(c)

\* The host cancels a call (the path watch is a task: nobody can).
Cancel(c) ==
    /\ Waiting(c) /\ call[c].op # <<"watch">>
    /\ Resolve(c)
    /\ UNCHANGED <<noqVars, queue, failed, path, watching, last, pumpVars, handed, told>>

-----------------------------------------------------------------------------
\* Calls that do not wait.  send_datagram with noq's send buffer, which makes
\* room by dropping the oldest.
SendDatagram ==
    /\ ~failed
    /\ unsent' = TRUE /\ kicked' = TRUE
    /\ UNCHANGED <<opened, credit, dgram, closing, queue, failed, path, callVars,
                   pump, closed, lingered, handed, told>>

\* ConnectionRes::close, and its drop.
CloseConn ==
    /\ ~failed
    /\ closing' = TRUE /\ unsent' = TRUE /\ kicked' = TRUE
    /\ UNCHANGED <<opened, credit, dgram, queue, failed, path, callVars, pump,
                   closed, lingered, handed, told>>

\* EndpointRes::close, and its drop.
CloseEndpoint ==
    /\ ~closed /\ closed' = TRUE
    /\ IF ~failed THEN closing' = TRUE /\ unsent' = TRUE
       ELSE UNCHANGED <<closing, unsent>>
    /\ kicked' = TRUE
    /\ call' = Wake(call)
    /\ UNCHANGED <<opened, credit, dgram, queue, failed, path, watching, last, pump,
                   lingered, handed, told>>

\* register_channel: the route moves onto the channel, and the pump is kicked.
\* (Under a failed connection nobody looks at the route.)
ChannelOpens ==
    /\ ~closed /\ ~failed
    /\ path' = "webrtc" /\ kicked' = TRUE
    /\ UNCHANGED <<noqVars, queue, failed, callVars, pump, closed, lingered, handed, told>>

Next ==
    \/ StreamsArrive \/ (\E d \in Dirs : CreditArrives(d)) \/ DatagramArrives
    \/ PeerCloses \/ Kick \/ Tick \/ ChannelDies \/ FlushDone \/ LingerPasses
    \/ \E c \in Callers :
          (\E op \in Ops : Call(c, op)) \/ Poll(c) \/ WatcherTakes(c) \/ Cancel(c)
    \/ SendDatagram \/ CloseConn \/ CloseEndpoint \/ ChannelOpens

Spec == Init /\ [][Next]_vars

\* Woken futures are polled, the tick comes round in the select and the
\* watcher's consumer reads or drops.  Nothing is assumed of the peer or of the
\* inline sends, which may hold the pump for ever.
FairSpec ==
    /\ Spec
    /\ \A c \in Callers : WF_vars(Poll(c) \/ WatcherTakes(c))
    /\ SF_vars(Tick)

-----------------------------------------------------------------------------
(***************************************************************************)
(* Properties                                                              *)
(***************************************************************************)

\* Streams are handed out in the order the peer opened them, each once, and a
\* cancelled accept loses none: what was handed out, queued and still held by
\* noq is what the peer opened.
NoStreamLost ==
    \A d \in Dirs : \A i \in 1..(Len(handed[d]) + Len(queue[d])) :
        (handed[d] \o queue[d])[i] = i

\* No acceptor is told of the connection's end while a stream the peer opened
\* before it is undelivered.
StreamsBeforeTheEnd == \A d \in told : Len(handed[d]) = opened[d]

\* A kick that arrives while the pump is in its sends is not lost: the pump
\* never sleeps in its select over something to transmit.
NoKickLost == unsent /\ pump = "select" => kicked

Ready(op) ==
    CASE op[1] = "accept" -> Len(handed[op[2]]) < opened[op[2]]
      [] op[1] = "open" -> credit[op[2]] > 0
      [] op[1] = "recv" -> dgram
      [] OTHER -> FALSE

\* The two ways in which the code leaves a call waiting.  A send that never
\* ends holds the pump in its flush.  And a send that outlasts LINGER ends the
\* pump at the close check behind it, without a drain since the close: the
\* calls that it wakes find no error, park again, and nobody is left to wake
\* them.
Held == pump = "flush"
Stranded == pump = "done" /\ ~failed

\* A call whose stream, credit or datagram is there gets it, unless a concurrent
\* call takes it first: a wake-up its drain owes it comes with that turn, or
\* with the tick's at the latest.
CallsServed ==
    \A c \in Callers :
        Waiting(c) /\ Ready(call[c].op)
            ~> (~Waiting(c) \/ ~Ready(call[c].op) \/ Stranded \/ []Held)

\* Once the connection is lost or closed, or the endpoint is, every call on it
\* resolves and the path watch ends, unless the pump's sends strand them.  "No
\* waiter sleeps past the pump" (endpoint_impl.rs:1113) makes no exception.
CallsEnd ==
    \A c \in Callers :
        (closing \/ closed \/ failed) /\ Waiting(c) ~> (~Waiting(c) \/ Stranded \/ []Held)

\* The path watch is told the path the connection ends up on, although a move
\* wakes nobody by itself, unless the pump's sends hold it for ever.
WatchConverges ==
    LET Watch == \E c \in Callers : call[c].op = <<"watch">>
    IN Watch /\ last # path ~> (~Watch \/ last = path \/ []Held)
=============================================================================
