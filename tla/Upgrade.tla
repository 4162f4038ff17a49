------------------------------- MODULE Upgrade -------------------------------
(***************************************************************************)
(* The background move of a connection from the relay to a WebRTC data     *)
(* channel, for two endpoints that are each other's peer: the signaling    *)
(* slot and inbox each keeps for the other, the offerer's and answerer's   *)
(* session tasks, the signals in flight through relays, the registered     *)
(* channels and the route of the peer's standin address.                   *)
(*                                                                         *)
(* A signal carries no session identity (`from` and `re` are for the       *)
(* properties and for WebRTC, which only connects two sessions that hold   *)
(* each other's descriptions).  SDP, ICE candidates and the relay frames   *)
(* are opaque; the candidates of a side are one "cand" signal.             *)
(*                                                                         *)
(* A session awaits either a signal ("offer?", "consume"), which its       *)
(* deadline bounds, or a call of the host's WebRTC stack (HostCalls),      *)
(* which only the host bounds.                                             *)
(***************************************************************************)
EXTENDS Integers, Sequences, FiniteSets

CONSTANTS
    A, B,       \* the two endpoints
    Relays,     \* relay pool keys, the same on both sides; 0 is HOME_RELAY
    Dialers,    \* endpoints whose application dials with a webrtc hint
    MaxTasks,   \* bound: session tasks in one behaviour
    INBOX_CAP   \* unread signals kept per peer

Endpoints == {A, B}
HOME_RELAY == 0

ASSUME UpgradeAssumption ==
    /\ A # B /\ Dialers \subseteq Endpoints
    /\ Relays \subseteq Nat /\ HOME_RELAY \in Relays
    /\ MaxTasks \in Nat /\ INBOX_CAP \in Nat \ {0}

VARIABLES
    faults,    \* whether, in this behaviour, signals may be lost, host calls
               \* fail or never answer, channels die, deadlines pass and
               \* endpoints close
    closed,    \* State.closed, per endpoint
    slot,      \* State.signaling: the relay of the active session, or NoRelay
    inbox,     \* State.signal_inboxes
    net,       \* signals in flight to an endpoint, per relay
    task,      \* the session tasks, in order of creation
    channels,  \* State.channels
    lastId,    \* State.next_channel_id
    route      \* State.routes of the peer's standin

vars == <<faults, closed, slot, inbox, net, task, channels, lastId, route>>

Other(e) == IF e = A THEN B ELSE A
Tasks == 1..MaxTasks
NoTask == 0
NoRelay == -1
Signals == [kind : {"offer", "answer", "cand", "done"}, from : Tasks, re : Tasks \cup {NoTask}]
HostCalls == {"describe", "candidates", "apply", "connect"}
Steps == HostCalls \cup {"offer?", "consume", "won", "failed"}
Running(t) == task[t].pc \notin {"won", "failed"}
ToRelay(k) == [wire |-> "relay", id |-> k]
ToChannel(i) == [wire |-> "channel", id |-> i]

TypeOK ==
    /\ faults \in BOOLEAN
    /\ closed \in [Endpoints -> BOOLEAN]
    /\ slot \in [Endpoints -> Relays \cup {NoRelay}]
    /\ \A e \in Endpoints :
          /\ inbox[e] \in Seq(Signals) /\ Len(inbox[e]) <= INBOX_CAP
          /\ \A k \in Relays : net[e][k] \in Seq(Signals)
    /\ task \in Seq([ep : Endpoints, role : {"offerer", "answerer"}, via : Relays,
                     pc : Steps, remote : Tasks \cup {NoTask}])
    /\ Len(task) <= MaxTasks
    /\ \A e \in Endpoints : channels[e] \subseteq
          [id : Tasks, fallback : Relays \cup {NoRelay}, via : Relays]
    /\ lastId \in [Endpoints -> 0..MaxTasks]
    /\ route \in [Endpoints -> [wire : {"relay"}, id : Relays] \cup
                               [wire : {"channel"}, id : Tasks]]

Init ==
    /\ faults \in BOOLEAN
    /\ closed = [e \in Endpoints |-> FALSE]
    /\ slot = [e \in Endpoints |-> NoRelay]
    /\ inbox = [e \in Endpoints |-> <<>>]
    /\ net = [e \in Endpoints |-> [k \in Relays |-> <<>>]]
    /\ task = <<>>
    /\ channels = [e \in Endpoints |-> {}]
    /\ lastId = [e \in Endpoints |-> 0]
    /\ route = [e \in Endpoints |-> ToRelay(HOME_RELAY)]

-----------------------------------------------------------------------------
NewTask(e, role, via, pc) ==
    Append(task, [ep |-> e, role |-> role, via |-> via, pc |-> pc, remote |-> NoTask])

Goto(t, pc) == task' = [task EXCEPT ![t].pc = pc]

\* Mutant: an ended session keeps its slot.
EndNothing(e) == UNCHANGED <<slot, inbox>>

\* end_signaling, by the drop of a session's SessionGuard.
EndSignaling(e) ==
    /\ slot' = [slot EXCEPT ![e] = NoRelay]
    /\ inbox' = [inbox EXCEPT ![e] = <<>>]

\* A session gives up.
Fail(t) == Goto(t, "failed") /\ EndSignaling(task[t].ep)

\* publish: the signals leave through the relay of the session's slot.
Publish(t, kinds) ==
    LET e == task[t].ep
        sent == [i \in 1..Len(kinds) |->
                    [kind |-> kinds[i], from |-> t, re |-> task[t].remote]]
    IN net' = [net EXCEPT ![Other(e)][slot[e]] = @ \o sent]

-----------------------------------------------------------------------------
(***************************************************************************)
(* Sessions begin                                                          *)
(***************************************************************************)

\* connect with a relay address and a webrtc hint: a standin still routed to a
\* relay follows the dial, and the pump spawns the upgrade, which ends at once
\* when begin_signaling finds the slot taken.
Upgrade(e, dialKey, via) ==
    /\ e \in Dialers /\ ~closed[e]
    /\ Len(task) < MaxTasks
    /\ route' = [route EXCEPT ![e] = IF @.wire = "relay" THEN ToRelay(dialKey) ELSE @]
    /\ IF slot[e] # NoRelay THEN UNCHANGED <<slot, task>>
       ELSE /\ slot' = [slot EXCEPT ![e] = via]
            /\ task' = NewTask(e, "offerer", via, "describe")
    /\ UNCHANGED <<faults, closed, inbox, net, channels, lastId>>

\* Mutant: the cap is checked after the push.
FileAnyway(e, sig) == Append(inbox[e], sig)

\* A signal joins the peer's inbox, below the cap.
FileSignal(e, sig) == IF Len(inbox[e]) < INBOX_CAP THEN Append(inbox[e], sig) ELSE inbox[e]

\* handle_signal: file the signal, and for a peer without a session claim the
\* slot (with the relay it came through) and spawn an answerer.
HandleSignal(e, k) ==
    /\ net[e][k] # <<>>
    /\ net' = [net EXCEPT ![e][k] = Tail(@)]
    /\ IF closed[e] THEN UNCHANGED <<slot, inbox, task>>
       ELSE /\ inbox' = [inbox EXCEPT ![e] = FileSignal(e, Head(net[e][k]))]
            /\ IF slot[e] = NoRelay
               THEN /\ Len(task) < MaxTasks
                    /\ slot' = [slot EXCEPT ![e] = k]
                    /\ task' = NewTask(e, "answerer", k, "offer?")
               ELSE UNCHANGED <<slot, task>>
    /\ UNCHANGED <<faults, closed, channels, lastId, route>>

-----------------------------------------------------------------------------
(***************************************************************************)
(* The dance                                                               *)
(***************************************************************************)

\* The offer is applied (by the answerer), the offer or answer is created, set
\* locally and published.
Describe(t) ==
    /\ task[t].pc = "describe"
    /\ Publish(t, <<IF task[t].role = "offerer" THEN "offer" ELSE "answer">>)
    /\ Goto(t, "candidates")
    /\ UNCHANGED <<faults, closed, slot, inbox, channels, lastId, route>>

\* Mutant: the done sentinel is not sent.
CandidatesOnly(t) ==
    /\ task[t].pc = "candidates"
    /\ Publish(t, <<"cand">>)
    /\ Goto(t, "consume")
    /\ UNCHANGED <<faults, closed, slot, inbox, channels, lastId, route>>

\* Gathering completes: the candidates and the done sentinel are published.
Candidates(t) ==
    /\ task[t].pc = "candidates"
    /\ Publish(t, <<"cand", "done">>)
    /\ Goto(t, "consume")
    /\ UNCHANGED <<faults, closed, slot, inbox, channels, lastId, route>>

\* What a session makes of its next signal: the step it goes to, or "failed".
Apply(t, sig) ==
    IF task[t].pc = "offer?"
    THEN IF sig.kind = "offer" THEN "describe" ELSE "failed"
    ELSE CASE sig.kind = "answer" ->
                 IF task[t].role = "offerer" /\ task[t].remote = NoTask THEN "apply" ELSE "failed"
           [] sig.kind = "offer" -> "failed"
           [] sig.kind = "cand" -> IF task[t].remote = NoTask THEN "failed" ELSE "apply"
           [] OTHER -> "connect"

\* next_signal on an open endpoint with an unread signal.
Consume(t) ==
    LET e == task[t].ep
        sig == Head(inbox[e])
        to == Apply(t, sig)
    IN /\ task[t].pc \in {"offer?", "consume"}
       /\ ~closed[e] /\ inbox[e] # <<>>
       /\ IF to = "failed" THEN Fail(t)
          ELSE /\ task' = [task EXCEPT ![t].pc = to,
                              ![t].remote = IF sig.kind \in {"offer", "answer"} THEN sig.from ELSE @]
               /\ inbox' = [inbox EXCEPT ![e] = Tail(@)]
               /\ UNCHANGED slot
       /\ UNCHANGED <<faults, closed, net, channels, lastId, route>>

\* The host has applied the answer or the candidate.
Applied(t) ==
    /\ task[t].pc = "apply"
    /\ Goto(t, "consume")
    /\ UNCHANGED <<faults, closed, slot, inbox, net, channels, lastId, route>>

\* Mutant: the wait does not notice that the endpoint closed.
AbandonOnlyOpen(t) ==
    LET e == task[t].ep
    IN /\ task[t].pc \in {"offer?", "consume"}
       /\ ~closed[e] /\ faults /\ inbox[e] = <<>>
       /\ Fail(t)
       /\ UNCHANGED <<faults, closed, net, channels, lastId, route>>

\* next_signal on a closed endpoint, or past SIGNAL_DEADLINE with nothing to
\* read.
Abandon(t) ==
    LET e == task[t].ep
    IN /\ task[t].pc \in {"offer?", "consume"}
       /\ closed[e] \/ (faults /\ inbox[e] = <<>>)
       /\ Fail(t)
       /\ UNCHANGED <<faults, closed, net, channels, lastId, route>>

\* The host's WebRTC stack connects two sessions that hold each other's
\* descriptions.
Connects(t) ==
    LET u == task[t].remote
    IN u # NoTask /\ task[u].remote = t /\ task[u].pc # "failed"

\* register_channel: refused when closed; otherwise the peer's route moves.
RegisterChannel(e, fallback, via) ==
    IF closed[e] THEN UNCHANGED <<channels, lastId, route>>
    ELSE /\ lastId' = [lastId EXCEPT ![e] = @ + 1]
         /\ channels' = [channels EXCEPT ![e] = @ \cup
                {[id |-> lastId[e] + 1, fallback |-> fallback, via |-> via]}]
         /\ route' = [route EXCEPT ![e] = ToChannel(lastId[e] + 1)]

\* The offerer's channel is open: dial returns, dropping its SessionGuard, and
\* upgrade then registers, which finds no session relay and takes HOME_RELAY.
OffererOpens(t) ==
    LET e == task[t].ep
    IN /\ task[t].pc = "connect" /\ task[t].role = "offerer" /\ Connects(t)
       /\ Goto(t, "won")
       /\ EndSignaling(e)
       /\ RegisterChannel(e, HOME_RELAY, task[t].via)
       /\ UNCHANGED <<faults, closed, net>>

\* The answerer's incoming channel arrives: it registers inside its session.
AnswererOpens(t) ==
    LET e == task[t].ep
    IN /\ task[t].pc = "connect" /\ task[t].role = "answerer" /\ Connects(t)
       /\ Goto(t, "won")
       /\ RegisterChannel(e, slot[e], task[t].via)
       /\ EndSignaling(e)
       /\ UNCHANGED <<faults, closed, net>>

\* A channel may still come: the other session is known, goes on, and holds no
\* other session's description.
Hopeful(t) ==
    LET u == task[t].remote
    IN u # NoTask /\ task[u].pc # "failed" /\ task[u].remote \in {NoTask, t}

\* A host call of the dance fails: an offer, a description, a candidate, or a
\* connection that cannot come about or breaks.
HostFails(t) ==
    /\ task[t].pc \in HostCalls
    /\ faults \/ (task[t].pc = "connect" /\ ~Hopeful(t))
    /\ Fail(t)
    /\ UNCHANGED <<faults, closed, net, channels, lastId, route>>

-----------------------------------------------------------------------------
\* Mutant: the route falls back whatever it names.
FallbackAlways(e, ch) == ToRelay(ch.fallback)

\* Where the route goes when channel `ch` is retired.
RouteWithout(e, ch) ==
    IF route[e] = ToChannel(ch.id) THEN ToRelay(ch.fallback) ELSE route[e]

\* A channel's receive fails: retire_channel.
ChannelDies(e, ch) ==
    /\ faults
    /\ channels' = [channels EXCEPT ![e] = @ \ {ch}]
    /\ route' = [route EXCEPT ![e] = RouteWithout(e, ch)]
    /\ UNCHANGED <<faults, closed, slot, inbox, net, task, lastId>>

\* A relay drops a signal.
Lose(e, k) ==
    /\ faults /\ net[e][k] # <<>>
    /\ net' = [net EXCEPT ![e][k] = Tail(@)]
    /\ UNCHANGED <<faults, closed, slot, inbox, task, channels, lastId, route>>

Close(e) ==
    /\ faults /\ ~closed[e]
    /\ closed' = [closed EXCEPT ![e] = TRUE]
    /\ UNCHANGED <<faults, slot, inbox, net, task, channels, lastId, route>>

HostAnswers(t) ==
    \/ Describe(t) \/ Candidates(t) \/ Applied(t)
    \/ OffererOpens(t) \/ AnswererOpens(t) \/ HostFails(t)

Session(t) == Consume(t) \/ Abandon(t) \/ HostAnswers(t)

Next ==
    \/ \E e \in Endpoints, d, k \in Relays : Upgrade(e, d, k)
    \/ \E e \in Endpoints, k \in Relays : HandleSignal(e, k) \/ Lose(e, k)
    \/ \E t \in 1..Len(task) : Session(t)
    \/ \E e \in Endpoints : (\E ch \in channels[e] : ChannelDies(e, ch)) \/ Close(e)

Spec == Init /\ [][Next]_vars

\* Signals in flight are delivered or lost, a session takes the signal it waits
\* for or gives up at its deadline, and an application that dials with a hint
\* does so.  Only where nothing fails does the host answer every call: no code
\* here bounds wait_connected (webrtc.rs:280, 349) or the calls before it.
FairSpec ==
    /\ Spec
    /\ \A e \in Endpoints, k \in Relays : WF_vars(HandleSignal(e, k))
    /\ \A t \in Tasks :
          /\ WF_vars(t <= Len(task) /\ (Consume(t) \/ Abandon(t)))
          /\ WF_vars(~faults /\ t <= Len(task) /\ HostAnswers(t))
    /\ \A e \in Dialers : WF_vars(task = <<>> /\ Upgrade(e, HOME_RELAY, HOME_RELAY))

-----------------------------------------------------------------------------
(***************************************************************************)
(* Properties                                                              *)
(***************************************************************************)

\* One signaling session per peer: the slot is claimed exactly while one
\* session task runs, and never by two; a slot that outlived its task would
\* refuse every later upgrade.
OneSessionPerPeer ==
    \A e \in Endpoints :
        LET active == {t \in 1..Len(task) : task[t].ep = e /\ Running(t)}
        IN Cardinality(active) = IF slot[e] = NoRelay THEN 0 ELSE 1

\* The route never names a channel that is gone, and as long as the channel
\* registered last is up, the peer's packets travel over it: the death of an
\* older channel does not move them.
RouteFollowsChannels ==
    \A e \in Endpoints :
        LET ids == {ch.id : ch \in channels[e]}
        IN /\ route[e].wire = "channel" => route[e].id \in ids
           /\ lastId[e] \in ids => route[e] = ToChannel(lastId[e])

\* Every session ends and gives its slot back, whatever signals are lost, are
\* late or belong to another session, unless a host call never answers: the
\* deadline bounds the waits for signals, and those alone, where "Bound on one
\* signaling dance; a silent peer fails `connect-failed` rather than hanging"
\* (webrtc.rs:33) speaks of the dance.  (Faults need not happen where they may.)
SessionsEnd ==
    LET Runs(t) == t <= Len(task) /\ Running(t)
        InHost(t) == t <= Len(task) /\ task[t].pc \in HostCalls
    IN \A t \in Tasks : faults /\ Runs(t) ~> (~Runs(t) \/ []InHost(t))

\* Both endpoints have offered, so their offers may have crossed.
Glare == \E t, u \in 1..Len(task) :
    task[t].ep # task[u].ep /\ task[t].role = "offerer" /\ task[u].role = "offerer"

\* Where nothing fails, an upgrade moves both sides' routes onto a channel and
\* they stay on one, whatever the order of signals and steps and whenever its
\* application dials again, unless the other side's own offers may cross it.
UpgradeCompletes ==
    ~faults => <>[](\A e \in Endpoints : route[e].wire = "channel") \/ <>Glare

\* "The relay the channel was signaled through ... where its route returns if
\* the channel dies" (endpoint_impl.rs:266).
FallbackIsSignaledRelay ==
    \A e \in Endpoints : \A ch \in channels[e] : ch.fallback = ch.via

=============================================================================
