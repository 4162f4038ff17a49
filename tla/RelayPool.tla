------------------------------ MODULE RelayPool ------------------------------
(***************************************************************************)
(* The relay side of one endpoint: the pool of relay connections, the      *)
(* `ensure_relay` calls that open foreign relays on demand, the pump task  *)
(* that owns every receive, retires failed connections and redials the     *)
(* home relay, and the shutdown of all of it.                              *)
(*                                                                         *)
(* The endpoint is single-threaded and cooperative: an action below is the *)
(* code between two awaits of one task, so everything it does is atomic.   *)
(* The pump awaits in three places: inside an inline send of its flush     *)
(* loop ("sending"), in its select ("select"), and for what it resolves    *)
(* before it ends ("teardown").                                            *)
(*                                                                         *)
(* A connection is a number in order of creation (its `Rc` identity), a    *)
(* pool key is a number in order of registration.  The payloads of         *)
(* datagrams, QUIC state and the signaling they trigger are left out: here *)
(* a datagram is something a receive resolves with.  Of the UDP socket and *)
(* the data channels only what can hold the pump is kept: their inline     *)
(* sends, their events, and the receives the teardown finds armed.         *)
(***************************************************************************)
EXTENDS Integers, FiniteSets

CONSTANTS
    Urls,         \* normalized relay URLs (normalize_relay_url is applied)
    HomeUrl,      \* the URL `bind` opened
    Callers,      \* tasks that may call ensure_relay
    MaxConns,     \* bound: relay connections opened in one behaviour
    MaxAttempt    \* bound: where redial_attempt saturates (u32::MAX in code)

ASSUME HomeAssumption == HomeUrl \in Urls
ASSUME BoundAssumption == MaxConns \in Nat \ {0} /\ MaxAttempt \in Nat \ {0}

VARIABLES
    closed,         \* State.closed
    lingered,       \* closed_at is LINGER old, or every connection drained
    pool,           \* State.relay_pool: key -> connection
    keys,           \* State.relay_keys: url -> key
    opening,        \* State.relay_opening: urls with a claimed open
    newRelays,      \* State.new_relays: connections whose receive is not armed
    nextKey,        \* State.next_relay_key
    kicked,         \* State.pump_kicked
    nconns,         \* connections created so far
    wire,           \* the websocket behind each connection
    keyOf,          \* the key a connection's receives are tagged with
    recvs,          \* how many receives the pump's set holds per connection
    pump,           \* where the pump task is
    sendKey,        \* the key of the relay send the pump awaits, or NoKey
    awaits,         \* what the teardown awaits besides the relay receives
    redial,         \* the pump's redial slot
    redialAttempt,  \* the pump's redial_attempt
    homeSince,      \* age class of the pump's home_since
    probed,         \* RelayConn.probe is set: a liveness ping is outstanding
    pc,             \* per caller: where its ensure_relay call is
    url,            \* per caller: the url of its call
    late            \* per caller: 30s passed since its wait started

pumpVars == <<pump, sendKey, awaits, redial, redialAttempt, homeSince>>
connVars == <<nconns, wire, keyOf, recvs, probed>>
stateVars == <<closed, lingered, pool, keys, opening, newRelays, nextKey, kicked>>
callVars == <<pc, url, late>>
vars == <<stateVars, connVars, pumpVars, callVars>>

HOME_RELAY == 0
Conns == 1..MaxConns
Keys == 0..MaxConns
NoConn == 0
NoKey == -1
OtherWires == {"selfWake", "udp", "channels"}

TypeOK ==
    /\ closed \in BOOLEAN /\ lingered \in BOOLEAN /\ kicked \in BOOLEAN
    /\ pool \in [Keys -> Conns \cup {NoConn}]
    /\ keys \in [Urls -> Keys \cup {NoKey}]
    /\ opening \subseteq Urls
    /\ newRelays \subseteq Conns
    /\ nextKey \in 1..MaxConns
    /\ nconns \in Conns
    /\ wire \in [Conns -> {"none", "live", "silent", "failed", "closed"}]
    /\ keyOf \in [Conns -> Keys \cup {NoKey}]
    /\ recvs \in [Conns -> Nat]
    /\ probed \in [Conns -> BOOLEAN]
    /\ pump \in {"flush", "sending", "select", "teardown", "done"}
    /\ sendKey \in Keys \cup {NoKey}
    /\ awaits \subseteq OtherWires
    /\ redial \in {"off", "armed"}
    /\ redialAttempt \in 0..MaxAttempt
    /\ homeSince \in {"none", "young", "established"}
    /\ pc \in [Callers -> {"idle", "dialing", "parked", "woken"}]
    /\ url \in [Callers -> Urls]
    /\ late \in [Callers -> BOOLEAN]

(***************************************************************************)
(* `bind` has dialed the home relay, registered it under HOME_RELAY (which *)
(* kicks the pump) and spawned the pump, whose first turn starts.          *)
(***************************************************************************)
Init ==
    /\ closed = FALSE /\ lingered = FALSE /\ kicked = TRUE
    /\ pool = [k \in Keys |-> IF k = HOME_RELAY THEN 1 ELSE NoConn]
    /\ keys = [u \in Urls |-> IF u = HomeUrl THEN HOME_RELAY ELSE NoKey]
    /\ opening = {}
    /\ newRelays = {1}
    /\ nextKey = 1
    /\ nconns = 1
    /\ wire = [c \in Conns |-> IF c = 1 THEN "live" ELSE "none"]
    /\ keyOf = [c \in Conns |-> IF c = 1 THEN HOME_RELAY ELSE NoKey]
    /\ recvs = [c \in Conns |-> 0]
    /\ probed = [c \in Conns |-> FALSE]
    /\ pump = "flush" /\ sendKey = NoKey /\ awaits = {}
    /\ redial = "off" /\ redialAttempt = 0 /\ homeSince = "young"
    /\ pc = [p \in Callers |-> "idle"]
    /\ url = [p \in Callers |-> HomeUrl]
    /\ late = [p \in Callers |-> FALSE]

-----------------------------------------------------------------------------
(***************************************************************************)
(* Helpers on the shared state.                                            *)
(***************************************************************************)

\* Mutant: wake_waiters forgets the parked futures.
WakeNobody(calls) == calls

\* wake_waiters: every parked wait_until future is scheduled to re-check.
Wake(calls) == [p \in Callers |-> IF calls[p] = "parked" THEN "woken" ELSE calls[p]]

\* Mutant: the key alone stands for the connection.
IsKeyPooled(c) == keyOf[c] \in Keys /\ pool[keyOf[c]] # NoConn

\* is_pool_current: the pool still holds this connection under its key.
IsPoolCurrent(c) == keyOf[c] \in Keys /\ pool[keyOf[c]] = c

\* retire_home takes the home entry out of the pool and keeps its URL mapping;
\* retire_relay takes a foreign entry out of the pool and out of the mapping.
PoolWithout(dead) == [k \in Keys |-> IF k \in dead THEN NoConn ELSE pool[k]]

\* Mutant: the url mapping outlives the pool entry.
KeysKept(dead) == keys

KeysWithout(dead) ==
    [u \in Urls |-> IF keys[u] \in dead \ {HOME_RELAY} THEN NoKey ELSE keys[u]]

\* Mutant: a retired connection is dropped without a close.
WiresLeftOpen(conns) == wire

\* Both close the connection they take out.
WiresClosed(conns) == [c \in Conns |-> IF c \in conns THEN "closed" ELSE wire[c]]

\* Mutant: the increment does not saturate.
PlainInc(n) == n + 1

\* redial_attempt.saturating_add(1)
SaturatingInc(n) == IF n = MaxAttempt THEN n ELSE n + 1

\* next_redial_delay, and the redial future it parametrises: the loss of an
\* established home connection restarts the backoff, anything else consumes
\* the next delay.
ArmRedial ==
    /\ redial' = "armed"
    /\ redialAttempt' = IF homeSince = "established" THEN 0
                        ELSE SaturatingInc(redialAttempt)
    /\ homeSince' = "none"

RedialUnchanged == UNCHANGED <<redial, redialAttempt, homeSince>>

\* The connections behind the pool keys in `dead` failed: close and retire
\* them, and arm the redial if the home relay is among them.
Retire(dead) ==
    /\ pool' = PoolWithout(dead)
    /\ keys' = KeysWithout(dead)
    /\ wire' = WiresClosed({pool[k] : k \in dead})
    /\ IF HOME_RELAY \in dead THEN ArmRedial ELSE RedialUnchanged

\* The end of a select turn: control returns to the loop top, whose drain
\* wakes the waiters when it made progress or the tick forces it to.
NextTurn(forced) ==
    /\ pump' = "flush"
    /\ \/ pc' = Wake(pc)
       \/ ~forced /\ pc' = pc

-----------------------------------------------------------------------------
(***************************************************************************)
(* ensure_relay                                                            *)
(***************************************************************************)

\* The part before the first await: a known key is returned at once, a closed
\* endpoint refuses, otherwise the first caller claims the open and the others
\* wait for its outcome.
EnsureRelay(p, u) ==
    /\ pc[p] = "idle"
    /\ \/ (keys[u] # NoKey \/ closed) /\ UNCHANGED <<pc, url, opening>>
       \/ /\ keys[u] = NoKey /\ ~closed
          /\ url' = [url EXCEPT ![p] = u]
          /\ opening' = opening \cup {u}
          /\ pc' = [pc EXCEPT ![p] = IF u \in opening THEN "parked" ELSE "dialing"]
    /\ UNCHANGED <<closed, lingered, pool, keys, newRelays, nextKey, kicked>>
    /\ UNCHANGED <<connVars, pumpVars, late>>

\* The claimer's dial resolves Ok: release the claim, wake the waiters,
\* register_relay (which kicks the pump).  There is no check of `closed`.
DialOk(p) ==
    /\ pc[p] = "dialing"
    /\ nconns < MaxConns
    /\ opening' = opening \ {url[p]}
    /\ pc' = [Wake(pc) EXCEPT ![p] = "idle"]
    /\ nconns' = nconns + 1
    /\ wire' = [wire EXCEPT ![nconns + 1] = "live"]
    /\ keyOf' = [keyOf EXCEPT ![nconns + 1] = nextKey]
    /\ pool' = [pool EXCEPT ![nextKey] = nconns + 1]
    /\ keys' = [keys EXCEPT ![url[p]] = nextKey]
    /\ nextKey' = nextKey + 1
    /\ newRelays' = newRelays \cup {nconns + 1}
    /\ kicked' = TRUE
    /\ UNCHANGED <<closed, lingered, recvs, probed, pumpVars, url, late>>

\* The claimer's dial fails, or runs into DIAL_TIMEOUT.
DialFails(p) ==
    /\ pc[p] = "dialing"
    /\ opening' = opening \ {url[p]}
    /\ pc' = [Wake(pc) EXCEPT ![p] = "idle"]
    /\ UNCHANGED <<closed, lingered, pool, keys, newRelays, nextKey, kicked>>
    /\ UNCHANGED <<connVars, pumpVars, url, late>>

\* Mutant: the claim survives the cancelled call.
LeakClaim(p) ==
    /\ pc' = [Wake(pc) EXCEPT ![p] = "idle"]
    /\ UNCHANGED opening

\* RelayClaim::drop while armed: release the claim and wake the waiters.
DropClaim(p) ==
    /\ opening' = opening \ {url[p]}
    /\ pc' = [Wake(pc) EXCEPT ![p] = "idle"]

\* The host cancels the call: a claimer drops its armed RelayClaim, a waiter
\* just goes away.
Cancel(p) ==
    /\ pc[p] # "idle"
    /\ IF pc[p] = "dialing" THEN DropClaim(p)
       ELSE pc' = [pc EXCEPT ![p] = "idle"] /\ UNCHANGED opening
    /\ late' = [late EXCEPT ![p] = FALSE]
    /\ UNCHANGED <<closed, lingered, pool, keys, newRelays, nextKey, kicked>>
    /\ UNCHANGED <<connVars, pumpVars, url>>

\* Whether the check of a waiting call's wait_until yields a result: the key
\* (Ok), the open gone (ConnectFailed), the endpoint closed, or 30s passed.
WaitResolved(p) ==
    \/ keys[url[p]] # NoKey
    \/ url[p] \notin opening
    \/ closed
    \/ late[p]

\* A woken waiter re-runs the check and returns its outcome or parks again.
Poll(p) ==
    /\ pc[p] = "woken"
    /\ IF WaitResolved(p)
       THEN pc' = [pc EXCEPT ![p] = "idle"] /\ late' = [late EXCEPT ![p] = FALSE]
       ELSE pc' = [pc EXCEPT ![p] = "parked"] /\ UNCHANGED late
    /\ UNCHANGED <<stateVars, connVars, pumpVars, url>>

\* 30 seconds pass for a waiting call.
WaitExpires(p) ==
    /\ pc[p] \in {"parked", "woken"} /\ ~late[p]
    /\ late' = [late EXCEPT ![p] = TRUE]
    /\ UNCHANGED <<stateVars, connVars, pumpVars, pc, url>>

-----------------------------------------------------------------------------
(***************************************************************************)
(* The pump                                                                *)
(***************************************************************************)

\* The flush loop pops a datagram routed to a pooled relay and awaits its send
\* (one routed to a retired relay is dropped and changes nothing).
SendStarts(k) ==
    /\ pump = "flush" /\ pool[k] # NoConn
    /\ pump' = "sending" /\ sendKey' = k
    /\ UNCHANGED <<stateVars, connVars, awaits, redial, redialAttempt, homeSince, callVars>>

\* It pops a datagram routed to the UDP socket or to a channel, and awaits its
\* send in the same way.
OtherSendStarts ==
    /\ pump = "flush"
    /\ pump' = "sending" /\ sendKey' = NoKey
    /\ UNCHANGED <<stateVars, connVars, awaits, redial, redialAttempt, homeSince, callVars>>

\* The pump awaits a send that nothing in this code bounds: a relay gone silent
\* stops reading its websocket, and the host alone decides how long a UDP or
\* channel send takes.
Pinned == pump = "sending" /\ (sendKey = NoKey \/ wire[pool[sendKey]] = "silent")

\* The awaited send resolves: an error on the home relay retires it and arms
\* the redial; every other outcome is datagram loss at most.
SendResolves ==
    /\ pump = "sending"
    /\ IF sendKey = HOME_RELAY /\ wire[pool[HOME_RELAY]] \in {"failed", "closed"}
       THEN Retire({HOME_RELAY})
       ELSE UNCHANGED <<pool, keys, wire>> /\ RedialUnchanged
    /\ pump' = "flush" /\ sendKey' = NoKey
    /\ UNCHANGED <<closed, lingered, opening, newRelays, nextKey, kicked>>
    /\ UNCHANGED <<nconns, keyOf, recvs, probed, awaits, callVars>>

\* The teardown up to its first await: it wakes every waiter, closes every
\* pooled relay and sends the self-wake if there is a UDP socket (whose receive
\* is over if the socket died).
TeardownStarts ==
    /\ pump' = "teardown"
    /\ awaits' \in {w \in SUBSET OtherWires : "udp" \in w => "selfWake" \in w}
    /\ pc' = Wake(pc)
    /\ wire' = WiresClosed({pool[k] : k \in Keys} \ {NoConn})

\* The outbound queues are empty: arm the receives of new relays, then enter
\* the select, or break out when closed and drained or lingered.
FlushDone ==
    /\ pump = "flush"
    /\ recvs' = [c \in Conns |-> IF c \in newRelays THEN recvs[c] + 1 ELSE recvs[c]]
    /\ newRelays' = {}
    /\ IF closed /\ lingered
       THEN TeardownStarts
       ELSE pump' = "select" /\ UNCHANGED <<awaits, pc, wire>>
    /\ UNCHANGED <<closed, lingered, pool, keys, opening, nextKey, kicked>>
    /\ UNCHANGED <<nconns, keyOf, probed, sendKey, redial, redialAttempt, homeSince>>
    /\ UNCHANGED <<url, late>>

\* Mutant: the receive is not re-armed.
RearmNone(c) == [recvs EXCEPT ![c] = @ - 1]

\* A completed receive leaves the set; only the pool's current connection is
\* re-armed.
Rearm(c) == IF IsPoolCurrent(c) THEN recvs ELSE [recvs EXCEPT ![c] = @ - 1]

\* A receive resolves with a datagram.  A dead or closed wire may still
\* deliver what it had buffered.
ReceiveOk(c) ==
    /\ pump = "select"
    /\ recvs[c] > 0 /\ wire[c] \in {"live", "failed", "closed"}
    /\ recvs' = Rearm(c)
    /\ NextTurn(FALSE)
    /\ UNCHANGED <<stateVars, nconns, wire, keyOf, probed>>
    /\ UNCHANGED <<sendKey, awaits, redial, redialAttempt, homeSince, url, late>>

\* A receive resolves with an error: stale ones are ignored, the current
\* connection is retired.
ReceiveErr(c) ==
    /\ pump = "select"
    /\ recvs[c] > 0 /\ wire[c] \in {"failed", "closed"}
    /\ recvs' = [recvs EXCEPT ![c] = @ - 1]
    /\ IF IsPoolCurrent(c) THEN Retire({keyOf[c]})
       ELSE UNCHANGED <<pool, keys, wire>> /\ RedialUnchanged
    /\ NextTurn(FALSE)
    /\ UNCHANGED <<closed, lingered, opening, newRelays, nextKey, kicked>>
    /\ UNCHANGED <<nconns, keyOf, probed, sendKey, awaits, url, late>>

\* The UDP receive or a channel's resolves, with a datagram or with an error.
OtherEvent ==
    /\ pump = "select"
    /\ NextTurn(FALSE)
    /\ UNCHANGED <<stateVars, connVars, sendKey, awaits, redial, redialAttempt, homeSince>>
    /\ UNCHANGED <<url, late>>

\* The redial resolves Ok: the key is reoccupied, the waiters are woken, the
\* receive is armed and the backoff restarts; a closed endpoint closes the
\* connection instead.
RedialOk ==
    /\ pump = "select" /\ redial = "armed"
    /\ nconns < MaxConns
    /\ LET c == nconns + 1
       IN /\ nconns' = c
          /\ keyOf' = [keyOf EXCEPT ![c] = HOME_RELAY]
          /\ IF closed
             THEN /\ wire' = [wire EXCEPT ![c] = "closed"]
                  /\ UNCHANGED <<pool, recvs, redialAttempt, homeSince>>
             ELSE /\ wire' = [wire EXCEPT ![c] = "live"]
                  /\ pool' = [pool EXCEPT ![HOME_RELAY] = c]
                  /\ recvs' = [recvs EXCEPT ![c] = 1]
                  /\ redialAttempt' = 0 /\ homeSince' = "young"
    /\ redial' = "off"
    /\ NextTurn(~closed)
    /\ UNCHANGED <<closed, lingered, keys, opening, newRelays, nextKey, kicked>>
    /\ UNCHANGED <<probed, sendKey, awaits, url, late>>

\* Mutant: a failed redial is the last one.
RedialErrGivesUp ==
    /\ pump = "select" /\ redial = "armed"
    /\ redial' = "off" /\ UNCHANGED <<redialAttempt, homeSince>>
    /\ NextTurn(FALSE)
    /\ UNCHANGED <<stateVars, connVars, sendKey, awaits, url, late>>

\* The redial fails: unless closed, the next one is armed.
RedialErr ==
    /\ pump = "select" /\ redial = "armed"
    /\ IF closed THEN redial' = "off" /\ UNCHANGED <<redialAttempt, homeSince>>
       ELSE ArmRedial
    /\ NextTurn(FALSE)
    /\ UNCHANGED <<stateVars, connVars, sendKey, awaits, url, late>>

\* A kick resolves: the loop top flushes what the kicker queued.
Kicked ==
    /\ pump = "select" /\ kicked
    /\ kicked' = FALSE
    /\ NextTurn(FALSE)
    /\ UNCHANGED <<closed, lingered, pool, keys, opening, newRelays, nextKey>>
    /\ UNCHANGED <<connVars, sendKey, awaits, redial, redialAttempt, homeSince, url, late>>

\* Mutant: the sweep never gives a dead verdict.
ProbeNobody == {}

\* The verdict of a sweep: a wire that is not live and was already pinged is
\* dead.  One model tick stands for the ticks between two changes of verdict;
\* the clocked probe is RelayProbe.tla.
ProbeDead ==
    {k \in Keys : pool[k] # NoConn /\ wire[pool[k]] # "live" /\ probed[pool[k]]}

\* The tick: timeouts are handled, the waiters are woken at the loop top, and
\* the liveness sweep pings quiet relays and retires dead ones.
Tick ==
    /\ pump = "select"
    /\ Retire(ProbeDead)
    /\ probed' = [c \in Conns |-> IF IsPoolCurrent(c) THEN wire[c] # "live" ELSE probed[c]]
    /\ NextTurn(TRUE)
    /\ UNCHANGED <<closed, lingered, opening, newRelays, nextKey, kicked>>
    /\ UNCHANGED <<nconns, keyOf, recvs, sendKey, awaits, url, late>>

\* The teardown awaits, one after another: the send of the self-wake, the
\* relay receives, which closed wires resolve, the UDP receive, which the
\* self-wake resolves if it arrives, the receives of the channels it closed,
\* and the final tick.
SelfWakeSent ==
    /\ pump = "teardown" /\ "selfWake" \in awaits
    /\ awaits' = awaits \ {"selfWake"}
    /\ UNCHANGED <<stateVars, connVars, pump, sendKey, redial, redialAttempt, homeSince, callVars>>

TeardownReceive(c) ==
    /\ pump = "teardown" /\ "selfWake" \notin awaits
    /\ recvs[c] > 0 /\ wire[c] \in {"failed", "closed"}
    /\ recvs' = [recvs EXCEPT ![c] = @ - 1]
    /\ UNCHANGED <<stateVars, nconns, wire, keyOf, probed, pumpVars, callVars>>

RelaysResolved == pump = "teardown" /\ "selfWake" \notin awaits /\ \A c \in Conns : recvs[c] = 0

TeardownUdp ==
    /\ RelaysResolved /\ "udp" \in awaits
    /\ awaits' = awaits \ {"udp"}
    /\ UNCHANGED <<stateVars, connVars, pump, sendKey, redial, redialAttempt, homeSince, callVars>>

TeardownChannels ==
    /\ RelaysResolved /\ awaits = {"channels"}
    /\ awaits' = {}
    /\ UNCHANGED <<stateVars, connVars, pump, sendKey, redial, redialAttempt, homeSince, callVars>>

\* The tick fires and the task ends; an in-flight redial is dropped with it.
PumpEnds ==
    /\ RelaysResolved /\ awaits = {}
    /\ pump' = "done" /\ redial' = "off"
    /\ UNCHANGED <<stateVars, connVars, sendKey, awaits, redialAttempt, homeSince, callVars>>

-----------------------------------------------------------------------------
(***************************************************************************)
(* The application, the relays and the clock                               *)
(***************************************************************************)

\* endpoint.close, or the drop of the endpoint resource.
Close ==
    /\ ~closed
    /\ closed' = TRUE
    /\ kicked' = TRUE
    /\ pc' = Wake(pc)
    /\ UNCHANGED <<lingered, pool, keys, opening, newRelays, nextKey>>
    /\ UNCHANGED <<connVars, pumpVars, url, late>>

\* Every connection drained, or LINGER passed since the close.
LingerEnds ==
    /\ closed /\ ~lingered
    /\ lingered' = TRUE
    /\ UNCHANGED <<closed, pool, keys, opening, newRelays, nextKey, kicked>>
    /\ UNCHANGED <<connVars, pumpVars, callVars>>

\* A relay's websocket errors, perhaps after a silence, or goes silent without
\* an error.
WireFails(c, fault) ==
    /\ wire[c] = "live" \/ (wire[c] = "silent" /\ fault = "failed")
    /\ wire' = [wire EXCEPT ![c] = fault]
    /\ UNCHANGED <<stateVars, nconns, keyOf, recvs, probed, pumpVars, callVars>>

\* The home connection reaches the age REDIAL_ESTABLISHED.
HomeMatures ==
    /\ homeSince = "young"
    /\ homeSince' = "established"
    /\ UNCHANGED <<stateVars, connVars, pump, sendKey, awaits, redial, redialAttempt, callVars>>

CallerNext(p) ==
    \/ \E u \in Urls : EnsureRelay(p, u)
    \/ DialOk(p) \/ DialFails(p) \/ Cancel(p) \/ Poll(p) \/ WaitExpires(p)

PumpNext ==
    \/ \E k \in Keys : SendStarts(k)
    \/ OtherSendStarts \/ SendResolves \/ FlushDone
    \/ \E c \in Conns : ReceiveOk(c) \/ ReceiveErr(c)
    \/ OtherEvent \/ RedialOk \/ RedialErr \/ Kicked \/ Tick
    \/ SelfWakeSent \/ TeardownUdp \/ TeardownChannels \/ PumpEnds
    \/ \E c \in Conns : TeardownReceive(c)

EnvNext ==
    \/ Close \/ LingerEnds \/ HomeMatures
    \/ \E c \in Conns : \E fault \in {"failed", "silent"} : WireFails(c, fault)

Next == (\E p \in Callers : CallerNext(p)) \/ PumpNext \/ EnvNext

Spec == Init /\ [][Next]_vars

(***************************************************************************)
(* Fairness.  A woken task is polled, a dial resolves (DIAL_TIMEOUT bounds *)
(* it), a relay that reads its websocket or has dropped it resolves a send *)
(* to it, and time passes: weak fairness.  Nothing is assumed of the sends *)
(* that pin the pump, of the self-wake and of the UDP receive, which a     *)
(* lost self-wake leaves waiting for somebody's datagram.  The tick is     *)
(* offered again on every turn of the pump but not continuously, and the   *)
(* select is biased: strong fairness assumes that the wires do not deliver *)
(* datagrams so fast that the last arm is never reached.  The flush loop   *)
(* empties its queues eventually, so FlushDone is strongly fair as well.   *)
(* Nothing is assumed of events, redials or kicks.  A waiter needs its 30s *)
(* limit: a new claim may follow each failed one before it re-checks.      *)
(***************************************************************************)
Fairness ==
    /\ \A p \in Callers :
          WF_vars(DialOk(p) \/ DialFails(p)) /\ WF_vars(Poll(p)) /\ WF_vars(WaitExpires(p))
    /\ WF_vars(~Pinned /\ SendResolves) /\ SF_vars(FlushDone) /\ SF_vars(Tick)
    /\ \A c \in Conns : WF_vars(TeardownReceive(c))
    /\ WF_vars(TeardownChannels) /\ WF_vars(PumpEnds) /\ WF_vars(LingerEnds)

FairSpec == Spec /\ Fairness

-----------------------------------------------------------------------------
(***************************************************************************)
(* Safety                                                                  *)
(***************************************************************************)

\* Concurrent dials share one open: the claimed urls are exactly those some
\* call is dialing, and no url is dialed by two calls.  A claim that leaked
\* (issue #13, B5) would make every later dial wait out its timeout.
OneOpenPerRelay ==
    /\ opening = {url[p] : p \in {q \in Callers : pc[q] = "dialing"}}
    /\ \A p, q \in Callers :
          pc[p] = "dialing" /\ pc[q] = "dialing" /\ url[p] = url[q] => p = q

\* A url mapping never dangles: ensure_relay hands out a key only if the pool
\* holds a connection under it, or it is the home key that a redial reoccupies;
\* and a mapped url is not being opened a second time.
MappedKeysArePooled ==
    \A u \in Urls : keys[u] # NoKey =>
        /\ keys[u] = HOME_RELAY \/ pool[keys[u]] # NoConn
        /\ u \notin opening
        /\ \A v \in Urls : keys[v] = keys[u] => v = u

\* Every pooled connection is read by exactly one receive: one is armed, or
\* the connection waits in new_relays for the pump to arm it.  A second one
\* would split the relay's datagrams; none would leave the relay deaf.
OneReceivePerConn ==
    /\ \A c \in Conns : recvs[c] <= 1
    /\ \A k \in Keys :
          pool[k] # NoConn /\ pump \notin {"teardown", "done"} =>
              (recvs[pool[k]] = 1) # (pool[k] \in newRelays)

\* While the endpoint is open, exactly one of these holds: the pool has a home
\* connection, or its redial is armed (never neither, never both).
HomePooledOrRedialing ==
    ~closed => ((redial = "armed") <=> (pool[HOME_RELAY] = NoConn))

\* A connection that left the pool, or never entered it, is closed: neither
\* retiring one nor a redial that loses the race with `close` leaks a
\* websocket.  (A foreign dial that resolves after the pump has ended does
\* enter the pool, where nobody closes it any more.)
UnpooledIsClosed ==
    \A c \in Conns :
        c <= nconns /\ (\A k \in Keys : pool[k] # c) => wire[c] = "closed"

(***************************************************************************)
(* Action properties                                                       *)
(***************************************************************************)

\* The home entry is retired only because the connection it holds failed: a
\* late error of a connection the pool has moved on from never takes down its
\* replacement, and a pool key is never silently re-pointed.
ReplacementSurvivesStaleErrors ==
    [][\A k \in Keys : pool[k] # NoConn /\ pool'[k] # pool[k] =>
          /\ pool'[k] = NoConn
          /\ wire[pool[k]] \in {"failed", "silent"}]_vars

(***************************************************************************)
(* Liveness                                                                *)
(***************************************************************************)

\* Every ensure_relay call that waits for another call's open resolves.
WaitersResolve ==
    \A p \in Callers : pc[p] \in {"parked", "woken"} ~> pc[p] \in {"idle", "dialing"}

\* What can hold a closed endpoint's pump for ever: a send it is pinned on, the
\* self-wake's send, or a UDP receive the self-wake did not resolve.
Held == Pinned \/ (pump = "teardown" /\ awaits \cap {"selfWake", "udp"} # {})

\* After close the pump ends, whatever its relays, its redial and its channels
\* are doing, unless a send or the UDP socket holds it for ever: the teardown
\* (endpoint_impl.rs:1117) resolves every relay and channel receive it awaits.
CloseEndsPump == closed ~> (pump = "done" \/ []Held)

\* "a relay that goes silent without erroring the websocket is still detected"
\* (endpoint_impl.rs:832): a connection that is silent or has failed is retired
\* and closed, unless the endpoint is closed first or a send pins the pump for
\* ever.  The quoted sentence makes no such exception.
SilentRelayDetected ==
    \A c \in Conns :
        wire[c] \in {"silent", "failed"} ~> (wire[c] = "closed" \/ closed \/ []Pinned)
=============================================================================
