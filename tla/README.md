# polymorph-iroh: TLA+ models, checks and proofs

`polymorph-iroh` is an iroh endpoint packaged as a WebAssembly component:
`connect` and `accept` by endpoint id, QUIC end to end, over relay websockets,
direct UDP and WebRTC data channels. This directory models the part of it that
is its own logic, `endpoint/src` and the relay client of `core/src`. The QUIC
state machine (noq), the hosts and the cryptography are external.

## The system

One `bind` opens the home relay, and spawns a detached *pump* task. The pump
owns all I/O; the methods of the exported resources mutate one shared `State`,
kick the pump to flush the consequences and park on a waker. Everything runs on
one cooperative thread: what happens between two awaits is atomic, and whatever
is read before an await may be stale after it. The host may cancel any async
call at any await, which drops its future and runs its guards.

| Component | State | Operations | Talks to |
|---|---|---|---|
| Relay pool and pump (`endpoint_impl.rs`) | `relay_pool`, `relay_keys`, `relay_opening`, `new_relays`, the pump's receives, redial slot and backoff | `ensure_relay`, `register_relay`, `retire_*`, the pump's loop, `redial_home`, teardown | relays, callers of `connect`, signaling |
| Relay client (`core/src/relay.rs`, `relay_frames.rs`) | `last_inbound`, `probe`, queued datagrams | `connect` and its handshake, `send/recv_datagram`, `probe_step`, `close`; the frame codec | the websocket, the pump's tick |
| Connection table (`endpoint_impl.rs`) | `conns` by slot with epochs, `accept_queue` | `connect`, `accept`, `on_event`, `close`, drops, `wait_closed` | noq, resources |
| Send and receive streams (`endpoint_impl.rs`) | in-use and one-shot flags, latched outcome | `write`, `finish`, `reset`, `write-via-stream`; `read`, `stop`, `read-via-stream`; drops | noq, byte streams of the host |
| WebRTC upgrade (`webrtc.rs`) | signaling slot and inbox per peer, channels, routes | `upgrade`, `dial`, `answer`, `handle_signal`, `register/retire_channel` | the peer through relays, the host's WebRTC stack |
| Calls on a connection (`endpoint_impl.rs`) | `bi_queue`, `uni_queue`, `error`, `watching` | `open-*`, `accept-*`, datagrams, `wait-closed`, `path-changes` | noq, the pump's turns |
| Wakers | `waiters`, `pump_kicked` | `wait_until`, `wake_waiters`, `kick_pump` | every waiting call |
| TLS, identity, UDP | none of interest | host calls | relay client, noq |
| Hosts, demo guest, tools, experiments | outside the component | tests, prototypes | |

Hard behaviours: cancellation in the middle of a shared open or a handshake;
late completions of a replaced connection; a slab slot reused under a resource
that outlives its connection; three independent detectors of one dead relay; an
inline send that pends; signals without a session identity, lost or from both
sides at once; teardown that must await every import. `PROJECT.json` lists them
as hazards, each with the properties that would catch it.

## Modules

| Module | Models | Composed with |
|---|---|---|
| `RelayPool` | the pool, `ensure_relay`, the pump, redial, shutdown | abstracts `RelayProbe`'s verdict to "not live and already pinged" |
| `RelayProbe` | the clocked liveness probe of one relay connection | its verdict is `RelayPool`'s `ProbeDead` |
| `RelayFrames` | the frame codec as operators over byte sequences | extended by `RelayClient` |
| `RelayClient` | one relay connection: handshake, receive loop, batch queue, concurrent sends | its failure is `RelayPool`'s `WireFails` |
| `Connections` | slots, epochs, dials, accepts, identity check, resources | |
| `ConnCalls` | the waiting calls of one connection, their wakers, the pump's turns | one slot of `Connections` while its entry lives |
| `SendStream`, `RecvStream` | one stream resource each, over noq's half | `alive`/`conn` is `Connections`' entry |
| `Streams` | a `SendStream`, a `RecvStream` and noq between them | instantiates both |
| `ByteStream` | abstract: what one direction of a stream promises | implemented by `Streams` |
| `Upgrade` | signaling sessions, channels and routes of two endpoints | |

`<module>_proofs.tla` extends a module and holds the theorems about it (see
Proofs); `Streams_proofs` instantiates `SendStream_proofs`.
`MC<module>.tla` instantiates a module for TLC. An action is named for the
method or for the select arm it models. Definitions marked `Mutant:` are not
part of any specification: each is a plausible defect of the definition below
it, kept to show that a property notices it.

**RelayPool.** A connection is a number in order of creation (the `Rc`
identity), a key a number in order of registration. The pump is in its flush
loop, awaits an inline send, is in its select, tears down or is done: its only
await points. A caller of `ensure_relay` is dialing (it holds the claim), parked
on its waker, woken, or idle. A wire is live, silent, failed or closed. `drain`
wakes the waiters when it made progress, which the model leaves open, and the
tick always does. Of the UDP socket and the data channels the model keeps what
can hold the pump: their inline sends, their arms of the select, and the
teardown's awaits of the self-wake, the UDP receive and the channels' receives
(`awaits`), in the code's order. `Pinned` says that the pump awaits a send that
nothing in this code bounds: to a silent relay, over UDP or over a channel.

**RelayProbe.** Time passes only when the pump could do nothing, or is held by
an inline send. A live relay answers within `MaxRtt`, which is below the
deadline.

**Connections.** `phase` is what the endpoint can tell of noq's connection.
`minted` and `asked` are history: who was handed a connection, and whose owner
asked for its end. A refused attempt changes nothing.

**SendStream, RecvStream.** Calls refused by their flags are not steps.
`accepted` records which operation put each chunk on the stream. A reset
discards undelivered bytes; bytes already delivered drain before the loss of the
connection is reported, as `read_some` orders it.

**Streams, ByteStream.** `Streams` gives every step of either resource its
effect on noq and adds noq's wire: it retransmits until the receiver has
everything, accepts a chunk only within the window that consumption opens,
carries RESET_STREAM and STOP_SENDING, and each endpoint loses the connection in
its own time. `ByteStream` is what `iroh.wit` promises an application pair.
The refinement (`ImplementsByteStream`) maps `written` to the chunks noq
accepted, `got` to those it delivered, `finished` to the FIN on the wire (a
later reset does not unsend it), `aborted`, `released`, `quit` and `broken` to
the state of the halves; `outcome` is the first end that `read` or the future of
`read-via-stream` told. So a byte is never invented or reordered, the clean end
means every byte before the FIN, a drop never destroys a FIN, and a reader is
told of a reset or a failure only if there was one. The mapping counts only the
first end told, because of the divergence that `recv_stream_via_end` shows: the
second way of reading may answer otherwise. A `read` that contradicts an earlier
`read` counts.

**ConnCalls.** The pump awaits in its sends or in its select; an arm of the
select and the drain after it are one step (`Turn`), because nothing awaits in
between. A parked call wakes only if the drain progressed or the tick forces it.
`opened`, `credit`, `dgram` and `unsent` are what noq holds for the connection,
`closing` a local close it has not reported yet. A send takes any time, `LINGER`
and more included, and need not end. A route moves onto a channel
with a kick and back in the pump's channel arm, and neither wakes the watch: the
tick does.

**RelayFrames, RelayClient.** Frames are byte sequences; the widths of keys,
signatures, challenges and pings are parameters, so that two-byte keys exercise
the same slicing as 32-byte ones. The relay sends message records through
`RelayBytes`, upstream's layout, and the client sees only the bytes; what the
client sends is read back by `Understood`. Both are written from the layout the
code's comments and known-answer tests pin, independently of the codec's own
operators. A future suspended in its signature or its pong is a state of its
own, so other tasks' sends fall in between. What the relay has sent and received
is history kept on its side: `offered` are the datagrams in the messages the
client read, `asked` the messages that call for an answer, `answers` the auths
and pongs it decoded. `Junk` is restricted to bytes that are no message
(`Malformed`), which the decoder must find out for itself. A websocket that
fails leaves the queue alone: a receive returns what is pending before it looks
at the websocket, so the pump gets every datagram that was read.

**Upgrade.** Sessions are numbered tasks. A signal carries the session it came
from only for the properties: the code's signals carry none, and neither
`HandleSignal` nor `Apply` looks at it. The host's stack connects two sessions
exactly when each holds the other's description. A session is either in
`next_signal`, which its deadline bounds, or in a call of the host's stack
(`HostCalls`: describing, gathering candidates, applying a signal, connecting),
each of which may fail and may never answer. The request queued by
`connect` and the pump's spawn of the session are one action: nothing reads the
queue in between, and a signal that claims the slot first is a `HandleSignal`
before it. `faults` is chosen at
the start: a behaviour without faults is a behaviour of the same model.

## Runs

| Run | Checks | Bounds |
|---|---|---|
| `relay_pool` | six invariants and `ReplacementSurvivesStaleErrors` | 2 urls, 2 callers, 3 connections: a claimer and a waiter, a foreign relay, a redial and a stale connection at the same time |
| `relay_pool_live` | `WaitersResolve`, `CloseEndsPump`, `SilentRelayDetected` | 2 callers, 2 connections (the home relay's redial or a foreign relay) |
| `relay_probe` | `LiveRelayKept`, `DetectedInTime` | clock to 16: two quiet intervals and deadlines with ticks that do not divide them |
| `connections` | five invariants | 2 slots, 3 connections (so that a slot is reused), backlog 1, one dialer |
| `streams` | three invariants, `ViaOwnsTheStream`, the refinement `ImplementsByteStream`, `ReaderLearns`, `WriterReleased` | 2 writers, 2 chunks per write, a window of 1 so that every write parks half-way, 2 operations, one reader and read-via-stream |
| `conn_calls` | four invariants, `CallsServed`, `CallsEnd`, `WatchConverges` | 2 callers over all operations (both may accept), 2 streams so that one event stands for both, one unit of credit; sends of any length |
| `relay_client` | `TypeOK` with the bound of the queue, `DatagramsInOrder`, `RelayUnderstands` | 4 messages read, 2 frames sent; payloads of 0 to 2 bytes, batches of up to 3 segments with a short last one, junk at every boundary the decoder tests |
| `upgrade` | the cap of the inbox (`TypeOK`), `OneSessionPerPeer`, `RouteFollowsChannels` | both sides dial, 4 sessions (so that two channels to one peer exist), inbox of 2 |
| `upgrade_live` | `SessionsEnd`, `UpgradeCompletes` | both dial, 3 sessions, so that late signals of an ended one meet the next, one relay, inbox of 4 |

`CHECK_DEADLOCK FALSE` is set throughout: an endpoint that was closed, a stream
that was dropped and a behaviour that reached its bound have nothing left to do.

### Where the code and its documents disagree

Three runs end in a violation, and `PROJECT.json` quotes the line each refutes.

| Run | Shows |
|---|---|
| `connections_latch` | `wait-closed` forgets the close-info when the slot is reused |
| `recv_stream_via_end` | `read-via-stream` reports ok after a consumed reset |
| `upgrade_fallback` | the offerer's channel falls back to the home relay |

Three liveness properties are weaker than a sentence of the code, because the
code awaits something that nothing bounds. Each names that wait as its
exception, and TLC refutes each as soon as the exception is taken out:

- `SilentRelayDetected` and `CloseEndsPump` except a send that pins the pump for
  ever (`[]Pinned`, `[]Held`). The pump awaits its sends inline
  (`endpoint_impl.rs:870`, `:889`, `:908`), and while one pends the tick, the
  probes and the close check do not run. Without the exception TLC lets a relay
  go silent while a send pends, and the pump stays there. `:832` says that "a
  relay that goes silent without erroring the websocket is still detected",
  though `:1085` detaches the pings so that "a backpressured wire cannot pin the
  pump". After a close the pump may also wait for ever for the self-wake's send
  (`:1127`) or, when the self-wake was lost, for a UDP receive (`:1142`).
- `CallsEnd` excepts `Stranded`: the endpoint is closed while the pump awaits a
  send that outlasts LINGER, and the close check behind it ends the pump before
  any drain has seen the close. Connections have no error, the calls that the
  last `wake_waiters` wakes park again, nobody wakes them any more, and the
  CONNECTION_CLOSE is never sent. TLC's behaviour without the exception is that:
  a call parks, the endpoint closes in the middle of a send, LINGER passes, the
  pump ends. `:1113` says "No waiter sleeps past the pump: the only break path
  set its terminal state (closed and drained/lingered) before arriving here".
- `SessionsEnd` excepts a call of the host's stack that never answers
  (`[]InHost`). `SIGNAL_DEADLINE` bounds the waits for signals only; a session
  whose answer was lost waits in `wait_connected` (`webrtc.rs:280`, `:349`),
  which by `webrtc.wit:462` implementations "may bound". `webrtc.rs:33` calls the
  deadline "Bound on one signaling dance; a silent peer fails `connect-failed`
  rather than hanging".

Further divergences, which no run states:

- `ensure_relay` registers without looking at `closed`
  (`endpoint_impl.rs:1643`): a dial that resolves after the pump ended leaves its
  websocket open (`DialOk` after `PumpEnds`), where the teardown means to "close
  every pool relay" (`:1117`).
- A redial that succeeds restarts the backoff at once (`:1052`, `RedialOk`),
  where `:235` says that a young connection "consumes the next delay".
- `accept` hands out a connection that failed in the queue as long as its slot
  was not reused (`:1946`, `Accept`), where `:1941` says "Skip queue entries whose
  connection died".
- A `read` parked when `read-via-stream` is called goes on reading (`:2493`,
  `ReadResolves` while `streaming`), where `iroh.wit:514` refuses concurrent reads
  because they "would split the byte sequence".
- A foreign relay that was retired is reopened under a new key (`:385`), and only
  the peer being dialed is moved to it (`:1874`). Other peers' routes keep the
  retired key, whose datagrams are dropped (`:862`), until those peers are dialed
  themselves or get a channel; hearing from them does not move a route (`:371`).
  `:216` says that the retirement "starves the routes that named it until a later
  dial reopens it". This is not in a model.
- An offer that arrives during a session is filed for it and ends it
  (`webrtc.rs:220`, `Apply`), where `webrtc.rs:9` says that it "is dropped": two
  endpoints that dial each other end both sessions. `UpgradeCompletes` excludes
  that case, `SessionsEnd` and `OneSessionPerPeer` include it.

### Fairness

- `RelayPool`: a woken task is polled and time passes (weak fairness); a dial
  resolves because `DIAL_TIMEOUT` bounds it. The tick is offered on every turn of
  the pump but not continuously, and it is the last arm of a biased select, so it
  gets strong fairness: this assumes that wires do not deliver so fast that it is
  never reached. The flush loop empties its queues eventually (strong fairness of
  `FlushDone`). A waiter's 30 second limit is needed, and assumed to pass: a new
  claim of the same url may follow every failed one before the waiter looks.
  A send to a relay that reads its websocket, or whose websocket failed or was
  closed, resolves (weak fairness of `~Pinned /\ SendResolves`). Nothing is
  assumed of the other sends, of the self-wake and of the UDP receive.
- `Streams`: woken calls and tasks are polled; the consumer of a byte stream reads
  it or drops it; noq delivers while both ends have the connection, and once one
  end lost it the other does too (the close frame or the idle timeout). No call
  of an application is fair.
- `ConnCalls`: futures that were woken are polled, the watch's consumer reads or
  drops. Nothing is assumed of inline sends (`FlushDone` is not fair). The tick's timer is kept across turns (`:836`), so it
  is offered on every turn: strong fairness, as in `RelayPool`. Nothing is
  assumed of the peer or of kicks.
- `Upgrade`: signals in flight are delivered or lost, and a session takes the
  signal it waits for or gives up at its deadline. Only in behaviours without
  faults, about which `UpgradeCompletes` speaks, does the host answer its calls.

## Proofs

Each theorem holds for every value of the constants that satisfies the named
assumptions of the module it is about (`HomeAssumption`, `BoundAssumption`,
`PeersAssumption` and so on, which TLC evaluates in the runs): any number of
urls, callers, slots, connections, writers, chunks, streams or sessions, any
clock intervals, and any field widths, payloads and batches. Fairness plays no part in them.

| Module | Theorem | Property |
|---|---|---|
| `RelayPool_proofs` | `TypeCorrect` | `TypeOK` |
| | `SharedOpen` | `OneOpenPerRelay` |
| | `NoDanglingKey` | `MappedKeysArePooled` |
| | `OneReceive` | `OneReceivePerConn` |
| | `HomeKept` | `HomePooledOrRedialing` |
| | `NoLeakedWire` | `UnpooledIsClosed` |
| | `StaleErrorsIgnored` | `ReplacementSurvivesStaleErrors` |
| `Connections_proofs` | `TypeCorrect` | `TypeOK`, with the bound of the accept queue |
| | `Delivery` | `DeliveredOnceAsExpected` |
| | `OwnersOnly` | `OnlyOwnersClose` |
| | `Owned` | `NoOrphan` |
| | `Backlog` | `UnacceptedBounded` |
| `SendStream_proofs`, `Streams_proofs` | `TypeCorrect` | `TypeOK` |
| | `NoInterleaving` | `WritesNeverInterleave` |
| | `FinSafe` | `FinTruncatesNothing` |
| | `ViaOwns` | `ViaOwnsTheStream` |
| `Streams_proofs` | `Refinement` | `ImplementsByteStream` |
| `ConnCalls_proofs` | `TypeCorrect` | `TypeOK` |
| | `NoneLost` | `NoStreamLost` |
| | `EndComesLast` | `StreamsBeforeTheEnd` |
| | `KicksSurvive` | `NoKickLost` |
| `RelayProbe_proofs` | `TypeCorrect` | `TypeOK` |
| | `LiveKept` | `LiveRelayKept` |
| | `Detection` | `DetectedInTime` |
| `Upgrade_proofs` | `TypeCorrect` | `TypeOK`, with the cap of the inbox |
| | `OneSession` | `OneSessionPerPeer` |
| | `RouteCorrect` | `RouteFollowsChannels` |
| `RelayClient_proofs` | `TypeCorrect` | `TypeOK`, with the bound of the queue |
| | `EveryDatagramInOrder` | `DatagramsInOrder` |
| | `RelayReadsUs` | `RelayUnderstands` |

Few of the properties are inductive alone. Each module has an inductive
invariant `IInv` and the theorem or lemma `Inductive == Spec => []IInv`; the
theorems follow from it.

**RelayPool.** `IInv` joins the properties with
`Fresh` (the next key and connection are in use nowhere and a pooled connection
knows its key, without which a registration could overwrite an entry),
`NewIsUnarmed` (why arming a new relay makes one receive and not two),
`PooledIsOpen` (why an entry leaves the pool only for a connection that failed:
the wire of a pooled connection is not closed by us before the teardown) and
`EndsOnlyClosed`. The proof sorts the steps into four kinds: a dial or a redial
adds a connection, `Drops` retires some, everything else is `Calm` and leaves
the pool alone; each conjunct is shown once per kind. `StaleErrorsIgnored` is
the action property read off the same kinds.

**Connections.** The argument is about epochs. `Fresh`: an epoch is given out
once and belongs to one slot, so a holder whose epoch is its slot's holds that
very connection. `Once`: a connection waits for delivery in one place and was
not delivered yet. `Kept`: what an entry says of its holder (a handshake we
started is dialed, an established connection is held by someone). `Sound` ties
the fields of an entry to its phase, and `Bounded` counts queue and incoming
handshakes together: `on_event` appends to the queue unchecked, and this sum is
why the queue cannot outgrow `ACCEPT_BACKLOG`. The steps fall into five kinds
with a lemma each: an entry ages in place, one is entered, a handshake surfaces
in the queue, a connection is delivered, a dial is dropped. `accept` takes the
first usable queue entry, which exists by the well-foundedness of the naturals
(`Least`).

**SendStream, Streams.** `WriteClaimed` and `ViaClaimed`: whoever is in flight
holds `writing` and carries the newest operation number. So the numbers on the
stream never decrease (`InOrder`), which gives `WritesNeverInterleave`; and a
FIN, which needs the flag free, cuts nobody off. `Streams` steps its sender by
`SendStream`'s own actions (`SenderImplemented`), so these theorems carry over.
For the refinement `IInv` adds `WireFaithful` (what arrived is a prefix of what
was accepted, and a FIN arrives only behind all of it), `ReadClaimed` (one read
at a time) and `Over` (after the first end nothing is left to read, which is why
the mapping's `outcome` is never contradicted by a later one). `SenderRefines`
and `ReceiverRefines` show each step to be a step of `ByteStream` or a stutter.

**ConnCalls.** `Accounted`: handed out plus queued is exactly what the peer
opened, in place, because the drain takes all of noq's streams at once.
`ToldLast` keeps an end told and an empty queue together, for no stream is
opened after the failure. `SentIsKicked`: whoever leaves noq something to
transmit has kicked the pump.

**RelayProbe.** `AnswerComes` (an outstanding ping of a live relay has an answer
on its way, or buffered) and `Prompt` (time passes the tick only while a send
holds the pump) bound the age of the last stamp: `QuietBound` before the ping
and `PingBound` after it, both in time that the pump was free.

**Upgrade.** `SlotHeld` (slot and running session live and die together) is
`OneSessionPerPeer` with the uniqueness its own proof needs; `IdsBounded` (a
session registers at most one channel, by ending) and `RouteCurrent` (channel
ids are unique, at most `lastId`, and the newest channel has the route) give
`RouteFollowsChannels`.

**RelayClient.** The first half is about the codec alone. `SplitOne` and
`VarIntEnd` say what `split_tag` returns for a type of one byte and of more:
`VarInt` is a recursive function, and that it exists and is typed is shown by a
least counterexample (`Least`, `VarIntExists`) instead of induction.
`ChunksOfContents` is the round trip of a batch: `slice::chunks` cuts the
contents back into the relay's segments, the short last one included. `Contents`
describes those bytes by position, so that this needs no induction over the
segments either. `SplitData` and `SplitJunk` put it together: a data frame
decodes to exactly its datagrams, junk to none. `Recognition` says that the
client tells all messages apart as the relay meant them, `ReadsAuth` to
`ReadsPong` that the relay reads our frames as they were meant. The second half
is the connection. `IInv` adds to the properties `Stage` (a receive runs only
after the confirmation, until then nothing was received, and a pong is sent only
while the websocket is up), `Replying` (a
suspended signature or pong answers the message that was asked last) and
`InOrder`, which holds from the first message on. It assumes `WidthsAssumption`
(a signature's length prefix is one byte, as 64 is) and `ClientAssumption` (ids,
pings and challenges have their widths, junk is no message).

Only model-checked: all liveness (`WaitersResolve`, `CloseEndsPump`,
`SilentRelayDetected`, `ReaderLearns`, `WriterReleased`, `CallsServed`,
`CallsEnd`, `WatchConverges`, `SessionsEnd`, `UpgradeCompletes`), because fairness
is out of the prover's reach. Every invariant and every action property of the
passing runs is a theorem.

## Not modelled

- TLS, identities and signatures: cryptography; their outcome, an authenticated
  key, enters `Connections`, and a signature is opaque in `RelayClient`.
- The UDP socket, beyond what can hold the pump: no state; a failed send is loss.
  Option parsing and the pure getters.
- The text of a relay's denial (diagnostics), the contents and size limits of
  datagrams, the codes and reasons of closes beyond "the peer sent some".
- noq itself: modelled where the code looks at it, marked external in the map.
- The demo guest, hosts, tools, experiments and scripts: outside the component.

## Plan

1. `RelayPool`, its runs and proofs; `RelayProbe` (done).
2. `Connections`, `SendStream`, `RecvStream`, `Upgrade` (done).
3. `ConnCalls`: the queues and waiting calls of a connection (done).
4. `RelayFrames` and `RelayClient`: codec, handshake, batch queue (done).
5. `Streams` and `ByteStream`: the composition and the refinement (done).
6. Proofs of the safety properties of `RelayPool`, `SendStream`, `Streams` with
   its refinement, `ConnCalls`, `RelayProbe`, `Upgrade`, `Connections` and, with
   the round trips of the frame codec, `RelayClient` (done).
7. Open: a module that composes the pool's keys, a dial's resolved keys and the
   routes, for what a stale key costs a dial.
