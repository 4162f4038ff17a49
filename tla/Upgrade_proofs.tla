---------------------------- MODULE Upgrade_proofs ----------------------------
(***************************************************************************)
(* The WebRTC upgrade, proved for any set of relays, any number of session *)
(* tasks and any inbox cap, with and without faults: the signaling slot    *)
(* and the session task live and die together, and the route follows the   *)
(* channels.                                                               *)
(***************************************************************************)
EXTENDS Upgrade, SequenceTheorems, FiniteSetTheorems, TLAPS

TaskRec == [ep : Endpoints, role : {"offerer", "answerer"}, via : Relays,
            pc : Steps, remote : Tasks \cup {NoTask}]
ChannelRec == [id : Tasks, fallback : Relays, via : Relays]
RouteRec == [wire : {"relay"}, id : Relays] \cup [wire : {"channel"}, id : Tasks]

\* The types, with the domains the step arguments need.  A channel's fallback is
\* always a relay.
Typed ==
    /\ faults \in BOOLEAN
    /\ closed \in [Endpoints -> BOOLEAN]
    /\ slot \in [Endpoints -> Relays \cup {NoRelay}]
    /\ inbox \in [Endpoints -> Seq(Signals)]
    /\ net \in [Endpoints -> [Relays -> Seq(Signals)]]
    /\ task \in Seq(TaskRec)
    /\ channels \in [Endpoints -> SUBSET ChannelRec]
    /\ lastId \in [Endpoints -> Nat]
    /\ route \in [Endpoints -> RouteRec]

InboxBounded == \A e \in Endpoints : Len(inbox[e]) <= INBOX_CAP

\* A running session holds its endpoint's slot, alone; a claimed slot has a
\* running session.
SlotHeld ==
    /\ \A t \in 1..Len(task) : Running(t) => slot[task[t].ep] # NoRelay
    /\ \A t, u \in 1..Len(task) :
          Running(t) /\ Running(u) /\ task[t].ep = task[u].ep => t = u
    /\ \A e \in Endpoints : slot[e] # NoRelay =>
          \E t \in 1..Len(task) : task[t].ep = e /\ Running(t)

\* A session registers at most one channel, and only by ending.
Held(e) == IF slot[e] = NoRelay THEN 0 ELSE 1
IdsBounded ==
    /\ Len(task) <= MaxTasks
    /\ \A e \in Endpoints : lastId[e] + Held(e) <= Len(task)

\* Channel ids are unique and at most lastId; the route names a channel that is
\* up, and the newest one if that is.
RouteCurrent(e) ==
    /\ \A c, d \in channels[e] : c.id = d.id => c = d
    /\ \A c \in channels[e] : c.id <= lastId[e]
    /\ route[e].wire = "channel" => \E c \in channels[e] : c.id = route[e].id
    /\ \A c \in channels[e] : c.id = lastId[e] => route[e] = ToChannel(c.id)

IInv ==
    /\ Typed /\ InboxBounded /\ SlotHeld /\ IdsBounded
    /\ \A e \in Endpoints : RouteCurrent(e)

-----------------------------------------------------------------------------
\* A session is appended to the tasks, or replaced by a later state of itself.
Appended(r) ==
    /\ task' \in Seq(TaskRec) /\ Len(task') = Len(task) + 1 /\ Len(task) \in Nat
    /\ \A t \in 1..Len(task) : task'[t] = task[t]
    /\ task'[Len(task) + 1] = r
Replaced(t, r) ==
    /\ task' \in Seq(TaskRec) /\ Len(task') = Len(task) /\ Len(task) \in Nat
    /\ task'[t] = r
    /\ \A u \in 1..Len(task) : u # t => task'[u] = task[u]

\* What NewTask does to the sequence of tasks.
LEMMA AppendTask ==
    ASSUME Typed, NEW r \in TaskRec, task' = Append(task, r) PROVE Appended(r)
BY AppendProperties, LenProperties DEF Typed, Appended

\* What Goto does to it.
LEMMA SetTask ==
    ASSUME Typed, NEW t \in 1..Len(task), NEW r \in TaskRec, task' = [task EXCEPT ![t] = r]
    PROVE  Replaced(t, r)
BY ExceptSeq, LenProperties DEF Typed, Replaced

\* A session starts on a free slot.
LEMMA StartKeeps ==
    ASSUME Typed, SlotHeld, IdsBounded, NEW e \in Endpoints, NEW k \in Relays,
           slot[e] = NoRelay, Len(task) < MaxTasks,
           slot' = [slot EXCEPT ![e] = k],
           NEW r \in TaskRec, r.ep = e, r.pc \notin {"won", "failed"},
           Appended(r), lastId' = lastId
    PROVE  SlotHeld' /\ IdsBounded' /\ task' \in Seq(TaskRec)
           /\ slot' \in [Endpoints -> Relays \cup {NoRelay}]
<1> DEFINE n == Len(task)
<1>1. /\ task' \in Seq(TaskRec) /\ Len(task') = n + 1 /\ n \in Nat
      /\ \A t \in 1..n : task'[t] = task[t]
      /\ task'[n + 1] = r
  BY DEF Appended
<1>2. k # NoRelay /\ \A t \in 1..n : task[t].ep \in Endpoints
  <2>1. k \in Nat
    BY UpgradeAssumption
  <2>2. \A t \in 1..n : task[t] \in TaskRec
    BY ElementOfSeq DEF Typed
  <2>3. QED
    BY <2>1, <2>2 DEF NoRelay, TaskRec
<1>3. slot' \in [Endpoints -> Relays \cup {NoRelay}] /\ slot'[e] = k
      /\ \A f \in Endpoints : f # e => slot'[f] = slot[f]
  BY DEF Typed
<1>4. \A t \in 1..n : task[t].ep = e => ~Running(t)
  BY DEF SlotHeld
<1> HIDE DEF n
<1>5. \A t \in 1..Len(task') : t \in 1..n \/ t = n + 1
  BY <1>1
<1>6. n + 1 \in 1..Len(task') /\ \A t \in 1..n : t \in 1..Len(task') /\ t # n + 1
  BY <1>1
<1>7. \A t \in 1..n : Running(t)' <=> Running(t)
  BY <1>1 DEF Running
<1>8. \A t \in 1..Len(task') : t = n + 1 => Running(t)' /\ task'[t].ep = e
  BY <1>1 DEF Running
<1>9. \A t \in 1..Len(task') : Running(t)' => slot'[task'[t].ep] # NoRelay
  BY <1>1, <1>2, <1>3, <1>5, <1>7 DEF SlotHeld, n
<1>10. \A t, u \in 1..Len(task') :
          Running(t)' /\ Running(u)' /\ task'[t].ep = task'[u].ep => t = u
  BY <1>1, <1>2, <1>4, <1>5, <1>7 DEF SlotHeld, n
<1>11. \A f \in Endpoints : slot'[f] # NoRelay =>
          \E t \in 1..Len(task') : task'[t].ep = f /\ Running(t)'
  <2> TAKE f \in Endpoints
  <2> HAVE slot'[f] # NoRelay
  <2>1. CASE f = e
    BY <1>6, <1>8, <2>1
  <2>2. CASE f # e
    <3>1. PICK t \in 1..n : task[t].ep = f /\ Running(t)
      BY <1>3, <2>2 DEF SlotHeld, n
    <3>2. t \in 1..Len(task') /\ task'[t].ep = f /\ Running(t)'
      BY <1>1, <1>6, <1>7, <3>1
    <3>3. QED
      BY <3>2
  <2>3. QED
    BY <2>1, <2>2
<1>12. SlotHeld'
  BY <1>9, <1>10, <1>11 DEF SlotHeld
<1>13. IdsBounded'
  <2>1. n + 1 <= MaxTasks /\ MaxTasks \in Nat
    BY <1>1, UpgradeAssumption DEF n
  <2>2. \A f \in Endpoints : lastId[f] \in Nat /\ lastId[f] + Held(f) <= n
    BY DEF Typed, IdsBounded, n
  <2>3. \A f \in Endpoints : lastId[f] + Held(f)' <= n + 1
    BY <1>1, <1>3, <2>2 DEF Held
  <2>4. QED
    BY <1>1, <2>1, <2>3 DEF IdsBounded
<1>14. QED
  BY <1>1, <1>3, <1>12, <1>13

\* A session moves on, its slot unchanged.
LEMMA MoveKeeps ==
    ASSUME Typed, SlotHeld, IdsBounded, NEW t \in 1..Len(task), Running(t),
           NEW r \in TaskRec, r.ep = task[t].ep, r.pc \notin {"won", "failed"},
           Replaced(t, r), slot' = slot, lastId' = lastId
    PROVE  SlotHeld' /\ IdsBounded' /\ task' \in Seq(TaskRec)
<1>1. /\ task' \in Seq(TaskRec) /\ Len(task') = Len(task)
      /\ task'[t] = r /\ \A u \in 1..Len(task) : u # t => task'[u] = task[u]
  BY DEF Replaced
<1>2. \A u \in 1..Len(task) : (Running(u)' <=> Running(u)) /\ task'[u].ep = task[u].ep
  BY <1>1 DEF Running
<1>3. SlotHeld'
  BY <1>1, <1>2 DEF SlotHeld
<1>4. IdsBounded'
  BY <1>1 DEF IdsBounded, Held
<1>5. QED
  BY <1>1, <1>3, <1>4

\* A session ends and gives its slot back, with or without a channel.
LEMMA EndKeeps ==
    ASSUME Typed, SlotHeld, IdsBounded, NEW t \in 1..Len(task), Running(t),
           NEW r \in TaskRec, r.ep = task[t].ep, r.pc \in {"won", "failed"},
           Replaced(t, r), slot' = [slot EXCEPT ![r.ep] = NoRelay],
           \/ lastId' = lastId
           \/ lastId' = [lastId EXCEPT ![r.ep] = @ + 1]
    PROVE  SlotHeld' /\ IdsBounded' /\ task' \in Seq(TaskRec)
           /\ slot' \in [Endpoints -> Relays \cup {NoRelay}]
           /\ lastId' \in [Endpoints -> Nat]
<1> DEFINE e == r.ep
<1>1. /\ task' \in Seq(TaskRec) /\ Len(task') = Len(task) /\ Len(task) \in Nat
      /\ task'[t] = r /\ \A u \in 1..Len(task) : u # t => task'[u] = task[u]
  BY DEF Replaced
<1>2. e \in Endpoints /\ slot[e] # NoRelay
  BY DEF TaskRec, SlotHeld
<1>3. \A u \in 1..Len(task) : task[u].ep \in Endpoints
  <2>1. \A u \in 1..Len(task) : task[u] \in TaskRec
    BY ElementOfSeq DEF Typed
  <2>2. QED
    BY <2>1 DEF TaskRec
<1>4. /\ slot' \in [Endpoints -> Relays \cup {NoRelay}] /\ slot'[e] = NoRelay
      /\ \A f \in Endpoints : f # e => slot'[f] = slot[f]
  BY <1>2 DEF Typed
<1>5. \A u \in 1..Len(task) :
        /\ task'[u].ep = task[u].ep
        /\ Running(u)' <=> Running(u) /\ u # t
        /\ Running(u) /\ task[u].ep = e => u = t
  BY <1>1 DEF Running, SlotHeld
<1> HIDE DEF e
<1>6. SlotHeld'
  <2>1. \A u \in 1..Len(task) : Running(u)' => slot'[task[u].ep] # NoRelay
    BY <1>3, <1>4, <1>5 DEF SlotHeld
  <2>2. \A f \in Endpoints : slot'[f] # NoRelay =>
          \E u \in 1..Len(task) : task[u].ep = f /\ Running(u)'
    BY <1>4, <1>5 DEF SlotHeld, e
  <2>3. QED
    BY <1>1, <1>5, <2>1, <2>2, ZenonT(60) DEF SlotHeld
<1>7. /\ lastId' \in [Endpoints -> Nat]
      /\ lastId'[e] \in {lastId[e], lastId[e] + 1}
      /\ \A f \in Endpoints : f # e => lastId'[f] = lastId[f]
  <2>1. lastId \in [Endpoints -> Nat] /\ lastId[e] \in Nat
    BY <1>2 DEF Typed
  <2>2. lastId[e] + 1 \in Nat
    BY <2>1
  <2>3. lastId' = lastId \/ lastId' = [lastId EXCEPT ![e] = lastId[e] + 1]
    BY DEF e
  <2>4. QED
    BY <1>2, <2>1, <2>2, <2>3
<1>8. \A f \in Endpoints : lastId'[f] + Held(f)' <= Len(task)
  <2> TAKE f \in Endpoints
  <2>1. lastId[f] \in Nat /\ lastId[f] + Held(f) <= Len(task)
    BY DEF Typed, IdsBounded
  <2>2. CASE f = e
    BY <1>1, <1>2, <1>4, <1>7, <2>1, <2>2 DEF Held
  <2>3. CASE f # e
    BY <1>4, <1>7, <2>1, <2>3 DEF Held
  <2>4. QED
    BY <2>2, <2>3
<1>9. IdsBounded'
  BY <1>1, <1>8 DEF IdsBounded
<1>10. QED
  BY <1>1, <1>4, <1>6, <1>7, <1>9

-----------------------------------------------------------------------------
\* Other is an endpoint.
LEMMA OtherEndpoint == \A e \in Endpoints : Other(e) \in Endpoints
BY DEF Other, Endpoints

\* A running session's slot names a relay.
LEMMA SlotIsRelay ==
    ASSUME Typed, SlotHeld, NEW t \in 1..Len(task), Running(t)
    PROVE  /\ task[t] \in TaskRec /\ task[t].ep \in Endpoints
           /\ slot[task[t].ep] \in Relays /\ slot[task[t].ep] # NoRelay
<1>1. task[t] \in TaskRec
  BY ElementOfSeq DEF Typed
<1>2. task[t].ep \in Endpoints
  BY <1>1 DEF TaskRec
<1>3. QED
  BY <1>1, <1>2 DEF Typed, SlotHeld

\* Signals leave through a relay, well formed.
LEMMA PublishTyped ==
    ASSUME Typed, SlotHeld, IdsBounded, NEW t \in 1..Len(task), Running(t),
           NEW kinds \in Seq({"offer", "answer", "cand", "done"}), Publish(t, kinds)
    PROVE  net' \in [Endpoints -> [Relays -> Seq(Signals)]]
<1> DEFINE e == task[t].ep
           sent == [i \in 1..Len(kinds) |->
                       [kind |-> kinds[i], from |-> t, re |-> task[t].remote]]
           o == Other(e)
           k == slot[e]
<1>1. o \in Endpoints /\ k \in Relays /\ task[t].remote \in Tasks \cup {NoTask}
  BY SlotIsRelay, OtherEndpoint DEF TaskRec
<1>2. t \in Tasks
  <2>1. Len(task) \in Nat /\ Len(task) <= MaxTasks /\ MaxTasks \in Nat
    BY LenProperties, UpgradeAssumption DEF Typed, IdsBounded
  <2>2. QED
    BY <2>1 DEF Tasks
<1>3. sent \in Seq(Signals)
  <2>1. Len(kinds) \in Nat /\ \A i \in 1..Len(kinds) : kinds[i] \in {"offer", "answer", "cand", "done"}
    BY LenProperties, ElementOfSeq
  <2>2. \A i \in 1..Len(kinds) :
          [kind |-> kinds[i], from |-> t, re |-> task[t].remote] \in Signals
    BY <1>1, <1>2, <2>1 DEF Signals
  <2>3. sent \in [1..Len(kinds) -> Signals]
    BY <2>2
  <2> HIDE DEF sent
  <2>4. QED
    BY <2>1, <2>3
<1>4. net \in [Endpoints -> [Relays -> Seq(Signals)]] /\ net[o] \in [Relays -> Seq(Signals)]
  BY <1>1 DEF Typed
<1>5. net[o][k] \o sent \in Seq(Signals)
  <2> HIDE DEF sent, o, k
  <2>1. net[o][k] \in Seq(Signals)
    BY <1>1, <1>4
  <2>2. QED
    BY <1>3, <2>1, ConcatProperties
<1>6. net' = [net EXCEPT ![o][k] = net[o][k] \o sent]
  BY DEF Publish
<1> HIDE DEF sent, o, k
<1>7. QED
  BY <1>1, <1>4, <1>5, <1>6

\* A signal leaves the network.
LEMMA TakeTyped ==
    ASSUME Typed, NEW e \in Endpoints, NEW k \in Relays, net[e][k] # <<>>,
           net' = [net EXCEPT ![e][k] = Tail(@)]
    PROVE  net' \in [Endpoints -> [Relays -> Seq(Signals)]] /\ Head(net[e][k]) \in Signals
<1>1. /\ net \in [Endpoints -> [Relays -> Seq(Signals)]] /\ net[e] \in [Relays -> Seq(Signals)]
      /\ net[e][k] \in Seq(Signals)
  BY DEF Typed
<1>2. Tail(net[e][k]) \in Seq(Signals) /\ Head(net[e][k]) \in Signals
  BY <1>1, HeadTailProperties
<1>3. net' = [net EXCEPT ![e][k] = Tail(net[e][k])]
  OBVIOUS
<1>4. QED
  BY <1>1, <1>2, <1>3

\* Filing a signal keeps the inbox within its cap.
LEMMA FileTyped ==
    ASSUME Typed, InboxBounded, NEW e \in Endpoints, NEW sig \in Signals,
           inbox' = [inbox EXCEPT ![e] = FileSignal(e, sig)]
    PROVE  inbox' \in [Endpoints -> Seq(Signals)] /\ InboxBounded'
<1>1. /\ inbox \in [Endpoints -> Seq(Signals)] /\ inbox[e] \in Seq(Signals)
      /\ Len(inbox[e]) \in Nat /\ INBOX_CAP \in Nat
  BY LenProperties, UpgradeAssumption DEF Typed
<1>2. FileSignal(e, sig) \in Seq(Signals) /\ Len(FileSignal(e, sig)) <= INBOX_CAP
  <2>1. Append(inbox[e], sig) \in Seq(Signals) /\ Len(Append(inbox[e], sig)) = Len(inbox[e]) + 1
    BY <1>1, AppendProperties
  <2>2. CASE Len(inbox[e]) < INBOX_CAP
    BY <1>1, <2>1, <2>2 DEF FileSignal
  <2>3. CASE ~(Len(inbox[e]) < INBOX_CAP)
    BY <1>1, <2>3 DEF FileSignal, InboxBounded
  <2>4. QED
    BY <2>2, <2>3
<1>3. QED
  BY <1>1, <1>2 DEF InboxBounded

\* So do reading one and dropping the inbox.
LEMMA ReadTyped ==
    ASSUME Typed, InboxBounded, NEW e \in Endpoints,
           \/ inbox' = inbox
           \/ inbox' = [inbox EXCEPT ![e] = <<>>]
           \/ inbox[e] # <<>> /\ inbox' = [inbox EXCEPT ![e] = Tail(@)]
    PROVE  inbox' \in [Endpoints -> Seq(Signals)] /\ InboxBounded'
<1>1. /\ inbox \in [Endpoints -> Seq(Signals)] /\ inbox[e] \in Seq(Signals)
      /\ Len(inbox[e]) \in Nat /\ INBOX_CAP \in Nat /\ Len(inbox[e]) <= INBOX_CAP
  BY LenProperties, UpgradeAssumption DEF Typed, InboxBounded
<1>2. <<>> \in Seq(Signals) /\ Len(<<>>) = 0
  BY EmptySeq
<1>3. inbox[e] # <<>> => Tail(inbox[e]) \in Seq(Signals) /\ Len(Tail(inbox[e])) = Len(inbox[e]) - 1
  BY <1>1, HeadTailProperties
<1>4. CASE inbox' = inbox
  BY <1>1, <1>4 DEF InboxBounded
<1>5. CASE inbox' = [inbox EXCEPT ![e] = <<>>]
  BY <1>1, <1>2, <1>5 DEF InboxBounded
<1>6. CASE inbox[e] # <<>> /\ inbox' = [inbox EXCEPT ![e] = Tail(inbox[e])]
  BY <1>1, <1>3, <1>6 DEF InboxBounded
<1>7. QED
  BY <1>4, <1>5, <1>6

-----------------------------------------------------------------------------
\* register_channel, by a session that still holds the slot: the new channel
\* has a fresh id and the route names it.
LEMMA RegisterKeeps ==
    ASSUME IInv, NEW e \in Endpoints, NEW f \in Relays, NEW v \in Relays,
           slot[e] # NoRelay, RegisterChannel(e, f, v)
    PROVE  /\ channels' \in [Endpoints -> SUBSET ChannelRec]
           /\ route' \in [Endpoints -> RouteRec]
           /\ lastId' = lastId \/ lastId' = [lastId EXCEPT ![e] = @ + 1]
           /\ \A g \in Endpoints : RouteCurrent(g)'
<1> DEFINE n == lastId[e] + 1
           c == [id |-> n, fallback |-> f, via |-> v]
<1>1. /\ channels \in [Endpoints -> SUBSET ChannelRec] /\ channels[e] \subseteq ChannelRec
      /\ route \in [Endpoints -> RouteRec] /\ lastId \in [Endpoints -> Nat]
  BY DEF IInv, Typed
<1>2. lastId[e] \in Nat /\ n \in Tasks
  <2>1. lastId[e] \in Nat /\ Len(task) \in Nat /\ MaxTasks \in Nat
    BY <1>1, LenProperties, UpgradeAssumption DEF IInv, Typed
  <2>2. n <= Len(task) /\ Len(task) <= MaxTasks
    BY DEF IInv, IdsBounded, Held
  <2>3. QED
    BY <2>1, <2>2 DEF Tasks
<1>3. CASE closed[e]
  <2>1. channels' = channels /\ lastId' = lastId /\ route' = route
    BY <1>3 DEF RegisterChannel
  <2>2. \A g \in Endpoints : RouteCurrent(g)'
    BY <2>1 DEF IInv, RouteCurrent
  <2>3. QED
    BY <1>1, <2>1, <2>2
<1>4. CASE ~closed[e]
  <2>1. /\ lastId' = [lastId EXCEPT ![e] = n]
        /\ channels' = [channels EXCEPT ![e] = channels[e] \cup {c}]
        /\ route' = [route EXCEPT ![e] = ToChannel(n)]
    BY <1>4 DEF RegisterChannel
  <2>2. c \in ChannelRec /\ c.id = n /\ ToChannel(n) \in RouteRec
        /\ ToChannel(n).wire = "channel" /\ ToChannel(n).id = n
    BY <1>2 DEF ChannelRec, RouteRec, ToChannel
  <2>3. \A d \in channels[e] : d.id <= lastId[e] /\ d.id \in Nat
    <3>1. \A d \in channels[e] : d.id \in Tasks
      BY <1>1 DEF ChannelRec
    <3>2. Tasks \subseteq Nat
      BY UpgradeAssumption DEF Tasks
    <3>3. QED
      BY <3>1, <3>2 DEF IInv, RouteCurrent
  <2>4. \A d \in channels[e] : d.id # n
    BY <1>2, <2>3
  <2> HIDE DEF c, n
  <2>5. /\ channels'[e] = channels[e] \cup {c} /\ route'[e] = ToChannel(n) /\ lastId'[e] = n
        /\ \A g \in Endpoints : g # e =>
              channels'[g] = channels[g] /\ route'[g] = route[g] /\ lastId'[g] = lastId[g]
    BY <1>1, <2>1
  <2>6. RouteCurrent(e)'
    <3>1. \A x, y \in channels'[e] : x.id = y.id => x = y
      BY <2>2, <2>4, <2>5 DEF IInv, RouteCurrent
    <3>2. \A x \in channels'[e] : x.id <= lastId'[e]
      BY <1>2, <2>2, <2>3, <2>5 DEF n
    <3>3. \E x \in channels'[e] : x.id = route'[e].id
      BY <2>2, <2>5
    <3>4. \A x \in channels'[e] : x.id = lastId'[e] => route'[e] = ToChannel(x.id)
      BY <2>2, <2>4, <2>5
    <3>5. QED
      BY <3>1, <3>2, <3>3, <3>4 DEF RouteCurrent
  <2>7. \A g \in Endpoints : g # e => RouteCurrent(g)'
    BY <2>5 DEF IInv, RouteCurrent
  <2>8. channels' \in [Endpoints -> SUBSET ChannelRec] /\ route' \in [Endpoints -> RouteRec]
    BY <1>1, <2>1, <2>2
  <2>9. lastId' = [lastId EXCEPT ![e] = @ + 1]
    BY <2>1 DEF n
  <2>10. QED
    BY <2>6, <2>7, <2>8, <2>9
<1>5. QED
  BY <1>3, <1>4

\* retire_channel: the route leaves the channel that died, and no other.
LEMMA RetireKeeps ==
    ASSUME IInv, NEW e \in Endpoints, NEW ch \in channels[e], ChannelDies(e, ch)
    PROVE  /\ channels' \in [Endpoints -> SUBSET ChannelRec]
           /\ route' \in [Endpoints -> RouteRec]
           /\ \A g \in Endpoints : RouteCurrent(g)'
<1>1. /\ channels \in [Endpoints -> SUBSET ChannelRec] /\ channels[e] \subseteq ChannelRec
      /\ route \in [Endpoints -> RouteRec] /\ route[e] \in RouteRec
  BY DEF IInv, Typed
<1>2. /\ channels' = [channels EXCEPT ![e] = channels[e] \ {ch}]
      /\ route' = [route EXCEPT ![e] = RouteWithout(e, ch)] /\ lastId' = lastId
  BY DEF ChannelDies
<1>3. /\ channels'[e] = channels[e] \ {ch} /\ route'[e] = RouteWithout(e, ch)
      /\ \A g \in Endpoints : g # e => channels'[g] = channels[g] /\ route'[g] = route[g]
  BY <1>1, <1>2
<1>4. RouteCurrent(e)
  BY DEF IInv
<1>5. CASE route[e] = ToChannel(ch.id)
  <2>1. route'[e] = ToRelay(ch.fallback)
    BY <1>3, <1>5 DEF RouteWithout
  <2>2. ToRelay(ch.fallback) \in RouteRec /\ ToRelay(ch.fallback).wire = "relay"
    BY <1>1 DEF ChannelRec, RouteRec, ToRelay
  <2>3. \A d \in channels'[e] : d.id # lastId[e]
    <3>1. \A d \in channels[e] : d.id = lastId[e] => route[e] = ToChannel(d.id)
      BY <1>4 DEF RouteCurrent
    <3>2. \A d \in channels[e] : ToChannel(d.id) = ToChannel(ch.id) => d.id = ch.id
      BY DEF ToChannel
    <3>3. QED
      BY <1>3, <1>4, <1>5, <3>1, <3>2 DEF RouteCurrent
  <2>4. RouteCurrent(e)'
    BY <1>2, <1>3, <1>4, <2>1, <2>2, <2>3 DEF RouteCurrent
  <2>5. route' \in [Endpoints -> RouteRec]
    BY <1>1, <1>2, <1>3, <2>1, <2>2
  <2>6. QED
    BY <1>1, <1>2, <1>3, <2>4, <2>5 DEF IInv, RouteCurrent
<1>6. CASE route[e] # ToChannel(ch.id)
  <2>1. route'[e] = route[e]
    BY <1>3, <1>6 DEF RouteWithout
  <2>2. route[e].wire = "channel" => route[e] = ToChannel(route[e].id)
    BY <1>1 DEF RouteRec, ToChannel
  <2>3. RouteCurrent(e)'
    BY <1>2, <1>3, <1>4, <1>6, <2>1, <2>2 DEF RouteCurrent
  <2>4. route' \in [Endpoints -> RouteRec]
    BY <1>1, <1>2, <1>3, <2>1
  <2>5. QED
    BY <1>1, <1>2, <1>3, <2>3, <2>4 DEF IInv, RouteCurrent
<1>7. QED
  BY <1>5, <1>6

\* A dial moves a route only between relays.
LEMMA RedialKeeps ==
    ASSUME IInv, NEW e \in Endpoints, NEW d \in Relays,
           route' = [route EXCEPT ![e] = IF @.wire = "relay" THEN ToRelay(d) ELSE @],
           channels' = channels, lastId' = lastId
    PROVE  route' \in [Endpoints -> RouteRec] /\ \A g \in Endpoints : RouteCurrent(g)'
<1>1. route \in [Endpoints -> RouteRec] /\ route[e] \in RouteRec
  BY DEF IInv, Typed
<1>2. ToRelay(d) \in RouteRec /\ ToRelay(d).wire = "relay"
  BY DEF RouteRec, ToRelay
<1>3. CASE route[e].wire = "relay"
  <2>1. route' = [route EXCEPT ![e] = ToRelay(d)]
    BY <1>3
  <2>2. route'[e] = ToRelay(d) /\ \A g \in Endpoints : g # e => route'[g] = route[g]
    BY <1>1, <2>1
  <2>3. \A i : ToChannel(i).wire = "channel"
    BY DEF ToChannel
  <2>4. \A c \in channels[e] : c.id # lastId[e]
    BY <1>3, <2>3 DEF IInv, RouteCurrent
  <2>5. RouteCurrent(e)'
    BY <1>2, <2>2, <2>4 DEF IInv, RouteCurrent
  <2>6. QED
    BY <1>1, <1>2, <2>1, <2>2, <2>5 DEF IInv, RouteCurrent
<1>4. CASE route[e].wire # "relay"
  <2>1. route' = [route EXCEPT ![e] = route[e]]
    BY <1>4
  <2>2. \A g \in Endpoints : route'[g] = route[g]
    BY <1>1, <2>1
  <2>3. QED
    BY <1>1, <2>1, <2>2 DEF IInv, RouteCurrent
<1>5. QED
  BY <1>3, <1>4

-----------------------------------------------------------------------------
\* What a session's step says of channels and routes when it registers none.
NoChannel == channels' = channels /\ lastId' = lastId /\ route' = route

\* A step without a channel keeps their invariant.
LEMMA NoChannelKeeps ==
    ASSUME IInv, NoChannel PROVE \A g \in Endpoints : RouteCurrent(g)'
BY DEF IInv, NoChannel, RouteCurrent

\* A session that gives up ends, and its slot and inbox with it.
LEMMA FailStep ==
    ASSUME IInv, NEW t \in 1..Len(task), Running(t), Fail(t), NoChannel,
           faults' = faults, closed' = closed, net' = net
    PROVE  IInv'
<1> DEFINE r == [task[t] EXCEPT !.pc = "failed"]
<1>1. task[t] \in TaskRec /\ task[t].ep \in Endpoints
  BY SlotIsRelay DEF IInv
<1>2. r \in TaskRec /\ r.ep = task[t].ep /\ r.pc = "failed"
  BY <1>1 DEF TaskRec, Steps, HostCalls
<1>3. task' = [task EXCEPT ![t] = r]
  BY DEF Fail, Goto
<1>4. slot' = [slot EXCEPT ![r.ep] = NoRelay] /\ inbox' = [inbox EXCEPT ![task[t].ep] = <<>>]
  BY <1>2 DEF Fail, EndSignaling
<1> HIDE DEF r
<1>5. Replaced(t, r)
  BY <1>2, <1>3, SetTask DEF IInv
<1>6. SlotHeld' /\ IdsBounded' /\ task' \in Seq(TaskRec) /\ slot' \in [Endpoints -> Relays \cup {NoRelay}]
  BY <1>2, <1>4, <1>5, EndKeeps DEF IInv, NoChannel
<1>7. inbox' \in [Endpoints -> Seq(Signals)] /\ InboxBounded'
  BY <1>1, <1>4, ReadTyped DEF IInv
<1>8. QED
  BY <1>6, <1>7, NoChannelKeeps DEF IInv, Typed, NoChannel

\* A session moves on without touching its slot.
LEMMA MoveStep ==
    ASSUME IInv, NEW t \in 1..Len(task), Running(t), NEW r \in TaskRec,
           r.ep = task[t].ep, r.pc \notin {"won", "failed"},
           task' = [task EXCEPT ![t] = r], NoChannel,
           faults' = faults, closed' = closed, slot' = slot,
           net' \in [Endpoints -> [Relays -> Seq(Signals)]],
           inbox' \in [Endpoints -> Seq(Signals)], InboxBounded'
    PROVE  IInv'
<1>1. Replaced(t, r)
  BY SetTask DEF IInv
<1>2. SlotHeld' /\ IdsBounded' /\ task' \in Seq(TaskRec)
  BY <1>1, MoveKeeps DEF IInv, NoChannel
<1>3. QED
  BY <1>2, NoChannelKeeps DEF IInv, Typed, NoChannel

\* A session wins: its channel is registered and its slot and inbox go.
LEMMA WinStep ==
    ASSUME IInv, NEW t \in 1..Len(task), Running(t), NEW f \in Relays,
           Goto(t, "won"), EndSignaling(task[t].ep),
           RegisterChannel(task[t].ep, f, task[t].via),
           faults' = faults, closed' = closed, net' = net
    PROVE  IInv'
<1> DEFINE r == [task[t] EXCEPT !.pc = "won"]
           e == task[t].ep
<1>1. task[t] \in TaskRec /\ e \in Endpoints /\ task[t].via \in Relays /\ slot[e] # NoRelay
  BY SlotIsRelay DEF IInv, TaskRec
<1>2. r \in TaskRec /\ r.ep = e /\ r.pc = "won"
  BY <1>1 DEF TaskRec, Steps, HostCalls
<1>3. task' = [task EXCEPT ![t] = r]
  BY DEF Goto
<1>4. slot' = [slot EXCEPT ![e] = NoRelay] /\ inbox' = [inbox EXCEPT ![e] = <<>>]
  BY DEF EndSignaling
<1>5. /\ channels' \in [Endpoints -> SUBSET ChannelRec]
      /\ route' \in [Endpoints -> RouteRec]
      /\ lastId' = lastId \/ lastId' = [lastId EXCEPT ![e] = @ + 1]
      /\ \A g \in Endpoints : RouteCurrent(g)'
  BY <1>1, RegisterKeeps
<1> HIDE DEF r, e
<1>6. Replaced(t, r)
  BY <1>2, <1>3, SetTask DEF IInv
<1>7. /\ SlotHeld' /\ IdsBounded' /\ task' \in Seq(TaskRec)
      /\ slot' \in [Endpoints -> Relays \cup {NoRelay}] /\ lastId' \in [Endpoints -> Nat]
  BY <1>2, <1>4, <1>5, <1>6, EndKeeps DEF IInv, e
<1>8. inbox' \in [Endpoints -> Seq(Signals)] /\ InboxBounded'
  BY <1>1, <1>4, ReadTyped DEF IInv
<1>9. QED
  BY <1>5, <1>7, <1>8 DEF IInv, Typed

\* Every step of a session keeps the invariant.
LEMMA SessionStep ==
    ASSUME IInv, NEW t \in 1..Len(task), Session(t) PROVE IInv'
<1>1. task[t] \in TaskRec
  BY ElementOfSeq DEF IInv, Typed
<1>2. Running(t)
  BY DEF Session, HostAnswers, Describe, Candidates, Applied, Consume, Abandon, OffererOpens,
         AnswererOpens, HostFails, HostCalls, Running
<1>3. task[t].ep \in Endpoints /\ slot[task[t].ep] \in Relays
  BY <1>2, SlotIsRelay DEF IInv
<1>4. CASE Describe(t)
  <2> DEFINE r == [task[t] EXCEPT !.pc = "candidates"]
             k == <<IF task[t].role = "offerer" THEN "offer" ELSE "answer">>
  <2>1. r \in TaskRec /\ r.ep = task[t].ep /\ r.pc = "candidates"
    BY <1>1 DEF TaskRec, Steps, HostCalls
  <2>2. k \in Seq({"offer", "answer", "cand", "done"})
    OBVIOUS
  <2>3. /\ task' = [task EXCEPT ![t] = r] /\ NoChannel
        /\ faults' = faults /\ closed' = closed /\ slot' = slot /\ inbox' = inbox
        /\ Publish(t, k)
    BY <1>4 DEF Describe, Goto, NoChannel
  <2> HIDE DEF r, k
  <2>4. net' \in [Endpoints -> [Relays -> Seq(Signals)]]
    BY <1>2, <2>2, <2>3, PublishTyped DEF IInv
  <2>5. inbox' \in [Endpoints -> Seq(Signals)] /\ InboxBounded'
    BY <2>3 DEF IInv, Typed, InboxBounded
  <2>6. QED
    BY <1>2, <2>1, <2>3, <2>4, <2>5, MoveStep
<1>5. CASE Candidates(t)
  <2> DEFINE r == [task[t] EXCEPT !.pc = "consume"]
             k == <<"cand", "done">>
  <2>1. r \in TaskRec /\ r.ep = task[t].ep /\ r.pc = "consume"
    BY <1>1 DEF TaskRec, Steps, HostCalls
  <2>2. k \in Seq({"offer", "answer", "cand", "done"})
    OBVIOUS
  <2>3. /\ task' = [task EXCEPT ![t] = r] /\ NoChannel
        /\ faults' = faults /\ closed' = closed /\ slot' = slot /\ inbox' = inbox
        /\ Publish(t, k)
    BY <1>5 DEF Candidates, Goto, NoChannel
  <2> HIDE DEF r, k
  <2>4. net' \in [Endpoints -> [Relays -> Seq(Signals)]]
    BY <1>2, <2>2, <2>3, PublishTyped DEF IInv
  <2>5. inbox' \in [Endpoints -> Seq(Signals)] /\ InboxBounded'
    BY <2>3 DEF IInv, Typed, InboxBounded
  <2>6. QED
    BY <1>2, <2>1, <2>3, <2>4, <2>5, MoveStep
<1>6. CASE Consume(t)
  <2> DEFINE e == task[t].ep
             sig == Head(inbox[e])
             to == Apply(t, sig)
             m == IF sig.kind \in {"offer", "answer"} THEN sig.from ELSE task[t].remote
             r == [task[t] EXCEPT !.pc = to, !.remote = m]
  <2>1. /\ NoChannel /\ faults' = faults /\ closed' = closed /\ net' = net
        /\ inbox[e] # <<>>
    BY <1>6 DEF Consume, NoChannel
  <2>2. CASE to = "failed"
    <3>1. Fail(t)
      BY <1>6, <2>2 DEF Consume
    <3>2. QED
      BY <1>2, <2>1, <3>1, FailStep
  <2>3. CASE to # "failed"
    <3>1. sig \in Signals
      BY <1>3, <2>1, HeadTailProperties DEF IInv, Typed
    <3>2. to \in {"describe", "apply", "connect"}
      BY <2>3 DEF Apply
    <3>3. m \in Tasks \cup {NoTask}
      BY <1>1, <3>1 DEF Signals, TaskRec
    <3>4. task' = [task EXCEPT ![t] = r] /\ slot' = slot /\ inbox' = [inbox EXCEPT ![e] = Tail(@)]
      BY <1>6, <2>3 DEF Consume
    <3> HIDE DEF to, m, sig
    <3>5. r \in TaskRec /\ r.ep = task[t].ep /\ r.pc = to
      BY <1>1, <3>2, <3>3 DEF TaskRec, Steps, HostCalls
    <3> HIDE DEF r
    <3>6. inbox' \in [Endpoints -> Seq(Signals)] /\ InboxBounded'
      BY <1>3, <2>1, <3>4, ReadTyped DEF IInv
    <3>7. net' \in [Endpoints -> [Relays -> Seq(Signals)]]
      BY <2>1 DEF IInv, Typed
    <3>8. QED
      BY <1>2, <2>1, <3>2, <3>4, <3>5, <3>6, <3>7, MoveStep
  <2>4. QED
    BY <2>2, <2>3
<1>7. CASE Abandon(t)
  BY <1>2, <1>7, FailStep DEF Abandon, NoChannel
<1>8. CASE OffererOpens(t)
  BY <1>2, <1>8, WinStep, UpgradeAssumption DEF OffererOpens
<1>9. CASE AnswererOpens(t)
  BY <1>2, <1>3, <1>9, WinStep DEF AnswererOpens
<1>10. CASE HostFails(t)
  BY <1>2, <1>10, FailStep DEF HostFails, NoChannel
<1>11. CASE Applied(t)
  <2> DEFINE r == [task[t] EXCEPT !.pc = "consume"]
  <2>1. r \in TaskRec /\ r.ep = task[t].ep /\ r.pc = "consume"
    BY <1>1 DEF TaskRec, Steps
  <2>2. /\ task' = [task EXCEPT ![t] = r] /\ NoChannel
        /\ faults' = faults /\ closed' = closed /\ slot' = slot /\ inbox' = inbox /\ net' = net
    BY <1>11 DEF Applied, Goto, NoChannel
  <2> HIDE DEF r
  <2>3. /\ net' \in [Endpoints -> [Relays -> Seq(Signals)]]
        /\ inbox' \in [Endpoints -> Seq(Signals)] /\ InboxBounded'
    BY <2>2 DEF IInv, Typed, InboxBounded
  <2>4. QED
    BY <1>2, <2>1, <2>2, <2>3, MoveStep
<1>12. QED
  BY <1>4, <1>5, <1>6, <1>7, <1>8, <1>9, <1>10, <1>11 DEF Session, HostAnswers

\* A dial with a hint.
LEMMA UpgradeStep ==
    ASSUME IInv, NEW e \in Endpoints, NEW d \in Relays, NEW k \in Relays, Upgrade(e, d, k)
    PROVE  IInv'
<1>1. /\ channels' = channels /\ lastId' = lastId /\ faults' = faults /\ closed' = closed
      /\ inbox' = inbox /\ net' = net /\ Len(task) < MaxTasks
      /\ route' = [route EXCEPT ![e] = IF @.wire = "relay" THEN ToRelay(d) ELSE @]
  BY DEF Upgrade
<1>2. route' \in [Endpoints -> RouteRec] /\ \A g \in Endpoints : RouteCurrent(g)'
  BY <1>1, RedialKeeps
<1>3. /\ SlotHeld' /\ IdsBounded' /\ task' \in Seq(TaskRec)
      /\ slot' \in [Endpoints -> Relays \cup {NoRelay}]
  <2>1. CASE slot[e] # NoRelay
    <3>1. slot' = slot /\ task' = task
      BY <2>1 DEF Upgrade
    <3>2. QED
      BY <1>1, <3>1 DEF IInv, Typed, SlotHeld, IdsBounded, Held, Running
  <2>2. CASE slot[e] = NoRelay
    <3> DEFINE r == [ep |-> e, role |-> "offerer", via |-> k, pc |-> "describe", remote |-> NoTask]
    <3>1. slot' = [slot EXCEPT ![e] = k] /\ task' = Append(task, r)
      BY <2>2 DEF Upgrade, NewTask
    <3>2. r \in TaskRec /\ r.ep = e /\ r.pc \notin {"won", "failed"}
      BY DEF TaskRec, Steps, HostCalls
    <3> HIDE DEF r
    <3>3. Appended(r)
      BY <3>1, <3>2, AppendTask DEF IInv
    <3>4. QED
      BY <1>1, <2>2, <3>1, <3>2, <3>3, StartKeeps DEF IInv
  <2>3. QED
    BY <2>1, <2>2
<1>4. QED
  BY <1>1, <1>2, <1>3 DEF IInv, Typed, InboxBounded

\* A signal arrives.
LEMMA SignalStep ==
    ASSUME IInv, NEW e \in Endpoints, NEW k \in Relays, HandleSignal(e, k)
    PROVE  IInv'
<1>1. /\ NoChannel /\ faults' = faults /\ closed' = closed
      /\ net[e][k] # <<>> /\ net' = [net EXCEPT ![e][k] = Tail(@)]
  BY DEF HandleSignal, NoChannel
<1>2. net' \in [Endpoints -> [Relays -> Seq(Signals)]] /\ Head(net[e][k]) \in Signals
  BY <1>1, TakeTyped DEF IInv
<1>3. /\ inbox' \in [Endpoints -> Seq(Signals)] /\ InboxBounded'
      /\ SlotHeld' /\ IdsBounded' /\ task' \in Seq(TaskRec)
      /\ slot' \in [Endpoints -> Relays \cup {NoRelay}]
  <2>1. CASE closed[e]
    BY <1>1, <2>1, ZenonT(60) DEF HandleSignal, IInv, Typed, InboxBounded, SlotHeld, IdsBounded, Held,
                      Running, NoChannel
  <2>2. CASE ~closed[e]
    <3>1. inbox' = [inbox EXCEPT ![e] = FileSignal(e, Head(net[e][k]))]
      BY <2>2 DEF HandleSignal
    <3>2. inbox' \in [Endpoints -> Seq(Signals)] /\ InboxBounded'
      BY <1>2, <3>1, FileTyped DEF IInv
    <3>3. CASE slot[e] # NoRelay
      <4>1. slot' = slot /\ task' = task
        BY <2>2, <3>3 DEF HandleSignal
      <4>2. QED
        BY <1>1, <3>2, <4>1 DEF IInv, Typed, SlotHeld, IdsBounded, Held, Running, NoChannel
    <3>4. CASE slot[e] = NoRelay
      <4> DEFINE r == [ep |-> e, role |-> "answerer", via |-> k, pc |-> "offer?", remote |-> NoTask]
      <4>1. slot' = [slot EXCEPT ![e] = k] /\ task' = Append(task, r) /\ Len(task) < MaxTasks
        BY <2>2, <3>4 DEF HandleSignal, NewTask
      <4>2. r \in TaskRec /\ r.ep = e /\ r.pc \notin {"won", "failed"}
        BY DEF TaskRec, Steps, HostCalls
      <4> HIDE DEF r
      <4>3. Appended(r)
        BY <4>1, <4>2, AppendTask DEF IInv
      <4>4. QED
        BY <1>1, <3>2, <3>4, <4>1, <4>2, <4>3, StartKeeps DEF IInv, NoChannel
    <3>5. QED
      BY <3>3, <3>4
  <2>3. QED
    BY <2>1, <2>2
<1>4. QED
  BY <1>1, <1>2, <1>3, NoChannelKeeps DEF IInv, Typed, NoChannel

-----------------------------------------------------------------------------
\* The endpoints start idle.
LEMMA InitIInv == Init => IInv
<1> SUFFICES ASSUME Init PROVE IInv
  OBVIOUS
<1>1. /\ task = <<>> /\ <<>> \in Seq(TaskRec) /\ <<>> \in Seq(Signals)
      /\ Len(task) = 0 /\ 0 \in Nat
  BY EmptySeq DEF Init
<1>2. HOME_RELAY \in Relays /\ MaxTasks \in Nat /\ INBOX_CAP \in Nat
  BY UpgradeAssumption
<1>3. ToRelay(HOME_RELAY) \in RouteRec /\ ToRelay(HOME_RELAY).wire = "relay"
  BY <1>2 DEF ToRelay, RouteRec
<1>4. Typed
  BY <1>1, <1>3 DEF Typed, Init
<1>5. InboxBounded
  BY <1>2, EmptySeq DEF InboxBounded, Init
<1>6. SlotHeld
  BY <1>1 DEF SlotHeld, Init
<1>7. IdsBounded
  BY <1>1, <1>2 DEF IdsBounded, Held, Init
<1>8. \A e \in Endpoints : RouteCurrent(e)
  BY <1>3 DEF RouteCurrent, Init
<1>9. QED
  BY <1>4, <1>5, <1>6, <1>7, <1>8 DEF IInv

\* Every step keeps the invariant.
LEMMA IInvStep == IInv /\ [Next]_vars => IInv'
<1> SUFFICES ASSUME IInv, [Next]_vars PROVE IInv'
  OBVIOUS
<1>1. CASE \E e \in Endpoints, d, k \in Relays : Upgrade(e, d, k)
  BY <1>1, UpgradeStep
<1>2. CASE \E e \in Endpoints, k \in Relays : HandleSignal(e, k)
  BY <1>2, SignalStep
<1>3. CASE \E e \in Endpoints, k \in Relays : Lose(e, k)
  <2>1. PICK e \in Endpoints, k \in Relays : Lose(e, k)
    BY <1>3
  <2>2. NoChannel /\ faults' = faults /\ closed' = closed /\ slot' = slot
        /\ inbox' = inbox /\ task' = task
    BY <2>1 DEF Lose, NoChannel
  <2>3. net' \in [Endpoints -> [Relays -> Seq(Signals)]]
    BY <2>1, TakeTyped DEF Lose, IInv
  <2>4. QED
    BY <2>2, <2>3, NoChannelKeeps
       DEF IInv, Typed, InboxBounded, SlotHeld, IdsBounded, Held, Running, NoChannel
<1>4. CASE \E t \in 1..Len(task) : Session(t)
  BY <1>4, SessionStep
<1>5. CASE \E e \in Endpoints : \E ch \in channels[e] : ChannelDies(e, ch)
  <2>1. PICK e \in Endpoints : \E ch \in channels[e] : ChannelDies(e, ch)
    BY <1>5
  <2>2. PICK ch \in channels[e] : ChannelDies(e, ch)
    BY <2>1
  <2>3. /\ channels' \in [Endpoints -> SUBSET ChannelRec] /\ route' \in [Endpoints -> RouteRec]
        /\ \A g \in Endpoints : RouteCurrent(g)'
    BY <2>2, RetireKeeps
  <2>4. QED
    BY <2>2, <2>3
       DEF IInv, Typed, InboxBounded, SlotHeld, IdsBounded, Held, Running, ChannelDies
<1>6. CASE \E e \in Endpoints : Close(e)
  <2>1. PICK e \in Endpoints : Close(e)
    BY <1>6
  <2>2. closed' \in [Endpoints -> BOOLEAN]
    BY <2>1 DEF Close, IInv, Typed
  <2>3. NoChannel
    BY <2>1 DEF Close, NoChannel
  <2>4. QED
    BY <2>1, <2>2, <2>3, NoChannelKeeps
       DEF IInv, Typed, InboxBounded, SlotHeld, IdsBounded, Held, Running, Close
<1>7. CASE UNCHANGED vars
  <2>1. NoChannel
    BY <1>7 DEF vars, NoChannel
  <2>2. QED
    BY <1>7, <2>1, NoChannelKeeps
       DEF IInv, Typed, InboxBounded, SlotHeld, IdsBounded, Held, Running, vars
<1>8. QED
  BY <1>1, <1>2, <1>3, <1>4, <1>5, <1>6, <1>7 DEF Next

\* The inductive invariant holds in every behaviour.
LEMMA Inductive == Spec => []IInv
BY InitIInv, IInvStep, PTL DEF Spec

-----------------------------------------------------------------------------
\* Every variable keeps its type: in particular an inbox never outgrows
\* INBOX_CAP, and a route names a relay or a channel id that was given out.
THEOREM TypeCorrect == Spec => []TypeOK
<1>1. IInv => TypeOK
  <2> SUFFICES ASSUME IInv PROVE TypeOK
    OBVIOUS
  <2>1. /\ faults \in BOOLEAN /\ closed \in [Endpoints -> BOOLEAN]
        /\ slot \in [Endpoints -> Relays \cup {NoRelay}]
        /\ route \in [Endpoints -> RouteRec] /\ task \in Seq(TaskRec) /\ Len(task) <= MaxTasks
    BY DEF IInv, Typed, IdsBounded
  <2>2. \A e \in Endpoints : inbox[e] \in Seq(Signals) /\ Len(inbox[e]) <= INBOX_CAP
    BY DEF IInv, Typed, InboxBounded
  <2>3. \A e \in Endpoints, k \in Relays : net[e][k] \in Seq(Signals)
    BY DEF IInv, Typed
  <2>4. \A e \in Endpoints : channels[e] \subseteq
          [id : Tasks, fallback : Relays \cup {NoRelay}, via : Relays]
    <3>1. \A e \in Endpoints : channels[e] \subseteq ChannelRec
      BY DEF IInv, Typed
    <3>2. QED
      BY <3>1 DEF ChannelRec
  <2>5. lastId \in [Endpoints -> 0..MaxTasks]
    <3>1. lastId \in [Endpoints -> Nat] /\ Len(task) \in Nat /\ MaxTasks \in Nat
      BY LenProperties, UpgradeAssumption DEF IInv, Typed
    <3>2. \A e \in Endpoints : lastId[e] \in 0..MaxTasks
      BY <3>1 DEF IInv, IdsBounded, Held
    <3>3. QED
      BY <3>1, <3>2
  <2>6. QED
    BY <2>1, <2>2, <2>3, <2>4, <2>5 DEF TypeOK, TaskRec, RouteRec
<1>2. QED
  BY <1>1, Inductive, PTL

\* begin_signaling, handle_signal and the drop of SessionGuard keep the slot
\* and the session task together: a slot is claimed exactly while one session
\* of its endpoint runs, whatever fails, is lost or is closed.
THEOREM OneSession == Spec => []OneSessionPerPeer
<1>1. IInv => OneSessionPerPeer
  <2> SUFFICES ASSUME IInv, NEW e \in Endpoints
               PROVE  Cardinality({t \in 1..Len(task) : task[t].ep = e /\ Running(t)})
                         = IF slot[e] = NoRelay THEN 0 ELSE 1
    BY DEF OneSessionPerPeer
  <2> DEFINE active == {t \in 1..Len(task) : task[t].ep = e /\ Running(t)}
  <2>1. CASE slot[e] = NoRelay
    <3>1. active = {}
      BY <2>1 DEF IInv, SlotHeld
    <3>2. QED
      BY <2>1, <3>1, FS_EmptySet
  <2>2. CASE slot[e] # NoRelay
    <3>1. PICK t \in 1..Len(task) : task[t].ep = e /\ Running(t)
      BY <2>2 DEF IInv, SlotHeld
    <3>2. active = {t}
      BY <3>1 DEF IInv, SlotHeld
    <3>3. QED
      BY <2>2, <3>2, FS_Singleton
  <2>3. QED
    BY <2>1, <2>2
<1>2. QED
  BY <1>1, Inductive, PTL

\* register_channel and retire_channel keep the route on a channel that is up,
\* and on the newest one while that is up.
THEOREM RouteCorrect == Spec => []RouteFollowsChannels
<1>1. IInv => RouteFollowsChannels
  BY DEF IInv, RouteCurrent, RouteFollowsChannels
<1>2. QED
  BY <1>1, Inductive, PTL
=============================================================================
