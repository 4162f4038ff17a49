-------------------------- MODULE Connections_proofs --------------------------
(***************************************************************************)
(* The connection table, proved for any slots, peers, dialers, number of   *)
(* connections and backlog: a connection has at most one owner, is closed  *)
(* only by its own, is never left without one while it is established, and *)
(* the ones that wait for an acceptor stay within the backlog.             *)
(*                                                                         *)
(* The invariant is about epochs.  An epoch is given out once and belongs  *)
(* to one slot, so a holder whose epoch is the slot's holds that very      *)
(* connection; the entry then says whether the holder may be a dial, the   *)
(* queue or a resource.                                                    *)
(***************************************************************************)
EXTENDS Connections, SequenceTheorems, FiniteSetTheorems, WellFoundedInduction, TLAPS

LessThan == OpToRel(<, Nat)

\* A non-empty set of natural numbers has a minimal element ...
LEMMA Minimal ==
    ASSUME NEW T, T \subseteq Nat, T # {}
    PROVE  \E x \in T : \A y \in T : ~(<<y, x>> \in LessThan)
<1>1. IsWellFoundedOn(LessThan, Nat)
  BY NatLessThanWellFounded DEF LessThan
<1>2. QED
  BY <1>1, WFMin

\* ... which is its least: the first queue entry that accept can use exists.
LEMMA Least ==
    ASSUME NEW T, T \subseteq Nat, T # {}
    PROVE  \E i \in T : \A j \in T : i <= j
<1>1. PICK i \in T : \A j \in T : ~(<<j, i>> \in LessThan)
  BY Minimal
<1>2. \A x, y \in Nat : x < y => <<x, y>> \in LessThan
  BY DEF LessThan, OpToRel
<1>3. \A j \in T : j \in Nat /\ i \in Nat /\ ~(j < i)
  BY <1>1, <1>2
<1>4. QED
  BY <1>3
-----------------------------------------------------------------------------
Conn == Slots \X Epochs

\* The types, without the bound on the queue.
Typed ==
    /\ closed \in BOOLEAN
    /\ conns \in [Slots -> Entry]
    /\ nextEpoch \in 0..MaxEpochs
    /\ queue \in Seq(Conn)
    /\ dial \in [Dialers -> Conn \cup {NoDial}]
    /\ res \subseteq Conn
    /\ minted \in [Epochs -> Nat]
    /\ asked \subseteq Epochs

\* What an entry's fields say of each other.
Sound(x) ==
    /\ x.epoch = NoEpoch <=> x.phase = "vacant"
    /\ x.phase = "vacant" => ~x.connected
    /\ x.phase = "handshaking" => ~x.connected
    /\ x.phase = "established" => x.connected
    /\ x.phase \in {"handshaking", "established"} => x.error = "none" /\ ~x.drained
    /\ x.phase = "drained" => x.drained
    /\ x.connected => x.peer # AnyPeer /\ x.expected \in {AnyPeer, x.peer}

\* The holders of a connection: the accept queue, a parked dial, a resource.
Queued(c) == \E i \in 1..Len(queue) : queue[i] = c
Dialed(c) == \E d \in Dialers : dial[d] = c
Claims(c) == Queued(c) \/ Dialed(c) \/ c \in res

\* Epochs are given out once, so an epoch belongs to one slot for ever.
Fresh ==
    /\ \A s \in Slots : conns[s].epoch < nextEpoch
    /\ \A c \in Conn : Claims(c) => c[2] < nextEpoch
    /\ \A e \in Epochs : e >= nextEpoch => minted[e] = 0
    /\ \A s, t \in Slots : conns[s].epoch = conns[t].epoch => s = t \/ conns[s].epoch = NoEpoch
    /\ \A c \in Conn, s \in Slots : Claims(c) /\ conns[s].epoch = c[2] => s = c[1]

\* A connection waits for delivery in one place, and was not delivered yet.
Once ==
    /\ \A i, j \in 1..Len(queue) : queue[i][2] = queue[j][2] => i = j
    /\ \A d, f \in Dialers : dial[d] # NoDial /\ dial[f] # NoDial /\ dial[d][2] = dial[f][2] => d = f
    /\ \A c, g \in Conn : Queued(c) /\ Dialed(g) => c[2] # g[2]
    /\ \A c \in Conn : Queued(c) \/ Dialed(c) => minted[c[2]] = 0
    /\ \A e \in Epochs : minted[e] <= 1
    /\ \A c \in res : minted[c[2]] = 1

\* What the entry of the connection in slot s with epoch e says of its holder.
KeptAt(s, e) ==
    LET x == conns[s]
        c == <<s, e>>
    IN x.epoch = e =>
        /\ Queued(c) => x.connected /\ x.accepted_side
        /\ Dialed(c) => ~x.accepted_side
        /\ c \in res => x.connected
        /\ x.phase = "handshaking" /\ x.accepted_side => minted[e] = 0
        /\ x.phase = "handshaking" /\ ~x.accepted_side => Dialed(c)
        /\ x.phase = "established" => Claims(c)
Kept == \A s \in Slots, e \in Epochs : KeptAt(s, e)

\* The handshakes that the backlog counts, and the backlog.
Incoming(x) == x.epoch # NoEpoch /\ x.accepted_side /\ ~x.connected /\ x.error = "none" /\ ~x.drained
Handshakes == {s \in Slots : Incoming(conns[s])}
Bounded ==
    /\ IsFiniteSet(Handshakes)
    /\ Len(queue) + Cardinality(Handshakes) <= ACCEPT_BACKLOG

IInv ==
    /\ Typed /\ (\A s \in Slots : Sound(conns[s]))
    /\ Fresh /\ Once /\ Kept /\ Bounded /\ OnlyOwnersClose

-----------------------------------------------------------------------------
\* No dial is told apart from a connection.
LEMMA NoDialIsNone == NoDial \notin Conn
BY DEF NoDial, Conn

\* The claims are connections.
LEMMA ClaimTypes ==
    ASSUME Typed
    PROVE  /\ Len(queue) \in Nat
           /\ \A i \in 1..Len(queue) : queue[i] \in Conn /\ Queued(queue[i])
           /\ \A d \in Dialers : dial[d] # NoDial => dial[d] \in Conn /\ Dialed(dial[d])
           /\ \A c : Claims(c) => c \in Conn \/ c = NoDial
           /\ \A c : Queued(c) => c \in Conn
           /\ \A c \in Conn : c[1] \in Slots /\ c[2] \in Epochs /\ c = <<c[1], c[2]>>
<1>1. Len(queue) \in Nat /\ \A i \in 1..Len(queue) : queue[i] \in Conn
  BY ElementOfSeq, LenProperties DEF Typed
<1>2. \A d \in Dialers : dial[d] \in Conn \cup {NoDial}
  BY DEF Typed
<1>3. res \subseteq Conn
  BY DEF Typed
<1>4. \A c \in Conn : c[1] \in Slots /\ c[2] \in Epochs /\ c = <<c[1], c[2]>>
  BY DEF Conn
<1>5. QED
  BY <1>1, <1>2, <1>3, <1>4 DEF Claims, Queued, Dialed

\* A slot's entry is typed, and an epoch that is not NoEpoch is one.
LEMMA EntryTypes ==
    ASSUME Typed, NEW s \in Slots
    PROVE  /\ conns[s] \in Entry /\ conns[s].epoch \in Epochs \cup {NoEpoch}
           /\ conns[s].epoch # NoEpoch => <<s, conns[s].epoch>> \in Conn
BY DEF Typed, Entry, Conn

\* Epochs are naturals below MaxEpochs, NoEpoch is none of them.
LEMMA EpochTypes ==
    /\ MaxEpochs \in Nat /\ ACCEPT_BACKLOG \in Nat /\ NoEpoch \in Int
    /\ \A e : e \in Epochs <=> e \in Nat /\ e < MaxEpochs
    /\ \A e \in Epochs : e # NoEpoch
<1>1. MaxEpochs \in Nat /\ ACCEPT_BACKLOG \in Nat
  BY SizesAssumption
<1>2. QED
  BY <1>1 DEF Epochs, NoEpoch

\* A set that loses members stays within its bound.
LEMMA Shrinks ==
    ASSUME NEW S, NEW T, IsFiniteSet(S), T \subseteq S
    PROVE  /\ IsFiniteSet(T) /\ Cardinality(T) <= Cardinality(S)
           /\ Cardinality(T) \in Nat /\ Cardinality(S) \in Nat
BY FS_Subset, FS_CardinalityType

-----------------------------------------------------------------------------
\* What noq's events and the closes do to an entry: it stays the same
\* connection, and goes on only towards its end.
Ages(x, y) ==
    /\ y \in Entry /\ Sound(y)
    /\ y.epoch = x.epoch /\ y.accepted_side = x.accepted_side /\ y.connected = x.connected
    /\ y.phase \in {"handshaking", "established"} => y.phase = x.phase
    /\ Incoming(y) => Incoming(x)

\* Entries age, and holders may let go of connections that are not live any more.
LEMMA AgeKeeps ==
    ASSUME IInv, Typed', OnlyOwnersClose',
           \A s \in Slots : Ages(conns[s], conns'[s]),
           nextEpoch' = nextEpoch, minted' = minted,
           Len(queue') <= Len(queue),
           \A i, j \in 1..Len(queue') : queue'[i][2] = queue'[j][2] => i = j,
           \A d \in Dialers : dial'[d] \in {dial[d], NoDial},
           \A c \in Conn : (Queued(c)' => Queued(c)) /\ (Dialed(c)' => Dialed(c)),
           res' \subseteq res,
           \A s \in Slots, e \in Epochs :
              conns[s].epoch = e /\ conns'[s].phase \in {"handshaking", "established"} =>
                 /\ Queued(<<s, e>>) => Queued(<<s, e>>)'
                 /\ Dialed(<<s, e>>) => Dialed(<<s, e>>)'
                 /\ <<s, e>> \in res => <<s, e>> \in res'
    PROVE  IInv'
<1>1. Typed /\ Fresh /\ Once /\ Kept /\ Bounded
  BY DEF IInv
<1>2. \A c \in Conn : Claims(c)' => Claims(c)
  BY DEF Claims
<1>3. \A s \in Slots : conns'[s].epoch = conns[s].epoch
  BY DEF Ages
<1>4. Fresh'
  BY <1>1, <1>2, <1>3 DEF Fresh
<1>5. Once'
  BY <1>1 DEF Once
<1>6. Kept'
  <2> SUFFICES ASSUME NEW s \in Slots, NEW e \in Epochs, conns'[s].epoch = e
               PROVE  KeptAt(s, e)'
    BY DEF Kept, KeptAt
  <2>1. /\ conns[s].epoch = e /\ KeptAt(s, e) /\ <<s, e>> \in Conn
        /\ Ages(conns[s], conns'[s])
    BY <1>1 DEF Kept, Ages, Conn
  <2>2. /\ (Queued(<<s, e>>)' => Queued(<<s, e>>)) /\ (Dialed(<<s, e>>)' => Dialed(<<s, e>>))
        /\ (<<s, e>> \in res' => <<s, e>> \in res)
    BY <2>1
  <2>3. QED
    BY <2>1, <2>2 DEF KeptAt, Ages, Claims
<1>7. Bounded'
  <2>1. Handshakes' \subseteq Handshakes
    BY DEF Handshakes, Ages
  <2>2. /\ IsFiniteSet(Handshakes') /\ Cardinality(Handshakes') <= Cardinality(Handshakes)
        /\ Cardinality(Handshakes') \in Nat /\ Cardinality(Handshakes) \in Nat
    BY <1>1, <2>1, Shrinks DEF Bounded
  <2>3. Len(queue') \in Nat /\ Len(queue) \in Nat
    BY <1>1, LenProperties DEF Typed
  <2>4. QED
    BY <1>1, <2>2, <2>3, EpochTypes DEF Bounded
<1>8. QED
  BY <1>4, <1>5, <1>6, <1>7 DEF IInv, Ages

\* A connection is delivered: its place in the queue or its dial becomes a
\* resource.
LEMMA DeliverKeeps ==
    ASSUME IInv, Typed', NEW s \in Slots, NEW e \in Epochs,
           conns[s].epoch = e, conns[s].connected, Queued(<<s, e>>) \/ Dialed(<<s, e>>),
           conns' = conns, closed' = closed, asked' = asked, nextEpoch' = nextEpoch,
           minted' = [minted EXCEPT ![e] = @ + 1], res' = res \cup {<<s, e>>},
           Len(queue') <= Len(queue),
           \A i, j \in 1..Len(queue') : queue'[i][2] = queue'[j][2] => i = j,
           \A d \in Dialers : dial'[d] \in {dial[d], NoDial},
           \A c \in Conn : (Queued(c)' => Queued(c)) /\ (Dialed(c)' => Dialed(c)),
           ~Queued(<<s, e>>)', ~Dialed(<<s, e>>)',
           \A t \in Slots, f \in Epochs : conns[t].epoch = f /\ t # s =>
              /\ Queued(<<t, f>>) => Queued(<<t, f>>)'
              /\ Dialed(<<t, f>>) => Dialed(<<t, f>>)'
    PROVE  IInv'
<1>1. Typed /\ Fresh /\ Once /\ Kept /\ Bounded /\ \A t \in Slots : Sound(conns[t])
  BY DEF IInv
<1>2. <<s, e>> \in Conn /\ Claims(<<s, e>>) /\ <<s, e>>[2] = e /\ <<s, e>>[1] = s
  BY DEF Conn, Claims
<1>3. minted[e] = 0 /\ minted'[e] = 1 /\ \A f \in Epochs : f # e => minted'[f] = minted[f]
  <2>1. minted[e] = 0
    BY <1>1, <1>2 DEF Once
  <2>2. QED
    BY <1>1, <2>1 DEF Typed
<1>4. \A c \in Conn : Claims(c)' => Claims(c)
  BY <1>2 DEF Claims
<1>5. \A c \in Conn : c[1] \in Slots /\ c[2] \in Epochs /\ c = <<c[1], c[2]>>
  BY DEF Conn
<1>6. \A c \in Conn : Queued(c)' \/ Dialed(c)' => c[2] # e
  <2> SUFFICES ASSUME NEW c \in Conn, Queued(c)' \/ Dialed(c)', c[2] = e PROVE FALSE
    OBVIOUS
  <2>1. Claims(c)
    BY DEF Claims
  <2>2. c[1] = s
    BY <1>1, <2>1 DEF Fresh
  <2>3. c = <<s, e>>
    BY <1>5, <2>2
  <2>4. QED
    BY <2>3
<1>7. Fresh'
  <2>1. e < nextEpoch /\ nextEpoch \in Nat /\ e \in Nat
    BY <1>1, EpochTypes DEF Fresh, Typed
  <2>2. \A f \in Epochs : f >= nextEpoch => minted'[f] = 0
    BY <1>1, <1>3, <2>1, EpochTypes DEF Fresh
  <2>3. QED
    BY <1>1, <1>4, <2>2 DEF Fresh
<1>8. Once'
  <2>1. \A c \in Conn : Queued(c)' \/ Dialed(c)' => minted'[c[2]] = 0
    BY <1>1, <1>3, <1>5, <1>6 DEF Once
  <2>2. \A f \in Epochs : minted'[f] <= 1
    BY <1>1, <1>3 DEF Once
  <2>3. \A c \in res' : minted'[c[2]] = 1
    <3> SUFFICES ASSUME NEW c \in res' PROVE minted'[c[2]] = 1
      OBVIOUS
    <3>1. CASE c = <<s, e>>
      BY <1>3, <3>1
    <3>2. CASE c \in res
      <4>1. minted[c[2]] = 1 /\ c[2] \in Epochs
        BY <1>1, <1>5, <3>2 DEF Once, Typed
      <4>2. QED
        BY <1>3, <4>1
    <3>3. QED
      BY <3>1, <3>2
  <2>4. QED
    BY <1>1, <2>1, <2>2, <2>3 DEF Once
<1>9. Kept'
  <2> SUFFICES ASSUME NEW t \in Slots, NEW f \in Epochs, conns'[t].epoch = f
               PROVE  KeptAt(t, f)'
    BY DEF Kept, KeptAt
  <2>1. conns[t].epoch = f /\ KeptAt(t, f) /\ <<t, f>> \in Conn
    BY <1>1 DEF Kept, Conn
  <2>2. CASE t = s
    <3>1. f = e /\ conns[s].phase # "handshaking"
      BY <1>1, <2>1, <2>2 DEF Sound
    <3>2. QED
      BY <2>1, <2>2, <3>1 DEF KeptAt, Claims
  <2>3. CASE t # s
    <3>1. f # e
      BY <1>1, <2>1, <2>3, EpochTypes DEF Fresh
    <3>2. /\ Queued(<<t, f>>)' <=> Queued(<<t, f>>)
          /\ Dialed(<<t, f>>)' <=> Dialed(<<t, f>>)
          /\ <<t, f>> \in res' <=> <<t, f>> \in res
      BY <2>1, <2>3
    <3>3. QED
      BY <1>3, <2>1, <3>1, <3>2 DEF KeptAt, Claims
  <2>4. QED
    BY <2>2, <2>3
<1>10. Bounded'
  <2>1. Handshakes' = Handshakes
    BY DEF Handshakes
  <2>2. Cardinality(Handshakes) \in Nat /\ Len(queue') \in Nat /\ Len(queue) \in Nat
    BY <1>1, FS_CardinalityType, LenProperties DEF Typed, Bounded
  <2>3. QED
    BY <1>1, <2>1, <2>2, EpochTypes DEF Bounded
<1>11. OnlyOwnersClose'
  BY DEF IInv, OnlyOwnersClose
<1>12. QED
  BY <1>1, <1>7, <1>8, <1>9, <1>10, <1>11 DEF IInv

\* accept_backlog counts the queue and the handshakes.
LEMMA BacklogCounts == AcceptBacklog = Len(queue) + Cardinality(Handshakes)
<1>1. Handshakes = {s \in Slots : /\ conns[s].epoch # NoEpoch
                                  /\ conns[s].accepted_side /\ ~conns[s].connected
                                  /\ Live(s)}
  BY DEF Handshakes, Incoming, Live
<1>2. QED
  BY <1>1 DEF AcceptBacklog

\* A new connection enters a vacant slot with a new epoch: a dial, or an
\* incoming one within the backlog.
LEMMA EnterKeeps ==
    ASSUME IInv, Typed', NEW s \in Slots, Vacant(s), nextEpoch < MaxEpochs,
           NEW p \in Peers \cup {AnyPeer}, NEW acc \in BOOLEAN,
           NEW n, n = nextEpoch,
           conns' = [conns EXCEPT ![s] = NewEntry(p, acc, n)],
           nextEpoch' = nextEpoch + 1, queue' = queue, res' = res, minted' = minted,
           closed' = closed, asked' = asked,
           acc => AcceptBacklog < ACCEPT_BACKLOG,
           \A c \in Conn : Dialed(c)' <=> Dialed(c) \/ (~acc /\ c = <<s, n>>),
           \A d, f \in Dialers :
              dial'[d] # NoDial /\ dial'[f] # NoDial /\ dial'[d][2] = dial'[f][2] => d = f
    PROVE  IInv'
<1>1. Typed /\ Fresh /\ Once /\ Kept /\ Bounded /\ \A t \in Slots : Sound(conns[t])
  BY DEF IInv
<1>2. n \in Epochs /\ n \in Nat /\ nextEpoch \in Nat /\ <<s, n>> \in Conn
      /\ <<s, n>>[2] = n /\ <<s, n>>[1] = s
  BY <1>1, EpochTypes DEF Typed, Conn
<1>3. /\ conns'[s] = NewEntry(p, acc, n) /\ \A t \in Slots : t # s => conns'[t] = conns[t]
      /\ conns'[s].epoch = n /\ conns'[s].accepted_side = acc /\ conns'[s].phase = "handshaking"
      /\ Sound(conns'[s]) /\ (Incoming(conns'[s]) => acc)
  <2>1. conns'[s] = NewEntry(p, acc, n) /\ \A t \in Slots : t # s => conns'[t] = conns[t]
    BY <1>1 DEF Typed
  <2>2. n # NoEpoch
    BY <1>2, EpochTypes
  <2>3. QED
    BY <2>1, <2>2 DEF NewEntry, Sound, Incoming
<1>4. \A c \in Conn : c[1] \in Slots /\ c[2] \in Epochs /\ c[2] \in Nat /\ c = <<c[1], c[2]>>
  BY EpochTypes DEF Conn
<1>5. \A c \in Conn : Queued(c)' <=> Queued(c)
  BY DEF Queued
<1>6. \A c \in Conn : Claims(c) => c[2] # n
  BY <1>1, <1>2, <1>4 DEF Fresh
<1>7. \A c \in Conn : Claims(c)' <=> Claims(c) \/ (~acc /\ c = <<s, n>>)
  BY <1>5 DEF Claims
<1>8. \A t \in Slots : conns[t].epoch < nextEpoch /\ conns[t].epoch \in Int /\ conns[t].epoch # n
  <2>1. \A t \in Slots : conns[t].epoch \in Epochs \cup {NoEpoch}
    BY <1>1, EntryTypes
  <2>2. QED
    BY <1>1, <1>2, <2>1, EpochTypes DEF Fresh
<1>9. Fresh'
  <2>1. \A t \in Slots : conns'[t].epoch < nextEpoch + 1
    BY <1>2, <1>3, <1>8
  <2>2. \A c \in Conn : Claims(c)' => c[2] < nextEpoch + 1
    BY <1>1, <1>2, <1>4, <1>7 DEF Fresh
  <2>3. \A e \in Epochs : e >= nextEpoch + 1 => minted[e] = 0
    BY <1>1, <1>2, EpochTypes DEF Fresh
  <2>4. \A t, u \in Slots : conns'[t].epoch = conns'[u].epoch => t = u \/ conns'[t].epoch = NoEpoch
    BY <1>1, <1>3, <1>8 DEF Fresh
  <2>5. \A c \in Conn, t \in Slots : Claims(c)' /\ conns'[t].epoch = c[2] => t = c[1]
    <3> SUFFICES ASSUME NEW c \in Conn, NEW t \in Slots, Claims(c)', conns'[t].epoch = c[2]
                 PROVE  t = c[1]
      OBVIOUS
    <3>1. CASE Claims(c)
      BY <1>1, <1>3, <1>6, <3>1 DEF Fresh
    <3>2. CASE c = <<s, n>>
      BY <1>2, <1>3, <1>8, <3>2
    <3>3. QED
      BY <1>7, <3>1, <3>2
  <2>6. QED
    BY <2>1, <2>2, <2>3, <2>4, <2>5 DEF Fresh
<1>10. Once'
  <2>1. minted[n] = 0
    BY <1>1, <1>2 DEF Fresh
  <2>2. \A c \in Conn : Queued(c)' \/ Dialed(c)' => minted[c[2]] = 0
    BY <1>1, <1>2, <1>5, <2>1 DEF Once
  <2>3. \A c, g \in Conn : Queued(c)' /\ Dialed(g)' => c[2] # g[2]
    BY <1>1, <1>2, <1>5, <1>6 DEF Once, Claims
  <2>4. \A i, j \in 1..Len(queue) : queue[i][2] = queue[j][2] => i = j
    BY <1>1 DEF Once
  <2>5. (\A e \in Epochs : minted[e] <= 1) /\ \A c \in res : minted[c[2]] = 1
    BY <1>1 DEF Once
  <2>6. QED
    BY <2>2, <2>3, <2>4, <2>5 DEF Once
<1>11. Kept'
  <2> SUFFICES ASSUME NEW t \in Slots, NEW f \in Epochs, conns'[t].epoch = f
               PROVE  KeptAt(t, f)'
    BY DEF Kept, KeptAt
  <2>1. CASE t = s
    <3>1. f = n /\ minted[n] = 0
      BY <1>1, <1>2, <1>3, <2>1 DEF Fresh
    <3>2. ~Claims(<<s, n>>) /\ (Dialed(<<s, n>>)' <=> ~acc)
      BY <1>2, <1>6 DEF Claims
    <3>3. ~Queued(<<s, n>>)' /\ <<s, n>> \notin res'
      BY <1>2, <1>5, <3>2 DEF Claims
    <3>4. QED
      BY <1>3, <2>1, <3>1, <3>2, <3>3 DEF KeptAt
  <2>2. CASE t # s
    <3>1. conns[t].epoch = f /\ KeptAt(t, f) /\ <<t, f>> \in Conn /\ <<t, f>> # <<s, n>>
      BY <1>1, <1>3, <2>2 DEF Kept, Conn
    <3>2. QED
      BY <1>3, <1>5, <1>7, <2>2, <3>1 DEF KeptAt
  <2>3. QED
    BY <2>1, <2>2
<1>12. Bounded'
  <2>1. s \notin Handshakes
    BY <1>1 DEF Handshakes, Incoming, Vacant, Sound
  <2>2. Handshakes' \subseteq Handshakes \cup {s}
    BY <1>3 DEF Handshakes
  <2>3. /\ IsFiniteSet(Handshakes) /\ Cardinality(Handshakes) \in Nat /\ Len(queue) \in Nat
        /\ Len(queue) + Cardinality(Handshakes) <= ACCEPT_BACKLOG
    BY <1>1, FS_CardinalityType, LenProperties DEF Bounded, Typed
  <2>4. CASE acc
    <3>1. Len(queue) + Cardinality(Handshakes) < ACCEPT_BACKLOG
      BY <2>4, BacklogCounts
    <3>2. /\ IsFiniteSet(Handshakes \cup {s})
          /\ Cardinality(Handshakes \cup {s}) = Cardinality(Handshakes) + 1
      BY <2>1, <2>3, FS_AddElement
    <3>3. /\ IsFiniteSet(Handshakes') /\ Cardinality(Handshakes') <= Cardinality(Handshakes) + 1
          /\ Cardinality(Handshakes') \in Nat
      BY <2>2, <3>2, Shrinks
    <3>4. QED
      BY <2>3, <3>1, <3>3, EpochTypes DEF Bounded
  <2>5. CASE ~acc
    <3>1. Handshakes' \subseteq Handshakes
      BY <1>3, <2>5 DEF Handshakes
    <3>2. /\ IsFiniteSet(Handshakes') /\ Cardinality(Handshakes') <= Cardinality(Handshakes)
          /\ Cardinality(Handshakes') \in Nat
      BY <2>3, <3>1, Shrinks
    <3>3. QED
      BY <2>3, <3>2, EpochTypes DEF Bounded
  <2>6. QED
    BY <2>4, <2>5
<1>13. OnlyOwnersClose'
  BY <1>3 DEF IInv, OnlyOwnersClose
<1>14. QED
  BY <1>1, <1>3, <1>9, <1>10, <1>11, <1>12, <1>13 DEF IInv

\* A handshake completes with an admitted identity: an incoming connection
\* moves from the handshakes to the queue.
LEMMA SurfaceKeeps ==
    ASSUME IInv, Typed', NEW s \in Slots, NEW id \in Peers, NEW e \in Epochs,
           conns[s].epoch = e, conns[s].phase = "handshaking", Admit(conns[s], id),
           conns' = [conns EXCEPT ![s].phase = "established", ![s].peer = id,
                                  ![s].connected = TRUE],
           queue' = IF conns[s].accepted_side THEN Append(queue, <<s, e>>) ELSE queue,
           nextEpoch' = nextEpoch, dial' = dial, res' = res, minted' = minted,
           closed' = closed, asked' = asked
    PROVE  IInv'
<1>1. Typed /\ Fresh /\ Once /\ Kept /\ Bounded /\ \A t \in Slots : Sound(conns[t])
  BY DEF IInv
<1> DEFINE acc == conns[s].accepted_side
           c0 == <<s, e>>
<1>2. /\ c0 \in Conn /\ c0[1] = s /\ c0[2] = e /\ acc \in BOOLEAN /\ e # NoEpoch
      /\ Len(queue) \in Nat /\ \A i \in 1..Len(queue) : queue[i] \in Conn /\ Queued(queue[i])
  BY <1>1, ClaimTypes, EpochTypes DEF Conn, Typed, Entry
<1>3. /\ \A t \in Slots : t # s => conns'[t] = conns[t]
      /\ conns'[s].epoch = e /\ conns'[s].accepted_side = acc /\ conns'[s].connected
      /\ conns'[s].phase = "established" /\ ~Incoming(conns'[s]) /\ Sound(conns'[s])
  <2>1. /\ \A t \in Slots : t # s => conns'[t] = conns[t]
        /\ conns'[s] = [conns[s] EXCEPT !.phase = "established", !.peer = id, !.connected = TRUE]
    BY <1>1 DEF Typed
  <2>2. conns[s] \in Entry /\ Sound(conns[s])
    BY <1>1, EntryTypes
  <2> DEFINE x == conns[s]
             y == [x EXCEPT !.phase = "established", !.peer = id, !.connected = TRUE]
  <2>3. /\ y.epoch = x.epoch /\ y.accepted_side = x.accepted_side /\ y.connected
        /\ y.phase = "established" /\ y.peer = id /\ y.error = x.error /\ y.drained = x.drained
        /\ y.expected = x.expected
    BY <2>2 DEF Entry
  <2>4. id # AnyPeer /\ x.expected \in {AnyPeer, id} /\ x.error = "none" /\ ~x.drained
    BY <2>2, PeersAssumption DEF Sound, Admit
  <2>5. conns'[s] = y
    BY <2>1
  <2> HIDE DEF x, y
  <2>6. Sound(y) /\ ~Incoming(y)
    BY <1>2, <2>3, <2>4 DEF Sound, Incoming, x
  <2>7. QED
    BY <2>1, <2>3, <2>5, <2>6 DEF x
<1>4. KeptAt(s, e)
  BY <1>1 DEF Kept
<1>5. ~Queued(c0) /\ c0 \notin res /\ (acc => ~Dialed(c0) /\ minted[e] = 0) /\ (~acc => Dialed(c0))
  BY <1>1, <1>4 DEF KeptAt, Sound
<1>6. \A c \in Conn : Claims(c) /\ c[2] = e => c = c0
  <2> SUFFICES ASSUME NEW c \in Conn, Claims(c), c[2] = e PROVE c = c0
    OBVIOUS
  <2>1. c[1] = s
    BY <1>1 DEF Fresh
  <2>2. QED
    BY <2>1 DEF Conn
<1>7. \A c : Dialed(c)' <=> Dialed(c)
  BY DEF Dialed
<1>8. acc => /\ Len(queue') = Len(queue) + 1
             /\ \A i \in 1..Len(queue) : queue'[i] = queue[i]
             /\ queue'[Len(queue) + 1] = c0
  <2>1. queue \in Seq(Conn)
    BY <1>1 DEF Typed
  <2> HIDE DEF c0
  <2>2. acc => queue' = Append(queue, c0)
    BY DEF c0
  <2>3. QED
    BY <1>2, <2>1, <2>2, AppendProperties
<1> HIDE DEF c0
<1>9. \A c \in Conn : Queued(c)' <=> Queued(c) \/ (acc /\ c = c0)
  <2>1. CASE ~acc
    BY <2>1 DEF Queued
  <2>2. CASE acc
    <3>1. 1..Len(queue') = 1..Len(queue) \cup {Len(queue) + 1}
      BY <1>2, <1>8, <2>2
    <3>2. QED
      BY <1>8, <2>2, <3>1 DEF Queued
  <2>3. QED
    BY <2>1, <2>2
<1>10. \A t \in Slots : conns'[t].epoch = conns[t].epoch
  BY <1>3
<1>11. Fresh'
  <2>1. \A c \in Conn : Claims(c)' => Claims(c) \/ c = c0
    BY <1>7, <1>9 DEF Claims
  <2>2. e < nextEpoch /\ \A t \in Slots : conns[t].epoch = e => t = s
    BY <1>1, <1>2 DEF Fresh
  <2>3. \A c \in Conn : Claims(c)' => c[2] < nextEpoch
    BY <1>1, <1>2, <2>1, <2>2 DEF Fresh
  <2>4. \A c \in Conn, t \in Slots : Claims(c)' /\ conns[t].epoch = c[2] => t = c[1]
    BY <1>1, <1>2, <2>1, <2>2 DEF Fresh
  <2>5. QED
    BY <1>1, <1>10, <2>3, <2>4, ZenonT(60) DEF Fresh
<1>12. Once'
  <2>1. \A i, j \in 1..Len(queue') : queue'[i][2] = queue'[j][2] => i = j
    <3>1. CASE ~acc
      BY <1>1, <3>1 DEF Once
    <3>2. CASE acc
      <4>1. \A i \in 1..Len(queue) : queue[i][2] # e
        BY <1>2, <1>5, <1>6 DEF Claims
      <4>2. \A i \in 1..Len(queue') : i \in 1..Len(queue) \/ i = Len(queue) + 1
        BY <1>2, <1>8, <3>2
      <4>3. QED
        BY <1>1, <1>2, <1>8, <3>2, <4>1, <4>2 DEF Once
    <3>3. QED
      BY <3>1, <3>2
  <2>2. \A c, g \in Conn : Queued(c)' /\ Dialed(g)' => c[2] # g[2]
    BY <1>1, <1>2, <1>5, <1>6, <1>7, <1>9 DEF Once, Claims
  <2>3. \A c \in Conn : Queued(c)' \/ Dialed(c)' => minted[c[2]] = 0
    BY <1>1, <1>2, <1>5, <1>7, <1>9 DEF Once
  <2>4. QED
    BY <1>1, <2>1, <2>2, <2>3 DEF Once
<1>13. Kept'
  <2> SUFFICES ASSUME NEW t \in Slots, NEW f \in Epochs, conns'[t].epoch = f
               PROVE  KeptAt(t, f)'
    BY DEF Kept, KeptAt
  <2>1. CASE t = s
    <3>1. f = e
      BY <1>3, <2>1
    <3>2. /\ Queued(<<s, e>>)' <=> acc
          /\ Dialed(<<s, e>>)' <=> ~acc
      BY <1>2, <1>5, <1>7, <1>9 DEF c0
    <3>3. QED
      BY <1>2, <1>3, <2>1, <3>1, <3>2 DEF KeptAt, Claims
  <2>2. CASE t # s
    <3>1. conns[t].epoch = f /\ KeptAt(t, f) /\ <<t, f>> \in Conn /\ <<t, f>> # c0
      <4>1. conns[t].epoch = f
        BY <1>3, <2>2
      <4>2. <<t, f>> # c0
        BY <2>2 DEF c0
      <4>3. <<t, f>> \in Conn
        BY DEF Conn
      <4>4. QED
        BY <1>1, <4>1, <4>2, <4>3 DEF Kept
    <3>2. /\ Queued(<<t, f>>)' <=> Queued(<<t, f>>)
          /\ Dialed(<<t, f>>)' <=> Dialed(<<t, f>>)
      BY <1>7, <1>9, <3>1
    <3>3. QED
      BY <1>3, <2>2, <3>1, <3>2 DEF KeptAt, Claims
  <2>3. QED
    BY <2>1, <2>2
<1>14. Bounded'
  <2>1. Handshakes' \subseteq Handshakes \ {s}
    BY <1>3 DEF Handshakes
  <2>2. /\ IsFiniteSet(Handshakes) /\ Cardinality(Handshakes) \in Nat
        /\ Len(queue) + Cardinality(Handshakes) <= ACCEPT_BACKLOG
    BY <1>1, FS_CardinalityType DEF Bounded
  <2>3. /\ IsFiniteSet(Handshakes \ {s})
        /\ Cardinality(Handshakes \ {s}) =
              IF s \in Handshakes THEN Cardinality(Handshakes) - 1 ELSE Cardinality(Handshakes)
    BY <2>2, FS_RemoveElement
  <2>4. /\ IsFiniteSet(Handshakes') /\ Cardinality(Handshakes') <= Cardinality(Handshakes \ {s})
        /\ Cardinality(Handshakes') \in Nat /\ Cardinality(Handshakes \ {s}) \in Nat
    BY <2>1, <2>3, Shrinks
  <2>5. CASE acc
    <3>1. s \in Handshakes
      BY <1>1, <1>2, <2>5 DEF Handshakes, Incoming, Sound
    <3>2. QED
      BY <1>2, <1>8, <2>2, <2>3, <2>4, <2>5, <3>1, EpochTypes DEF Bounded
  <2>6. CASE ~acc
    BY <1>2, <2>2, <2>3, <2>4, <2>6, EpochTypes DEF Bounded
  <2>7. QED
    BY <2>5, <2>6
<1>15. OnlyOwnersClose'
  <2> SUFFICES ASSUME NEW t \in Slots, conns'[t].phase = "closing"
               PROVE  closed \/ conns'[t].epoch \in asked
    BY DEF OnlyOwnersClose
  <2>1. t # s /\ conns'[t] = conns[t]
    BY <1>3
  <2>2. OnlyOwnersClose
    BY DEF IInv
  <2>3. QED
    BY <2>1, <2>2 DEF OnlyOwnersClose
<1>16. QED
  BY <1>1, <1>3, <1>11, <1>12, <1>13, <1>14, <1>15 DEF IInv

-----------------------------------------------------------------------------
\* Entries age while the holders stay.
LEMMA AgeQuiet ==
    ASSUME IInv, closed' \in BOOLEAN, asked' \subseteq Epochs,
           conns' \in [Slots -> Entry], OnlyOwnersClose',
           \A s \in Slots : Ages(conns[s], conns'[s]),
           nextEpoch' = nextEpoch, minted' = minted, queue' = queue, dial' = dial, res' = res
    PROVE  IInv'
<1>1. Typed'
  BY DEF IInv, Typed
<1>2. \A c : (Queued(c)' <=> Queued(c)) /\ (Dialed(c)' <=> Dialed(c))
  BY DEF Queued, Dialed
<1>3. Len(queue') <= Len(queue)
  <2>1. Len(queue) \in Nat
    BY LenProperties DEF IInv, Typed
  <2>2. QED
    BY <2>1
<1>4. \A i, j \in 1..Len(queue') : queue'[i][2] = queue'[j][2] => i = j
  BY DEF IInv, Once
<1>5. \A d \in Dialers : dial'[d] \in {dial[d], NoDial}
  OBVIOUS
<1>6. QED
  BY <1>1, <1>2, <1>3, <1>4, <1>5, AgeKeeps

\* An entry that nothing touches is as it was.
LEMMA AgeSame == ASSUME NEW x \in Entry, Sound(x) PROVE Ages(x, x)
BY DEF Ages

\* conn.close ages an entry, and ends its live phases.
LEMMA CloseConnAges ==
    ASSUME NEW x \in Entry, Sound(x)
    PROVE  /\ Ages(x, CloseConn(x)) /\ CloseConn(x).phase \notin {"handshaking", "established"}
           /\ CloseConn(x).epoch = x.epoch
<1>1. CASE x.phase \in {"handshaking", "established"}
  <2> DEFINE y == [x EXCEPT !.phase = "closing"]
  <2>1. CloseConn(x) = y
    BY <1>1 DEF CloseConn
  <2>2. y \in Entry /\ y.phase = "closing"
    BY DEF Entry, Phases
  <2>3. /\ y.epoch = x.epoch /\ y.accepted_side = x.accepted_side /\ y.connected = x.connected
        /\ y.error = x.error /\ y.drained = x.drained /\ y.peer = x.peer /\ y.expected = x.expected
    BY DEF Entry
  <2> HIDE DEF y
  <2>4. Sound(y)
    BY <1>1, <2>2, <2>3 DEF Sound
  <2>5. QED
    BY <2>1, <2>2, <2>3, <2>4 DEF Ages, Incoming
<1>2. CASE x.phase \notin {"handshaking", "established"}
  BY <1>2, AgeSame DEF CloseConn
<1>3. QED
  BY <1>1, <1>2

\* The close of a holder touches its own connection only, which is not live
\* afterwards.
LEMMA CloseEntryAges ==
    ASSUME IInv, NEW s \in Slots, NEW e \in Epochs, conns' = CloseEntry(s, e)
    PROVE  /\ conns' \in [Slots -> Entry]
           /\ \A t \in Slots : Ages(conns[t], conns'[t])
           /\ conns[s].epoch = e => conns'[s].phase \notin {"handshaking", "established"}
           /\ \A t \in Slots : conns'[t] # conns[t] => t = s /\ conns[t].epoch = e
<1>1. conns \in [Slots -> Entry] /\ \A t \in Slots : conns[t] \in Entry /\ Sound(conns[t])
  BY DEF IInv, Typed
<1>2. CASE EntryFor(s, e) /\ Live(s)
  <2>1. conns' = [conns EXCEPT ![s] = CloseConn(conns[s])]
    BY <1>2 DEF CloseEntry
  <2>2. /\ Ages(conns[s], CloseConn(conns[s])) /\ CloseConn(conns[s]) \in Entry
        /\ CloseConn(conns[s]).phase \notin {"handshaking", "established"}
    BY <1>1, CloseConnAges DEF Ages
  <2>3. conns' \in [Slots -> Entry] /\ conns'[s] = CloseConn(conns[s])
        /\ \A t \in Slots : t # s => conns'[t] = conns[t]
    BY <1>1, <2>1, <2>2
  <2>4. QED
    BY <1>1, <1>2, <2>2, <2>3, AgeSame DEF EntryFor
<1>3. CASE ~(EntryFor(s, e) /\ Live(s))
  <2>1. conns' = conns
    BY <1>3 DEF CloseEntry
  <2>2. conns[s].epoch = e => conns[s].phase \notin {"handshaking", "established"}
    BY <1>1, <1>3 DEF EntryFor, Live, Sound
  <2>3. QED
    BY <1>1, <2>1, <2>2, AgeSame
<1>4. QED
  BY <1>2, <1>3

\* So the owner is on record.
LEMMA OwnerClosed ==
    ASSUME IInv, NEW s \in Slots, NEW e \in Epochs, conns' = CloseEntry(s, e),
           closed' = closed, asked' = asked \cup {e}
    PROVE  OnlyOwnersClose' /\ asked' \subseteq Epochs
<1>1. OnlyOwnersClose /\ asked \subseteq Epochs
  BY DEF IInv, Typed
<1>2. \A t \in Slots : conns'[t] # conns[t] => t = s /\ conns[t].epoch = e
  BY CloseEntryAges
<1>3. \A t \in Slots : conns'[t].epoch = conns[t].epoch
  BY CloseEntryAges DEF Ages
<1>4. QED
  BY <1>1, <1>2, <1>3 DEF OnlyOwnersClose

-----------------------------------------------------------------------------
\* connect enters its connection and parks on it.
LEMMA ConnectStep ==
    ASSUME IInv, NEW d \in Dialers, NEW s \in Slots, NEW peer \in Peers, Connect(d, s, peer)
    PROVE  IInv'
<1> DEFINE n == nextEpoch
<1>1. /\ dial[d] = NoDial /\ Vacant(s) /\ n < MaxEpochs
      /\ conns' = [conns EXCEPT ![s] = NewEntry(peer, FALSE, n)]
      /\ nextEpoch' = nextEpoch + 1 /\ dial' = [dial EXCEPT ![d] = <<s, n>>]
      /\ closed' = closed /\ queue' = queue /\ res' = res /\ minted' = minted /\ asked' = asked
  BY DEF Connect
<1>2. /\ n \in Nat /\ n \in Epochs /\ <<s, n>> \in Conn /\ n + 1 \in 0..MaxEpochs
      /\ <<s, n>>[2] = n
  <2>1. n \in Nat /\ n + 1 \in 0..MaxEpochs
    BY <1>1, EpochTypes DEF IInv, Typed
  <2>2. n \in Epochs
    BY <1>1, <2>1, EpochTypes
  <2>3. QED
    BY <2>1, <2>2 DEF Conn
<1>3. NewEntry(peer, FALSE, n) \in Entry
  BY <1>2 DEF NewEntry, Entry, Phases
<1>4. /\ dial \in [Dialers -> Conn \cup {NoDial}] /\ dial'[d] = <<s, n>>
      /\ \A f \in Dialers : f # d => dial'[f] = dial[f]
  BY <1>1 DEF IInv, Typed
<1>5. Typed'
  <2>1. conns' \in [Slots -> Entry]
    BY <1>1, <1>3 DEF IInv, Typed
  <2>2. dial' \in [Dialers -> Conn \cup {NoDial}]
    BY <1>1, <1>2, <1>4
  <2>3. QED
    BY <1>1, <1>2, <2>1, <2>2 DEF IInv, Typed
<1>6. \A c \in Conn : Dialed(c)' <=> Dialed(c) \/ c = <<s, n>>
  BY <1>1, <1>4, NoDialIsNone DEF Dialed
<1>7. \A f \in Dialers : dial[f] # NoDial => dial[f][2] # n
  <2> SUFFICES ASSUME NEW f \in Dialers, dial[f] # NoDial PROVE dial[f][2] # n
    OBVIOUS
  <2>1. dial[f] \in Conn /\ Claims(dial[f]) /\ dial[f][2] \in Epochs
    BY ClaimTypes DEF IInv, Claims
  <2>2. dial[f][2] < n
    BY <2>1 DEF IInv, Fresh
  <2>3. QED
    BY <1>2, <2>1, <2>2, EpochTypes
<1>8. \A f, g \in Dialers :
        dial'[f] # NoDial /\ dial'[g] # NoDial /\ dial'[f][2] = dial'[g][2] => f = g
  BY <1>2, <1>4, <1>7 DEF IInv, Once
<1> HIDE DEF n
<1>9. n = nextEpoch
  BY DEF n
<1>10. QED
  BY <1>1, <1>5, <1>6, <1>8, <1>9, EnterKeeps

\* An incoming connection within the backlog.
LEMMA NewConnectionStep ==
    ASSUME IInv, NEW s \in Slots, NEW p \in Peers \cup {AnyPeer}, NewConnection(s, p)
    PROVE  IInv'
<1> DEFINE n == nextEpoch
<1>1. /\ AcceptBacklog < ACCEPT_BACKLOG /\ Vacant(s) /\ n < MaxEpochs
      /\ conns' = [conns EXCEPT ![s] = NewEntry(p, TRUE, n)]
      /\ nextEpoch' = nextEpoch + 1 /\ dial' = dial
      /\ closed' = closed /\ queue' = queue /\ res' = res /\ minted' = minted /\ asked' = asked
  BY DEF NewConnection
<1>2. n \in Epochs /\ n + 1 \in 0..MaxEpochs
  BY <1>1, EpochTypes DEF IInv, Typed
<1>3. NewEntry(p, TRUE, n) \in Entry
  BY <1>2 DEF NewEntry, Entry, Phases
<1>4. Typed'
  <2>1. conns' \in [Slots -> Entry]
    BY <1>1, <1>3 DEF IInv, Typed
  <2>2. QED
    BY <1>1, <1>2, <2>1 DEF IInv, Typed
<1>5. \A c \in Conn : Dialed(c)' <=> Dialed(c)
  BY <1>1 DEF Dialed
<1>6. \A f, g \in Dialers :
        dial'[f] # NoDial /\ dial'[g] # NoDial /\ dial'[f][2] = dial'[g][2] => f = g
  BY <1>1 DEF IInv, Once
<1> HIDE DEF n
<1>7. n = nextEpoch
  BY DEF n
<1>8. QED
  BY <1>1, <1>4, <1>5, <1>6, <1>7, EnterKeeps

\* Dropping one dial leaves the others.
LEMMA DropDial ==
    ASSUME IInv, NEW d \in Dialers, dial[d] # NoDial, dial' = [dial EXCEPT ![d] = NoDial]
    PROVE  /\ dial' \in [Dialers -> Conn \cup {NoDial}]
           /\ \A f \in Dialers : dial'[f] \in {dial[f], NoDial}
           /\ \A c \in Conn : Dialed(c)' <=> Dialed(c) /\ c # dial[d]
<1>1. /\ dial \in [Dialers -> Conn \cup {NoDial}] /\ dial[d] \in Conn
      /\ dial' \in [Dialers -> Conn \cup {NoDial}]
      /\ dial'[d] = NoDial /\ \A f \in Dialers : f # d => dial'[f] = dial[f]
  BY DEF IInv, Typed
<1>2. \A f \in Dialers : dial[f] = dial[d] => f = d
  BY DEF IInv, Once
<1>3. QED
  BY <1>1, <1>2, NoDialIsNone DEF Dialed

\* connect returns a resource for the connection it dialed.
LEMMA ConnectOkStep == ASSUME IInv, NEW d \in Dialers, ConnectOk(d) PROVE IInv'
<1> DEFINE c == dial[d]
           s == c[1]
           e == c[2]
<1>1. /\ c # NoDial /\ conns[s].epoch = e /\ conns[s].connected
      /\ minted' = [minted EXCEPT ![e] = @ + 1] /\ res' = res \cup {c}
      /\ dial' = [dial EXCEPT ![d] = NoDial]
      /\ closed' = closed /\ conns' = conns /\ nextEpoch' = nextEpoch /\ queue' = queue
      /\ asked' = asked
  BY DEF ConnectOk, EntryFor
<1>2. c \in Conn /\ Dialed(c) /\ s \in Slots /\ e \in Epochs /\ c = <<s, e>>
  BY <1>1, ClaimTypes DEF IInv
<1>3. /\ dial' \in [Dialers -> Conn \cup {NoDial}]
      /\ \A f \in Dialers : dial'[f] \in {dial[f], NoDial}
      /\ \A g \in Conn : Dialed(g)' <=> Dialed(g) /\ g # c
  BY <1>1, DropDial
<1>4. \A g : Queued(g)' <=> Queued(g)
  BY <1>1 DEF Queued
<1>5. ~Queued(c)
  BY <1>2 DEF IInv, Once
<1>6. Typed'
  <2>1. minted' \in [Epochs -> Nat]
    <3>1. minted \in [Epochs -> Nat] /\ minted[e] \in Nat
      BY <1>2 DEF IInv, Typed
    <3>2. minted[e] + 1 \in Nat
      BY <3>1
    <3>3. QED
      BY <1>1, <3>1, <3>2
  <2>2. res' \subseteq Conn
    BY <1>1, <1>2 DEF IInv, Typed
  <2>3. QED
    BY <1>1, <1>3, <2>1, <2>2 DEF IInv, Typed
<1>7. Len(queue') <= Len(queue) /\ \A i, j \in 1..Len(queue') : queue'[i][2] = queue'[j][2] => i = j
  <2>1. Len(queue) \in Nat
    BY ClaimTypes DEF IInv
  <2>2. QED
    BY <1>1, <2>1 DEF IInv, Once
<1>8. \A t \in Slots, f \in Epochs : t # s => <<t, f>> # c
  BY <1>2
<1>9. \A t \in Slots, f \in Epochs : <<t, f>> \in Conn
  BY DEF Conn
<1>10. \A t \in Slots, f \in Epochs : t # s =>
        /\ Queued(<<t, f>>) => Queued(<<t, f>>)'
        /\ Dialed(<<t, f>>) => Dialed(<<t, f>>)'
  BY <1>2, <1>3, <1>4, <1>8, <1>9
<1> SUFFICES ASSUME NEW s0 \in Slots, NEW e0 \in Epochs, s0 = s, e0 = e PROVE IInv'
  BY <1>2
<1>11. /\ conns[s0].epoch = e0 /\ conns[s0].connected /\ Dialed(<<s0, e0>>)
       /\ minted' = [minted EXCEPT ![e0] = @ + 1] /\ res' = res \cup {<<s0, e0>>}
       /\ <<s0, e0>> \in Conn /\ c = <<s0, e0>>
  BY <1>1, <1>2
<1>12. ~Queued(<<s0, e0>>)' /\ ~Dialed(<<s0, e0>>)'
  BY <1>3, <1>4, <1>5, <1>11
<1>13. \A t \in Slots, f \in Epochs : conns[t].epoch = f /\ t # s0 =>
        /\ Queued(<<t, f>>) => Queued(<<t, f>>)'
        /\ Dialed(<<t, f>>) => Dialed(<<t, f>>)'
  BY <1>10
<1>14. \A g \in Conn : (Queued(g)' => Queued(g)) /\ (Dialed(g)' => Dialed(g))
  BY <1>3, <1>4
<1> HIDE DEF c, s, e
<1>15. QED
  BY <1>1, <1>3, <1>6, <1>7, <1>11, <1>12, <1>13, <1>14, DeliverKeeps

\* A dial fails or is cancelled: its connection is closed with it.
LEMMA ConnectAbortsStep == ASSUME IInv, NEW d \in Dialers, ConnectAborts(d) PROVE IInv'
<1>1. PICK s \in Slots, e \in Epochs : dial[d] = <<s, e>>
  BY ClaimTypes DEF ConnectAborts, IInv
<1>2. /\ dial[d] # NoDial /\ conns' = CloseEntry(s, e) /\ dial' = [dial EXCEPT ![d] = NoDial]
      /\ asked' = asked \cup {e} /\ closed' = closed /\ nextEpoch' = nextEpoch
      /\ queue' = queue /\ res' = res /\ minted' = minted
  BY <1>1 DEF ConnectAborts, DropDialGuard
<1>3. /\ conns' \in [Slots -> Entry]
      /\ \A t \in Slots : Ages(conns[t], conns'[t])
      /\ conns[s].epoch = e => conns'[s].phase \notin {"handshaking", "established"}
  BY <1>2, CloseEntryAges
<1>4. OnlyOwnersClose' /\ asked' \subseteq Epochs
  BY <1>2, OwnerClosed
<1>5. /\ dial' \in [Dialers -> Conn \cup {NoDial}]
      /\ \A f \in Dialers : dial'[f] \in {dial[f], NoDial}
      /\ \A c \in Conn : Dialed(c)' <=> Dialed(c) /\ c # <<s, e>>
  BY <1>1, <1>2, DropDial
<1>6. Typed'
  BY <1>2, <1>3, <1>4, <1>5 DEF IInv, Typed
<1>7. \A c : Queued(c)' <=> Queued(c)
  BY <1>2 DEF Queued
<1>8. Len(queue') <= Len(queue) /\ \A i, j \in 1..Len(queue') : queue'[i][2] = queue'[j][2] => i = j
  <2>1. Len(queue) \in Nat
    BY ClaimTypes DEF IInv
  <2>2. QED
    BY <1>2, <2>1 DEF IInv, Once
<1>9. \A t \in Slots, f \in Epochs :
        conns[t].epoch = f /\ conns'[t].phase \in {"handshaking", "established"} =>
           <<t, f>> \in Conn /\ <<t, f>> # <<s, e>>
  BY <1>3 DEF Conn
<1>10. QED
  BY <1>2, <1>3, <1>4, <1>5, <1>6, <1>7, <1>8, <1>9, AgeKeeps

\* connection.close.
LEMMA ResCloseStep == ASSUME IInv, NEW r \in res, ResClose(r) PROVE IInv'
<1>1. PICK s \in Slots, e \in Epochs : r = <<s, e>>
  BY DEF IInv, Typed, Conn
<1>2. /\ conns' = CloseEntry(s, e) /\ asked' = asked \cup {e} /\ closed' = closed
      /\ nextEpoch' = nextEpoch /\ queue' = queue /\ dial' = dial /\ res' = res /\ minted' = minted
  BY <1>1 DEF ResClose
<1>3. conns' \in [Slots -> Entry] /\ \A t \in Slots : Ages(conns[t], conns'[t])
  BY <1>2, CloseEntryAges
<1>4. OnlyOwnersClose' /\ asked' \subseteq Epochs
  BY <1>2, OwnerClosed
<1>5. closed' \in BOOLEAN
  BY <1>2 DEF IInv, Typed
<1>6. QED
  BY <1>2, <1>3, <1>4, <1>5, AgeQuiet

\* The drop of a resource closes its connection.
LEMMA ResDropStep == ASSUME IInv, NEW r \in res, ResDrop(r) PROVE IInv'
<1>1. PICK s \in Slots, e \in Epochs : r = <<s, e>>
  BY DEF IInv, Typed, Conn
<1>2. /\ conns' = CloseEntry(s, e) /\ asked' = asked \cup {e} /\ res' = res \ {<<s, e>>}
      /\ closed' = closed /\ nextEpoch' = nextEpoch /\ queue' = queue /\ dial' = dial
      /\ minted' = minted
  BY <1>1 DEF ResDrop
<1>3. /\ conns' \in [Slots -> Entry]
      /\ \A t \in Slots : Ages(conns[t], conns'[t])
      /\ conns[s].epoch = e => conns'[s].phase \notin {"handshaking", "established"}
  BY <1>2, CloseEntryAges
<1>4. OnlyOwnersClose' /\ asked' \subseteq Epochs
  BY <1>2, OwnerClosed
<1>5. Typed'
  BY <1>2, <1>3, <1>4 DEF IInv, Typed
<1>6. \A c : (Queued(c)' <=> Queued(c)) /\ (Dialed(c)' <=> Dialed(c))
  BY <1>2 DEF Queued, Dialed
<1>7. Len(queue') <= Len(queue) /\ \A i, j \in 1..Len(queue') : queue'[i][2] = queue'[j][2] => i = j
  <2>1. Len(queue) \in Nat
    BY ClaimTypes DEF IInv
  <2>2. QED
    BY <1>2, <2>1 DEF IInv, Once
<1>8. \A t \in Slots, f \in Epochs :
        conns[t].epoch = f /\ conns'[t].phase \in {"handshaking", "established"} =>
           <<t, f>> # <<s, e>>
  BY <1>3
<1>9. res' \subseteq res /\ \A f \in Dialers : dial'[f] \in {dial[f], NoDial}
  BY <1>2
<1>10. \A t \in Slots, f \in Epochs :
        conns[t].epoch = f /\ conns'[t].phase \in {"handshaking", "established"} =>
           (<<t, f>> \in res => <<t, f>> \in res')
  BY <1>2, <1>8
<1>11. QED
  BY <1>2, <1>3, <1>4, <1>5, <1>6, <1>7, <1>9, <1>10, AgeKeeps

\* close_all.
LEMMA EndpointCloseStep == ASSUME IInv, EndpointClose PROVE IInv'
<1>1. /\ closed' = TRUE
      /\ conns' = [s \in Slots |-> IF Live(s) THEN CloseConn(conns[s]) ELSE conns[s]]
      /\ nextEpoch' = nextEpoch /\ queue' = queue /\ dial' = dial /\ res' = res
      /\ minted' = minted /\ asked' = asked
  BY DEF EndpointClose
<1>2. \A s \in Slots : conns[s] \in Entry /\ Sound(conns[s])
  BY DEF IInv, Typed
<1>3. \A s \in Slots : Ages(conns[s], conns[s]) /\ Ages(conns[s], CloseConn(conns[s]))
  BY <1>2, AgeSame, CloseConnAges
<1>4. \A s \in Slots : Ages(conns[s], conns'[s])
  BY <1>1, <1>3
<1>5. conns' \in [Slots -> Entry]
  <2>1. \A s \in Slots : conns[s] \in Entry /\ CloseConn(conns[s]) \in Entry
    BY <1>2, <1>3 DEF Ages
  <2>2. QED
    BY <1>1, <2>1
<1>6. OnlyOwnersClose'
  BY <1>1 DEF OnlyOwnersClose
<1>7. closed' \in BOOLEAN /\ asked' \subseteq Epochs
  BY <1>1 DEF IInv, Typed
<1>8. QED
  BY <1>1, <1>4, <1>5, <1>6, <1>7, AgeQuiet

\* A change of one entry only.
LEMMA OneEntryAges ==
    ASSUME IInv, NEW s \in Slots, NEW y \in Entry, conns' = [conns EXCEPT ![s] = y],
           Ages(conns[s], y), closed' = closed, asked \subseteq asked', asked' \subseteq Epochs,
           y.phase = "closing" => y.epoch \in asked',
           nextEpoch' = nextEpoch, queue' = queue, dial' = dial, res' = res, minted' = minted
    PROVE  IInv'
<1>1. conns \in [Slots -> Entry] /\ \A t \in Slots : conns[t] \in Entry /\ Sound(conns[t])
  BY DEF IInv, Typed
<1>2. conns' \in [Slots -> Entry] /\ conns'[s] = y /\ \A t \in Slots : t # s => conns'[t] = conns[t]
  BY <1>1
<1>3. \A t \in Slots : Ages(conns[t], conns'[t])
  BY <1>1, <1>2, AgeSame
<1>4. OnlyOwnersClose'
  BY <1>2 DEF IInv, OnlyOwnersClose
<1>5. closed' \in BOOLEAN
  BY DEF IInv, Typed
<1>6. QED
  BY <1>2, <1>3, <1>4, <1>5, AgeQuiet

\* A connection is lost or its close is reported.
LEMMA ConnectionLostStep ==
    ASSUME IInv, NEW s \in Slots, NEW reason \in {"app", "failed", "local"},
           ConnectionLost(s, reason)
    PROVE  IInv'
<1> DEFINE x == conns[s]
           err == IF reason \in {"app", "local"} THEN "closed" ELSE reason
           pc == (reason = "app") \/ x.peer_close
           y == [x EXCEPT !.phase = "draining", !.error = err, !.peer_close = pc]
<1>1. x \in Entry /\ Sound(x) /\ x.phase \in {"handshaking", "established", "closing"}
  BY DEF ConnectionLost, IInv, Typed
<1>2. /\ conns' = [conns EXCEPT ![s] = y] /\ closed' = closed /\ asked' = asked
      /\ nextEpoch' = nextEpoch /\ queue' = queue /\ dial' = dial /\ res' = res /\ minted' = minted
  BY DEF ConnectionLost
<1>3. err \in {"closed", "failed"} /\ pc \in BOOLEAN
  OBVIOUS
<1> HIDE DEF x, err, pc
<1>4. y \in Entry
  BY <1>1, <1>3 DEF Entry, Phases
<1>5. /\ y.phase = "draining" /\ y.error # "none" /\ y.epoch = x.epoch /\ y.peer = x.peer
      /\ y.expected = x.expected /\ y.accepted_side = x.accepted_side
      /\ y.connected = x.connected /\ y.drained = x.drained
  BY <1>1, <1>3 DEF Entry
<1> HIDE DEF y
<1>6. Sound(y)
  BY <1>1, <1>5 DEF Sound
<1>7. Ages(x, y)
  BY <1>4, <1>5, <1>6 DEF Ages, Incoming
<1>8. asked \subseteq Epochs
  BY DEF IInv, Typed
<1>9. QED
  BY <1>2, <1>4, <1>5, <1>7, <1>8, OneEntryAges DEF x

\* A connection has drained.
LEMMA DrainedStep == ASSUME IInv, NEW s \in Slots, Drained(s) PROVE IInv'
<1> DEFINE x == conns[s]
           y == [x EXCEPT !.phase = "drained", !.drained = TRUE]
<1>1. x \in Entry /\ Sound(x) /\ x.phase = "draining"
  BY DEF Drained, IInv, Typed
<1>2. /\ conns' = [conns EXCEPT ![s] = y] /\ closed' = closed /\ asked' = asked
      /\ nextEpoch' = nextEpoch /\ queue' = queue /\ dial' = dial /\ res' = res /\ minted' = minted
  BY DEF Drained
<1> HIDE DEF x
<1>3. y \in Entry
  BY <1>1 DEF Entry, Phases
<1>4. /\ y.phase = "drained" /\ y.drained /\ y.epoch = x.epoch /\ y.peer = x.peer
      /\ y.expected = x.expected /\ y.accepted_side = x.accepted_side
      /\ y.connected = x.connected
  BY <1>1 DEF Entry
<1> HIDE DEF y
<1>5. Sound(y)
  BY <1>1, <1>4 DEF Sound
<1>6. Ages(x, y)
  BY <1>3, <1>4, <1>5 DEF Ages, Incoming
<1>7. asked \subseteq Epochs
  BY DEF IInv, Typed
<1>8. QED
  BY <1>2, <1>3, <1>4, <1>6, <1>7, OneEntryAges DEF x

\* A handshake completes: the identity is admitted, or the connection closed.
LEMMA ConnectedStep ==
    ASSUME IInv, NEW s \in Slots, NEW id \in Peers, Connected(s, id) PROVE IInv'
<1>1. conns[s] \in Entry /\ Sound(conns[s]) /\ conns[s].phase = "handshaking"
  BY DEF Connected, IInv, Typed
<1>2. PICK e \in Epochs : conns[s].epoch = e
  BY <1>1 DEF Sound, Entry
<1>3. /\ closed' = closed /\ nextEpoch' = nextEpoch /\ dial' = dial /\ res' = res
      /\ minted' = minted
  BY DEF Connected
<1>4. CASE Admit(conns[s], id)
  <2>1. /\ conns' = [conns EXCEPT ![s].phase = "established", ![s].peer = id,
                                  ![s].connected = TRUE]
        /\ queue' = IF conns[s].accepted_side THEN Append(queue, <<s, e>>) ELSE queue
        /\ asked' = asked
    BY <1>2, <1>4 DEF Connected
  <2>2. Typed'
    <3> DEFINE y == [conns[s] EXCEPT !.phase = "established", !.peer = id, !.connected = TRUE]
    <3>1. conns' = [conns EXCEPT ![s] = y]
      BY <2>1
    <3>2. y \in Entry
      BY <1>1 DEF Entry, Phases
    <3> HIDE DEF y
    <3>3. conns' \in [Slots -> Entry]
      BY <3>1, <3>2 DEF IInv, Typed
    <3>4. queue' \in Seq(Conn)
      <4>1. queue \in Seq(Conn) /\ <<s, e>> \in Conn
        BY DEF IInv, Typed, Conn
      <4>2. Append(queue, <<s, e>>) \in Seq(Conn)
        BY <4>1, AppendProperties
      <4>3. QED
        BY <2>1, <4>1, <4>2
    <3>5. QED
      BY <1>3, <2>1, <3>3, <3>4 DEF IInv, Typed
  <2>3. QED
    BY <1>1, <1>2, <1>3, <1>4, <2>1, <2>2, SurfaceKeeps
<1>5. CASE ~Admit(conns[s], id)
  <2> DEFINE x == conns[s]
             y == [x EXCEPT !.phase = "closing", !.peer = AnyPeer, !.error = "failed"]
  <2>1. conns' = [conns EXCEPT ![s] = y] /\ asked' = asked \cup {e} /\ queue' = queue
    BY <1>2, <1>5 DEF Connected
  <2>2. x \in Entry /\ Sound(x) /\ x.phase = "handshaking" /\ x.epoch = e
    BY <1>1, <1>2
  <2> HIDE DEF x
  <2>3. y \in Entry
    BY <2>2 DEF Entry, Phases
  <2>4. /\ y.phase = "closing" /\ y.epoch = x.epoch /\ y.error = "failed"
        /\ y.accepted_side = x.accepted_side /\ y.connected = x.connected
    BY <2>2 DEF Entry
  <2> HIDE DEF y
  <2>5. Sound(y)
    BY <2>2, <2>4 DEF Sound
  <2>6. Ages(x, y)
    BY <2>3, <2>4, <2>5 DEF Ages, Incoming
  <2>7. asked \subseteq asked' /\ asked' \subseteq Epochs /\ y.epoch \in asked'
    BY <2>1, <2>2, <2>4 DEF IInv, Typed
  <2>8. QED
    BY <1>3, <2>1, <2>3, <2>6, <2>7, OneEntryAges DEF x
<1>6. QED
  BY <1>4, <1>5

\* accept pops to the first entry whose slot was not reused.
LEMMA AcceptStep == ASSUME IInv, Accept PROVE IInv'
<1> DEFINE fits == {i \in 1..Len(queue) : EntryFor(queue[i][1], queue[i][2])}
           first == CHOOSE i \in fits : \A j \in fits : i <= j
<1>1. /\ closed' = closed /\ conns' = conns /\ nextEpoch' = nextEpoch /\ dial' = dial
      /\ asked' = asked
  BY DEF Accept
<1>2. /\ Len(queue) \in Nat /\ Len(queue) # 0 /\ queue \in Seq(Conn)
      /\ \A i \in 1..Len(queue) : queue[i] \in Conn /\ Queued(queue[i])
  BY ClaimTypes, EmptySeq DEF Accept, IInv, Typed
<1>3. \A c : Dialed(c)' <=> Dialed(c)
  BY <1>1 DEF Dialed
<1>4. \A d \in Dialers : dial'[d] \in {dial[d], NoDial}
  BY <1>1
<1>5. \A c \in Conn : c[1] \in Slots /\ c[2] \in Epochs /\ c = <<c[1], c[2]>>
  BY DEF Conn
<1>6. CASE fits = {}
  <2>1. queue' = <<>> /\ res' = res /\ minted' = minted
    BY <1>6 DEF Accept
  <2>2. Len(queue') = 0 /\ queue' \in Seq(Conn)
    BY <2>1, EmptySeq
  <2>3. Typed'
    BY <1>1, <2>1, <2>2 DEF IInv, Typed
  <2>4. \A c : ~Queued(c)'
    BY <2>2 DEF Queued
  <2>5. \A t \in Slots, f \in Epochs : conns[t].epoch = f => ~Queued(<<t, f>>)
    BY <1>6 DEF Queued, EntryFor
  <2>6. \A t \in Slots : Ages(conns[t], conns'[t])
    BY <1>1, AgeSame DEF IInv, Typed
  <2>7. OnlyOwnersClose'
    BY <1>1 DEF IInv, OnlyOwnersClose
  <2>8. Len(queue') <= Len(queue) /\ \A i, j \in 1..Len(queue') : queue'[i][2] = queue'[j][2] => i = j
    BY <1>2, <2>2
  <2>9. QED
    BY <1>1, <1>3, <1>4, <2>1, <2>3, <2>4, <2>5, <2>6, <2>7, <2>8, AgeKeeps
<1>7. CASE fits # {}
  <2>1. first \in fits /\ \A j \in fits : first <= j
    <3>1. fits \subseteq Nat
      BY <1>2
    <3> HIDE DEF fits
    <3>2. \E i \in fits : \A j \in fits : i <= j
      BY <1>7, <3>1, Least
    <3>3. QED
      BY <3>2
  <2>2. /\ queue' = SubSeq(queue, first + 1, Len(queue)) /\ res' = res \cup {queue[first]}
        /\ minted' = [minted EXCEPT ![conns[queue[first][1]].epoch] = @ + 1]
    BY <1>7 DEF Accept
  <2> HIDE DEF first
  <2>3. first \in 1..Len(queue) /\ EntryFor(queue[first][1], queue[first][2])
    BY <2>1
  <2>4. PICK s \in Slots, e \in Epochs : queue[first] = <<s, e>>
    BY <1>2, <1>5, <2>3
  <2>5. /\ conns[s].epoch = e /\ Queued(<<s, e>>) /\ <<s, e>> \in Conn
        /\ res' = res \cup {<<s, e>>} /\ minted' = [minted EXCEPT ![e] = @ + 1]
    <3>1. queue[first][1] = s /\ queue[first][2] = e
      BY <2>4
    <3>2. conns[s].epoch = e
      BY <2>3, <3>1 DEF EntryFor
    <3>3. Queued(<<s, e>>) /\ <<s, e>> \in Conn
      BY <1>2, <2>3, <2>4
    <3>4. minted' = [minted EXCEPT ![e] = @ + 1]
      BY <2>2, <3>1, <3>2
    <3>5. QED
      BY <2>2, <2>4, <3>2, <3>3, <3>4
  <2>6. KeptAt(s, e) /\ conns[s].connected
    BY <2>5 DEF IInv, Kept, KeptAt
  <2>7. ~Dialed(<<s, e>>)
    BY <2>5 DEF IInv, Once
  <2>8. /\ queue' \in Seq(Conn) /\ Len(queue') = Len(queue) - first
        /\ \A i \in 1..Len(queue') : first + i \in 1..Len(queue) /\ queue'[i] = queue[first + i]
    <3>1. first \in Int /\ Len(queue) \in Int /\ first + 1 \in Int /\ first >= 1 /\ first <= Len(queue)
      BY <1>2, <2>3
    <3>2. \A i \in (first + 1)..Len(queue) : queue[i] \in Conn
      BY <1>2, <3>1
    <3>3. /\ SubSeq(queue, first + 1, Len(queue)) \in Seq(Conn)
          /\ Len(SubSeq(queue, first + 1, Len(queue))) =
                IF first + 1 <= Len(queue) THEN Len(queue) - (first + 1) + 1 ELSE 0
          /\ \A i \in 1..(Len(queue) - (first + 1) + 1) :
                SubSeq(queue, first + 1, Len(queue))[i] = queue[first + 1 + i - 1]
      BY <3>1, <3>2, SubSeqProperties
    <3>4. Len(queue') = Len(queue) - first
      BY <2>2, <3>1, <3>3
    <3>5. \A i \in 1..Len(queue') : first + i \in 1..Len(queue) /\ queue'[i] = queue[first + 1 + i - 1]
      BY <2>2, <3>1, <3>3, <3>4
    <3>6. \A i \in 1..Len(queue') : first + 1 + i - 1 = first + i
      BY <3>1, <3>4
    <3>7. QED
      BY <2>2, <3>3, <3>4, <3>5, <3>6
  <2>9. first \in Nat /\ first >= 1 /\ Len(queue') \in Nat /\ Len(queue') <= Len(queue)
    BY <1>2, <2>3, <2>8
  <2>10. \A i, j \in 1..Len(queue') : queue'[i][2] = queue'[j][2] => i = j
    <3> SUFFICES ASSUME NEW i \in 1..Len(queue'), NEW j \in 1..Len(queue'),
                        queue'[i][2] = queue'[j][2]
                 PROVE  i = j
      OBVIOUS
    <3>1. first + i = first + j
      BY <2>8 DEF IInv, Once
    <3>2. QED
      BY <2>9, <3>1
  <2>11. \A c : Queued(c)' => Queued(c)
    BY <2>8 DEF Queued
  <2>12. ~Queued(<<s, e>>)'
    <3> SUFFICES ASSUME NEW i \in 1..Len(queue'), queue'[i] = <<s, e>> PROVE FALSE
      BY DEF Queued
    <3>1. first + i \in 1..Len(queue) /\ queue[first + i] = queue[first]
      BY <2>4, <2>8
    <3>2. first + i = first
      BY <2>3, <3>1 DEF IInv, Once
    <3>3. QED
      BY <2>9, <3>2
  <2>13. \A t \in Slots, f \in Epochs : conns[t].epoch = f /\ t # s =>
           (Queued(<<t, f>>) => Queued(<<t, f>>)')
    <3> SUFFICES ASSUME NEW t \in Slots, NEW f \in Epochs, conns[t].epoch = f, t # s,
                        NEW i \in 1..Len(queue), queue[i] = <<t, f>>
                 PROVE  Queued(<<t, f>>)'
      BY DEF Queued
    <3>1. i \in fits
      BY DEF EntryFor
    <3>2. i # first
      BY <2>4
    <3>3. i - first \in 1..Len(queue') /\ first + (i - first) = i
      BY <1>2, <2>1, <2>8, <2>9, <3>1, <3>2
    <3>4. queue'[i - first] = <<t, f>>
      BY <2>8, <3>3
    <3>5. QED
      BY <3>3, <3>4 DEF Queued
  <2>14. Typed'
    <3>1. minted' \in [Epochs -> Nat]
      <4>1. minted \in [Epochs -> Nat] /\ minted[e] \in Nat
        BY DEF IInv, Typed
      <4>2. minted[e] + 1 \in Nat
        BY <4>1
      <4>3. QED
        BY <2>5, <4>1, <4>2
    <3>2. res' \subseteq Conn
      BY <2>5 DEF IInv, Typed
    <3>3. QED
      BY <1>1, <2>8, <3>1, <3>2 DEF IInv, Typed
  <2> HIDE DEF fits
  <2>15. ~Dialed(<<s, e>>)'
    BY <1>3, <2>7
  <2>16. \A c \in Conn : (Queued(c)' => Queued(c)) /\ (Dialed(c)' => Dialed(c))
    BY <1>3, <2>11
  <2>17. \A t \in Slots, f \in Epochs : conns[t].epoch = f /\ t # s =>
           (Queued(<<t, f>>) => Queued(<<t, f>>)') /\ (Dialed(<<t, f>>) => Dialed(<<t, f>>)')
    BY <1>3, <2>13
  <2>18. QED
    BY <1>1, <1>4, <2>5, <2>6, <2>9, <2>10, <2>12, <2>14, <2>15, <2>16, <2>17, DeliverKeeps
<1>8. QED
  BY <1>6, <1>7

-----------------------------------------------------------------------------
\* The endpoint starts without a connection.
LEMMA InitIInv == Init => IInv
<1> SUFFICES ASSUME Init PROVE IInv
  OBVIOUS
<1>1. /\ queue = <<>> /\ <<>> \in Seq(Conn) /\ Len(queue) = 0
      /\ nextEpoch = 0 /\ 0 \in 0..MaxEpochs
  BY EmptySeq, EpochTypes DEF Init
<1>2. NoEntry \in Entry /\ NoEntry.epoch = NoEpoch /\ NoEntry.phase = "vacant" /\ ~NoEntry.connected
  BY DEF NoEntry, NewEntry, Entry, Phases
<1>3. \A s \in Slots : conns[s] = NoEntry
  BY DEF Init
<1>4. Typed
  BY <1>1, <1>2 DEF Init, Typed
<1>5. Sound(NoEntry)
  BY <1>2 DEF Sound
<1>6. \A c \in Conn : ~Claims(c) /\ ~Queued(c) /\ ~Dialed(c)
  BY <1>1, NoDialIsNone DEF Claims, Queued, Dialed, Init
<1>7. Fresh
  <2>1. NoEpoch < 0
    BY DEF NoEpoch
  <2>2. QED
    BY <1>1, <1>2, <1>3, <1>6, <2>1 DEF Init, Fresh
<1>8. Once
  BY <1>1, <1>6 DEF Init, Once
<1>9. Kept
  BY <1>2, <1>3, EpochTypes DEF Kept, KeptAt
<1>10. Bounded
  <2>1. Handshakes = {}
    BY <1>2, <1>3 DEF Handshakes, Incoming
  <2>2. QED
    BY <1>1, <2>1, FS_EmptySet, EpochTypes DEF Bounded
<1>11. OnlyOwnersClose
  BY <1>2, <1>3 DEF OnlyOwnersClose
<1>12. QED
  BY <1>3, <1>4, <1>5, <1>7, <1>8, <1>9, <1>10, <1>11 DEF IInv

\* Every step keeps the invariant.
LEMMA IInvStep == IInv /\ [Next]_vars => IInv'
<1> SUFFICES ASSUME IInv, [Next]_vars PROVE IInv'
  OBVIOUS
<1>1. CASE \E d \in Dialers, s \in Slots, peer \in Peers : Connect(d, s, peer)
  BY <1>1, ConnectStep
<1>2. CASE \E d \in Dialers : ConnectOk(d) \/ ConnectAborts(d)
  BY <1>2, ConnectOkStep, ConnectAbortsStep
<1>3. CASE \E s \in Slots, source \in Peers \cup {AnyPeer} : NewConnection(s, source)
  BY <1>3, NewConnectionStep
<1>4. CASE Accept
  BY <1>4, AcceptStep
<1>5. CASE \E s \in Slots, id \in Peers : Connected(s, id)
  BY <1>5, ConnectedStep
<1>6. CASE \E s \in Slots, reason \in {"app", "failed", "local"} : ConnectionLost(s, reason)
  BY <1>6, ConnectionLostStep
<1>7. CASE \E s \in Slots : Drained(s)
  BY <1>7, DrainedStep
<1>8. CASE \E r \in res : ResClose(r) \/ ResDrop(r)
  BY <1>8, ResCloseStep, ResDropStep
<1>9. CASE EndpointClose
  BY <1>9, EndpointCloseStep
<1>10. CASE UNCHANGED vars
  <2>1. \A s \in Slots : Ages(conns[s], conns[s])
    BY AgeSame DEF IInv, Typed
  <2>2. QED
    BY <1>10, <2>1, AgeQuiet DEF vars, IInv, Typed, OnlyOwnersClose
<1>11. QED
  BY <1>1, <1>2, <1>3, <1>4, <1>5, <1>6, <1>7, <1>8, <1>9, <1>10 DEF Next

\* The inductive invariant holds in every behaviour.
LEMMA Inductive == Spec => []IInv
BY InitIInv, IInvStep, PTL DEF Spec

-----------------------------------------------------------------------------
\* Every variable keeps its type: the accept queue never outgrows
\* ACCEPT_BACKLOG, though entries join it without a check of its length.
THEOREM TypeCorrect == Spec => []TypeOK
<1>1. IInv => TypeOK
  <2> SUFFICES ASSUME IInv PROVE TypeOK
    OBVIOUS
  <2>1. Len(queue) <= ACCEPT_BACKLOG
    <3>1. Len(queue) \in Nat /\ Cardinality(Handshakes) \in Nat
      BY LenProperties, FS_CardinalityType DEF IInv, Typed, Bounded
    <3>2. QED
      BY <3>1, EpochTypes DEF IInv, Bounded
  <2>2. QED
    BY <2>1 DEF IInv, Typed, TypeOK, Conn
<1>2. QED
  BY <1>1, Inductive, PTL

\* entry_for and the epochs: whatever slots are reused, no connection gets two
\* resources, and a resource's connection has the identity that was dialed or
\* that the wire vouched for.
THEOREM Delivery == Spec => []DeliveredOnceAsExpected
<1>1. IInv => DeliveredOnceAsExpected
  <2> SUFFICES ASSUME IInv PROVE DeliveredOnceAsExpected
    OBVIOUS
  <2>1. \A e \in Epochs : minted[e] <= 1
    BY DEF IInv, Once
  <2>2. \A r \in res : conns[r[1]].epoch = r[2] =>
          /\ conns[r[1]].peer # AnyPeer
          /\ conns[r[1]].expected \in {AnyPeer, conns[r[1]].peer}
    <3> SUFFICES ASSUME NEW r \in res, conns[r[1]].epoch = r[2]
                 PROVE  /\ conns[r[1]].peer # AnyPeer
                        /\ conns[r[1]].expected \in {AnyPeer, conns[r[1]].peer}
      OBVIOUS
    <3>1. r \in Conn /\ r[1] \in Slots /\ r[2] \in Epochs /\ r = <<r[1], r[2]>>
      BY ClaimTypes DEF IInv, Typed
    <3>2. conns[r[1]].connected
      BY <3>1 DEF IInv, Kept, KeptAt
    <3>3. QED
      BY <3>1, <3>2 DEF IInv, Sound
  <2>3. QED
    BY <2>1, <2>2 DEF DeliveredOnceAsExpected
<1>2. QED
  BY <1>1, Inductive, PTL

\* connection.close, its drop and DialGuard::drop close the caller's own
\* connection, never the next occupant of its slot.
THEOREM OwnersOnly == Spec => []OnlyOwnersClose
<1>1. IInv => OnlyOwnersClose
  BY DEF IInv
<1>2. QED
  BY <1>1, Inductive, PTL

\* An established connection always has a holder: cancelled dials and dropped
\* resources close theirs, and accept skips none that is still live.
THEOREM Owned == Spec => []NoOrphan
<1>1. IInv => NoOrphan
  <2> SUFFICES ASSUME IInv, NEW s \in Slots, conns[s].phase = "established"
               PROVE  Claims(<<s, conns[s].epoch>>)
    BY DEF NoOrphan, Claims, Queued, Dialed
  <2>1. conns[s] \in Entry /\ Sound(conns[s])
    BY DEF IInv, Typed
  <2>2. conns[s].epoch \in Epochs
    BY <2>1 DEF Entry, Sound
  <2>3. QED
    BY <2>2 DEF IInv, Kept, KeptAt
<1>2. QED
  BY <1>1, Inductive, PTL

\* The queue's slots are at most as many as its entries.
LEMMA QueueSlots ==
    ASSUME Typed
    PROVE  LET Q == {queue[i][1] : i \in 1..Len(queue)}
           IN IsFiniteSet(Q) /\ Cardinality(Q) <= Len(queue) /\ Cardinality(Q) \in Nat
<1> DEFINE n == Len(queue)
           I == 1..n
           Q == {queue[i][1] : i \in I}
           g == [i \in I |-> queue[i][1]]
<1>1. n \in Nat
  BY LenProperties DEF Typed
<1>2. IsFiniteSet(I) /\ Cardinality(I) = n
  BY <1>1, FS_Interval, SMTT(30)
<1>3. g \in Surjection(I, Q)
  BY DEF Surjection
<1> HIDE DEF I, Q, g
<1>4. IsFiniteSet(Q) /\ Cardinality(Q) <= Cardinality(I)
  BY <1>2, <1>3, FS_Surjection
<1>5. Cardinality(Q) \in Nat
  BY <1>4, FS_CardinalityType
<1>6. QED
  BY <1>2, <1>4, <1>5 DEF Q, I

\* accept_backlog bounds the connections that no acceptor has claimed.
THEOREM Backlog == Spec => []UnacceptedBounded
<1>1. IInv => UnacceptedBounded
  <2> SUFFICES ASSUME IInv PROVE UnacceptedBounded
    OBVIOUS
  <2> DEFINE U == {s \in Slots : /\ conns[s].accepted_side
                                 /\ conns[s].phase \in {"handshaking", "established"}
                                 /\ minted[conns[s].epoch] = 0}
             Q == {queue[i][1] : i \in 1..Len(queue)}
  <2>1. U \subseteq Handshakes \cup Q
    <3> SUFFICES ASSUME NEW s \in U PROVE s \in Handshakes \cup Q
      OBVIOUS
    <3>1. s \in Slots /\ conns[s] \in Entry /\ Sound(conns[s])
      BY DEF IInv, Typed
    <3>2. PICK e \in Epochs : conns[s].epoch = e
      BY <3>1 DEF Entry, Sound
    <3>3. minted[e] = 0 /\ KeptAt(s, e) /\ <<s, e>>[2] = e /\ <<s, e>>[1] = s
      BY <3>1, <3>2 DEF IInv, Kept
    <3>4. CASE conns[s].phase = "handshaking"
      BY <3>1, <3>2, <3>4, EpochTypes DEF Handshakes, Incoming, Sound
    <3>5. CASE conns[s].phase = "established"
      <4>1. <<s, e>> \notin res
        <5>1. <<s, e>> \in res => minted[<<s, e>>[2]] = 1
          BY DEF IInv, Once
        <5>2. QED
          BY <3>3, <5>1
      <4>2. Queued(<<s, e>>)
        BY <3>2, <3>3, <3>5, <4>1 DEF KeptAt, Claims
      <4>3. QED
        BY <3>3, <4>2 DEF Queued
    <3>6. QED
      BY <3>4, <3>5
  <2>2. IsFiniteSet(Q) /\ Cardinality(Q) <= Len(queue) /\ Cardinality(Q) \in Nat
    BY QueueSlots DEF IInv
  <2>3. /\ IsFiniteSet(Handshakes) /\ Cardinality(Handshakes) \in Nat /\ Len(queue) \in Nat
        /\ Len(queue) + Cardinality(Handshakes) <= ACCEPT_BACKLOG
    BY FS_CardinalityType, LenProperties DEF IInv, Typed, Bounded
  <2> HIDE DEF U, Q
  <2>4. /\ IsFiniteSet(Handshakes \cup Q)
        /\ Cardinality(Handshakes \cup Q) =
              Cardinality(Handshakes) + Cardinality(Q) - Cardinality(Handshakes \cap Q)
        /\ Cardinality(Handshakes \cap Q) \in Nat
    BY <2>2, <2>3, FS_Union, FS_Intersection, FS_CardinalityType
  <2>5. Cardinality(U) <= Cardinality(Handshakes \cup Q) /\ Cardinality(U) \in Nat
    BY <2>1, <2>4, Shrinks
  <2>6. Cardinality(U) <= ACCEPT_BACKLOG
    BY <2>2, <2>3, <2>4, <2>5, EpochTypes
  <2>7. QED
    BY <2>6 DEF UnacceptedBounded, U
<1>2. QED
  BY <1>1, Inductive, PTL
=============================================================================
