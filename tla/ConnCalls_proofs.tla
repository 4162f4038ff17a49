--------------------------- MODULE ConnCalls_proofs ---------------------------
(***************************************************************************)
(* The waiting calls of a connection, proved for any number of directions, *)
(* callers and streams and without fairness: no stream is lost on the way  *)
(* from noq to an acceptor, none is outstanding when an acceptor is told   *)
(* of the end, and no kick is lost while the pump is in its sends.         *)
(***************************************************************************)
EXTENDS ConnCalls, SequenceTheorems, TLAPS

States == {"idle", "fresh", "parked", "woken", "handing"}

\* A table of calls, each of an operation its caller makes.
CallTable(t) ==
    /\ t \in [Callers -> [op : Ops \cup {<<>>}, st : States]]
    /\ \A c \in Callers : t[c] = Idle \/ (t[c].op \in Does[c] /\ t[c].st \in States \ {"idle"})

\* The pump empties noq at once, so what the peer opened is what was handed out
\* followed by what is queued, each stream in its place.
Accounted(d) ==
    /\ Len(handed[d]) + Len(queue[d]) = opened[d]
    /\ \A i \in 1..Len(handed[d]) : handed[d][i] = i
    /\ \A i \in 1..Len(queue[d]) : queue[d][i] = Len(handed[d]) + i

\* An acceptor is told of the end only after it, with an empty queue.
ToldLast == \A d \in told : failed /\ queue[d] = <<>>

\* Whoever leaves noq something to transmit kicks the pump.
SentIsKicked == unsent => kicked

IInv ==
    /\ TypeOK
    /\ CallTable(call)
    /\ \A d \in Dirs : Accounted(d)
    /\ ToldLast
    /\ SentIsKicked

-----------------------------------------------------------------------------
\* A run of consecutive stream numbers is a sequence of streams.
LEMMA RunOfStreams ==
    ASSUME NEW first \in Nat, NEW n \in Nat, first <= n, n <= MaxStreams, MaxStreams \in Nat
    PROVE  /\ [i \in 1..(n - first) |-> first + i] \in Seq(Stream)
           /\ Len([i \in 1..(n - first) |-> first + i]) = n - first
<1> DEFINE f == [i \in 1..(n - first) |-> first + i]
<1>1. n - first \in Nat
  OBVIOUS
<1>2. \A i \in 1..(n - first) : first + i \in Stream
  BY DEF Stream
<1>3. f \in [1..(n - first) -> Stream]
  BY <1>2
<1>4. f \in Seq(Stream)
  BY <1>1, <1>3
<1>5. QED
  BY <1>1, <1>4

\* Waking keeps the table of calls well formed.
LEMMA WakeTable == CallTable(call) => CallTable(Wake(call))
<1> SUFFICES ASSUME CallTable(call) PROVE CallTable(Wake(call))
  OBVIOUS
<1>1. ASSUME NEW c \in Callers
      PROVE  /\ Wake(call)[c] \in [op : Ops \cup {<<>>}, st : States]
             /\ \/ Wake(call)[c] = Idle
                \/ Wake(call)[c].op \in Does[c] /\ Wake(call)[c].st \in States \ {"idle"}
  BY <1>1 DEF CallTable, Wake, States, Idle
<1>2. Wake(call) \in [Callers -> [op : Ops \cup {<<>>}, st : States]]
  BY <1>1 DEF Wake
<1>3. QED
  BY <1>1, <1>2 DEF CallTable

\* So does starting, moving or resolving one call.
LEMMA SetTable ==
    ASSUME CallTable(call), NEW c \in Callers, NEW r \in [op : Ops \cup {<<>>}, st : States],
           r = Idle \/ (r.op \in Does[c] /\ r.st \in States \ {"idle"})
    PROVE  CallTable([call EXCEPT ![c] = r])
BY DEF CallTable

\* The same for a call that only changes its standing.
LEMMA MoveTable ==
    ASSUME CallTable(call), NEW c \in Callers, call[c] # Idle,
           NEW s \in States \ {"idle"}
    PROVE  CallTable([call EXCEPT ![c].st = s])
<1>1. call[c] \in [op : Ops \cup {<<>>}, st : States] /\ call[c].op \in Does[c]
  BY DEF CallTable
<1>2. [call[c] EXCEPT !.st = s] \in [op : Ops \cup {<<>>}, st : States]
  BY <1>1
<1>3. [call[c] EXCEPT !.st = s].op \in Does[c] /\ [call[c] EXCEPT !.st = s].st \in States \ {"idle"}
  BY <1>1
<1>4. CallTable([call EXCEPT ![c] = [call[c] EXCEPT !.st = s]])
  BY <1>2, <1>3, SetTable
<1>5. QED
  BY <1>4

\* The first drain after an arrival queues what noq holds, in its place.
LEMMA TakeKeeps ==
    ASSUME IInv, NEW d \in Dirs, NEW n \in 0..MaxStreams, opened[d] <= n
    PROVE  /\ TakeStreams(d, n) \in Seq(Stream)
           /\ Len(handed[d]) + Len(TakeStreams(d, n)) = n
           /\ \A i \in 1..Len(TakeStreams(d, n)) : TakeStreams(d, n)[i] = Len(handed[d]) + i
<1> DEFINE q == queue[d]
           h == Len(handed[d])
           first == Len(q) + h
           f == [i \in 1..(n - first) |-> first + i]
<1>1. q \in Seq(Stream) /\ Len(q) \in Nat /\ h \in Nat
  BY LenProperties DEF IInv, TypeOK
<1>2. first \in Nat /\ first <= n /\ n \in Nat /\ n <= MaxStreams /\ MaxStreams \in Nat
  <2>1. MaxStreams \in Nat
    BY CallsAssumption
  <2>2. h + Len(q) = opened[d] /\ opened[d] \in Nat
    BY DEF IInv, Accounted, TypeOK
  <2> HIDE DEF q, h
  <2>3. QED
    BY <1>1, <2>1, <2>2
<1>3. f \in Seq(Stream) /\ Len(f) = n - first
  <2> HIDE DEF first
  <2>1. QED
    BY <1>2, RunOfStreams
<1>4. TakeStreams(d, n) = q \o f
  BY DEF TakeStreams
<1>5. \A i \in 1..Len(q) : q[i] = h + i
  BY DEF IInv, Accounted
<1>6. \A i \in 1..(n - first) : f[i] = first + i
  OBVIOUS
<1> HIDE DEF f, q, h
<1>7. /\ q \o f \in Seq(Stream) /\ Len(q \o f) = Len(q) + (n - first)
      /\ \A i \in 1..Len(q) + (n - first) :
            (q \o f)[i] = IF i <= Len(q) THEN q[i] ELSE f[i - Len(q)]
  BY <1>1, <1>3, ConcatProperties
<1>8. \A i \in 1..Len(q \o f) : (q \o f)[i] = h + i
  <2> TAKE i \in 1..Len(q \o f)
  <2>1. CASE i <= Len(q)
    BY <1>1, <1>2, <1>5, <1>7, <2>1
  <2>2. CASE i > Len(q)
    <3>1. i - Len(q) \in 1..(n - first) /\ i \in 1..Len(q) + (n - first)
      BY <1>1, <1>2, <1>7, <2>2
    <3>2. QED
      BY <1>1, <1>2, <1>6, <1>7, <2>2, <3>1
  <2>3. QED
    BY <1>1, <1>2, <1>7, <2>1, <2>2
<1>9. h + Len(q \o f) = n
  BY <1>1, <1>2, <1>7
<1>10. QED
  BY <1>4, <1>7, <1>8, <1>9 DEF h

\* A turn of the pump keeps the invariant, whichever arm it comes from.
LEMMA TurnKeeps ==
    ASSUME IInv, NEW streams \in [Dirs -> 0..MaxStreams],
           NEW lost \in BOOLEAN, NEW progress \in BOOLEAN, NEW force \in BOOLEAN,
           \A d \in Dirs : opened[d] <= streams[d],
           streams # opened => ~failed,
           Turn(streams, lost, progress, force),
           credit' \in [Dirs -> 0..1], dgram' \in BOOLEAN, path' \in Paths, kicked' \in BOOLEAN
    PROVE  IInv'
<1>1. \A d \in Dirs : queue'[d] \in Seq(Stream) /\ Accounted(d)'
  <2> SUFFICES ASSUME NEW d \in Dirs PROVE queue'[d] \in Seq(Stream) /\ Accounted(d)'
    OBVIOUS
  <2>1. handed' = handed /\ opened' = streams
    BY DEF Turn
  <2>2. CASE streams # opened
    <3>1. queue'[d] = TakeStreams(d, streams[d])
      BY <2>2 DEF Turn
    <3>2. streams[d] \in 0..MaxStreams /\ opened[d] <= streams[d]
      OBVIOUS
    <3>3. /\ queue'[d] \in Seq(Stream)
          /\ Len(handed[d]) + Len(queue'[d]) = streams[d]
          /\ \A i \in 1..Len(queue'[d]) : queue'[d][i] = Len(handed[d]) + i
      <4> DEFINE n == streams[d]
      <4>1. n \in 0..MaxStreams /\ opened[d] <= n
        BY <3>2
      <4> HIDE DEF n
      <4>2. /\ TakeStreams(d, n) \in Seq(Stream)
            /\ Len(handed[d]) + Len(TakeStreams(d, n)) = n
            /\ \A i \in 1..Len(TakeStreams(d, n)) : TakeStreams(d, n)[i] = Len(handed[d]) + i
        BY <4>1, TakeKeeps
      <4>3. QED
        BY <3>1, <4>2 DEF n
    <3>4. \A i \in 1..Len(handed[d]) : handed[d][i] = i
      BY DEF IInv, Accounted
    <3>5. QED
      BY <2>1, <3>3, <3>4 DEF Accounted
  <2>3. CASE streams = opened
    <3>1. queue' = queue
      BY <2>3 DEF Turn
    <3>2. QED
      BY <2>1, <2>3, <3>1 DEF Accounted, IInv, TypeOK
  <2>4. QED
    BY <2>2, <2>3
<1>2. queue' \in [Dirs -> Seq(Stream)]
  <2>1. queue' = IF streams # opened THEN [d \in Dirs |-> TakeStreams(d, streams[d])] ELSE queue
    BY DEF Turn
  <2>2. queue \in [Dirs -> Seq(Stream)]
    BY DEF IInv, TypeOK
  <2>3. ASSUME streams # opened PROVE queue' \in [Dirs -> Seq(Stream)]
    <3>1. \A d \in Dirs : TakeStreams(d, streams[d]) \in Seq(Stream)
      BY TakeKeeps
    <3>2. QED
      BY <2>1, <2>3, <3>1
  <2>4. QED
    BY <2>1, <2>2, <2>3
<1>3. CallTable(call')
  <2>1. call' = call \/ call' = Wake(call)
    BY DEF Turn
  <2>2. QED
    BY <2>1, WakeTable DEF IInv
<1>4. TypeOK'
  <2>1. \A c \in Callers :
          \/ call'[c] = Idle
          \/ call'[c].op \in Does[c] /\ call'[c].st \in {"fresh", "parked", "woken", "handing"}
    BY <1>3 DEF CallTable, States
  <2>2. /\ unsent' \in BOOLEAN /\ closing' \in BOOLEAN /\ failed' \in BOOLEAN
        /\ pump' \in {"flush", "select", "done"} /\ opened' \in [Dirs -> 0..MaxStreams]
    BY DEF Turn
  <2>3. UNCHANGED <<watching, last, closed, lingered, handed, told>>
    BY DEF Turn
  <2>4. QED
    BY <1>2, <2>1, <2>2, <2>3 DEF IInv, TypeOK
<1>5. ToldLast'
  <2>1. told' = told /\ (failed => failed')
    BY DEF Turn
  <2>2. failed => queue' = queue
    BY DEF Turn
  <2>3. QED
    BY <2>1, <2>2 DEF IInv, ToldLast
<1>6. SentIsKicked'
  BY DEF Turn, SentIsKicked
<1>7. QED
  BY <1>1, <1>3, <1>4, <1>5, <1>6 DEF IInv

\* The types of everything but the queues.
Rest ==
    /\ credit \in [Dirs -> 0..1] /\ dgram \in BOOLEAN /\ unsent \in BOOLEAN
    /\ closing \in BOOLEAN /\ path \in Paths
    /\ watching \in BOOLEAN /\ last \in Paths \cup {"none"}
    /\ pump \in {"flush", "select", "done"} /\ kicked \in BOOLEAN
    /\ closed \in BOOLEAN /\ lingered \in BOOLEAN

\* A step that leaves the streams and the connection's error alone keeps the
\* invariant if it keeps the rest of it.
LEMMA QuietKeeps ==
    ASSUME IInv, UNCHANGED <<opened, queue, handed, told, failed>>,
           CallTable(call'), Rest', SentIsKicked'
    PROVE  IInv'
<1>1. \A c \in Callers :
        \/ call'[c] = Idle
        \/ call'[c].op \in Does[c] /\ call'[c].st \in {"fresh", "parked", "woken", "handing"}
  BY DEF CallTable, States
<1>2. TypeOK'
  BY <1>1 DEF IInv, TypeOK, Rest
<1>3. (\A d \in Dirs : Accounted(d))' /\ ToldLast'
  BY DEF IInv, Accounted, ToldLast
<1>4. QED
  BY <1>2, <1>3 DEF IInv

\* Resolving or parking a polled call keeps the table.
LEMMA AnswerTable ==
    ASSUME IInv, NEW c \in Callers, call[c].st # "idle", Resolve(c) \/ Park(c)
    PROVE  CallTable(call')
<1>1. Idle \in [op : Ops \cup {<<>>}, st : States]
  BY DEF Idle, States
<1>2. call[c] # Idle
  BY DEF Idle
<1>3. Resolve(c) => CallTable(call')
  BY <1>1, SetTable DEF Resolve, IInv
<1>4. Park(c) => CallTable(call')
  <2>1. "parked" \in States \ {"idle"} /\ CallTable(call)
    BY DEF IInv, States
  <2>2. CallTable([call EXCEPT ![c].st = "parked"])
    BY <1>2, <2>1, MoveTable
  <2>3. QED
    BY <2>2 DEF Park
<1>5. QED
  BY <1>3, <1>4

\* pop_front leaves the tail.
LEMMA PopFront ==
    ASSUME NEW q \in Seq(Stream), q # <<>>
    PROVE  SubSeq(q, 1, 0) \o SubSeq(q, 2, Len(q)) = Tail(q)
<1>1. SubSeq(q, 1, 0) = <<>>
  BY SubSeqEmpty
<1>2. SubSeq(q, 2, Len(q)) = Tail(q) /\ Tail(q) \in Seq(Stream)
  BY TailIsSubSeq, HeadTailProperties
<1>3. QED
  BY <1>1, <1>2, ConcatEmptySeq

\* The oldest stream moves from the queue to the acceptor, and both sequences of
\* stream numbers stay consecutive.
LEMMA MoveOldest ==
    ASSUME NEW q \in Seq(Stream), NEW h \in Seq(Stream), q # <<>>,
           \A i \in 1..Len(h) : h[i] = i,
           \A i \in 1..Len(q) : q[i] = Len(h) + i
    PROVE  /\ Tail(q) \in Seq(Stream) /\ Append(h, q[1]) \in Seq(Stream)
           /\ Len(Append(h, q[1])) = Len(h) + 1 /\ Len(Tail(q)) = Len(q) - 1
           /\ \A i \in 1..(Len(h) + 1) : Append(h, q[1])[i] = i
           /\ \A i \in 1..(Len(q) - 1) : Tail(q)[i] = Len(h) + 1 + i
<1>1. Len(q) \in Nat \ {0} /\ Len(h) \in Nat
  BY EmptySeq, LenProperties
<1>2. q[1] \in Stream /\ q[1] = Len(h) + 1
  BY <1>1, ElementOfSeq
<1>3. /\ Tail(q) \in Seq(Stream) /\ Len(Tail(q)) = Len(q) - 1
      /\ \A i \in 1..(Len(q) - 1) : Tail(q)[i] = q[i + 1]
  BY HeadTailProperties
<1>4. /\ Append(h, q[1]) \in Seq(Stream) /\ Len(Append(h, q[1])) = Len(h) + 1
      /\ \A i \in 1..Len(h) : Append(h, q[1])[i] = h[i]
      /\ Append(h, q[1])[Len(h) + 1] = q[1]
  BY <1>2, AppendProperties
<1>5. \A i \in 1..(Len(h) + 1) : Append(h, q[1])[i] = i
  <2> TAKE i \in 1..(Len(h) + 1)
  <2>1. i \in 1..Len(h) \/ i = Len(h) + 1
    BY <1>1
  <2>2. QED
    BY <1>2, <1>4, <2>1
<1>6. \A i \in 1..(Len(q) - 1) : Tail(q)[i] = Len(h) + 1 + i
  <2> TAKE i \in 1..(Len(q) - 1)
  <2>1. i + 1 \in 1..Len(q)
    BY <1>1
  <2>2. Tail(q)[i] = Len(h) + (i + 1)
    BY <1>3, <2>1
  <2>3. QED
    BY <1>1, <2>2
<1>7. QED
  BY <1>3, <1>4, <1>5, <1>6

\* An accept keeps the invariant: it takes the oldest stream, or is told of the
\* end when none is left, or parks.
LEMMA AcceptKeeps ==
    ASSUME IInv, NEW c \in Callers, NEW d \in Dirs, AcceptStream(c, d) PROVE IInv'
<1>1. call[c].st # "idle"
  BY DEF AcceptStream, Polled
<1>2. CallTable(call')
  <2>1. Resolve(c) \/ Park(c)
    BY DEF AcceptStream
  <2>2. QED
    BY <1>1, <2>1, AnswerTable
<1>3. UNCHANGED <<noqVars, failed, path, watching, last, pumpVars>>
  BY DEF AcceptStream
<1>4. queue \in [Dirs -> Seq(Stream)] /\ handed \in [Dirs -> Seq(Stream)]
  BY DEF IInv, TypeOK
<1>5. \/ UNCHANGED <<queue, handed>> /\ told' \in {told, told \cup {d}} /\
            (told' # told => failed /\ queue[d] = <<>>)
      \/ /\ queue[d] # <<>> /\ UNCHANGED told
         /\ handed' = [handed EXCEPT ![d] = Append(@, queue[d][1])]
         /\ queue' = [queue EXCEPT ![d] = SubSeq(@, 1, 0) \o SubSeq(@, 2, Len(@))]
  BY DEF AcceptStream, AcceptFails, OldestFirst
<1>6. TypeOK' <=> /\ queue' \in [Dirs -> Seq(Stream)] /\ handed' \in [Dirs -> Seq(Stream)]
                  /\ told' \subseteq Dirs
  <2>1. \A e \in Callers :
          \/ call'[e] = Idle
          \/ call'[e].op \in Does[e] /\ call'[e].st \in {"fresh", "parked", "woken", "handing"}
    BY <1>2 DEF CallTable, States
  <2>2. QED
    BY <1>3, <2>1 DEF IInv, TypeOK, noqVars, pumpVars
<1>7. SentIsKicked'
  BY <1>3 DEF IInv, SentIsKicked, noqVars, pumpVars
<1>8. CASE UNCHANGED <<queue, handed>> /\ told' \in {told, told \cup {d}} /\
            (told' # told => failed /\ queue[d] = <<>>)
  <2>1. TypeOK'
    BY <1>4, <1>6, <1>8 DEF IInv, TypeOK
  <2>2. (\A e \in Dirs : Accounted(e))' /\ ToldLast'
    BY <1>3, <1>8 DEF IInv, Accounted, ToldLast, noqVars
  <2>3. QED
    BY <1>2, <1>7, <2>1, <2>2 DEF IInv
<1>9. CASE /\ queue[d] # <<>> /\ UNCHANGED told
           /\ handed' = [handed EXCEPT ![d] = Append(@, queue[d][1])]
           /\ queue' = [queue EXCEPT ![d] = SubSeq(@, 1, 0) \o SubSeq(@, 2, Len(@))]
  <2> DEFINE q == queue[d]
             h == handed[d]
  <2>1. /\ q \in Seq(Stream) /\ h \in Seq(Stream)
        /\ Len(q) \in Nat \ {0} /\ Len(h) \in Nat /\ q[1] \in Stream
    BY <1>4, <1>9, EmptySeq, LenProperties, ElementOfSeq
  <2>2. Len(h) + Len(q) = opened[d] /\ opened[d] \in Nat
    BY DEF IInv, Accounted, TypeOK
  <2>3. /\ \A i \in 1..Len(h) : h[i] = i
        /\ \A i \in 1..Len(q) : q[i] = Len(h) + i
    BY DEF IInv, Accounted
  <2>4. queue'[d] = SubSeq(q, 1, 0) \o SubSeq(q, 2, Len(q)) /\ handed'[d] = Append(h, q[1])
    BY <1>4, <1>9
  <2>5. \A e \in Dirs : e # d => queue'[e] = queue[e] /\ handed'[e] = handed[e]
    BY <1>4, <1>9
  <2> HIDE DEF q, h
  <2>6. /\ queue'[d] \in Seq(Stream) /\ handed'[d] \in Seq(Stream)
        /\ Len(handed'[d]) + Len(queue'[d]) = Len(h) + Len(q)
        /\ \A i \in 1..Len(handed'[d]) : handed'[d][i] = i
        /\ \A i \in 1..Len(queue'[d]) : queue'[d][i] = Len(handed'[d]) + i
    <3>1. queue'[d] = Tail(q) /\ handed'[d] = Append(h, q[1])
      BY <1>9, <2>1, <2>4, PopFront DEF q
    <3>2. /\ Tail(q) \in Seq(Stream) /\ Append(h, q[1]) \in Seq(Stream)
          /\ Len(Append(h, q[1])) = Len(h) + 1 /\ Len(Tail(q)) = Len(q) - 1
          /\ \A i \in 1..(Len(h) + 1) : Append(h, q[1])[i] = i
          /\ \A i \in 1..(Len(q) - 1) : Tail(q)[i] = Len(h) + 1 + i
      <4>1. q # <<>>
        BY <1>9 DEF q
      <4>2. QED
        BY <2>1, <2>3, <4>1, MoveOldest
    <3>3. QED
      BY <2>1, <3>1, <3>2
  <2>9. Accounted(d)'
    BY <1>3, <2>2, <2>6 DEF Accounted, noqVars
  <2>10. (\A e \in Dirs : Accounted(e))'
    <3> SUFFICES ASSUME NEW e \in Dirs PROVE Accounted(e)'
      OBVIOUS
    <3>1. CASE e = d
      BY <2>9, <3>1
    <3>2. CASE e # d
      BY <1>3, <2>5, <3>2 DEF IInv, Accounted, noqVars
    <3>3. QED
      BY <3>1, <3>2
  <2>11. queue' \in [Dirs -> Seq(Stream)] /\ handed' \in [Dirs -> Seq(Stream)]
    <3>1. DOMAIN queue' = Dirs /\ DOMAIN handed' = Dirs
      BY <1>4, <1>9
    <3>2. QED
      BY <1>4, <1>9, <2>4, <2>6
  <2>12. TypeOK'
    BY <1>6, <1>9, <2>11 DEF IInv, TypeOK
  <2>13. ToldLast'
    <3>1. d \notin told
      BY <1>9 DEF IInv, ToldLast
    <3>2. told \subseteq Dirs
      BY DEF IInv, TypeOK
    <3>3. QED
      BY <1>3, <1>9, <2>5, <3>1, <3>2 DEF IInv, ToldLast
  <2>14. QED
    BY <1>2, <1>7, <2>10, <2>12, <2>13 DEF IInv
<1>10. QED
  BY <1>5, <1>8, <1>9

\* The other polls keep the invariant.
LEMMA PollKeeps ==
    ASSUME IInv, NEW c \in Callers, Poll(c) PROVE IInv'
<1>1. Rest /\ SentIsKicked
  BY DEF IInv, TypeOK, Rest
<1>2. ASSUME NEW d \in Dirs, OpenStream(c, d) PROVE IInv'
  <2>1. UNCHANGED <<opened, dgram, closing, queue, failed, path, watching, last,
                    pump, closed, lingered, handed, told>>
    BY <1>2 DEF OpenStream
  <2>2. call[c].st # "idle" /\ (Resolve(c) \/ Park(c))
    BY <1>2 DEF OpenStream, Polled
  <2>3. CallTable(call')
    BY <2>2, AnswerTable
  <2>4. credit' \in [Dirs -> 0..1]
    <3>1. credit \in [Dirs -> 0..1] /\ credit[d] \in 0..1
      BY <1>1 DEF Rest
    <3>2. credit' = credit \/ (credit[d] > 0 /\ credit' = [credit EXCEPT ![d] = credit[d] - 1])
      BY <1>2 DEF OpenStream
    <3>3. credit[d] > 0 => credit[d] - 1 \in 0..1
      BY <3>1
    <3>4. QED
      BY <3>1, <3>2, <3>3
  <2>5. /\ unsent' \in BOOLEAN /\ kicked' \in BOOLEAN /\ (unsent' => kicked')
    <3>1. \/ UNCHANGED <<unsent, kicked>>
          \/ \E b \in BOOLEAN : unsent' = (unsent \/ b) /\ kicked' = (kicked \/ b)
      BY <1>2 DEF OpenStream
    <3>2. unsent \in BOOLEAN /\ kicked \in BOOLEAN /\ (unsent => kicked)
      BY <1>1 DEF Rest, SentIsKicked
    <3>3. QED
      BY <3>1, <3>2
  <2>6. Rest'
    BY <1>1, <2>1, <2>4, <2>5 DEF Rest
  <2>7. QED
    BY <2>1, <2>3, <2>5, <2>6, QuietKeeps DEF SentIsKicked
<1>3. CASE RecvDatagram(c) \/ WaitClosed(c)
  <2>1. UNCHANGED <<opened, credit, unsent, closing, queue, failed, path, watching,
                    last, pumpVars, handed, told>> /\ dgram' \in {dgram, FALSE}
    BY <1>3 DEF RecvDatagram, WaitClosed, noqVars
  <2>2. call[c].st # "idle" /\ (Resolve(c) \/ Park(c))
    BY <1>3 DEF RecvDatagram, WaitClosed, Polled
  <2>3. CallTable(call')
    BY <2>2, AnswerTable
  <2>4. Rest' /\ SentIsKicked'
    BY <1>1, <2>1 DEF Rest, SentIsKicked, pumpVars
  <2>5. QED
    BY <2>1, <2>3, <2>4, QuietKeeps
<1>4. CASE WatchPath(c)
  <2>1. UNCHANGED <<noqVars, queue, failed, path, watching, pumpVars, handed, told>>
    BY <1>4 DEF WatchPath
  <2>2. last' \in Paths \cup {"none"}
    BY <1>1, <1>4 DEF WatchPath, Rest
  <2>3. CallTable(call')
    <3>1. call[c].st # "idle" /\ call[c] # Idle
      BY <1>4 DEF WatchPath, Polled, Idle
    <3>2. "handing" \in States \ {"idle"} /\ CallTable(call)
      BY DEF IInv, States
    <3>3. CallTable([call EXCEPT ![c].st = "handing"])
      BY <3>1, <3>2, MoveTable
    <3>4. Resolve(c) \/ Park(c) \/ call' = [call EXCEPT ![c].st = "handing"]
      BY <1>4 DEF WatchPath
    <3>5. Resolve(c) \/ Park(c) => CallTable(call')
      BY <3>1, AnswerTable
    <3>6. QED
      BY <3>3, <3>4, <3>5
  <2>4. Rest' /\ SentIsKicked'
    BY <1>1, <2>1, <2>2 DEF Rest, SentIsKicked, pumpVars, noqVars
  <2>5. QED
    BY <2>1, <2>3, <2>4, QuietKeeps DEF noqVars
<1>5. QED
  BY <1>2, <1>3, <1>4, AcceptKeeps DEF Poll

\* Entering, leaving and cancelling a call keep the invariant.
LEMMA CallerKeeps ==
    ASSUME IInv, NEW c \in Callers,
           (\E op \in Ops : Call(c, op)) \/ WatcherTakes(c) \/ Cancel(c)
    PROVE  IInv'
<1>1. Rest /\ SentIsKicked /\ CallTable(call)
  BY DEF IInv, TypeOK, Rest
<1>2. /\ UNCHANGED <<noqVars, queue, failed, path, last, pumpVars, handed, told>>
      /\ watching' \in BOOLEAN
  BY <1>1 DEF Call, WatcherTakes, Cancel, Rest
<1>3. Rest' /\ SentIsKicked'
  BY <1>1, <1>2 DEF Rest, SentIsKicked, noqVars, pumpVars
<1>4. ASSUME NEW op \in Ops, Call(c, op) PROVE CallTable(call')
  <2> DEFINE r == [op |-> op, st |-> IF op[1] = "open" THEN "fresh" ELSE "woken"]
  <2>1. r.st \in {"fresh", "woken"} /\ r.op = op /\ op \in Does[c]
    BY <1>4 DEF Call
  <2>2. r \in [op : Ops \cup {<<>>}, st : States] /\ r.st \in States \ {"idle"}
    BY <2>1 DEF States
  <2>3. call' = [call EXCEPT ![c] = r]
    BY <1>4 DEF Call
  <2> HIDE DEF r
  <2>4. CallTable([call EXCEPT ![c] = r])
    BY <1>1, <2>1, <2>2, SetTable
  <2>5. QED
    BY <2>3, <2>4
<1>5. CASE WatcherTakes(c) \/ Cancel(c)
  <2>1. call[c].st # "idle" /\ call[c] # Idle
    BY <1>5 DEF WatcherTakes, Cancel, Waiting, Idle
  <2>2. "woken" \in States \ {"idle"}
    BY DEF States
  <2>3. CallTable([call EXCEPT ![c].st = "woken"])
    BY <1>1, <2>1, <2>2, MoveTable
  <2>4. Resolve(c) => CallTable(call')
    BY <2>1, AnswerTable
  <2>5. Resolve(c) \/ call' = [call EXCEPT ![c].st = "woken"]
    BY <1>5 DEF WatcherTakes, Cancel
  <2>6. QED
    BY <1>2, <1>3, <2>3, <2>4, <2>5, QuietKeeps DEF noqVars
<1>6. QED
  BY <1>2, <1>3, <1>4, <1>5, QuietKeeps DEF noqVars

\* The pump's arms keep the invariant.
LEMMA PumpKeeps ==
    ASSUME IInv,
           \/ StreamsArrive \/ (\E d \in Dirs : CreditArrives(d)) \/ DatagramArrives
           \/ PeerCloses \/ Kick \/ Tick \/ ChannelDies
    PROVE  IInv'
<1>1. Rest /\ opened \in [Dirs -> 0..MaxStreams] /\ MaxStreams \in Nat
  BY CallsAssumption DEF IInv, TypeOK, Rest
<1>2. \A d \in Dirs : opened[d] <= opened[d]
  <2> TAKE d \in Dirs
  <2>1. opened[d] \in Nat
    BY <1>1
  <2>2. QED
    BY <2>1
<1>3. CASE StreamsArrive
  <2>1. PICK more \in [Dirs -> 0..MaxStreams] :
          LET streams == [d \in Dirs |-> opened[d] + more[d]]
          IN /\ Receiving /\ \E d \in Dirs : more[d] > 0
             /\ \A d \in Dirs : streams[d] <= MaxStreams
             /\ Turn(streams, FALSE, TRUE, FALSE)
             /\ UNCHANGED <<credit, dgram, path, kicked>>
    BY <1>3 DEF StreamsArrive
  <2> DEFINE streams == [d \in Dirs |-> opened[d] + more[d]]
  <2>2. \A d \in Dirs : streams[d] \in 0..MaxStreams /\ opened[d] <= streams[d]
    <3> TAKE d \in Dirs
    <3>1. opened[d] \in 0..MaxStreams /\ more[d] \in 0..MaxStreams /\ opened[d] + more[d] <= MaxStreams
      BY <1>1, <2>1
    <3>2. QED
      BY <1>1, <3>1
  <2>3. streams \in [Dirs -> 0..MaxStreams]
    BY <2>2
  <2>4. ~failed /\ Turn(streams, FALSE, TRUE, FALSE) /\ UNCHANGED <<credit, dgram, path, kicked>>
    BY <2>1 DEF Receiving
  <2> HIDE DEF streams
  <2>5. QED
    BY <1>1, <2>2, <2>3, <2>4, TurnKeeps DEF Rest
<1>4. ASSUME NEW d \in Dirs, CreditArrives(d) PROVE IInv'
  <2>1. Turn(opened, FALSE, TRUE, FALSE) /\ UNCHANGED <<dgram, path, kicked>>
    BY <1>4 DEF CreditArrives
  <2>2. credit' \in [Dirs -> 0..1]
    <3>1. 1 \in 0..1 /\ credit' = [credit EXCEPT ![d] = 1]
      BY <1>4 DEF CreditArrives
    <3>2. QED
      BY <1>1, <3>1 DEF Rest
  <2>3. QED
    BY <1>1, <1>2, <2>1, <2>2, TurnKeeps DEF Rest
<1>5. CASE DatagramArrives \/ PeerCloses \/ Kick \/ Tick \/ ChannelDies
  <2>1. \E lost, progress, force \in BOOLEAN : Turn(opened, lost, progress, force)
    <3>1. (DatagramArrives \/ PeerCloses => \E lost \in BOOLEAN : Turn(opened, lost, TRUE, FALSE))
      BY DEF DatagramArrives, PeerCloses
    <3>2. Kick \/ ChannelDies => Turn(opened, FALSE, FALSE, FALSE)
      BY DEF Kick, ChannelDies
    <3>3. Tick => \E lost \in BOOLEAN : Turn(opened, lost, FALSE, TRUE)
      <4>1. Receiving \in BOOLEAN
        BY DEF Receiving
      <4>2. QED
        BY <4>1 DEF Tick
    <3>4. QED
      BY <1>5, <3>1, <3>2, <3>3
  <2>2. /\ credit' = credit /\ dgram' \in {dgram, TRUE} /\ path' \in {path, "relay"}
        /\ kicked' \in {kicked, FALSE}
    BY <1>5 DEF DatagramArrives, PeerCloses, Kick, Tick, ChannelDies
  <2>3. QED
    BY <1>1, <1>2, <2>1, <2>2, TurnKeeps DEF Rest, Paths
<1>6. QED
  BY <1>3, <1>4, <1>5

\* The rest of the steps keep the invariant.
LEMMA OtherKeeps ==
    ASSUME IInv,
           \/ FlushDone \/ LingerPasses
           \/ SendDatagram \/ CloseConn \/ CloseEndpoint \/ ChannelOpens \/ UNCHANGED vars
    PROVE  IInv'
<1>1. Rest /\ SentIsKicked /\ CallTable(call)
  BY DEF IInv, TypeOK, Rest
<1>2. UNCHANGED <<opened, queue, handed, told, failed>>
  BY DEF FlushDone, LingerPasses, SendDatagram, CloseConn, CloseEndpoint, ChannelOpens,
     vars, noqVars
<1>3. CallTable(call')
  <2>1. call' = call \/ call' = Wake(call)
    BY DEF FlushDone, LingerPasses, SendDatagram, CloseConn, CloseEndpoint, ChannelOpens,
       vars, callVars
  <2>2. QED
    BY <1>1, <2>1, WakeTable
<1>4. Rest' /\ SentIsKicked'
  <2>1. CASE FlushDone \/ LingerPasses \/ UNCHANGED vars
    <3>1. UNCHANGED <<credit, dgram, unsent, closing, path, watching, last, kicked, closed>>
      BY <2>1 DEF FlushDone, LingerPasses, KeepKick, vars, noqVars, callVars, pumpVars
    <3>2. pump' \in {pump, "done", "select"} /\ lingered' \in {lingered, TRUE}
      BY <2>1 DEF FlushDone, LingerPasses, vars, pumpVars
    <3>3. QED
      BY <1>1, <3>1, <3>2 DEF Rest, SentIsKicked
  <2>2. CASE SendDatagram \/ CloseConn
    BY <1>1, <2>2 DEF SendDatagram, CloseConn, callVars, Rest, SentIsKicked
  <2>3. CASE CloseEndpoint \/ ChannelOpens
    BY <1>1, <2>3 DEF CloseEndpoint, ChannelOpens, noqVars, callVars, Rest, SentIsKicked, Paths
  <2>4. QED
    BY <2>1, <2>2, <2>3
<1>5. QED
  BY <1>2, <1>3, <1>4, QuietKeeps

\* The initial state satisfies the inductive invariant.
LEMMA InitIInv == Init => IInv
<1> SUFFICES ASSUME Init PROVE IInv
  OBVIOUS
<1>1. 0 \in 0..MaxStreams /\ 0 \in 0..1
  BY CallsAssumption
<1>2. \A d \in Dirs : handed[d] = <<>> /\ queue[d] = <<>> /\ opened[d] = 0
  BY DEF Init
<1>3. CallTable(call)
  BY DEF Init, CallTable, Idle, States
<1>4. TypeOK
  <2>1. <<>> \in Seq(Stream)
    BY EmptySeq
  <2>2. /\ queue \in [Dirs -> Seq(Stream)] /\ handed \in [Dirs -> Seq(Stream)]
        /\ opened \in [Dirs -> 0..MaxStreams] /\ credit \in [Dirs -> 0..1]
    BY <1>1, <2>1 DEF Init
  <2>3. \A c \in Callers : call[c] = Idle
    BY DEF Init
  <2>4. QED
    BY <2>2, <2>3 DEF Init, TypeOK, Paths
<1>5. \A d \in Dirs : Accounted(d)
  <2> TAKE d \in Dirs
  <2>1. Len(handed[d]) = 0 /\ Len(queue[d]) = 0 /\ opened[d] = 0
    BY <1>2, EmptySeq
  <2>2. QED
    BY <2>1 DEF Accounted
<1>6. QED
  BY <1>3, <1>4, <1>5 DEF IInv, Init, ToldLast, SentIsKicked

\* Every step keeps the inductive invariant.
LEMMA IInvStep == IInv /\ [Next]_vars => IInv'
BY PumpKeeps, OtherKeeps, PollKeeps, CallerKeeps DEF Next

\* The inductive invariant holds throughout.
LEMMA Inductive == Spec => []IInv
BY InitIInv, IInvStep, PTL DEF Spec

-----------------------------------------------------------------------------
\* noq's view of the connection, the queues, the calls and the pump keep their
\* types; in particular accept never yields a stream the peer has not opened.
THEOREM TypeCorrect == Spec => []TypeOK
BY Inductive, PTL DEF IInv

\* Streams are handed out in the order the peer opened them, each exactly once,
\* whatever accepts are cancelled and however the pump's turns fall.
THEOREM NoneLost == Spec => []NoStreamLost
<1>1. IInv => NoStreamLost
  <2> SUFFICES ASSUME IInv, NEW d \in Dirs,
                      NEW i \in 1..(Len(handed[d]) + Len(queue[d]))
               PROVE  (handed[d] \o queue[d])[i] = i
    BY DEF NoStreamLost
  <2>1. handed[d] \in Seq(Stream) /\ queue[d] \in Seq(Stream)
    BY DEF IInv, TypeOK
  <2>2. Len(handed[d]) \in Nat /\ Len(queue[d]) \in Nat
    BY <2>1, LenProperties
  <2>3. (handed[d] \o queue[d])[i] =
          IF i <= Len(handed[d]) THEN handed[d][i] ELSE queue[d][i - Len(handed[d])]
    BY <2>1, ConcatProperties
  <2>4. /\ \A j \in 1..Len(handed[d]) : handed[d][j] = j
        /\ \A j \in 1..Len(queue[d]) : queue[d][j] = Len(handed[d]) + j
    BY DEF IInv, Accounted
  <2>5. CASE i <= Len(handed[d])
    BY <2>2, <2>3, <2>4, <2>5
  <2>6. CASE i > Len(handed[d])
    <3>1. i - Len(handed[d]) \in 1..Len(queue[d])
      <4> DEFINE a == Len(handed[d])
                 b == Len(queue[d])
      <4>1. a \in Nat /\ b \in Nat /\ i \in 1..(a + b) /\ i > a
        BY <2>2, <2>6
      <4> HIDE DEF a, b
      <4>2. i - a \in 1..b
        BY <4>1
      <4>3. QED
        BY <4>2 DEF a, b
    <3>2. QED
      BY <2>2, <2>3, <2>4, <2>6, <3>1
  <2>7. QED
    BY <2>2, <2>5, <2>6
<1>2. QED
  BY <1>1, Inductive, PTL

\* No acceptor is told of the connection's end while a stream the peer opened
\* before it is undelivered: accept_stream looks at the queue first, and the pump
\* has emptied noq into it by then.
THEOREM EndComesLast == Spec => []StreamsBeforeTheEnd
<1>1. IInv => StreamsBeforeTheEnd
  <2> SUFFICES ASSUME IInv, NEW d \in told PROVE Len(handed[d]) = opened[d]
    BY DEF StreamsBeforeTheEnd
  <2>1. d \in Dirs /\ queue[d] = <<>>
    BY DEF IInv, TypeOK, ToldLast
  <2>2. Len(queue[d]) = 0 /\ Len(handed[d]) \in Nat
    BY <2>1, EmptySeq, LenProperties DEF IInv, TypeOK
  <2>3. Len(handed[d]) + Len(queue[d]) = opened[d]
    BY <2>1 DEF IInv, Accounted
  <2>4. QED
    BY <2>2, <2>3
<1>2. QED
  BY <1>1, Inductive, PTL

\* A kick that arrives while the pump is in its sends is not lost: pump_kicked
\* stays set until the select, so the pump never sleeps over unsent data.
THEOREM KicksSurvive == Spec => []NoKickLost
BY Inductive, PTL DEF IInv, SentIsKicked, NoKickLost
=============================================================================
