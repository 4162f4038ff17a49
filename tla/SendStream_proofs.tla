-------------------------- MODULE SendStream_proofs --------------------------
(***************************************************************************)
(* The safety properties of one send-stream resource, proved for any       *)
(* number of writers, chunks and operations and for every environment      *)
(* (peer and connection).  The argument is the claim: `writing` admits one *)
(* operation at a time, and the one it admits carries the newest number,   *)
(* so the numbers of the accepted chunks never decrease.                   *)
(***************************************************************************)
EXTENDS SendStream, SequenceTheorems, TLAPS

Streaming == via \in {"reading", "writing"}

\* At most one write is in flight.  It holds `writing`, it is the operation
\* started last, and no write-via-stream ever claimed the stream.
WriteClaimed ==
    /\ \A w \in Writers : call[w] # NoOp =>
          writing /\ ~streaming /\ ~dropped /\ call[w] = nextOp
    /\ \A v, w \in Writers : call[v] # NoOp /\ call[w] # NoOp => v = w

\* A write-via-stream in flight holds `writing` and is the operation started
\* last; `streaming` outlives it.
ViaClaimed ==
    /\ Streaming => writing /\ ~dropped /\ viaOp = nextOp /\ viaOp # NoOp
    /\ viaOp # NoOp => streaming

\* The operations' chunks lie on the stream in the order the operations started.
InOrder ==
    \A i, j \in 1..Len(accepted) : i <= j => accepted[i] <= accepted[j]

\* Only do_finish sends a FIN, and it sets `ended` first.
FinIsEnded == snd = "fin" => ended

IInv ==
    /\ TypeOK
    /\ WriteClaimed
    /\ ViaClaimed
    /\ InOrder
    /\ FinTruncatesNothing
    /\ FinIsEnded

-----------------------------------------------------------------------------
\* What appending a chunk of the newest operation leaves of the sequence.
LEMMA AppendOp ==
    ASSUME TypeOK, NEW op \in 1..nextOp, accepted' = Append(accepted, op)
    PROVE  /\ accepted' \in Seq(1..nextOp)
           /\ Len(accepted') = Len(accepted) + 1
           /\ \A i \in 1..Len(accepted) : accepted'[i] = accepted[i]
           /\ accepted'[Len(accepted) + 1] = op
BY AppendProperties DEF TypeOK

\* Starting an operation leaves the accepted chunks well numbered.
LEMMA MoreOps == TypeOK => accepted \in Seq(1..(nextOp + 1))
<1> SUFFICES ASSUME TypeOK PROVE accepted \in Seq(1..(nextOp + 1))
  OBVIOUS
<1>1. 1..nextOp \subseteq 1..(nextOp + 1) /\ accepted \in Seq(1..nextOp)
  BY DEF TypeOK
<1>2. QED
  BY <1>1, SeqMonotonic

\* Every step keeps the types.
LEMMA TypeStep == TypeOK /\ ViaClaimed /\ [Next]_vars => TypeOK'
<1> SUFFICES ASSUME TypeOK, ViaClaimed, [Next]_vars PROVE TypeOK'
  OBVIOUS
<1> USE DEF NoOp
<1>1. ASSUME NEW w \in Writers, Write(w) PROVE TypeOK'
  BY <1>1, MoreOps DEF Write, TypeOK
<1>2. ASSUME NEW w \in Writers, WritePoll(w) PROVE TypeOK'
  <2>1. accepted' \in Seq(1..nextOp)
    <3>1. call[w] \in 1..nextOp
      BY <1>2 DEF WritePoll, TypeOK
    <3>2. CASE Writable
      BY <1>2, <3>1, <3>2, AppendOp DEF WritePoll
    <3>3. CASE ~Writable
      BY <1>2, <3>3 DEF WritePoll, TypeOK
    <3>4. QED
      BY <3>2, <3>3
  <2>2. 0 \in 0..nextOp
    BY DEF TypeOK
  <2>3. call' \in [Writers -> 0..nextOp]
    BY <1>2, <2>2 DEF WritePoll, TypeOK
  <2>4. done[w] \in Nat
    BY DEF TypeOK
  <2>5. done[w] + 1 \in Nat
    BY <2>4
  <2>6. done' \in [Writers -> Nat]
    BY <1>2, <2>5 DEF WritePoll, TypeOK
  <2>7. writing' \in BOOLEAN
    BY <1>2 DEF WritePoll, Unclaim, TypeOK
  <2>8. QED
    BY <1>2, <2>1, <2>3, <2>6, <2>7 DEF WritePoll, TypeOK
<1>3. ASSUME NEW w \in Writers, CancelWrite(w) PROVE TypeOK'
  <2>1. 0 \in 0..nextOp
    BY DEF TypeOK
  <2>2. call' \in [Writers -> 0..nextOp]
    BY <1>3, <2>1 DEF CancelWrite, TypeOK
  <2>3. done' \in [Writers -> Nat]
    BY <1>3 DEF CancelWrite, TypeOK
  <2>4. writing' \in BOOLEAN
    BY <1>3 DEF CancelWrite, Unclaim
  <2>5. QED
    BY <1>3, <2>2, <2>3, <2>4 DEF CancelWrite, TypeOK
<1>4. CASE Finish
  BY <1>4 DEF Finish, DoFinish, TypeOK
<1>5. CASE Reset
  BY <1>5 DEF Reset, NoqReset, TypeOK
<1>6. CASE Drop
  BY <1>6 DEF Drop, DropImplies, NoqReset, TypeOK
<1>7. CASE WriteViaStream
  BY <1>7, MoreOps DEF WriteViaStream, TypeOK
<1>8. CASE ViaData
  BY <1>8 DEF ViaData, TypeOK
<1>9. CASE ViaPoll
  <2>1. viaOp \in 1..nextOp
    BY <1>9 DEF ViaPoll, ViaClaimed, Streaming, TypeOK
  <2>2. QED
    BY <1>9, <2>1, AppendOp DEF ViaPoll, Unclaim, TypeOK
<1>10. CASE ViaEnds
  BY <1>10 DEF ViaEnds, DoFinish, Unclaim, TypeOK
<1>11. CASE CancelVia
  BY <1>11 DEF CancelVia, Unclaim, ViaClaimKept, TypeOK
<1>12. CASE PeerStops \/ ConnectionDies
  BY <1>12 DEF PeerStops, ConnectionDies, TypeOK
<1>13. CASE UNCHANGED vars
  BY <1>13 DEF vars, TypeOK
<1>14. QED
  BY <1>1, <1>2, <1>3, <1>4, <1>5, <1>6, <1>7, <1>8, <1>9, <1>10, <1>11, <1>12, <1>13 DEF Next

\* The initial state satisfies the inductive invariant.
LEMMA InitIInv == Init => IInv
<1> SUFFICES ASSUME Init PROVE IInv
  OBVIOUS
<1>1. accepted = <<>> /\ Len(accepted) = 0 /\ accepted \in Seq(1..nextOp)
  BY EmptySeq DEF Init
<1>2. TypeOK
  <2>1. 0 \in 0..nextOp
    BY DEF Init
  <2>2. QED
    BY <1>1, <2>1 DEF Init, TypeOK, NoOp
<1>3. WriteClaimed /\ ViaClaimed
  BY DEF Init, WriteClaimed, ViaClaimed, Streaming, NoOp
<1>4. InOrder /\ FinTruncatesNothing /\ FinIsEnded
  BY <1>1 DEF Init, InOrder, FinTruncatesNothing, FinIsEnded
<1>5. QED
  BY <1>2, <1>3, <1>4 DEF IInv

\* Every step keeps the two claims: an operation starts only when nobody holds
\* `writing`, and every exit of one releases it.
LEMMA ClaimStep ==
    TypeOK /\ WriteClaimed /\ ViaClaimed /\ [Next]_vars => WriteClaimed' /\ ViaClaimed'
<1> SUFFICES ASSUME TypeOK, WriteClaimed, ViaClaimed, [Next]_vars
             PROVE  WriteClaimed' /\ ViaClaimed'
  OBVIOUS
<1> USE DEF NoOp
<1>1. ASSUME NEW w \in Writers, Write(w) PROVE WriteClaimed' /\ ViaClaimed'
  <2>1. \A v \in Writers : call[v] = 0
    BY <1>1 DEF Write, WriteAllowed, WriteClaimed
  <2>2. \A v \in Writers : call'[v] = IF v = w THEN nextOp + 1 ELSE 0
    BY <1>1, <2>1 DEF Write, TypeOK
  <2>3. ~Streaming
    BY <1>1 DEF Write, WriteAllowed, ViaClaimed
  <2>4. WriteClaimed'
    BY <1>1, <2>2 DEF Write, WriteAllowed, WriteClaimed, TypeOK
  <2>5. ViaClaimed'
    BY <1>1, <2>3 DEF Write, ViaClaimed, Streaming
  <2>6. QED
    BY <2>4, <2>5
<1>2. ASSUME NEW w \in Writers, WritePoll(w) \/ CancelWrite(w)
      PROVE  WriteClaimed' /\ ViaClaimed'
  <2>1. call[w] # 0 /\ ~streaming
    BY <1>2 DEF WritePoll, CancelWrite, WriteClaimed
  <2>2. ~Streaming /\ viaOp = 0
    BY <2>1 DEF ViaClaimed
  <2>3. ViaClaimed'
    BY <1>2, <2>2 DEF WritePoll, CancelWrite, ViaClaimed, Streaming
  <2>4. \A v \in Writers : v # w => call[v] = 0
    BY <2>1 DEF WriteClaimed
  <2>5. \/ call' = call /\ writing' = writing
        \/ call' = [call EXCEPT ![w] = 0]
    BY <1>2 DEF WritePoll, CancelWrite
  <2>6. UNCHANGED <<streaming, dropped, nextOp>>
    BY <1>2 DEF WritePoll, CancelWrite
  <2>7. CASE call' = call /\ writing' = writing
    BY <2>3, <2>6, <2>7 DEF WriteClaimed
  <2>8. CASE call' = [call EXCEPT ![w] = 0]
    <3>1. \A v \in Writers : call'[v] = 0
      BY <2>4, <2>8 DEF TypeOK
    <3>2. QED
      BY <2>3, <3>1 DEF WriteClaimed
  <2>9. QED
    BY <2>3, <2>5, <2>7, <2>8
<1>3. CASE Finish \/ Reset \/ PeerStops \/ ConnectionDies
  BY <1>3 DEF Finish, Reset, PeerStops, ConnectionDies, WriteClaimed, ViaClaimed, Streaming
<1>4. CASE Drop
  BY <1>4 DEF Drop, WriteClaimed, ViaClaimed, Streaming
<1>5. CASE WriteViaStream
  <2>1. \A v \in Writers : call'[v] = 0
    BY <1>5 DEF WriteViaStream, WriteClaimed
  <2>2. QED
    BY <1>5, <2>1 DEF WriteViaStream, WriteClaimed, ViaClaimed, Streaming, TypeOK
<1>6. CASE ViaData \/ ViaPoll \/ ViaEnds \/ CancelVia
  <2>1. Streaming
    BY <1>6 DEF ViaData, ViaPoll, ViaEnds, CancelVia, Streaming
  <2>2. streaming /\ \A v \in Writers : call[v] = 0
    BY <2>1 DEF ViaClaimed, WriteClaimed
  <2>3. UNCHANGED <<call, viaOp, nextOp, dropped>>
    BY <1>6 DEF ViaData, ViaPoll, ViaEnds, CancelVia
  <2>4. WriteClaimed'
    BY <2>2, <2>3 DEF WriteClaimed
  <2>5. streaming' /\ (Streaming' => writing')
    BY <1>6, <2>1, <2>2 DEF ViaClaimed, ViaData, ViaPoll, ViaEnds, CancelVia, Streaming, ViaClaimKept
  <2>6. ViaClaimed'
    BY <2>1, <2>3, <2>5 DEF ViaClaimed
  <2>7. QED
    BY <2>4, <2>6
<1>7. CASE UNCHANGED vars
  BY <1>7 DEF vars, WriteClaimed, ViaClaimed, Streaming
<1>8. QED
  BY <1>1, <1>2, <1>3, <1>4, <1>5, <1>6, <1>7 DEF Next

\* A step leaves the accepted chunks alone, or noq accepts one chunk of the
\* operation that holds the claim, which is the newest.
LEMMA AcceptStep ==
    ASSUME TypeOK, WriteClaimed, ViaClaimed, [Next]_vars
    PROVE  \/ accepted' = accepted
           \/ /\ Writable /\ UNCHANGED <<snd, nextOp, viaOp>>
              /\ nextOp \in 1..nextOp
              /\ accepted' = Append(accepted, nextOp)
              /\ viaOp # NoOp => viaOp = nextOp
<1>1. ASSUME NEW w \in Writers, WritePoll(w), Writable
      PROVE  /\ accepted' = Append(accepted, nextOp) /\ UNCHANGED <<snd, nextOp, viaOp>>
             /\ nextOp \in 1..nextOp /\ viaOp = NoOp
  <2>1. call[w] # NoOp /\ call[w] = nextOp /\ ~streaming
    BY <1>1 DEF WritePoll, WriteClaimed
  <2>2. nextOp \in 1..nextOp
    BY <2>1 DEF TypeOK, NoOp
  <2>3. QED
    BY <1>1, <2>1, <2>2 DEF WritePoll, ViaClaimed
<1>2. ASSUME ViaPoll, Writable
      PROVE  /\ accepted' = Append(accepted, nextOp) /\ UNCHANGED <<snd, nextOp, viaOp>>
             /\ nextOp \in 1..nextOp /\ viaOp = nextOp
  <2>1. viaOp = nextOp /\ viaOp # NoOp
    BY <1>2 DEF ViaPoll, ViaClaimed, Streaming
  <2>2. nextOp \in 1..nextOp
    BY <2>1 DEF TypeOK, NoOp
  <2>3. QED
    BY <1>2, <2>1, <2>2 DEF ViaPoll
<1>3. CASE \E w \in Writers : WritePoll(w)
  BY <1>1, <1>3 DEF WritePoll
<1>4. CASE ViaPoll
  BY <1>2, <1>4 DEF ViaPoll
<1>5. CASE \/ \E w \in Writers : Write(w) \/ CancelWrite(w)
           \/ Finish \/ Reset \/ Drop \/ WriteViaStream \/ ViaData
           \/ ViaEnds \/ CancelVia \/ PeerStops \/ ConnectionDies \/ UNCHANGED vars
  BY <1>5 DEF Write, CancelWrite, Finish, Reset, Drop, WriteViaStream, ViaData,
     ViaEnds, CancelVia, PeerStops, ConnectionDies, vars
<1>6. QED
  BY <1>3, <1>4, <1>5 DEF Next

\* Every step keeps the chunks in the order of their operations.
LEMMA OrderStep ==
    TypeOK /\ WriteClaimed /\ ViaClaimed /\ InOrder /\ [Next]_vars => InOrder'
<1> SUFFICES ASSUME TypeOK, WriteClaimed, ViaClaimed, InOrder, [Next]_vars PROVE InOrder'
  OBVIOUS
<1>1. CASE accepted' = accepted
  BY <1>1 DEF InOrder
<1>2. CASE nextOp \in 1..nextOp /\ accepted' = Append(accepted, nextOp)
  <2>1. /\ Len(accepted') = Len(accepted) + 1 /\ Len(accepted) \in Nat
        /\ \A i \in 1..Len(accepted) : accepted'[i] = accepted[i]
        /\ accepted'[Len(accepted) + 1] = nextOp
    BY <1>2, AppendOp, LenProperties DEF TypeOK
  <2>2. \A i \in 1..Len(accepted) : accepted[i] \in 1..nextOp
    BY ElementOfSeq DEF TypeOK
  <2>3. SUFFICES ASSUME NEW i \in 1..Len(accepted'), NEW j \in 1..Len(accepted'), i <= j
                 PROVE  accepted'[i] <= accepted'[j]
    BY DEF InOrder
  <2>4. CASE j <= Len(accepted)
    BY <2>1, <2>3, <2>4 DEF InOrder
  <2>5. CASE j = Len(accepted) + 1
    BY <2>1, <2>2, <2>3, <2>5, <1>2
  <2>6. QED
    BY <2>1, <2>4, <2>5
<1>3. QED
  BY <1>1, <1>2, AcceptStep

\* A FIN is sent by a finish, which finds no operation in flight; and a step that
\* keeps a FIN in place accepts no chunk.
LEMMA FinStep ==
    ASSUME IInv, [Next]_vars PROVE FinTruncatesNothing' /\ FinIsEnded'
<1> USE DEF NoOp
<1>1. TypeOK /\ WriteClaimed /\ ViaClaimed /\ FinTruncatesNothing /\ FinIsEnded
  BY DEF IInv
<1>2. SUFFICES ASSUME snd' = "fin"
               PROVE  FinTruncatesNothing' /\ ended'
  BY DEF FinTruncatesNothing, FinIsEnded
<1>3. accepted' = accepted
  <2>1. \/ accepted' = accepted
        \/ Writable /\ UNCHANGED snd
    BY <1>1, AcceptStep
  <2>2. QED
    BY <1>2, <2>1 DEF Writable
<1>4. CASE snd = "fin"
  <2>1. ended' = TRUE
    <3>1. ended = TRUE
      BY <1>1, <1>4 DEF FinIsEnded, TypeOK
    <3>2. QED
      BY <3>1 DEF Next, Write, WritePoll, CancelWrite, Finish, DoFinish, Reset, Drop,
         WriteViaStream, ViaData, ViaPoll, ViaEnds, CancelVia, PeerStops, ConnectionDies, vars
  <2>2. ASSUME NEW op \in 1..nextOp, ~InFlight(op)
        PROVE  /\ \A w \in Writers : call'[w] # op
               /\ ~(viaOp' = op /\ via' \in {"reading", "writing"})
    <3>1. op # 0 /\ op # nextOp + 1
      BY <1>1 DEF TypeOK
    <3>2. (\A w \in Writers : call[w] # op) /\ ~(viaOp = op /\ via \in {"reading", "writing"})
      BY <2>2 DEF InFlight
    <3>3. call \in [Writers -> 0..nextOp]
      BY <1>1 DEF TypeOK
    <3>4. CASE \E w \in Writers : Write(w) \/ WritePoll(w) \/ CancelWrite(w)
      BY <3>1, <3>2, <3>3, <3>4 DEF Write, WritePoll, CancelWrite
    <3>5. CASE WriteViaStream
      BY <3>1, <3>2, <3>5 DEF WriteViaStream
    <3>6. CASE ViaData \/ ViaPoll \/ ViaEnds \/ CancelVia
      BY <3>2, <3>6 DEF ViaData, ViaPoll, ViaEnds, CancelVia
    <3>7. CASE Finish \/ Reset \/ Drop \/ PeerStops \/ ConnectionDies \/ UNCHANGED vars
      BY <3>2, <3>7 DEF Finish, Reset, Drop, PeerStops, ConnectionDies, vars
    <3>8. QED
      BY <3>4, <3>5, <3>6, <3>7 DEF Next
  <2>3. \A i \in 1..Len(accepted) : accepted[i] \in 1..nextOp /\ ~InFlight(accepted[i])
    BY <1>1, <1>4, ElementOfSeq DEF TypeOK, FinTruncatesNothing
  <2>4. FinTruncatesNothing'
    BY <1>3, <2>2, <2>3 DEF FinTruncatesNothing, InFlight
  <2>5. QED
    BY <2>1, <2>4
<1>5. CASE snd # "fin"
  <2>1. CASE Finish
    <3>1. ended' /\ via' = via /\ call' = call /\ ~writing
      BY <2>1 DEF Finish, DoFinish, FinishAllowed
    <3>2. ~Streaming' /\ \A w \in Writers : call'[w] = 0
      BY <1>1, <3>1 DEF WriteClaimed, ViaClaimed, Streaming
    <3>3. \A i \in 1..Len(accepted) : accepted[i] # 0
      BY <1>1, ElementOfSeq DEF TypeOK
    <3>4. QED
      BY <1>3, <3>1, <3>2, <3>3 DEF FinTruncatesNothing, InFlight, Streaming
  <2>2. CASE ViaEnds
    <3>1. ended' /\ via' = "over" /\ call' = call /\ Streaming
      BY <2>2 DEF ViaEnds, DoFinish, Streaming
    <3>2. ~Streaming' /\ \A w \in Writers : call'[w] = 0
      BY <1>1, <3>1 DEF WriteClaimed, ViaClaimed, Streaming
    <3>3. \A i \in 1..Len(accepted) : accepted[i] # 0
      BY <1>1, ElementOfSeq DEF TypeOK
    <3>4. QED
      BY <1>3, <3>1, <3>2, <3>3 DEF FinTruncatesNothing, InFlight, Streaming
  <2>3. Finish \/ ViaEnds
    BY <1>2, <1>5 DEF Next, Write, WritePoll, CancelWrite, Reset, Drop, DropImplies, NoqReset,
       WriteViaStream, ViaData, ViaPoll, CancelVia, PeerStops, ConnectionDies, vars
  <2>4. QED
    BY <2>1, <2>2, <2>3
<1>6. QED
  BY <1>4, <1>5

\* What a step of the resource can do to the stream, as its peer sees it: accept
\* a chunk, finish, reset, or drop the resource, which resets a stream that was
\* not ended.  The rest changes `ended` at most.
LEMMA SendContract ==
    ASSUME IInv, [Next]_vars
    PROVE  \/ UNCHANGED <<accepted, snd, dropped>> /\ ended' \in {ended, TRUE}
           \/ /\ snd = "ready" /\ ~dropped
              /\ Len(accepted') = Len(accepted) + 1
              /\ UNCHANGED <<snd, dropped, ended>>
           \/ /\ snd = "ready" /\ snd' = "fin" /\ ~dropped /\ ended' = TRUE
              /\ UNCHANGED <<accepted, dropped>>
           \/ /\ snd' = "reset" /\ ~dropped /\ ended' = TRUE
              /\ UNCHANGED <<accepted, dropped>>
           \/ /\ ~dropped /\ dropped' = TRUE
              /\ snd' \in {snd, IF ended THEN snd ELSE "reset"}
              /\ UNCHANGED <<accepted, ended>>
<1>1. TypeOK /\ WriteClaimed /\ ViaClaimed
  BY DEF IInv
<1>2. ASSUME NEW w \in Writers, WritePoll(w), Writable
      PROVE  /\ snd = "ready" /\ ~dropped /\ Len(accepted') = Len(accepted) + 1
             /\ UNCHANGED <<snd, dropped, ended>>
  <2>1. call[w] \in 1..nextOp /\ ~dropped
    BY <1>1, <1>2 DEF WritePoll, WriteClaimed, TypeOK, NoOp
  <2>2. accepted' = Append(accepted, call[w])
    BY <1>2 DEF WritePoll
  <2>3. QED
    BY <1>1, <1>2, <2>1, <2>2, AppendOp DEF WritePoll, Writable
<1>3. ASSUME ViaPoll, Writable
      PROVE  /\ snd = "ready" /\ ~dropped /\ Len(accepted') = Len(accepted) + 1
             /\ UNCHANGED <<snd, dropped, ended>>
  <2>1. viaOp \in 1..nextOp /\ ~dropped
    BY <1>1, <1>3 DEF ViaPoll, ViaClaimed, Streaming, TypeOK, NoOp
  <2>2. accepted' = Append(accepted, viaOp)
    BY <1>3 DEF ViaPoll
  <2>3. QED
    BY <1>1, <1>3, <2>1, <2>2, AppendOp DEF ViaPoll, Writable
<1>4. CASE \E w \in Writers : WritePoll(w)
  BY <1>2, <1>4 DEF WritePoll
<1>5. CASE ViaPoll
  BY <1>3, <1>5 DEF ViaPoll
<1>6. CASE Finish
  BY <1>6 DEF Finish, DoFinish, Writable
<1>7. CASE Reset
  BY <1>7 DEF Reset, NoqReset
<1>8. CASE Drop
  BY <1>8 DEF Drop, DropImplies, NoqReset
<1>9. CASE ViaEnds
  <2>1. ~dropped
    BY <1>1, <1>9 DEF ViaEnds, ViaClaimed, Streaming
  <2>2. QED
    BY <1>9, <2>1 DEF ViaEnds, DoFinish, Writable
<1>10. CASE \/ \E w \in Writers : Write(w) \/ CancelWrite(w)
            \/ WriteViaStream \/ ViaData \/ CancelVia \/ PeerStops \/ ConnectionDies
            \/ UNCHANGED vars
  BY <1>10 DEF Write, CancelWrite, WriteViaStream, ViaData, CancelVia, PeerStops,
     ConnectionDies, vars
<1>11. QED
  BY <1>4, <1>5, <1>6, <1>7, <1>8, <1>9, <1>10 DEF Next

-----------------------------------------------------------------------------
\* Every step keeps the inductive invariant.
LEMMA IInvStep == IInv /\ [Next]_vars => IInv'
BY TypeStep, ClaimStep, OrderStep, FinStep DEF IInv

\* The inductive invariant holds throughout.
LEMMA Inductive == Spec => []IInv
BY InitIInv, IInvStep, PTL DEF Spec

\* Every variable of the resource and of noq's send half keeps its type.
THEOREM TypeCorrect == Spec => []TypeOK
BY Inductive, PTL DEF IInv

\* The bytes of two operations never interleave on the stream: whatever mix of
\* write, write-via-stream and cancellation the callers try, the chunks noq
\* accepted lie in the order in which their operations claimed the stream.
THEOREM NoInterleaving == Spec => []WritesNeverInterleave
<1>1. IInv => WritesNeverInterleave
  <2> SUFFICES ASSUME TypeOK, InOrder,
                      NEW i \in 1..Len(accepted), NEW j \in 1..Len(accepted),
                      NEW k \in 1..Len(accepted),
                      i < j, j < k, accepted[i] = accepted[k]
               PROVE  accepted[j] = accepted[i]
    BY DEF IInv, WritesNeverInterleave
  <2>1. accepted[i] \in Int /\ accepted[j] \in Int
    BY ElementOfSeq DEF TypeOK
  <2>2. accepted[i] <= accepted[j] /\ accepted[j] <= accepted[k]
    <3>1. Len(accepted) \in Nat /\ i <= j /\ j <= k
      BY LenProperties DEF TypeOK
    <3>2. QED
      BY <3>1 DEF InOrder
  <2>3. QED
    BY <2>1, <2>2
<1>2. QED
  BY <1>1, Inductive, PTL

\* do_finish never lands a FIN under an operation in flight.
THEOREM FinSafe == Spec => []FinTruncatesNothing
BY Inductive, PTL DEF IInv

\* Once write-via-stream has claimed the stream only its own bytes are added: no
\* write passes the claim, not even after the call was cancelled.
THEOREM ViaOwns == Spec => ViaOwnsTheStream
<1>1. IInv /\ [Next]_vars =>
        [viaOp # NoOp /\ accepted' # accepted => accepted'[Len(accepted')] = viaOp]_vars
  <2> SUFFICES ASSUME IInv, [Next]_vars, viaOp # NoOp, accepted' # accepted
               PROVE  accepted'[Len(accepted')] = viaOp
    OBVIOUS
  <2>1. TypeOK /\ WriteClaimed /\ ViaClaimed
    BY DEF IInv
  <2>2. nextOp \in 1..nextOp /\ accepted' = Append(accepted, nextOp) /\ viaOp = nextOp
    BY <2>1, AcceptStep
  <2>3. QED
    BY <2>1, <2>2, AppendOp
<1>2. QED
  BY <1>1, Inductive, PTL DEF Spec, ViaOwnsTheStream
=============================================================================
