---------------------------- MODULE Streams_proofs ----------------------------
(***************************************************************************)
(* One direction of a stream, proved for any number of writers, readers,   *)
(* chunks and any window: the send-stream's guarantees survive the wire    *)
(* and the receiver's pace, and the two resources with noq between them    *)
(* implement the byte stream that iroh.wit promises (ByteStream).          *)
(***************************************************************************)
EXTENDS Streams, SequenceTheorems, TLAPS

SP == INSTANCE SendStream_proofs WITH
        streaming <- sStreaming, dropped <- sDropped, via <- sVia, stopped <- sStopped

\* At most one read is in flight; it holds `reading`, and no end was latched.
ReadClaimed ==
    /\ parked # {} => reading /\ terminal = "none"
    /\ \A q, r \in parked : q = r

\* What has reached the receiver is what the sender did: no byte too many, a FIN
\* only behind all of them, a reset only after one.
WireFaithful ==
    /\ arrived <= Len(accepted)
    /\ fin => finSent /\ arrived = Len(accepted)
    /\ rst => snd = "reset"
    /\ snd = "fin" => finSent
    /\ finSent => ended /\ snd # "ready"

\* Once an end was told nothing is left to read, and noq forgets a stream only
\* when its end was told.
Over ==
    /\ spent => outcome # "none"
    /\ outcome # "none" =>
          conn = "gone" \/ spent \/ rStopped \/ (conn = "failed" /\ taken = arrived)

IInv == TypeOK /\ SP!IInv /\ ReadClaimed /\ WireFaithful /\ Over

-----------------------------------------------------------------------------
\* A step at the sending endpoint: one of SendStream, seen with the wire.
SenderStep ==
    /\ [SP!Next]_(SP!vars)
    /\ finSent' = (finSent \/ snd' = "fin")
    /\ UNCHANGED <<recvVars, outcome>>

\* A step at the receiving endpoint.
ReceiverNext ==
    \/ \E r \in Readers : R!Read(r) \/ R!ReadResolves(r) \/ R!CancelRead(r)
    \/ R!Stop \/ R!Drop \/ R!ReadViaStream \/ R!ViaReads \/ R!ViaHandsOver
    \/ arrived < Len(accepted) /\ R!BytesArrive
    \/ finSent /\ arrived = Len(accepted) /\ R!FinArrives
    \/ snd = "reset" /\ R!ResetArrives
    \/ R!ConnFails \/ R!ConnGone

ReceiverStep == ReceiverSteps(ReceiverNext)

\* The instance of SendStream in Streams and the one the theorems about it come
\* with are the same.
LEMMA SameSender ==
    /\ S!vars = SP!vars /\ (S!TypeOK <=> SP!TypeOK) /\ (S!Init <=> SP!Init)
    /\ S!Next <=> SP!Next
<1>1. S!vars = SP!vars
  BY DEF S!vars, SP!vars
<1>2. S!TypeOK <=> SP!TypeOK
  BY DEF S!TypeOK, SP!TypeOK
<1>3. S!Init <=> SP!Init
  BY DEF S!Init, SP!Init, S!NoOp, SP!NoOp
<1>4. \A w \in Writers : S!Write(w) \/ S!WritePoll(w) \/ S!CancelWrite(w)
                           <=> SP!Write(w) \/ SP!WritePoll(w) \/ SP!CancelWrite(w)
  BY DEF S!Write, SP!Write, S!WriteAllowed, SP!WriteAllowed, S!NoOp, SP!NoOp,
     S!WritePoll, SP!WritePoll, S!Writable, SP!Writable, S!LastChunk, SP!LastChunk,
     S!Unclaim, SP!Unclaim, S!CancelWrite, SP!CancelWrite
<1>5. (S!Finish <=> SP!Finish) /\ (S!Reset <=> SP!Reset) /\ (S!Drop <=> SP!Drop)
  BY DEF S!Finish, SP!Finish, S!FinishAllowed, SP!FinishAllowed, S!DoFinish, SP!DoFinish,
     S!Writable, SP!Writable, S!Reset, SP!Reset, S!NoqReset, SP!NoqReset, S!Drop, SP!Drop,
     S!DropImplies, SP!DropImplies, S!NoOp, SP!NoOp
<1>6. /\ S!WriteViaStream <=> SP!WriteViaStream
      /\ S!ViaData <=> SP!ViaData
      /\ S!ViaPoll <=> SP!ViaPoll
      /\ S!ViaEnds <=> SP!ViaEnds
      /\ S!CancelVia <=> SP!CancelVia
  BY DEF S!WriteViaStream, SP!WriteViaStream, S!ViaData, SP!ViaData, S!ViaPoll, SP!ViaPoll,
     S!ViaEnds, SP!ViaEnds, S!CancelVia, SP!CancelVia, S!Writable, SP!Writable,
     S!Unclaim, SP!Unclaim, S!DoFinish, SP!DoFinish, S!ViaClaimKept, SP!ViaClaimKept
<1>7. (S!PeerStops <=> SP!PeerStops) /\ (S!ConnectionDies <=> SP!ConnectionDies)
  BY DEF S!PeerStops, SP!PeerStops, S!ConnectionDies, SP!ConnectionDies
<1>8. S!Next <=> SP!Next
  BY <1>4, <1>5, <1>6, <1>7 DEF S!Next, SP!Next
<1>9. QED
  BY <1>1, <1>2, <1>3, <1>8

\* Every step of the composition is one of the two sides, or stutters.
LEMMA StepSides ==
    ASSUME [Next]_vars PROVE SenderStep \/ ReceiverStep \/ UNCHANGED vars
<1>1. CASE SenderCalls \/ SenderPolls \/ StopArrives \/ SenderLosesConn
  <2>1. S!Next /\ finSent' = (finSent \/ snd' = "fin") /\ UNCHANGED <<recvVars, outcome>>
    BY <1>1 DEF SenderCalls, SenderPolls, StopArrives, SenderLosesConn, SenderSteps, S!Next,
       WritePoll, WriteViaPoll
  <2>2. QED
    BY <2>1, SameSender DEF SenderStep
<1>2. CASE \/ ReceiverCalls \/ (\E r \in Readers : ReadResolves(r)) \/ ViaTask
           \/ BytesArrive \/ FinArrives \/ ResetArrives
           \/ ReceiverLosesConn \/ ReceiverConnGone
  BY <1>2 DEF ReceiverCalls, ReadResolves, ViaTask, ReadViaReads, ReadViaHandsOver,
     BytesArrive, FinArrives, ResetArrives, ReceiverLosesConn, ReceiverConnGone,
     ReceiverSteps, ReceiverStep, ReceiverNext
<1>3. QED
  BY <1>1, <1>2 DEF Next, Wire

\* The sender's theorems hold of the sender in the composition.
LEMMA SenderImplemented == Spec => SP!Spec
<1>1. Init => SP!Init
  BY SameSender DEF Init
<1>2. [Next]_vars => [SP!Next]_(SP!vars)
  <2> SUFFICES ASSUME [Next]_vars PROVE [SP!Next]_(SP!vars)
    OBVIOUS
  <2>1. CASE SenderStep
    BY <2>1 DEF SenderStep
  <2>2. CASE ReceiverStep \/ UNCHANGED vars
    BY <2>2 DEF ReceiverStep, ReceiverSteps, vars, sendVars, SP!vars
  <2>3. QED
    BY <2>1, <2>2, StepSides
<1>3. QED
  BY <1>1, <1>2, PTL DEF Spec, SP!Spec

-----------------------------------------------------------------------------
\* The initial state satisfies the inductive invariant.
LEMMA InitIInv == Init => IInv
<1> SUFFICES ASSUME Init PROVE IInv
  OBVIOUS
<1>1. SP!IInv
  BY SameSender, SP!InitIInv DEF Init
<1>2. TypeOK
  <2>1. S!TypeOK
    BY <1>1, SameSender DEF SP!IInv
  <2>2. R!TypeOK
    <3>1. taken \in 0..arrived
      BY DEF Init, R!Init
    <3>2. QED
      BY <3>1 DEF Init, R!Init, R!TypeOK
  <2>3. QED
    BY <2>1, <2>2 DEF Init, TypeOK
<1>3. Len(accepted) = 0
  BY EmptySeq DEF Init, S!Init
<1>4. ReadClaimed /\ WireFaithful /\ Over
  BY <1>3 DEF Init, S!Init, R!Init, ReadClaimed, WireFaithful, Over
<1>5. QED
  BY <1>1, <1>2, <1>4 DEF IInv

\* Types at the receiver.
LEMMA ReceiverTypes ==
    ASSUME R!TypeOK, ReceiverNext PROVE R!TypeOK'
<1>1. ASSUME NEW r \in Readers, R!Read(r) \/ R!CancelRead(r) PROVE R!TypeOK'
  <2>1. parked' \subseteq Readers /\ reading' \in BOOLEAN
    BY <1>1 DEF R!Read, R!CancelRead, R!TypeOK
  <2>2. UNCHANGED <<rStreaming, terminal, rDropped, rVia, arrived, fin, rst, conn, spent,
                    rStopped, taken>>
    BY <1>1 DEF R!Read, R!CancelRead, R!noqVars
  <2>3. QED
    BY <2>1, <2>2 DEF R!TypeOK
<1>2. ASSUME R!Consume, arrived' = arrived
      PROVE  taken' \in 0..arrived' /\ spent' \in BOOLEAN
  <2>1. R!ReadSome = "bytes" => taken < arrived
    BY DEF R!ReadSome, R!ClosedStreamResult, R!BlockedResult, R!BytesReady
  <2>2. QED
    BY <1>2, <2>1 DEF R!Consume, R!TypeOK
<1>3. R!ReadSome \in {"fin", "reset", "closed", "bytes", "blocked"}
  BY DEF R!ReadSome, R!ClosedStreamResult, R!BlockedResult
<1>4. ASSUME NEW r \in Readers, R!ReadResolves(r) PROVE R!TypeOK'
  <2>1. taken' \in 0..arrived' /\ spent' \in BOOLEAN
    BY <1>2, <1>4 DEF R!ReadResolves, R!noqVars
  <2>2. terminal' \in {"none", "fin", "reset", "closed"}
    BY <1>3, <1>4 DEF R!ReadResolves, R!Consume, R!TypeOK
  <2>3. QED
    BY <1>4, <2>1, <2>2 DEF R!ReadResolves, R!TypeOK, R!noqVars
<1>5. CASE R!ViaReads
  <2>1. taken' \in 0..arrived' /\ spent' \in BOOLEAN
    BY <1>2, <1>5 DEF R!ViaReads, R!noqVars
  <2>2. rVia' \in {"handing", "ok", "reset", "closed"}
    BY <1>3, <1>5 DEF R!ViaReads, R!Consume
  <2>3. QED
    BY <1>5, <2>1, <2>2 DEF R!ViaReads, R!TypeOK, R!noqVars
<1>6. CASE R!Stop \/ R!Drop
  BY <1>6, ZenonT(60) DEF R!Stop, R!Drop, R!DropImplies, R!TypeOK, R!noqVars
<1>7. CASE R!ReadViaStream \/ R!ViaHandsOver
  BY <1>7, ZenonT(60) DEF R!ReadViaStream, R!ViaHandsOver, R!TypeOK, R!noqVars
<1>8. CASE R!BytesArrive \/ R!FinArrives \/ R!ResetArrives \/ R!ConnFails \/ R!ConnGone
  <2>1. arrived' \in {arrived, arrived + 1} /\ taken' = taken
    BY <1>8 DEF R!BytesArrive, R!FinArrives, R!ResetArrives, R!ConnFails, R!ConnGone, R!ourVars
  <2>2. arrived' \in Nat /\ taken' \in 0..arrived'
    BY <2>1 DEF R!TypeOK
  <2>3. fin' \in BOOLEAN /\ rst' \in BOOLEAN /\ conn' \in {"live", "failed", "gone"}
    BY <1>8 DEF R!BytesArrive, R!FinArrives, R!ResetArrives, R!ConnFails, R!ConnGone, R!TypeOK
  <2>4. UNCHANGED R!ourVars
    BY <1>8 DEF R!BytesArrive, R!FinArrives, R!ResetArrives, R!ConnFails, R!ConnGone
  <2>5. QED
    BY <2>2, <2>3, <2>4 DEF R!ourVars, R!TypeOK
<1>9. QED
  BY <1>1, <1>4, <1>5, <1>6, <1>7, <1>8 DEF ReceiverNext

\* What a step of the receiver tells.
LEMMA ToldBy ==
    ASSUME ReadClaimed, R!TypeOK, ReceiverNext
    PROVE  \/ /\ Told = "none" /\ terminal' = terminal /\ spent' = spent
              /\ taken' = taken \/ (R!ReadSome = "bytes" /\ taken' = taken + 1)
           \/ /\ Told = R!ReadSome /\ Told \in {"fin", "reset", "closed"} /\ taken' = taken
              /\ spent' = (spent \/ (conn # "gone" /\ ~rStopped /\ Told \in {"fin", "reset"}))
              /\ terminal = "none" \/ terminal' = terminal
              /\ UNCHANGED <<arrived, fin, rst, rStopped, conn>>
<1>1. R!ReadSome \in {"fin", "reset", "closed", "bytes", "blocked"}
  BY DEF R!ReadSome, R!ClosedStreamResult, R!BlockedResult
<1>2. ASSUME NEW r \in Readers, R!ReadResolves(r), R!ReadSome = "bytes"
      PROVE  /\ Told = "none" /\ terminal' = terminal /\ spent' = spent
             /\ taken' = taken + 1
  BY <1>2 DEF R!ReadResolves, R!Consume, Told, R!TypeOK
<1>3. ASSUME NEW r \in Readers, R!ReadResolves(r), R!ReadSome # "bytes"
      PROVE  /\ Told = R!ReadSome /\ Told \in {"fin", "reset", "closed"} /\ taken' = taken
             /\ spent' = (spent \/ (conn # "gone" /\ ~rStopped /\ Told \in {"fin", "reset"}))
             /\ terminal = "none"
             /\ UNCHANGED <<arrived, fin, rst, rStopped, conn>>
  <2>1. /\ terminal = "none" /\ terminal' = R!ReadSome /\ R!ReadSome # "blocked"
        /\ rVia' = rVia
    BY <1>3 DEF R!ReadResolves, R!Consume, ReadClaimed
  <2>2. Told = R!ReadSome
    BY <1>1, <2>1 DEF Told
  <2>3. QED
    BY <1>1, <1>3, <2>1, <2>2 DEF R!ReadResolves, R!Consume, R!noqVars
<1>4. ASSUME R!ViaReads, R!ReadSome = "bytes"
      PROVE  /\ Told = "none" /\ terminal' = terminal /\ spent' = spent
             /\ taken' = taken + 1
  BY <1>4 DEF R!ViaReads, R!Consume, Told, R!TypeOK
<1>5. ASSUME R!ViaReads, R!ReadSome # "bytes"
      PROVE  /\ Told = R!ReadSome /\ Told \in {"fin", "reset", "closed"} /\ taken' = taken
             /\ spent' = (spent \/ (conn # "gone" /\ ~rStopped /\ Told \in {"fin", "reset"}))
             /\ terminal' = terminal
             /\ UNCHANGED <<arrived, fin, rst, rStopped, conn>>
  <2>1. /\ terminal' = terminal /\ rVia = "reading" /\ R!ReadSome # "blocked"
        /\ rVia' = IF R!ReadSome = "fin" THEN "ok" ELSE R!ReadSome
    BY <1>1, <1>5 DEF R!ViaReads, R!Consume
  <2>2. Told = R!ReadSome
    BY <1>1, <1>5, <2>1 DEF Told
  <2>3. QED
    BY <1>1, <1>5, <2>1, <2>2 DEF R!ViaReads, R!Consume, R!noqVars
<1>6. CASE \/ \E r \in Readers : R!Read(r) \/ R!CancelRead(r)
           \/ R!Stop \/ R!Drop \/ R!ReadViaStream \/ R!ViaHandsOver
  BY <1>6 DEF R!Read, R!CancelRead, R!Stop, R!Drop, R!ReadViaStream, R!ViaHandsOver, Told
<1>7. CASE R!BytesArrive \/ R!FinArrives \/ R!ResetArrives \/ R!ConnFails \/ R!ConnGone
  BY <1>7 DEF R!BytesArrive, R!FinArrives, R!ResetArrives, R!ConnFails, R!ConnGone,
     R!ourVars, Told
<1>8. QED
  BY <1>2, <1>3, <1>4, <1>5, <1>6, <1>7 DEF ReceiverNext

\* One read at a time.
LEMMA ReadClaimStep ==
    ASSUME R!TypeOK, ReadClaimed, ReceiverNext PROVE ReadClaimed'
<1>1. ASSUME NEW r \in Readers, R!Read(r) PROVE ReadClaimed'
  <2>1. parked = {} /\ parked' = {r}
    BY <1>1 DEF R!Read, R!ReadAllowed, ReadClaimed
  <2>2. QED
    BY <1>1, <2>1 DEF R!Read, R!ReadAllowed, ReadClaimed
<1>2. ASSUME NEW r \in Readers, R!ReadResolves(r) \/ R!CancelRead(r) PROVE ReadClaimed'
  <2>1. parked' = {}
    BY <1>2 DEF R!ReadResolves, R!CancelRead, ReadClaimed
  <2>2. QED
    BY <2>1 DEF ReadClaimed
<1>3. CASE \/ R!Stop \/ R!Drop \/ R!ReadViaStream \/ R!ViaReads \/ R!ViaHandsOver
  BY <1>3 DEF R!Stop, R!Drop, R!ReadViaStream, R!ViaReads, R!ViaHandsOver, ReadClaimed
<1>4. CASE R!BytesArrive \/ R!FinArrives \/ R!ResetArrives \/ R!ConnFails \/ R!ConnGone
  BY <1>4 DEF R!BytesArrive, R!FinArrives, R!ResetArrives, R!ConnFails, R!ConnGone,
     R!ourVars, ReadClaimed
<1>5. QED
  BY <1>1, <1>2, <1>3, <1>4 DEF ReceiverNext

\* Whatever ends a read, nothing is left to read behind it.
LEMMA EndIsFinal ==
    ASSUME TypeOK, Over, outcome # "none" PROVE R!ReadSome # "bytes"
BY DEF TypeOK, R!TypeOK, Over, R!ReadSome, R!ClosedStreamResult, R!BlockedResult, R!BytesReady

\* A step of the sender keeps the invariant.
LEMMA SenderKeeps ==
    ASSUME IInv, SenderStep PROVE IInv'
<1>1. SP!IInv'
  <2>1. SP!IInv /\ [SP!Next]_(SP!vars)
    BY DEF IInv, SenderStep
  <2>2. QED
    BY <2>1, SP!IInvStep
<1>2. TypeOK'
  <2>1. S!TypeOK'
    <3>1. SP!TypeOK'
      BY <1>1 DEF SP!IInv
    <3>2. QED
      BY <3>1 DEF S!TypeOK, SP!TypeOK
  <2>2. R!TypeOK'
    BY DEF SenderStep, recvVars, IInv, TypeOK, R!TypeOK
  <2>3. QED
    BY <2>1, <2>2 DEF SenderStep, IInv, TypeOK
<1>3. ReadClaimed' /\ Over'
  BY DEF SenderStep, recvVars, IInv, ReadClaimed, Over
<1>4. WireFaithful'
  <2>1. /\ finSent' = (finSent \/ snd' = "fin")
        /\ UNCHANGED <<arrived, fin, rst>>
        /\ arrived \in Nat /\ finSent \in BOOLEAN
    BY DEF SenderStep, recvVars, IInv, TypeOK, R!TypeOK
  <2>2. WireFaithful /\ SP!IInv /\ [SP!Next]_(SP!vars)
    BY DEF IInv, SenderStep
  <2>3. Len(accepted) \in Nat
    BY LenProperties DEF IInv, TypeOK, S!TypeOK
  <2>4. CASE UNCHANGED <<accepted, snd, sDropped>> /\ ended' \in {ended, TRUE}
    BY <2>1, <2>2, <2>4 DEF WireFaithful
  <2>5. CASE /\ snd = "ready" /\ Len(accepted') = Len(accepted) + 1
             /\ UNCHANGED <<snd, ended>>
    BY <2>1, <2>2, <2>3, <2>5 DEF WireFaithful
  <2>6. CASE snd = "ready" /\ snd' = "fin" /\ ended' = TRUE /\ UNCHANGED accepted
    BY <2>1, <2>2, <2>6 DEF WireFaithful
  <2>7. CASE snd' = "reset" /\ ended' = TRUE /\ UNCHANGED accepted
    BY <2>1, <2>2, <2>7 DEF WireFaithful
  <2>8. CASE /\ snd' \in {snd, IF ended THEN snd ELSE "reset"}
             /\ UNCHANGED <<accepted, ended>>
    BY <2>1, <2>2, <2>8 DEF WireFaithful
  <2>9. QED
    BY <2>2, <2>4, <2>5, <2>6, <2>7, <2>8, SP!SendContract
<1>5. QED
  BY <1>1, <1>2, <1>3, <1>4 DEF IInv

\* A step of the receiver keeps the invariant.
LEMMA ReceiverKeeps ==
    ASSUME IInv, ReceiverStep PROVE IInv'
<1>1. /\ ReceiverNext /\ UNCHANGED <<sendVars, finSent>>
      /\ outcome' = IF outcome = "none" \/ (terminal # "none" /\ terminal' # terminal)
                    THEN Told ELSE outcome
  BY DEF ReceiverStep, ReceiverSteps
<1>2. SP!IInv'
  <2>1. SP!IInv /\ [SP!Next]_(SP!vars)
    BY <1>1 DEF IInv, SP!vars, sendVars
  <2>2. QED
    BY <2>1, SP!IInvStep
<1>3. TypeOK /\ R!TypeOK /\ ReadClaimed /\ WireFaithful /\ Over
  BY DEF IInv, TypeOK
<1>4. ReadClaimed' /\ R!TypeOK'
  BY <1>1, <1>3, ReadClaimStep, ReceiverTypes
<1>5. \/ /\ Told = "none" /\ terminal' = terminal /\ spent' = spent
         /\ taken' = taken \/ (R!ReadSome = "bytes" /\ taken' = taken + 1)
      \/ /\ Told = R!ReadSome /\ Told \in {"fin", "reset", "closed"} /\ taken' = taken
         /\ spent' = (spent \/ (conn # "gone" /\ ~rStopped /\ Told \in {"fin", "reset"}))
         /\ terminal = "none" \/ terminal' = terminal
         /\ UNCHANGED <<arrived, fin, rst, rStopped, conn>>
  BY <1>1, <1>3, ToldBy
<1>6. TypeOK'
  <2>1. S!TypeOK'
    BY <1>1, <1>3 DEF TypeOK, S!TypeOK, sendVars
  <2>2. outcome' \in {"none", "fin", "reset", "closed"}
    BY <1>1, <1>3, <1>5 DEF TypeOK
  <2>3. QED
    BY <1>1, <1>3, <1>4, <2>1, <2>2 DEF TypeOK
<1>7. WireFaithful'
  <2>1. UNCHANGED <<accepted, snd, ended, finSent>> /\ Len(accepted) \in Nat
    BY <1>1, <1>3, LenProperties DEF sendVars, TypeOK, S!TypeOK
  <2>2. \/ UNCHANGED <<arrived, fin, rst>>
        \/ arrived < Len(accepted) /\ ~fin /\ arrived' = arrived + 1 /\ UNCHANGED <<fin, rst>>
        \/ finSent /\ arrived = Len(accepted) /\ UNCHANGED <<arrived, rst>>
        \/ snd = "reset" /\ UNCHANGED <<arrived, fin>>
    BY <1>1 DEF ReceiverNext, R!Read, R!ReadResolves, R!CancelRead, R!Stop, R!Drop,
       R!ReadViaStream, R!ViaReads, R!ViaHandsOver, R!BytesArrive, R!FinArrives,
       R!ResetArrives, R!ConnFails, R!ConnGone, R!noqVars
  <2>3. QED
    BY <1>3, <2>1, <2>2 DEF WireFaithful, R!TypeOK
<1>8. Over'
  <2>1. CASE outcome = "none" /\ Told = "none"
    BY <1>1, <1>3, <1>5, <2>1 DEF Over
  <2>2. CASE outcome = "none" /\ Told # "none"
    <3>1. /\ Told = R!ReadSome /\ taken' = taken
          /\ spent' = (spent \/ (conn # "gone" /\ ~rStopped /\ R!ReadSome \in {"fin", "reset"}))
          /\ UNCHANGED <<arrived, fin, rst, rStopped, conn>>
          /\ R!ReadSome \in {"fin", "reset", "closed"} /\ outcome' = R!ReadSome
      BY <1>1, <1>5, <2>2
    <3>2. \/ conn = "gone" \/ spent \/ rStopped \/ R!ReadSome \in {"fin", "reset"}
          \/ conn = "failed" /\ taken = arrived
      BY <1>3, <3>1 DEF R!ReadSome, R!ClosedStreamResult, R!BlockedResult, R!BytesReady, R!TypeOK
    <3>3. QED
      BY <1>3, <3>1, <3>2 DEF Over, R!TypeOK
  <2>3. CASE outcome # "none"
    <3>1. taken' = taken /\ outcome' = outcome
      BY <1>1, <1>3, <1>5, <2>3, EndIsFinal
    <3>2. /\ conn = "gone" => conn' = "gone"
          /\ spent => spent'
          /\ rStopped => rStopped'
          /\ conn = "failed" => conn' = "gone" \/ (conn' = "failed" /\ arrived' = arrived)
      BY <1>1, <1>3 DEF ReceiverNext, R!Read, R!ReadResolves, R!CancelRead, R!Stop, R!Drop,
         R!DropImplies, R!Consume, R!TypeOK,
         R!ReadViaStream, R!ViaReads, R!ViaHandsOver, R!BytesArrive, R!FinArrives,
         R!ResetArrives, R!ConnFails, R!ConnGone, R!noqVars, R!ourVars
    <3>3. QED
      BY <1>3, <2>3, <3>1, <3>2 DEF Over
  <2>4. QED
    BY <2>1, <2>2, <2>3
<1>9. QED
  BY <1>2, <1>4, <1>6, <1>7, <1>8 DEF IInv

\* Every step keeps the inductive invariant.
LEMMA IInvStep == IInv /\ [Next]_vars => IInv'
<1> SUFFICES ASSUME IInv, [Next]_vars PROVE IInv'
  OBVIOUS
<1>1. CASE UNCHANGED vars
  <2>1. SP!IInv'
    <3>1. SP!IInv /\ [SP!Next]_(SP!vars)
      BY <1>1 DEF IInv, vars, sendVars, SP!vars
    <3>2. QED
      BY <3>1, SP!IInvStep
  <2>2. TypeOK'
    BY <1>1 DEF IInv, TypeOK, S!TypeOK, R!TypeOK, vars, sendVars, recvVars
  <2>3. ReadClaimed' /\ WireFaithful' /\ Over'
    BY <1>1 DEF IInv, ReadClaimed, WireFaithful, Over, vars, sendVars, recvVars
  <2>4. QED
    BY <2>1, <2>2, <2>3 DEF IInv
<1>2. QED
  BY <1>1, StepSides, SenderKeeps, ReceiverKeeps

\* The inductive invariant holds throughout.
LEMMA Inductive == Spec => []IInv
BY InitIInv, IInvStep, PTL DEF Spec

-----------------------------------------------------------------------------
\* Both resources, noq's halves of the stream and the history keep their types;
\* in particular the receiver never takes more than has arrived.
THEOREM TypeCorrect == Spec => []TypeOK
BY Inductive, PTL DEF IInv

\* Writes parked at flow-control boundaries never interleave their bytes, for
\* any window and any pace of the receiver.
THEOREM NoInterleaving == Spec => []WritesNeverInterleave
<1>1. SP!WritesNeverInterleave => WritesNeverInterleave
  BY DEF SP!WritesNeverInterleave, WritesNeverInterleave, S!WritesNeverInterleave
<1>2. QED
  BY <1>1, SenderImplemented, SP!NoInterleaving, PTL

\* A FIN never lands under an operation in flight.
THEOREM FinSafe == Spec => []FinTruncatesNothing
<1>1. SP!IInv => FinTruncatesNothing
  BY DEF SP!IInv, SP!FinTruncatesNothing, FinTruncatesNothing, S!FinTruncatesNothing,
     SP!InFlight, S!InFlight
<1>2. QED
  BY <1>1, Inductive, PTL DEF IInv

\* Once write-via-stream has claimed the stream no other call adds a byte to it.
THEOREM ViaOwns == Spec => ViaOwnsTheStream
<1>1. /\ [viaOp # SP!NoOp /\ accepted' # accepted
             => accepted'[Len(accepted')] = viaOp]_(SP!vars)
      => [viaOp # S!NoOp /\ accepted' # accepted
             => accepted'[Len(accepted')] = viaOp]_(S!vars)
  BY DEF S!NoOp, SP!NoOp, S!vars, SP!vars
<1>2. QED
  BY <1>1, SenderImplemented, SP!ViaOwns, PTL
     DEF SP!ViaOwnsTheStream, ViaOwnsTheStream, S!ViaOwnsTheStream

-----------------------------------------------------------------------------
\* A step of the sender is a step of the byte stream: it accepts a byte,
\* finishes, aborts or releases the stream.
LEMMA SenderRefines ==
    ASSUME IInv, SenderStep PROVE [B!Next]_(B!vars)
<1>1. /\ finSent' = (finSent \/ snd' = "fin") /\ UNCHANGED <<taken, rStopped, conn, outcome>>
      /\ finSent \in BOOLEAN /\ sDropped \in BOOLEAN
  BY DEF SenderStep, recvVars, IInv, TypeOK, S!TypeOK
<1>2. WireFaithful /\ SP!IInv /\ [SP!Next]_(SP!vars)
  BY DEF IInv, SenderStep
<1>3. CASE UNCHANGED <<accepted, snd, sDropped>>
  <2>1. finSent' = finSent
    BY <1>1, <1>2, <1>3 DEF WireFaithful
  <2>2. QED
    BY <1>1, <1>3, <2>1 DEF B!vars
<1>4. CASE /\ snd = "ready" /\ ~sDropped /\ Len(accepted') = Len(accepted) + 1
           /\ UNCHANGED <<snd, sDropped>>
  <2>1. ~finSent /\ finSent' = finSent
    BY <1>1, <1>2, <1>4 DEF WireFaithful
  <2>2. B!Accept
    BY <1>1, <1>4, <2>1 DEF B!Accept
  <2>3. QED
    BY <2>2 DEF B!Next
<1>5. CASE /\ snd = "ready" /\ snd' = "fin" /\ ~sDropped
           /\ UNCHANGED <<accepted, sDropped>>
  <2>1. ~finSent /\ finSent' = TRUE
    BY <1>1, <1>2, <1>5 DEF WireFaithful
  <2>2. B!Finish
    BY <1>1, <1>5, <2>1 DEF B!Finish
  <2>3. QED
    BY <2>2 DEF B!Next
<1>6. CASE snd' = "reset" /\ ~sDropped /\ UNCHANGED <<accepted, sDropped>>
  <2>1. finSent' = finSent
    BY <1>1, <1>6
  <2>2. CASE snd = "reset"
    BY <1>1, <1>6, <2>1, <2>2 DEF B!vars
  <2>3. CASE snd # "reset"
    <3>1. B!Abort
      BY <1>1, <1>6, <2>1, <2>3 DEF B!Abort
    <3>2. QED
      BY <3>1 DEF B!Next
  <2>4. QED
    BY <2>2, <2>3
<1>7. CASE /\ ~sDropped /\ sDropped' = TRUE
           /\ snd' \in {snd, IF ended THEN snd ELSE "reset"}
           /\ UNCHANGED <<accepted, ended>>
  <2>1. finSent' = finSent /\ (snd' # snd => ~finSent /\ snd' = "reset")
    BY <1>1, <1>2, <1>7 DEF WireFaithful
  <2>2. (snd' = "reset") \in {snd = "reset", snd = "reset" \/ ~finSent}
    BY <2>1
  <2>3. B!Release
    BY <1>1, <1>7, <2>1, <2>2 DEF B!Release
  <2>4. QED
    BY <2>3 DEF B!Next
<1>8. QED
  BY <1>2, <1>3, <1>4, <1>5, <1>6, <1>7, SP!SendContract

\* A step of the receiver is a step of the byte stream: it delivers a byte, gives
\* the stream up, loses the connection, or tells an end that is true.
LEMMA ReceiverRefines ==
    ASSUME IInv, ReceiverStep PROVE [B!Next]_(B!vars)
<1>1. /\ ReceiverNext /\ UNCHANGED <<accepted, snd, sDropped, finSent>>
      /\ outcome' = IF outcome = "none" \/ (terminal # "none" /\ terminal' # terminal)
                    THEN Told ELSE outcome
  BY DEF ReceiverStep, ReceiverSteps, sendVars
<1>2. TypeOK /\ R!TypeOK /\ ReadClaimed /\ WireFaithful /\ Over
  BY DEF IInv, TypeOK
<1>3. \/ /\ Told = "none" /\ terminal' = terminal /\ spent' = spent
         /\ taken' = taken \/ (R!ReadSome = "bytes" /\ taken' = taken + 1)
      \/ /\ Told = R!ReadSome /\ Told \in {"fin", "reset", "closed"} /\ taken' = taken
         /\ terminal = "none" \/ terminal' = terminal
         /\ UNCHANGED <<arrived, fin, rst, rStopped, conn>>
  BY <1>1, <1>2, ToldBy
<1>4. Len(accepted) \in Nat
  BY <1>2, LenProperties DEF TypeOK, S!TypeOK
<1>5. /\ taken' # taken => UNCHANGED <<rStopped, conn>>
      /\ \/ UNCHANGED <<rStopped, conn>>
         \/ rStopped' \in {rStopped, TRUE} /\ UNCHANGED conn
         \/ conn \in {"live", "failed"} /\ conn' \in {"failed", "gone"} /\ UNCHANGED rStopped
  BY <1>1, <1>2 DEF ReceiverNext, R!Read, R!ReadResolves, R!CancelRead, R!Stop, R!Drop,
     R!DropImplies, R!ReadViaStream, R!ViaReads, R!ViaHandsOver, R!BytesArrive, R!FinArrives,
     R!ResetArrives, R!ConnFails, R!ConnGone, R!noqVars, R!ourVars, R!TypeOK
<1>6. CASE taken' # taken
  <2>1. Told = "none" /\ terminal' = terminal /\ R!ReadSome = "bytes" /\ taken' = taken + 1
    BY <1>3, <1>6
  <2>2. outcome = "none" /\ outcome' = outcome
    BY <1>1, <1>2, <2>1, EndIsFinal
  <2>3. ~rStopped /\ taken < arrived
    BY <2>1 DEF R!ReadSome, R!ClosedStreamResult, R!BlockedResult, R!BytesReady
  <2>4. taken < Len(accepted)
    BY <1>2, <1>4, <2>3 DEF WireFaithful, R!TypeOK
  <2>5. UNCHANGED <<rStopped, conn>>
    BY <1>5, <1>6
  <2>6. B!Deliver
    BY <1>1, <2>1, <2>2, <2>3, <2>4, <2>5 DEF B!Deliver
  <2>7. QED
    BY <2>6 DEF B!Next
<1>7. CASE Told # "none"
  <2>1. /\ Told = R!ReadSome /\ Told \in {"fin", "reset", "closed"}
        /\ UNCHANGED <<taken, rStopped, conn>>
        /\ outcome' = IF outcome = "none" THEN Told ELSE outcome
    BY <1>1, <1>3, <1>7
  <2>2. CASE outcome # "none"
    BY <1>1, <2>1, <2>2 DEF B!vars
  <2>3. CASE outcome = "none"
    <3>1. ~spent
      BY <1>2, <2>3 DEF Over, R!TypeOK
    <3>2. CASE R!ReadSome = "fin"
      <4>1. rStopped \/ (fin /\ ~(taken < arrived))
        BY <3>1, <3>2 DEF R!ReadSome, R!ClosedStreamResult, R!BlockedResult, R!BytesReady
      <4>2. rStopped \/ (finSent /\ taken = Len(accepted))
        BY <1>2, <4>1 DEF WireFaithful, R!TypeOK
      <4>3. B!Tell("fin")
        BY <1>1, <2>1, <2>3, <3>2, <4>2 DEF B!Tell
      <4>4. QED
        BY <4>3 DEF B!Next
    <3>3. CASE R!ReadSome = "reset"
      <4>1. rst /\ ~rStopped
        BY <3>3 DEF R!ReadSome, R!ClosedStreamResult, R!BlockedResult
      <4>2. B!Tell("reset")
        BY <1>1, <1>2, <2>1, <2>3, <3>3, <4>1 DEF B!Tell, WireFaithful
      <4>3. QED
        BY <4>2 DEF B!Next
    <3>4. CASE R!ReadSome = "closed"
      <4>1. conn # "live"
        BY <3>4 DEF R!ReadSome, R!ClosedStreamResult, R!BlockedResult
      <4>2. B!Tell("closed")
        BY <1>1, <2>1, <2>3, <3>4, <4>1 DEF B!Tell
      <4>3. QED
        BY <4>2 DEF B!Next
    <3>5. QED
      BY <2>1, <3>2, <3>3, <3>4
  <2>4. QED
    BY <2>2, <2>3
<1>8. CASE taken' = taken /\ Told = "none"
  <2>1. outcome' = outcome
    BY <1>1, <1>3, <1>8
  <2>2. CASE (conn' = "live") = (conn = "live") /\ UNCHANGED rStopped
    BY <1>1, <1>8, <2>1, <2>2 DEF B!vars
  <2>3. CASE ~rStopped /\ rStopped' = TRUE /\ UNCHANGED conn
    <3>1. B!Quit
      BY <1>1, <1>8, <2>1, <2>3 DEF B!Quit
    <3>2. QED
      BY <3>1 DEF B!Next
  <2>4. CASE conn = "live" /\ conn' # "live" /\ UNCHANGED rStopped
    <3>1. B!Break
      BY <1>1, <1>8, <2>1, <2>4 DEF B!Break
    <3>2. QED
      BY <3>1 DEF B!Next
  <2>5. QED
    BY <1>2, <1>5, <2>2, <2>3, <2>4 DEF R!TypeOK
<1>9. QED
  BY <1>6, <1>7, <1>8

\* The two resources and noq between them are the byte stream iroh.wit promises:
\* no byte is invented, lost before a clean end or delivered after it, and the
\* reader is told "fin", "reset" or "closed" only if that is what happened.
THEOREM Refinement == Spec => ImplementsByteStream
<1>1. Init => B!Init
  BY EmptySeq DEF Init, S!Init, R!Init, B!Init
<1>2. IInv /\ [Next]_vars => [B!Next]_(B!vars)
  <2> SUFFICES ASSUME IInv, [Next]_vars PROVE [B!Next]_(B!vars)
    OBVIOUS
  <2>1. CASE UNCHANGED vars
    BY <2>1 DEF vars, sendVars, recvVars, B!vars
  <2>2. QED
    BY <2>1, StepSides, SenderRefines, ReceiverRefines
<1>3. QED
  BY <1>1, <1>2, Inductive, PTL DEF Spec, ImplementsByteStream, B!Spec
=============================================================================
