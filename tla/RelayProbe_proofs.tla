--------------------------- MODULE RelayProbe_proofs ---------------------------
(***************************************************************************)
(* The liveness probe's two promises, proved for every quiet interval,     *)
(* deadline, tick and round trip: a relay that answers is kept, and a      *)
(* silent one is found in time.                                            *)
(***************************************************************************)
EXTENDS RelayProbe, TLAPS

\* The time since the last frame that the pump was free to use.
Free == now - heard - heldFor

\* The outstanding ping has no answer that a receive has stamped.
Unanswered == probe # Never /\ ~Answered(probe)

\* A live relay that was pinged will answer by pongDue, or has sent a frame since
\* the ping; that frame is stamped unless it is still buffered.
AnswerComes ==
    /\ live => ~dead
    /\ ~buffered => lastInbound >= heard
    /\ live /\ pongDue # Never => now <= pongDue
    /\ live /\ probe # Never => pongDue = probe + MaxRtt \/ heard > probe

\* Time the pump was held never counts twice, and a free pump neither leaves a
\* frame unread nor lets its tick pass.
Prompt ==
    /\ tickAt <= now + TickPeriod
    /\ heldFor <= now - heard
    /\ buffered /\ ~dead => Free = 0
    /\ ~buffered /\ ~dead => lastInbound <= heard + heldFor

\* Before the ping the wire has been quiet for at most the interval rounded up by
\* a tick.
QuietBound ==
    ~dead /\ ~Unanswered =>
        /\ Free <= QuietAfter + TickPeriod - 1
        /\ Free + (tickAt - now) <= QuietAfter + TickPeriod - 1

\* After it the deadline runs, rounded up by another tick.
PingBound ==
    ~dead /\ Unanswered =>
        /\ Free <= QuietAfter + TickPeriod - 1 + (now - probe)
        /\ Free <= QuietAfter + Deadline + 2 * (TickPeriod - 1)
        /\ Free + (tickAt - now) <= QuietAfter + Deadline + 2 * (TickPeriod - 1)

IInv == TypeOK /\ AnswerComes /\ Prompt /\ QuietBound /\ PingBound

-----------------------------------------------------------------------------
\* The initial state satisfies the inductive invariant.
LEMMA InitIInv == Init => IInv
<1> SUFFICES ASSUME Init PROVE IInv
  OBVIOUS
<1> USE ProbeAssumption DEF Init, Never
<1>1. TypeOK
  <2>1. 0 \in 0..MaxTime /\ 0 \in 0..0
    OBVIOUS
  <2>2. QED
    BY <2>1 DEF TypeOK, Times
<1>2. AnswerComes /\ Prompt
  BY DEF AnswerComes, Prompt, Free
<1>3. QuietBound /\ PingBound
  BY DEF QuietBound, PingBound, Free, Unanswered
<1>4. QED
  BY <1>1, <1>2, <1>3 DEF IInv

\* Every step keeps the types.
LEMMA TypeStep == TypeOK /\ Prompt /\ [Next]_vars => TypeOK'
<1> SUFFICES ASSUME TypeOK, Prompt, [Next]_vars PROVE TypeOK'
  OBVIOUS
<1> USE ProbeAssumption DEF TypeOK, Times, Never
<1>1. ASSUME NEW pong \in BOOLEAN, FrameArrives(pong) PROVE TypeOK'
  <2>1. heard' \in 0..now' /\ heldFor' \in 0..now' /\ pongDue' \in Nat \cup {Never}
    BY <1>1 DEF FrameArrives
  <2>2. UNCHANGED <<now, lastInbound, probe, dead, tickAt, held, live>> /\ buffered' = TRUE
    BY <1>1 DEF FrameArrives
  <2>3. QED
    BY <2>1, <2>2
<1>2. CASE Receive
  <2>1. lastInbound' \in 0..now'
    BY <1>2 DEF Receive
  <2>2. UNCHANGED <<now, probe, dead, tickAt, held, heard, pongDue, live, heldFor>> /\ buffered' = FALSE
    BY <1>2 DEF Receive
  <2>3. QED
    BY <2>1, <2>2
<1>3. CASE Sweep
  <2>1. tickAt' \in Nat /\ dead' \in BOOLEAN
    <3>1. tickAt' = now + TickPeriod
      BY <1>3 DEF Sweep
    <3>2. dead' = dead \/ dead' = ~Waiting(probe)
      BY <1>3 DEF Sweep
    <3>3. (~Waiting(probe)) \in BOOLEAN
      OBVIOUS
    <3>4. dead' \in BOOLEAN
      BY <3>2, <3>3
    <3>5. QED
      BY <3>1, <3>4
  <2>2. probe' \in (0..now') \cup {Never}
    BY <1>3 DEF Sweep, PingSent
  <2>3. pongDue' \in Nat \cup {Never}
    BY <1>3 DEF Sweep
  <2>4. UNCHANGED <<now, lastInbound, held, buffered, heard, live, heldFor>>
    BY <1>3 DEF Sweep
  <2>5. QED
    BY <2>1, <2>2, <2>3, <2>4
<1>4. CASE Hold \/ GoSilent
  BY <1>4 DEF Hold, GoSilent
<1>5. CASE Advance
  BY <1>5 DEF Advance, Prompt
<1>6. CASE UNCHANGED vars
  BY <1>6 DEF vars
<1>7. QED
  BY <1>1, <1>2, <1>3, <1>4, <1>5, <1>6 DEF Next

\* Every step keeps the answer coming.
LEMMA AnswerStep == TypeOK /\ AnswerComes /\ [Next]_vars => AnswerComes'
<1> SUFFICES ASSUME TypeOK, AnswerComes, [Next]_vars PROVE AnswerComes'
  OBVIOUS
<1> USE ProbeAssumption DEF TypeOK, Times, Never, AnswerComes
<1>1. ASSUME NEW pong \in BOOLEAN, FrameArrives(pong) PROVE AnswerComes'
  BY <1>1 DEF FrameArrives
<1>2. CASE Receive
  BY <1>2 DEF Receive
<1>3. CASE Sweep
  BY <1>3 DEF Sweep, TickRuns, Answered, Waiting, PingSent
<1>4. CASE Hold \/ GoSilent
  BY <1>4 DEF Hold, GoSilent
<1>5. CASE Advance
  BY <1>5 DEF Advance
<1>6. CASE UNCHANGED vars
  BY <1>6 DEF vars
<1>7. QED
  BY <1>1, <1>2, <1>3, <1>4, <1>5, <1>6 DEF Next

\* Every step keeps the account of the pump's time.
LEMMA PromptStep == TypeOK /\ Prompt /\ [Next]_vars => Prompt'
<1> SUFFICES ASSUME TypeOK, Prompt, [Next]_vars PROVE Prompt'
  OBVIOUS
<1> USE ProbeAssumption DEF TypeOK, Times, Never, Prompt, Free
<1>1. ASSUME NEW pong \in BOOLEAN, FrameArrives(pong) PROVE Prompt'
  BY <1>1 DEF FrameArrives
<1>2. CASE Receive
  BY <1>2 DEF Receive
<1>3. CASE Sweep
  BY <1>3 DEF Sweep, TickRuns
<1>4. CASE Hold \/ GoSilent
  BY <1>4 DEF Hold, GoSilent
<1>5. CASE Advance
  BY <1>5 DEF Advance
<1>6. CASE UNCHANGED vars
  BY <1>6 DEF vars
<1>7. QED
  BY <1>1, <1>2, <1>3, <1>4, <1>5, <1>6 DEF Next

\* Every step keeps the two bounds: a frame starts them afresh, and a sweep moves
\* from the first to the second when it pings.
LEMMA BoundStep ==
    TypeOK /\ Prompt /\ QuietBound /\ PingBound /\ [Next]_vars => QuietBound' /\ PingBound'
<1> SUFFICES ASSUME TypeOK, Prompt, QuietBound, PingBound, [Next]_vars
             PROVE  QuietBound' /\ PingBound'
  OBVIOUS
<1> USE ProbeAssumption DEF TypeOK, Times, Never, Free, Unanswered, Answered
<1>1. ASSUME NEW pong \in BOOLEAN, FrameArrives(pong) PROVE QuietBound' /\ PingBound'
  <2>1. /\ heard' = now /\ heldFor' = 0
        /\ UNCHANGED <<now, lastInbound, probe, dead, tickAt>>
    BY <1>1 DEF FrameArrives
  <2>2. Free' = 0 /\ tickAt' - now' <= TickPeriod
    BY <2>1 DEF Prompt
  <2>3. QuietBound'
    BY <2>1, <2>2 DEF QuietBound
  <2>4. PingBound'
    BY <2>1, <2>2 DEF PingBound
  <2>5. QED
    BY <2>3, <2>4
<1>2. CASE Receive
  BY <1>2 DEF Receive, Prompt, QuietBound, PingBound
<1>3. CASE Sweep
  <2>1. /\ ~dead /\ ~buffered /\ now >= tickAt /\ tickAt' = now + TickPeriod
        /\ UNCHANGED <<now, lastInbound, heard, heldFor>>
    BY <1>3 DEF Sweep, TickRuns
  <2>2. Free' = Free /\ tickAt' - now' = TickPeriod
    BY <2>1
  <2>3. CASE Unanswered
    <3>1. probe' = probe /\ Unanswered'
      <4>1. probe' = probe
        BY <1>3, <2>3 DEF Sweep
      <4>2. QED
        BY <2>1, <2>3, <4>1
    <3>2. ~dead' => now - probe <= Deadline - 1
      <4>1. dead' = ~Waiting(probe)
        BY <1>3, <2>3 DEF Sweep
      <4>2. ~dead' => Waiting(probe)
        BY <4>1
      <4>3. QED
        BY <4>2 DEF Waiting
    <3>3. Free <= QuietAfter + TickPeriod - 1 + (now - probe)
      BY <2>1, <2>3 DEF PingBound
    <3>4. PingBound'
      BY <2>1, <2>2, <3>1, <3>2, <3>3 DEF PingBound
    <3>5. QED
      BY <3>1, <3>4 DEF QuietBound
  <2>4. CASE ~Unanswered
    <3>1. Free <= QuietAfter + TickPeriod - 1
      BY <2>1, <2>4 DEF QuietBound
    <3>2. CASE Quiet
      <4>1. probe' = now /\ Unanswered'
        BY <1>3, <2>1, <2>4, <3>2 DEF Sweep, PingSent
      <4>2. PingBound'
        BY <2>1, <2>2, <3>1, <4>1 DEF PingBound
      <4>3. QED
        BY <4>1, <4>2 DEF QuietBound
    <3>3. CASE ~Quiet
      <4>1. probe' = Never
        BY <1>3, <2>4, <3>3 DEF Sweep
      <4>2. Free <= QuietAfter - 1
        BY <2>1, <3>3 DEF Prompt, Quiet
      <4>3. QuietBound'
        BY <2>2, <4>2 DEF QuietBound
      <4>4. QED
        BY <4>1, <4>3 DEF PingBound
    <3>4. QED
      BY <3>2, <3>3
  <2>5. QED
    BY <2>3, <2>4
<1>4. CASE Hold \/ GoSilent
  BY <1>4 DEF Hold, GoSilent, QuietBound, PingBound
<1>5. CASE Advance
  BY <1>5 DEF Advance, Prompt, QuietBound, PingBound
<1>6. CASE UNCHANGED vars
  BY <1>6 DEF vars, QuietBound, PingBound
<1>7. QED
  BY <1>1, <1>2, <1>3, <1>4, <1>5, <1>6 DEF Next

\* The inductive invariant holds throughout.
LEMMA Inductive == Spec => []IInv
<1>1. IInv /\ [Next]_vars => IInv'
  BY TypeStep, AnswerStep, PromptStep, BoundStep DEF IInv
<1>2. QED
  BY <1>1, InitIInv, PTL DEF Spec

-----------------------------------------------------------------------------
\* The probe's stamps are never in the future, and the pump is never held for
\* longer than the clock has run.
THEOREM TypeCorrect == Spec => []TypeOK
BY Inductive, PTL DEF IInv

\* A relay whose answers take less than RELAY_PING_TIMEOUT is never declared dead,
\* however long inline sends keep the pump from reading them.
THEOREM LiveKept == Spec => []LiveRelayKept
BY Inductive, PTL DEF IInv, AnswerComes, LiveRelayKept

\* A silent relay is declared dead within the quiet interval, the ping's deadline
\* and less than two ticks, not counting the time the pump was held.
THEOREM Detection == Spec => []DetectedInTime
<1>1. IInv => DetectedInTime
  BY ProbeAssumption
     DEF IInv, TypeOK, Times, Never, QuietBound, PingBound, Free, DetectedInTime
<1>2. QED
  BY <1>1, Inductive, PTL
=============================================================================
