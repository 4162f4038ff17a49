-------------------------- MODULE RelayPool_proofs --------------------------
(***************************************************************************)
(* The safety properties of RelayPool, proved for every set of urls and    *)
(* callers and every bound.  The inductive invariant IInv joins the        *)
(* properties themselves with the numbering facts (Fresh) that make a      *)
(* registered key new and the pool injective, and with PooledIsOpen, which *)
(* says why a closed wire is never the pool's.                             *)
(***************************************************************************)
EXTENDS RelayPool, TLAPS

\* Keys and connections are numbered in order: the next key and the next
\* connection are in use nowhere, and a pooled connection knows its key.
Fresh ==
    /\ nextKey <= nconns
    /\ \A k \in Keys : k >= nextKey => pool[k] = NoConn
    /\ \A u \in Urls : keys[u] < nextKey
    /\ keys[HomeUrl] = HOME_RELAY
    /\ \A k \in Keys : pool[k] # NoConn => pool[k] <= nconns /\ keyOf[pool[k]] = k
    /\ \A c \in Conns : c > nconns => recvs[c] = 0 /\ c \notin newRelays

\* A connection waiting in new_relays has no receive yet.
NewIsUnarmed == \A c \in newRelays : recvs[c] = 0

\* Only a closed endpoint's pump breaks out of its loop.
EndsOnlyClosed == pump \in {"teardown", "done"} => closed

\* Until the teardown, the pool's wires exist and are not closed.
PooledIsOpen ==
    pump \notin {"teardown", "done"} =>
        \A k \in Keys : pool[k] # NoConn => wire[pool[k]] \in {"live", "silent", "failed"}

IInv ==
    /\ TypeOK
    /\ OneOpenPerRelay
    /\ MappedKeysArePooled
    /\ OneReceivePerConn
    /\ HomePooledOrRedialing
    /\ UnpooledIsClosed
    /\ Fresh
    /\ NewIsUnarmed
    /\ PooledIsOpen
    /\ EndsOnlyClosed

USE DEF HOME_RELAY, NoConn, NoKey, Conns, Keys

-----------------------------------------------------------------------------
(***************************************************************************)
(* What the helpers of the pump and of ensure_relay preserve.              *)
(***************************************************************************)

\* Waking the parked calls keeps every call at a known place.
LEMMA WakeType ==
    ASSUME pc \in [Callers -> {"idle", "dialing", "parked", "woken"}]
    PROVE  Wake(pc) \in [Callers -> {"idle", "dialing", "parked", "woken"}]
BY DEF Wake

\* What the end of a select turn leaves: typed calls and a pump at its loop top.
PcTurned ==
    /\ pc' \in [Callers -> {"idle", "dialing", "parked", "woken"}]
    /\ pump' = "flush"

\* The end of a select turn keeps every call at a known place.
LEMMA NextTurnType ==
    ASSUME TypeOK, NEW forced, NextTurn(forced)
    PROVE  PcTurned
BY WakeType DEF NextTurn, PcTurned, TypeOK

\* What retirement may touch stays within its types.
RetiredType ==
    /\ pool' \in [Keys -> Conns \cup {NoConn}]
    /\ keys' \in [Urls -> Keys \cup {NoKey}]
    /\ wire' \in [Conns -> {"none", "live", "silent", "failed", "closed"}]
    /\ redial' \in {"off", "armed"}
    /\ redialAttempt' \in 0..MaxAttempt
    /\ homeSince' \in {"none", "young", "established"}

\* Arming a redial keeps the attempt counter within its saturation bound.
LEMMA ArmRedialType ==
    ASSUME TypeOK, ArmRedial
    PROVE  /\ redial' \in {"off", "armed"}
           /\ redialAttempt' \in 0..MaxAttempt
           /\ homeSince' \in {"none", "young", "established"}
<1>1. SaturatingInc(redialAttempt) \in 0..MaxAttempt
  BY BoundAssumption DEF SaturatingInc, TypeOK
<1>2. 0 \in 0..MaxAttempt
  BY BoundAssumption
<1>3. redialAttempt' \in 0..MaxAttempt
  BY <1>1, <1>2 DEF ArmRedial
<1>4. QED
  BY <1>3 DEF ArmRedial

\* Retiring connections keeps the types of everything it touches.
LEMMA RetireType ==
    ASSUME TypeOK, NEW dead \in SUBSET Keys, Retire(dead)
    PROVE  RetiredType
<1>1. pool' \in [Keys -> Conns \cup {NoConn}]
  BY DEF Retire, PoolWithout, TypeOK
<1>2. keys' \in [Urls -> Keys \cup {NoKey}]
  BY DEF Retire, KeysWithout, TypeOK
<1>3. wire' \in [Conns -> {"none", "live", "silent", "failed", "closed"}]
  BY DEF Retire, WiresClosed, TypeOK
<1>4. ArmRedial \/ RedialUnchanged
  BY DEF Retire
<1>5. CASE ArmRedial
  BY <1>1, <1>2, <1>3, <1>5, ArmRedialType DEF RetiredType
<1>6. CASE RedialUnchanged
  BY <1>1, <1>2, <1>3, <1>6 DEF RetiredType, RedialUnchanged, TypeOK
<1>7. QED
  BY <1>4, <1>5, <1>6

-----------------------------------------------------------------------------
\* Every step keeps the types; the key counter stays in range because it never
\* overtakes the connection counter.
LEMMA TypeStep == TypeOK /\ Fresh /\ Next => TypeOK'
<1> SUFFICES ASSUME TypeOK, Fresh, Next PROVE TypeOK'
  OBVIOUS
<1> USE BoundAssumption
<1>1. ASSUME NEW p \in Callers, NEW u \in Urls, EnsureRelay(p, u) PROVE TypeOK'
  BY <1>1, ZenonT(60) DEF EnsureRelay, TypeOK, connVars, pumpVars
<1>2. ASSUME NEW p \in Callers, DialOk(p) PROVE TypeOK'
  BY <1>2, WakeType DEF DialOk, TypeOK, Fresh, pumpVars
<1>3. ASSUME NEW p \in Callers, DialFails(p) PROVE TypeOK'
  BY <1>3, WakeType DEF DialFails, TypeOK, pumpVars, connVars
<1>4. ASSUME NEW p \in Callers, Cancel(p) PROVE TypeOK'
  BY <1>4, WakeType DEF Cancel, DropClaim, TypeOK, pumpVars, connVars
<1>5. ASSUME NEW p \in Callers, Poll(p) PROVE TypeOK'
  BY <1>5 DEF Poll, TypeOK, stateVars, pumpVars, connVars
<1>6. ASSUME NEW p \in Callers, WaitExpires(p) PROVE TypeOK'
  BY <1>6 DEF WaitExpires, TypeOK, stateVars, pumpVars, connVars
<1>7. ASSUME NEW k \in Keys, SendStarts(k) PROVE TypeOK'
  BY <1>7 DEF SendStarts, TypeOK, stateVars, connVars, callVars
<1>8. CASE SendResolves
  <2>1. CASE Retire({HOME_RELAY})
    <3>1. RetiredType
      BY <2>1, RetireType
    <3>2. QED
      BY <1>8, <3>1 DEF SendResolves, RetiredType, TypeOK, callVars
  <2>2. CASE UNCHANGED <<pool, keys, wire>> /\ RedialUnchanged
    BY <1>8, <2>2 DEF SendResolves, RedialUnchanged, TypeOK, callVars
  <2>3. QED
    BY <1>8, <2>1, <2>2 DEF SendResolves
<1>9. CASE FlushDone
  <2>1. wire' \in [Conns -> {"none", "live", "silent", "failed", "closed"}]
    BY <1>9 DEF FlushDone, TeardownStarts, WiresClosed, TypeOK
  <2>2. recvs' \in [Conns -> Nat]
    BY <1>9 DEF FlushDone, TeardownStarts, TypeOK
  <2>3. /\ pc' \in [Callers -> {"idle", "dialing", "parked", "woken"}]
        /\ pump' \in {"teardown", "select"}
    BY <1>9, WakeType DEF FlushDone, TeardownStarts, TypeOK
  <2>4. awaits' \subseteq OtherWires
    BY <1>9 DEF FlushDone, TeardownStarts, TypeOK
  <2>5. QED
    BY <1>9, <2>1, <2>2, <2>3, <2>4 DEF FlushDone, TeardownStarts, TypeOK
<1>10. ASSUME NEW c \in Conns, ReceiveOk(c) PROVE TypeOK'
  <2>1. PcTurned
    BY <1>10, NextTurnType DEF ReceiveOk
  <2>2. recvs' \in [Conns -> Nat]
    BY <1>10 DEF ReceiveOk, Rearm, TypeOK
  <2>3. QED
    BY <1>10, <2>1, <2>2 DEF ReceiveOk, PcTurned, TypeOK, stateVars
<1>11. ASSUME NEW c \in Conns, ReceiveErr(c) PROVE TypeOK'
  <2>1. PcTurned
    BY <1>11, NextTurnType DEF ReceiveErr
  <2>2. recvs' \in [Conns -> Nat]
    BY <1>11 DEF ReceiveErr, TypeOK
  <2>3. UNCHANGED <<closed, lingered, opening, newRelays, nextKey, kicked,
                    nconns, keyOf, probed, sendKey, awaits, url, late>>
    BY <1>11 DEF ReceiveErr
  <2>4. CASE IsPoolCurrent(c) /\ Retire({keyOf[c]})
    <3>1. RetiredType
      BY <2>4, RetireType DEF IsPoolCurrent
    <3>2. QED
      BY <2>1, <2>2, <2>3, <3>1 DEF RetiredType, PcTurned, TypeOK
  <2>5. CASE UNCHANGED <<pool, keys, wire>> /\ RedialUnchanged
    BY <2>1, <2>2, <2>3, <2>5 DEF RedialUnchanged, PcTurned, TypeOK
  <2>6. QED
    BY <1>11, <2>4, <2>5 DEF ReceiveErr
<1>12. CASE RedialOk
  <2>1. PcTurned
    BY <1>12, NextTurnType DEF RedialOk
  <2>2. nconns + 1 \in Conns
    BY <1>12 DEF RedialOk, TypeOK
  <2>3. /\ nconns' \in Conns
        /\ keyOf' = [keyOf EXCEPT ![nconns + 1] = HOME_RELAY]
        /\ \E w \in {"live", "closed"} : wire' = [wire EXCEPT ![nconns + 1] = w]
        /\ pool' = pool \/ pool' = [pool EXCEPT ![HOME_RELAY] = nconns + 1]
        /\ recvs' = recvs \/ recvs' = [recvs EXCEPT ![nconns + 1] = 1]
    BY <1>12, <2>2 DEF RedialOk
  <2>4. /\ keyOf' \in [Conns -> Keys \cup {NoKey}]
        /\ wire' \in [Conns -> {"none", "live", "silent", "failed", "closed"}]
    BY <2>2, <2>3 DEF TypeOK
  <2>5. pool' \in [Keys -> Conns \cup {NoConn}]
    <3>1. pool \in [Keys -> Conns \cup {NoConn}] /\ nconns + 1 \in Conns \cup {NoConn}
      BY <2>2 DEF TypeOK
    <3>2. QED
      BY <2>3, <3>1
  <2>6. recvs' \in [Conns -> Nat]
    <3>1. recvs \in [Conns -> Nat]
      BY DEF TypeOK
    <3>2. [recvs EXCEPT ![nconns + 1] = 1] \in [Conns -> Nat]
      BY <3>1
    <3>3. QED
      BY <2>3, <3>1, <3>2
  <2>7. /\ redialAttempt' \in 0..MaxAttempt
        /\ homeSince' \in {"none", "young", "established"}
    BY <1>12 DEF RedialOk, TypeOK
  <2>8. QED
    BY <1>12, <2>1, <2>3, <2>4, <2>5, <2>6, <2>7 DEF RedialOk, PcTurned, TypeOK
<1>13. CASE RedialErr
  <2>1. PcTurned
    BY <1>13, NextTurnType DEF RedialErr
  <2>2. CASE closed
    BY <1>13, <2>1, <2>2 DEF RedialErr, PcTurned, TypeOK, stateVars, connVars
  <2>3. CASE ~closed
    <3>1. ArmRedial
      BY <1>13, <2>3 DEF RedialErr
    <3>2. QED
      BY <1>13, <2>1, <3>1, ArmRedialType DEF RedialErr, PcTurned, TypeOK, stateVars, connVars
  <2>4. QED
    BY <2>2, <2>3
<1>14. CASE Kicked
  <2>1. PcTurned
    BY <1>14, NextTurnType DEF Kicked
  <2>2. QED
    BY <1>14, <2>1 DEF Kicked, PcTurned, TypeOK, connVars
<1>15. CASE Tick
  <2>1. ProbeDead \in SUBSET Keys
    BY DEF ProbeDead
  <2>2. RetiredType
    BY <1>15, <2>1, RetireType DEF Tick
  <2>3. PcTurned
    BY <1>15, NextTurnType DEF Tick
  <2>4. QED
    BY <1>15, <2>2, <2>3 DEF Tick, RetiredType, PcTurned, TypeOK
<1>16. ASSUME NEW c \in Conns, TeardownReceive(c) PROVE TypeOK'
  BY <1>16, SMTT(30) DEF TeardownReceive, TypeOK, stateVars, pumpVars, callVars
<1>17. CASE PumpEnds
  BY <1>17 DEF PumpEnds, TypeOK, stateVars, connVars, callVars
<1>18. CASE Close
  BY <1>18, WakeType DEF Close, TypeOK, connVars, pumpVars
<1>19. CASE LingerEnds
  BY <1>19 DEF LingerEnds, TypeOK, connVars, pumpVars, callVars
<1>20. CASE HomeMatures
  BY <1>20 DEF HomeMatures, TypeOK, stateVars, connVars, callVars
<1>21. ASSUME NEW c \in Conns, NEW fault \in {"failed", "silent"}, WireFails(c, fault)
       PROVE  TypeOK'
  BY <1>21 DEF WireFails, TypeOK, stateVars, pumpVars, callVars
<1>22. CASE OtherSendStarts
  BY <1>22 DEF OtherSendStarts, TypeOK, stateVars, connVars, callVars
<1>23. CASE OtherEvent
  <2>1. PcTurned
    BY <1>23, NextTurnType DEF OtherEvent
  <2>2. QED
    BY <1>23, <2>1 DEF OtherEvent, PcTurned, TypeOK, stateVars, connVars
<1>24. CASE SelfWakeSent \/ TeardownUdp \/ TeardownChannels
  <2>1. /\ awaits' \subseteq OtherWires
        /\ UNCHANGED <<stateVars, connVars, pump, sendKey, redial, redialAttempt, homeSince, callVars>>
    BY <1>24 DEF SelfWakeSent, TeardownUdp, TeardownChannels, TypeOK
  <2>2. QED
    BY <2>1 DEF TypeOK, stateVars, connVars, callVars
<1>25. QED
  BY <1>1, <1>2, <1>3, <1>4, <1>5, <1>6, <1>7, <1>8, <1>9, <1>10, <1>11, <1>12, <1>13,
     <1>14, <1>15, <1>16, <1>17, <1>18, <1>19, <1>20, <1>21, <1>22, <1>23, <1>24
     DEF Next, CallerNext, PumpNext, EnvNext

-----------------------------------------------------------------------------
\* The pump, the application and the wires touch the ensure_relay calls only by
\* waking them.
LEMMA PumpOnlyWakes ==
    ASSUME PumpNext \/ EnvNext
    PROVE  UNCHANGED <<opening, url>> /\ (pc' = pc \/ pc' = Wake(pc))
<1>1. CASE PumpNext
  BY <1>1 DEF PumpNext, SendStarts, SendResolves, FlushDone, TeardownStarts, ReceiveOk, ReceiveErr, RedialOk,
     RedialErr, Kicked, Tick, TeardownReceive, PumpEnds, OtherSendStarts, OtherEvent, SelfWakeSent,
     TeardownUdp, TeardownChannels, NextTurn, stateVars, callVars
<1>2. CASE EnvNext
  BY <1>2 DEF EnvNext, Close, LingerEnds, HomeMatures, WireFails, stateVars, callVars
<1>3. QED
  BY <1>1, <1>2

\* A dial that ends, however it ends, gives up its claim and no other.
LEMMA DialEnds ==
    ASSUME TypeOK, OneOpenPerRelay, NEW p \in Callers, pc[p] = "dialing",
           opening' = opening \ {url[p]}, pc' = [Wake(pc) EXCEPT ![p] = "idle"], url' = url
    PROVE  OneOpenPerRelay'
<1>1. \A q \in Callers : (pc'[q] = "dialing") <=> (q # p /\ pc[q] = "dialing")
  BY DEF Wake, TypeOK
<1>2. \A q \in Callers : q # p /\ pc[q] = "dialing" => url[q] # url[p]
  BY DEF OneOpenPerRelay
<1>3. \A u : u \in opening <=> \E q \in Callers : pc[q] = "dialing" /\ u = url[q]
  BY DEF OneOpenPerRelay
<1>4. \A u : u \in opening' <=> \E q \in Callers : pc'[q] = "dialing" /\ u = url'[q]
  BY <1>1, <1>2, <1>3
<1>5. opening' = {url'[q] : q \in {r \in Callers : pc'[r] = "dialing"}}
  BY <1>4
<1>6. QED
  BY <1>1, <1>5 DEF OneOpenPerRelay

\* Every step keeps the claims in step with the dialing calls.
LEMMA OpensStep == TypeOK /\ OneOpenPerRelay /\ Next => OneOpenPerRelay'
<1> SUFFICES ASSUME TypeOK, OneOpenPerRelay, Next PROVE OneOpenPerRelay'
  OBVIOUS
<1>1. ASSUME NEW p \in Callers, NEW u \in Urls, EnsureRelay(p, u) PROVE OneOpenPerRelay'
  <2>1. CASE UNCHANGED <<pc, url, opening>>
    BY <2>1 DEF OneOpenPerRelay
  <2>2. CASE /\ url' = [url EXCEPT ![p] = u]
             /\ opening' = opening \cup {u}
             /\ pc' = [pc EXCEPT ![p] = IF u \in opening THEN "parked" ELSE "dialing"]
    <3>1. pc[p] = "idle"
      BY <1>1 DEF EnsureRelay
    <3>2. \A v : v \in opening <=> \E q \in Callers : pc[q] = "dialing" /\ v = url[q]
      BY DEF OneOpenPerRelay
    <3>3. /\ pc'[p] = (IF u \in opening THEN "parked" ELSE "dialing")
          /\ url'[p] = u
          /\ \A q \in Callers : q # p => pc'[q] = pc[q] /\ url'[q] = url[q]
      BY <2>2 DEF TypeOK
    <3>4. \A v : v \in opening' <=> \E q \in Callers : pc'[q] = "dialing" /\ v = url'[q]
      BY <2>2, <3>1, <3>2, <3>3
    <3>5. opening' = {url'[q] : q \in {r \in Callers : pc'[r] = "dialing"}}
      BY <3>4
    <3>6. \A q, r \in Callers :
              pc'[q] = "dialing" /\ pc'[r] = "dialing" /\ url'[q] = url'[r] => q = r
      BY <3>1, <3>2, <3>3 DEF OneOpenPerRelay
    <3>7. QED
      BY <3>5, <3>6 DEF OneOpenPerRelay
  <2>3. QED
    BY <1>1, <2>1, <2>2 DEF EnsureRelay
<1>2. ASSUME NEW p \in Callers, DialOk(p) PROVE OneOpenPerRelay'
  BY <1>2, DialEnds DEF DialOk
<1>3. ASSUME NEW p \in Callers, DialFails(p) PROVE OneOpenPerRelay'
  BY <1>3, DialEnds DEF DialFails
<1>4. ASSUME NEW p \in Callers, Cancel(p) PROVE OneOpenPerRelay'
  <2>1. CASE pc[p] = "dialing"
    BY <1>4, <2>1, DialEnds DEF Cancel, DropClaim
  <2>2. CASE pc[p] # "dialing"
    BY <1>4, <2>2 DEF Cancel, OneOpenPerRelay, TypeOK
  <2>3. QED
    BY <2>1, <2>2
<1>5. ASSUME NEW p \in Callers, Poll(p) PROVE OneOpenPerRelay'
  BY <1>5 DEF Poll, OneOpenPerRelay, TypeOK, stateVars
<1>6. ASSUME NEW p \in Callers, WaitExpires(p) PROVE OneOpenPerRelay'
  BY <1>6 DEF WaitExpires, OneOpenPerRelay, TypeOK, stateVars
<1>7. CASE PumpNext \/ EnvNext
  BY <1>7, PumpOnlyWakes DEF Wake, OneOpenPerRelay, TypeOK
<1>8. QED
  BY <1>1, <1>2, <1>3, <1>4, <1>5, <1>6, <1>7 DEF Next, CallerNext

-----------------------------------------------------------------------------
(***************************************************************************)
(* What the steps do to the pool.  Besides DialOk and RedialOk, which add  *)
(* a connection, a step either retires connections (Drops) or leaves the   *)
(* pool alone (Calm).                                                      *)
(***************************************************************************)

\* The effect of a step that retires the connections behind the keys `dead`.
Drops(dead) ==
    /\ pump \notin {"teardown", "done"} /\ pump' = "flush"
    /\ \A k \in Keys : pool'[k] = IF k \in dead THEN NoConn ELSE pool[k]
    /\ \A u \in Urls :
          keys'[u] = IF keys[u] \in dead \ {HOME_RELAY} THEN NoKey ELSE keys[u]
    /\ \A c \in Conns : wire'[c] = IF \E k \in dead : pool[k] = c THEN "closed" ELSE wire[c]
    /\ HOME_RELAY \in dead => redial' = "armed"
    /\ HOME_RELAY \notin dead => redial' = redial
    /\ \A k \in dead : wire[pool[k]] # "live"
    /\ UNCHANGED <<nconns, keyOf, nextKey, newRelays, closed, opening>>
    /\ \A c \in Conns :
          \/ recvs'[c] = recvs[c]
          \/ /\ recvs[c] > 0 /\ recvs'[c] = recvs[c] - 1
             /\ \A k \in Keys : pool[k] = c => k \in dead

\* The pointwise reading of Retire.
LEMMA RetirePointwise ==
    ASSUME TypeOK, NEW dead \in SUBSET Keys, Retire(dead)
    PROVE  /\ \A k \in Keys : pool'[k] = IF k \in dead THEN NoConn ELSE pool[k]
           /\ \A u \in Urls :
                 keys'[u] = IF keys[u] \in dead \ {HOME_RELAY} THEN NoKey ELSE keys[u]
           /\ \A c \in Conns :
                 wire'[c] = IF \E k \in dead : pool[k] = c THEN "closed" ELSE wire[c]
           /\ HOME_RELAY \in dead => redial' = "armed"
           /\ HOME_RELAY \notin dead => redial' = redial
<1>1. \A k \in Keys : pool'[k] = IF k \in dead THEN NoConn ELSE pool[k]
  BY DEF Retire, PoolWithout
<1>2. \A u \in Urls : keys'[u] = IF keys[u] \in dead \ {HOME_RELAY} THEN NoKey ELSE keys[u]
  BY DEF Retire, KeysWithout
<1>3. \A c \in Conns : wire'[c] = IF \E k \in dead : pool[k] = c THEN "closed" ELSE wire[c]
  BY DEF Retire, WiresClosed
<1>4. IF HOME_RELAY \in dead THEN redial' = "armed" ELSE redial' = redial
  BY DEF Retire, ArmRedial, RedialUnchanged
<1>5. QED
  BY <1>1, <1>2, <1>3, <1>4

\* A receive that is not the current connection's reads none the pool holds.
LEMMA CurrentIsPooled ==
    ASSUME TypeOK, Fresh, NEW c \in Conns, NEW k \in Keys, pool[k] = c
    PROVE  IsPoolCurrent(c) /\ keyOf[c] = k
BY DEF Fresh, IsPoolCurrent, TypeOK

\* A step that retires nothing has the effect of an empty retirement.
LEMMA NothingRetired ==
    ASSUME UNCHANGED <<pool, keys, wire>>, RedialUnchanged
    PROVE  /\ \A k \in Keys : pool'[k] = IF k \in {} THEN NoConn ELSE pool[k]
           /\ \A u \in Urls :
                 keys'[u] = IF keys[u] \in {} \ {HOME_RELAY} THEN NoKey ELSE keys[u]
           /\ \A c \in Conns :
                 wire'[c] = IF \E k \in {} : pool[k] = c THEN "closed" ELSE wire[c]
           /\ redial' = redial
BY DEF RedialUnchanged

\* A failed send, a failed receive and the liveness sweep are retirements, and
\* what they retire is not live.
LEMMA RetiringSteps ==
    ASSUME TypeOK, Fresh, SendResolves \/ (\E c \in Conns : ReceiveErr(c)) \/ Tick
    PROVE  \E dead \in SUBSET Keys : Drops(dead)
<1>1. CASE SendResolves
  <2>1. CASE UNCHANGED <<pool, keys, wire>> /\ RedialUnchanged
    <3>1. Drops({})
      BY <1>1, <2>1, NothingRetired DEF SendResolves, Drops
    <3>2. QED
      BY <3>1
  <2>2. CASE /\ sendKey = HOME_RELAY /\ wire[pool[HOME_RELAY]] \in {"failed", "closed"}
             /\ Retire({HOME_RELAY})
    <3>1. {HOME_RELAY} \in SUBSET Keys
      BY BoundAssumption
    <3>2. Drops({HOME_RELAY})
      BY <1>1, <2>2, <3>1, RetirePointwise DEF SendResolves, Drops
    <3>3. QED
      BY <3>1, <3>2
  <2>3. QED
    BY <1>1, <2>1, <2>2 DEF SendResolves
<1>2. ASSUME NEW c \in Conns, ReceiveErr(c) PROVE \E dead \in SUBSET Keys : Drops(dead)
  <2>1. /\ recvs[c] > 0 /\ wire[c] \in {"failed", "closed"}
        /\ \A d \in Conns : recvs'[d] = IF d = c THEN recvs[c] - 1 ELSE recvs[d]
        /\ pump = "select" /\ pump' = "flush"
        /\ UNCHANGED <<nconns, keyOf, nextKey, newRelays, closed, opening>>
    BY <1>2 DEF ReceiveErr, NextTurn, TypeOK
  <2>2. CASE IsPoolCurrent(c)
    <3>1. {keyOf[c]} \in SUBSET Keys /\ pool[keyOf[c]] = c /\ c # NoConn
      BY <2>2 DEF IsPoolCurrent
    <3>2. Retire({keyOf[c]})
      BY <1>2, <2>2 DEF ReceiveErr
    <3>3. \A k \in Keys : pool[k] = c => k \in {keyOf[c]}
      BY CurrentIsPooled
    <3>4. Drops({keyOf[c]})
      BY <2>1, <3>1, <3>2, <3>3, RetirePointwise DEF Drops
    <3>5. QED
      BY <3>1, <3>4
  <2>3. CASE ~IsPoolCurrent(c)
    <3>1. UNCHANGED <<pool, keys, wire>> /\ RedialUnchanged
      BY <1>2, <2>3 DEF ReceiveErr
    <3>2. \A k \in Keys : pool[k] # c
      BY <2>3, CurrentIsPooled
    <3>3. Drops({})
      BY <2>1, <3>1, <3>2, NothingRetired DEF Drops
    <3>4. QED
      BY <3>3
  <2>4. QED
    BY <2>2, <2>3
<1>3. CASE Tick
  <2>1. ProbeDead \in SUBSET Keys
    BY DEF ProbeDead
  <2>2. \A k \in ProbeDead : wire[pool[k]] # "live"
    BY DEF ProbeDead
  <2>3. Drops(ProbeDead)
    BY <1>3, <2>1, <2>2, RetirePointwise DEF Tick, NextTurn, Drops
  <2>4. QED
    BY <2>1, <2>3
<1>4. QED
  BY <1>1, <1>2, <1>3

\* The steps that neither add to the pool nor retire from it.
Calm ==
    \/ \E p \in Callers :
          \/ \E u \in Urls : EnsureRelay(p, u)
          \/ DialFails(p) \/ Cancel(p) \/ Poll(p) \/ WaitExpires(p)
    \/ \E k \in Keys : SendStarts(k)
    \/ OtherSendStarts \/ FlushDone \/ OtherEvent \/ RedialErr \/ Kicked
    \/ SelfWakeSent \/ TeardownUdp \/ TeardownChannels \/ PumpEnds
    \/ \E c \in Conns : ReceiveOk(c) \/ TeardownReceive(c)
    \/ Close \/ LingerEnds \/ HomeMatures
    \/ \E c \in Conns : \E fault \in {"failed", "silent"} : WireFails(c, fault)

\* Every step is of one of the four kinds.
LEMMA FourKinds ==
    ASSUME TypeOK, Fresh, Next
    PROVE  \/ \E p \in Callers : DialOk(p)
           \/ RedialOk
           \/ \E dead \in SUBSET Keys : Drops(dead)
           \/ Calm
<1>1. \/ \E p \in Callers : DialOk(p)
      \/ RedialOk
      \/ SendResolves \/ (\E c \in Conns : ReceiveErr(c)) \/ Tick
      \/ Calm
  BY DEF Next, CallerNext, PumpNext, EnvNext, Calm
<1>2. QED
  BY <1>1, RetiringSteps

\* A calm step changes none of the pool's bookkeeping, claims no mapped url and
\* ends no redial of an open endpoint.
CalmFacts ==
    /\ UNCHANGED <<pool, keys, keyOf, nconns, nextKey>>
    /\ \A u \in Urls : keys[u] # NoKey /\ u \in opening' => u \in opening
    /\ closed => closed'
    /\ pump' \in {"teardown", "done"} => pump \in {"teardown", "done"} \/ closed
    /\ pump \in {"teardown", "done"} => pump' \in {"teardown", "done"}
    /\ pump \notin {"teardown", "done"} /\ ~closed => redial' = redial

\* Every calm step has those effects.
LEMMA CalmStep == TypeOK /\ Calm => CalmFacts
<1> SUFFICES ASSUME TypeOK, Calm PROVE CalmFacts
  OBVIOUS
<1> USE DEF CalmFacts
<1>1. ASSUME NEW p \in Callers, NEW u \in Urls, EnsureRelay(p, u) PROVE CalmFacts
  BY <1>1 DEF EnsureRelay, connVars, pumpVars
<1>2. ASSUME NEW p \in Callers, DialFails(p) PROVE CalmFacts
  BY <1>2 DEF DialFails, connVars, pumpVars
<1>3. ASSUME NEW p \in Callers, Cancel(p) PROVE CalmFacts
  BY <1>3 DEF Cancel, DropClaim, connVars, pumpVars
<1>4. ASSUME NEW p \in Callers, Poll(p) \/ WaitExpires(p) PROVE CalmFacts
  BY <1>4 DEF Poll, WaitExpires, stateVars, connVars, pumpVars
<1>5. ASSUME NEW k \in Keys, SendStarts(k) PROVE CalmFacts
  BY <1>5 DEF SendStarts, stateVars, connVars
<1>6. CASE FlushDone
  BY <1>6 DEF FlushDone, TeardownStarts
<1>7. CASE RedialErr
  BY <1>7 DEF RedialErr, ArmRedial, NextTurn, stateVars, connVars
<1>8. CASE Kicked
  BY <1>8 DEF Kicked, NextTurn, connVars
<1>9. CASE PumpEnds
  BY <1>9 DEF PumpEnds, RelaysResolved, stateVars, connVars
<1>10. ASSUME NEW c \in Conns, ReceiveOk(c) \/ TeardownReceive(c) PROVE CalmFacts
  BY <1>10 DEF ReceiveOk, TeardownReceive, NextTurn, stateVars, pumpVars
<1>11. CASE Close \/ LingerEnds
  BY <1>11 DEF Close, LingerEnds, connVars, pumpVars
<1>12. CASE HomeMatures
  BY <1>12 DEF HomeMatures, stateVars, connVars
<1>13. ASSUME NEW c \in Conns, NEW fault \in {"failed", "silent"}, WireFails(c, fault)
       PROVE  CalmFacts
  BY <1>13 DEF WireFails, stateVars, pumpVars
<1>14. CASE OtherSendStarts \/ OtherEvent
  BY <1>14 DEF OtherSendStarts, OtherEvent, NextTurn, stateVars, connVars
<1>15. CASE SelfWakeSent \/ TeardownUdp \/ TeardownChannels
  <2>1. UNCHANGED <<stateVars, connVars, pump, redial>>
    BY <1>15 DEF SelfWakeSent, TeardownUdp, TeardownChannels
  <2>2. QED
    BY <2>1 DEF stateVars, connVars
<1>16. QED
  BY <1>1, <1>2, <1>3, <1>4, <1>5, <1>6, <1>7, <1>8, <1>9, <1>10, <1>11, <1>12, <1>13,
     <1>14, <1>15 DEF Calm

\* A calm step changes a wire only by a fault of an open one, or by closing all
\* of the pool's on the way into the teardown.
LEMMA CalmWires ==
    ASSUME TypeOK, Calm
    PROVE  \/ \A c \in Conns : \/ wire'[c] = wire[c]
                               \/ /\ wire[c] \in {"live", "silent"}
                                  /\ wire'[c] \in {"failed", "silent"}
           \/ /\ pump' = "teardown"
              /\ \A c \in Conns : wire'[c] = wire[c] \/ wire'[c] = "closed"
<1>1. CASE FlushDone
  BY <1>1 DEF FlushDone, TeardownStarts, WiresClosed
<1>2. CASE \E c \in Conns : \E fault \in {"failed", "silent"} : WireFails(c, fault)
  BY <1>2 DEF WireFails, TypeOK
<1>3. CASE wire' = wire
  BY <1>3
<1>4. QED
  BY <1>1, <1>2, <1>3 DEF Calm, EnsureRelay, DialFails, Cancel, Poll, WaitExpires, SendStarts,
     OtherSendStarts, OtherEvent, RedialErr, Kicked, SelfWakeSent, TeardownUdp, TeardownChannels,
     PumpEnds, ReceiveOk, TeardownReceive, Close, LingerEnds, HomeMatures, connVars

\* A calm step adds a receive only to the connections in new_relays, all of them
\* at once, and ends one only on a connection the pool does not hold, or in the
\* teardown.
CalmReceiveFacts ==
    \/ UNCHANGED <<recvs, newRelays>>
    \/ /\ newRelays' = {}
       /\ \A c \in Conns : recvs'[c] = IF c \in newRelays THEN recvs[c] + 1 ELSE recvs[c]
    \/ /\ UNCHANGED newRelays
       /\ \E d \in Conns :
             /\ recvs[d] > 0
             /\ \A c \in Conns : recvs'[c] = IF c = d THEN recvs[c] - 1 ELSE recvs[c]
             /\ (\A k \in Keys : pool[k] # d) \/ pump' \in {"teardown", "done"}

\* Every calm step treats the receives that way.
LEMMA CalmReceives == TypeOK /\ Fresh /\ Calm => CalmReceiveFacts
<1> SUFFICES ASSUME TypeOK, Fresh, Calm PROVE CalmReceiveFacts
  OBVIOUS
<1>1. CASE FlushDone
  BY <1>1 DEF FlushDone, TeardownStarts, CalmReceiveFacts
<1>2. ASSUME NEW d \in Conns, ReceiveOk(d) PROVE CalmReceiveFacts
  <2>1. CASE IsPoolCurrent(d)
    BY <1>2, <2>1 DEF ReceiveOk, Rearm, stateVars, CalmReceiveFacts
  <2>2. CASE ~IsPoolCurrent(d)
    <3>1. \A k \in Keys : pool[k] # d
      BY <2>2, CurrentIsPooled
    <3>2. \A c \in Conns : recvs'[c] = IF c = d THEN recvs[c] - 1 ELSE recvs[c]
      BY <1>2, <2>2 DEF ReceiveOk, Rearm, TypeOK
    <3>3. recvs[d] > 0 /\ newRelays' = newRelays
      BY <1>2 DEF ReceiveOk, stateVars
    <3>4. QED
      BY <3>1, <3>2, <3>3 DEF CalmReceiveFacts
  <2>3. QED
    BY <2>1, <2>2
<1>3. ASSUME NEW d \in Conns, TeardownReceive(d) PROVE CalmReceiveFacts
  <2>1. \A c \in Conns : recvs'[c] = IF c = d THEN recvs[c] - 1 ELSE recvs[c]
    BY <1>3 DEF TeardownReceive, TypeOK
  <2>2. recvs[d] > 0 /\ newRelays' = newRelays /\ pump' = "teardown"
    BY <1>3 DEF TeardownReceive, stateVars, pumpVars
  <2>3. QED
    BY <2>1, <2>2 DEF CalmReceiveFacts
<1>4. CASE UNCHANGED <<recvs, newRelays>>
  BY <1>4 DEF CalmReceiveFacts
<1>5. QED
  BY <1>1, <1>2, <1>3, <1>4 DEF Calm, EnsureRelay, DialFails, Cancel, Poll, WaitExpires,
     SendStarts, OtherSendStarts, OtherEvent, RedialErr, Kicked, SelfWakeSent, TeardownUdp,
     TeardownChannels, PumpEnds, Close, LingerEnds, HomeMatures, WireFails, connVars, stateVars

-----------------------------------------------------------------------------
(***************************************************************************)
(* Each part of the invariant is preserved by each of the four kinds.      *)
(***************************************************************************)

\* What DialOk does, pointwise: a new connection under a new key.
DialOkFacts(p) ==
    /\ nconns + 1 \in Conns /\ nextKey \in Keys /\ nextKey # HOME_RELAY
    /\ nconns' = nconns + 1 /\ nextKey' = nextKey + 1
    /\ \A k \in Keys : pool'[k] = IF k = nextKey THEN nconns + 1 ELSE pool[k]
    /\ \A u \in Urls : keys'[u] = IF u = url[p] THEN nextKey ELSE keys[u]
    /\ \A c \in Conns : keyOf'[c] = IF c = nconns + 1 THEN nextKey ELSE keyOf[c]
    /\ \A c \in Conns : wire'[c] = IF c = nconns + 1 THEN "live" ELSE wire[c]
    /\ newRelays' = newRelays \cup {nconns + 1}
    /\ opening' = opening \ {url[p]}
    /\ url[p] \in Urls
    /\ UNCHANGED <<closed, recvs, pump, redial>>

\* DialOk has that effect.
LEMMA DialOkPointwise ==
    ASSUME TypeOK, Fresh, NEW p \in Callers, DialOk(p)
    PROVE  DialOkFacts(p)
BY BoundAssumption DEF DialOk, DialOkFacts, TypeOK, Fresh, pumpVars

\* What RedialOk does, pointwise: a new connection under the home key, or, when
\* closed, one that is closed at once.
RedialOkFacts ==
    /\ nconns + 1 \in Conns /\ nconns' = nconns + 1
    /\ redial = "armed" /\ redial' = "off"
    /\ pump = "select" /\ pump' = "flush"
    /\ \A c \in Conns : keyOf'[c] = IF c = nconns + 1 THEN HOME_RELAY ELSE keyOf[c]
    /\ \A c \in Conns : wire'[c] = IF c = nconns + 1
                                    THEN IF closed THEN "closed" ELSE "live"
                                    ELSE wire[c]
    /\ \A k \in Keys : pool'[k] = IF k = HOME_RELAY /\ ~closed THEN nconns + 1 ELSE pool[k]
    /\ \A c \in Conns : recvs'[c] = IF c = nconns + 1 /\ ~closed THEN 1 ELSE recvs[c]
    /\ UNCHANGED <<closed, keys, opening, newRelays, nextKey>>

\* The sizes and ranges of the state the numbering is about.
PoolTypes ==
    /\ nextKey \in 1..MaxConns /\ nconns \in Conns
    /\ \A k \in Keys : pool[k] \in Conns \cup {NoConn}
    /\ \A u \in Urls : keys[u] \in Keys \cup {NoKey}
    /\ \A c \in Conns : recvs[c] \in Nat
    /\ newRelays \subseteq Conns

\* The type invariant says so.
LEMMA PoolTyped == TypeOK => PoolTypes
BY DEF TypeOK, PoolTypes

\* RedialOk has that effect.
LEMMA RedialOkPointwise ==
    ASSUME TypeOK, RedialOk
    PROVE  RedialOkFacts
<1> USE DEF RedialOkFacts
<1>1. nconns + 1 \in Conns
  BY BoundAssumption DEF RedialOk, TypeOK
<1>2. /\ nconns' = nconns + 1 /\ redial = "armed" /\ redial' = "off"
      /\ pump = "select" /\ pump' = "flush"
      /\ keyOf' = [keyOf EXCEPT ![nconns + 1] = HOME_RELAY]
      /\ UNCHANGED <<closed, keys, opening, newRelays, nextKey>>
  BY DEF RedialOk, NextTurn
<1>3. CASE closed
  <2>1. wire' = [wire EXCEPT ![nconns + 1] = "closed"] /\ pool' = pool /\ recvs' = recvs
    BY <1>3 DEF RedialOk
  <2>2. QED
    BY <1>1, <1>2, <1>3, <2>1 DEF TypeOK
<1>4. CASE ~closed
  <2>1. /\ wire' = [wire EXCEPT ![nconns + 1] = "live"]
        /\ pool' = [pool EXCEPT ![HOME_RELAY] = nconns + 1]
        /\ recvs' = [recvs EXCEPT ![nconns + 1] = 1]
    BY <1>4 DEF RedialOk
  <2>2. QED
    BY <1>1, <1>2, <1>4, <2>1 DEF TypeOK
<1>5. QED
  BY <1>3, <1>4

\* Every step keeps the numbering.
LEMMA FreshStep == TypeOK /\ OneOpenPerRelay /\ MappedKeysArePooled /\ Fresh /\ Next => Fresh'
<1> SUFFICES ASSUME TypeOK, OneOpenPerRelay, MappedKeysArePooled, Fresh, Next PROVE Fresh'
  OBVIOUS
<1> USE BoundAssumption, HomeAssumption
<1>1. ASSUME NEW p \in Callers, DialOk(p) PROVE Fresh'
  <2>0. DialOkFacts(p) /\ PoolTypes
    BY <1>1, DialOkPointwise, PoolTyped
  <2>1. url[p] # HomeUrl
    BY <1>1 DEF DialOk, OneOpenPerRelay, MappedKeysArePooled, Fresh
  <2>2. /\ (nextKey <= nconns)'
        /\ (\A k \in Keys : k >= nextKey => pool[k] = NoConn)'
    BY <2>0 DEF DialOkFacts, Fresh, PoolTypes
  <2>3. (\A u \in Urls : keys[u] < nextKey)' /\ (keys[HomeUrl] = HOME_RELAY)'
    BY <2>0, <2>1 DEF DialOkFacts, Fresh, PoolTypes
  <2>4. ASSUME NEW k \in Keys, pool'[k] # NoConn
        PROVE  pool'[k] <= nconns' /\ keyOf'[pool'[k]] = k
    <3>1. CASE k = nextKey
      BY <2>0, <3>1 DEF DialOkFacts, TypeOK
    <3>2. CASE k # nextKey
      <4>1. pool'[k] = pool[k] /\ pool[k] \in Conns /\ pool[k] <= nconns
        BY <2>0, <2>4, <3>2 DEF DialOkFacts, Fresh, PoolTypes
      <4>2. QED
        BY <2>0, <2>4, <4>1 DEF DialOkFacts, Fresh, PoolTypes
    <3>3. QED
      BY <3>1, <3>2
  <2>5. (\A c \in Conns : c > nconns => recvs[c] = 0 /\ c \notin newRelays)'
    BY <2>0 DEF DialOkFacts, Fresh, PoolTypes
  <2>6. QED
    BY <2>2, <2>3, <2>4, <2>5 DEF Fresh
<1>2. CASE RedialOk
  <2>0. RedialOkFacts /\ PoolTypes
    BY <1>2, RedialOkPointwise, PoolTyped
  <2>1. /\ (nextKey <= nconns)'
        /\ (\A k \in Keys : k >= nextKey => pool[k] = NoConn)'
        /\ (\A u \in Urls : keys[u] < nextKey)'
        /\ (keys[HomeUrl] = HOME_RELAY)'
    BY <2>0 DEF RedialOkFacts, Fresh, PoolTypes
  <2>2. ASSUME NEW k \in Keys, pool'[k] # NoConn
        PROVE  pool'[k] <= nconns' /\ keyOf'[pool'[k]] = k
    <3>1. CASE pool'[k] = nconns + 1
      <4>1. pool[k] # nconns + 1
        BY <2>0 DEF RedialOkFacts, Fresh, PoolTypes
      <4>2. k = HOME_RELAY
        BY <2>0, <3>1, <4>1 DEF RedialOkFacts
      <4>3. QED
        BY <2>0, <3>1, <4>2 DEF RedialOkFacts, TypeOK
    <3>2. CASE pool'[k] # nconns + 1
      <4>1. pool'[k] = pool[k] /\ pool[k] \in Conns /\ pool[k] <= nconns
        BY <2>0, <2>2, <3>2 DEF RedialOkFacts, Fresh, PoolTypes
      <4>2. QED
        BY <2>0, <2>2, <4>1 DEF RedialOkFacts, Fresh, PoolTypes
    <3>3. QED
      BY <3>1, <3>2
  <2>3. (\A c \in Conns : c > nconns => recvs[c] = 0 /\ c \notin newRelays)'
    BY <2>0 DEF RedialOkFacts, Fresh, PoolTypes
  <2>4. QED
    BY <2>1, <2>2, <2>3 DEF Fresh
<1>3. ASSUME NEW dead \in SUBSET Keys, Drops(dead) PROVE Fresh'
  BY <1>3, PoolTyped DEF Drops, Fresh, PoolTypes
<1>4. CASE Calm
  <2>1. UNCHANGED <<pool, keys, keyOf, nconns, nextKey>>
    BY <1>4, PoolTyped, CalmStep DEF CalmFacts
  <2>2. ASSUME NEW c \in Conns, c > nconns PROVE recvs'[c] = 0 /\ c \notin newRelays'
    <3>1. recvs[c] = 0 /\ c \notin newRelays
      BY <2>2 DEF Fresh
    <3>2. QED
      BY <1>4, <3>1, CalmReceives DEF CalmReceiveFacts
  <2>3. QED
    BY <2>1, <2>2 DEF Fresh
<1>5. QED
  BY <1>1, <1>2, <1>3, <1>4, FourKinds

\* Every step keeps the url mapping free of dangling and shared keys.
LEMMA MappedStep ==
    TypeOK /\ MappedKeysArePooled /\ Fresh /\ Next => MappedKeysArePooled'
<1> SUFFICES ASSUME TypeOK, MappedKeysArePooled, Fresh, Next PROVE MappedKeysArePooled'
  OBVIOUS
<1> USE BoundAssumption
<1>1. ASSUME NEW p \in Callers, DialOk(p) PROVE MappedKeysArePooled'
  <2>1. DialOkFacts(p)
    BY <1>1, DialOkPointwise
  <2>2. QED
    BY <2>1, PoolTyped DEF DialOkFacts, MappedKeysArePooled, Fresh, PoolTypes
<1>2. CASE RedialOk
  <2>1. RedialOkFacts
    BY <1>2, RedialOkPointwise
  <2>2. QED
    BY <2>1, PoolTyped DEF RedialOkFacts, MappedKeysArePooled, PoolTypes
<1>3. ASSUME NEW dead \in SUBSET Keys, Drops(dead) PROVE MappedKeysArePooled'
  BY <1>3, PoolTyped DEF Drops, MappedKeysArePooled, PoolTypes
<1>4. CASE Calm
  BY <1>4, PoolTyped, CalmStep DEF CalmFacts, MappedKeysArePooled, PoolTypes
<1>5. QED
  BY <1>1, <1>2, <1>3, <1>4, FourKinds

\* Every step keeps the home key pooled or under redial.
LEMMA HomeStep ==
    TypeOK /\ Fresh /\ HomePooledOrRedialing /\ EndsOnlyClosed /\ Next
        => HomePooledOrRedialing'
<1> SUFFICES ASSUME TypeOK, Fresh, HomePooledOrRedialing, EndsOnlyClosed, Next
             PROVE  HomePooledOrRedialing'
  OBVIOUS
<1> USE BoundAssumption
<1>1. ASSUME NEW p \in Callers, DialOk(p) PROVE HomePooledOrRedialing'
  <2>1. DialOkFacts(p)
    BY <1>1, DialOkPointwise
  <2>2. QED
    BY <2>1, PoolTyped DEF DialOkFacts, HomePooledOrRedialing
<1>2. CASE RedialOk
  <2>1. RedialOkFacts
    BY <1>2, RedialOkPointwise
  <2>2. QED
    BY <2>1, PoolTyped DEF RedialOkFacts, HomePooledOrRedialing
<1>3. ASSUME NEW dead \in SUBSET Keys, Drops(dead) PROVE HomePooledOrRedialing'
  BY <1>3, PoolTyped DEF Drops, HomePooledOrRedialing
<1>4. CASE Calm
  BY <1>4, PoolTyped, CalmStep DEF CalmFacts, HomePooledOrRedialing, EndsOnlyClosed, PoolTypes
<1>5. QED
  BY <1>1, <1>2, <1>3, <1>4, FourKinds

\* Every step keeps the pump running while the endpoint is open.
LEMMA EndsStep == TypeOK /\ Fresh /\ EndsOnlyClosed /\ Next => EndsOnlyClosed'
<1> SUFFICES ASSUME TypeOK, Fresh, EndsOnlyClosed, Next PROVE EndsOnlyClosed'
  OBVIOUS
<1>1. ASSUME NEW p \in Callers, DialOk(p) PROVE EndsOnlyClosed'
  <2>1. DialOkFacts(p)
    BY <1>1, DialOkPointwise
  <2>2. QED
    BY <2>1, PoolTyped DEF DialOkFacts, EndsOnlyClosed
<1>2. CASE RedialOk
  <2>1. RedialOkFacts
    BY <1>2, RedialOkPointwise
  <2>2. QED
    BY <2>1, PoolTyped DEF RedialOkFacts, EndsOnlyClosed
<1>3. ASSUME NEW dead \in SUBSET Keys, Drops(dead) PROVE EndsOnlyClosed'
  BY <1>3, PoolTyped DEF Drops, EndsOnlyClosed
<1>4. CASE Calm
  BY <1>4, PoolTyped, CalmStep DEF CalmFacts, EndsOnlyClosed
<1>5. QED
  BY <1>1, <1>2, <1>3, <1>4, FourKinds

\* Every step closes what it takes out of the pool.
LEMMA UnpooledStep ==
    TypeOK /\ Fresh /\ HomePooledOrRedialing /\ UnpooledIsClosed /\ Next
        => UnpooledIsClosed'
<1> SUFFICES ASSUME TypeOK, Fresh, HomePooledOrRedialing, UnpooledIsClosed, Next
             PROVE  UnpooledIsClosed'
  OBVIOUS
<1> USE BoundAssumption
<1>1. ASSUME NEW p \in Callers, DialOk(p) PROVE UnpooledIsClosed'
  <2>1. DialOkFacts(p)
    BY <1>1, DialOkPointwise
  <2>2. QED
    BY <2>1, PoolTyped DEF DialOkFacts, UnpooledIsClosed, Fresh, PoolTypes
<1>2. CASE RedialOk
  <2>1. RedialOkFacts
    BY <1>2, RedialOkPointwise
  <2>2. QED
    BY <2>1, PoolTyped DEF RedialOkFacts, UnpooledIsClosed, HomePooledOrRedialing, PoolTypes
<1>3. ASSUME NEW dead \in SUBSET Keys, Drops(dead) PROVE UnpooledIsClosed'
  BY <1>3, PoolTyped DEF Drops, UnpooledIsClosed, PoolTypes
<1>4. CASE Calm
  BY <1>4, PoolTyped, CalmStep, CalmWires DEF CalmFacts, UnpooledIsClosed, PoolTypes
<1>5. QED
  BY <1>1, <1>2, <1>3, <1>4, FourKinds

\* Every step before the teardown keeps the pool's wires from being closed.
LEMMA PooledOpenStep == TypeOK /\ Fresh /\ PooledIsOpen /\ Next => PooledIsOpen'
<1> SUFFICES ASSUME TypeOK, Fresh, PooledIsOpen, Next PROVE PooledIsOpen'
  OBVIOUS
<1> USE BoundAssumption
<1>1. ASSUME NEW p \in Callers, DialOk(p) PROVE PooledIsOpen'
  <2>1. DialOkFacts(p)
    BY <1>1, DialOkPointwise
  <2>2. QED
    BY <2>1, PoolTyped DEF DialOkFacts, PooledIsOpen, Fresh, PoolTypes
<1>2. CASE RedialOk
  <2>1. RedialOkFacts
    BY <1>2, RedialOkPointwise
  <2>2. QED
    BY <2>1, PoolTyped DEF RedialOkFacts, PooledIsOpen, Fresh, PoolTypes
<1>3. ASSUME NEW dead \in SUBSET Keys, Drops(dead) PROVE PooledIsOpen'
  BY <1>3, PoolTyped DEF Drops, PooledIsOpen, Fresh, PoolTypes
<1>4. CASE Calm
  BY <1>4, PoolTyped, CalmStep, CalmWires DEF CalmFacts, PooledIsOpen, PoolTypes
<1>5. QED
  BY <1>1, <1>2, <1>3, <1>4, FourKinds

\* Every step keeps one receive, armed or about to be, per pooled connection.
LEMMA ReceivesStep ==
    TypeOK /\ Fresh /\ OneReceivePerConn /\ NewIsUnarmed /\ Next
        => OneReceivePerConn' /\ NewIsUnarmed'
<1> SUFFICES ASSUME TypeOK, Fresh, OneReceivePerConn, NewIsUnarmed, Next
             PROVE  OneReceivePerConn' /\ NewIsUnarmed'
  OBVIOUS
<1> USE BoundAssumption
<1>1. ASSUME NEW p \in Callers, DialOk(p) PROVE OneReceivePerConn' /\ NewIsUnarmed'
  <2>1. DialOkFacts(p)
    BY <1>1, DialOkPointwise
  <2>2. QED
    BY <2>1, PoolTyped DEF DialOkFacts, OneReceivePerConn, NewIsUnarmed, Fresh, PoolTypes
<1>2. CASE RedialOk
  <2>1. RedialOkFacts
    BY <1>2, RedialOkPointwise
  <2>2. QED
    BY <2>1, PoolTyped DEF RedialOkFacts, OneReceivePerConn, NewIsUnarmed, Fresh, PoolTypes
<1>3. ASSUME NEW dead \in SUBSET Keys, Drops(dead) PROVE OneReceivePerConn' /\ NewIsUnarmed'
  BY <1>3, PoolTyped DEF Drops, OneReceivePerConn, NewIsUnarmed, PoolTypes
<1>4. CASE Calm
  BY <1>4, PoolTyped, CalmStep, CalmReceives
     DEF CalmFacts, CalmReceiveFacts, OneReceivePerConn, NewIsUnarmed, PoolTypes
<1>5. QED
  BY <1>1, <1>2, <1>3, <1>4, FourKinds

-----------------------------------------------------------------------------
(***************************************************************************)
(* The theorems.                                                           *)
(***************************************************************************)

\* The state `bind` leaves satisfies the inductive invariant.
LEMMA InitInductive == Init => IInv
<1> SUFFICES ASSUME Init PROVE IInv
  OBVIOUS
<1> USE BoundAssumption, HomeAssumption DEF Init
<1>1. TypeOK
  <2>1. /\ pool \in [Keys -> Conns \cup {NoConn}]
        /\ keys \in [Urls -> Keys \cup {NoKey}]
    OBVIOUS
  <2>2. /\ wire \in [Conns -> {"none", "live", "silent", "failed", "closed"}]
        /\ keyOf \in [Conns -> Keys \cup {NoKey}]
        /\ recvs \in [Conns -> Nat] /\ probed \in [Conns -> BOOLEAN]
    OBVIOUS
  <2>3. /\ opening \subseteq Urls /\ newRelays \subseteq Conns
        /\ nextKey \in 1..MaxConns /\ nconns \in Conns /\ sendKey \in Keys \cup {NoKey}
        /\ redialAttempt \in 0..MaxAttempt
    OBVIOUS
  <2>4. /\ closed \in BOOLEAN /\ lingered \in BOOLEAN /\ kicked \in BOOLEAN
        /\ pc \in [Callers -> {"idle", "dialing", "parked", "woken"}]
        /\ url \in [Callers -> Urls] /\ late \in [Callers -> BOOLEAN]
    OBVIOUS
  <2>5. /\ pump \in {"flush", "sending", "select", "teardown", "done"}
        /\ awaits \subseteq OtherWires
        /\ redial \in {"off", "armed"}
        /\ homeSince \in {"none", "young", "established"}
    OBVIOUS
  <2>6. QED
    BY <2>1, <2>2, <2>3, <2>4, <2>5 DEF TypeOK
<1>2. OneOpenPerRelay
  BY DEF OneOpenPerRelay
<1>3. MappedKeysArePooled
  BY DEF MappedKeysArePooled
<1>4. OneReceivePerConn /\ NewIsUnarmed
  BY DEF OneReceivePerConn, NewIsUnarmed
<1>5. HomePooledOrRedialing /\ EndsOnlyClosed
  BY DEF HomePooledOrRedialing, EndsOnlyClosed
<1>6. UnpooledIsClosed
  <2>1. HOME_RELAY \in Keys /\ pool[HOME_RELAY] = 1
    OBVIOUS
  <2>2. \A c \in Conns : c <= nconns => c = 1
    OBVIOUS
  <2>3. QED
    BY <2>1, <2>2 DEF UnpooledIsClosed
<1>7. Fresh
  BY DEF Fresh
<1>8. PooledIsOpen
  BY DEF PooledIsOpen
<1>9. QED
  BY <1>1, <1>2, <1>3, <1>4, <1>5, <1>6, <1>7, <1>8 DEF IInv

\* Every step, and every stuttering step, preserves the inductive invariant.
LEMMA NextInductive == IInv /\ [Next]_vars => IInv'
<1> SUFFICES ASSUME IInv, [Next]_vars PROVE IInv'
  OBVIOUS
<1>1. CASE Next
  BY <1>1, TypeStep, OpensStep, MappedStep, ReceivesStep, HomeStep, EndsStep, UnpooledStep,
     FreshStep, PooledOpenStep DEF IInv
<1>2. CASE UNCHANGED vars
  <2>1. UNCHANGED <<closed, lingered, pool, keys, opening, newRelays, nextKey, kicked,
                    nconns, wire, keyOf, recvs, probed,
                    pump, sendKey, awaits, redial, redialAttempt, homeSince, pc, url, late>>
    BY <1>2 DEF vars, stateVars, connVars, pumpVars, callVars
  <2>2. TypeOK' /\ OneOpenPerRelay' /\ MappedKeysArePooled'
    BY <2>1 DEF IInv, TypeOK, OneOpenPerRelay, MappedKeysArePooled
  <2>3. OneReceivePerConn' /\ NewIsUnarmed' /\ HomePooledOrRedialing' /\ UnpooledIsClosed'
    BY <2>1 DEF IInv, OneReceivePerConn, NewIsUnarmed, HomePooledOrRedialing, UnpooledIsClosed
  <2>4. Fresh' /\ PooledIsOpen' /\ EndsOnlyClosed'
    BY <2>1 DEF IInv, Fresh, PooledIsOpen, EndsOnlyClosed
  <2>5. QED
    BY <2>2, <2>3, <2>4 DEF IInv
<1>3. QED
  BY <1>1, <1>2

\* The inductive invariant holds in every reachable state.
THEOREM Inductive == Spec => []IInv
BY InitInductive, NextInductive, PTL DEF Spec

\* The relay pool is type correct; in particular the key counter stays within
\* the number of connections and the redial counter within its saturation.
THEOREM TypeCorrect == Spec => []TypeOK
<1>1. IInv => TypeOK
  BY DEF IInv
<1>2. QED
  BY <1>1, Inductive, PTL

\* Concurrent ensure_relay calls share one open, and no claim leaks.
THEOREM SharedOpen == Spec => []OneOpenPerRelay
<1>1. IInv => OneOpenPerRelay
  BY DEF IInv
<1>2. QED
  BY <1>1, Inductive, PTL

\* The key ensure_relay hands out is never dangling or shared.
THEOREM NoDanglingKey == Spec => []MappedKeysArePooled
<1>1. IInv => MappedKeysArePooled
  BY DEF IInv
<1>2. QED
  BY <1>1, Inductive, PTL

\* Every pooled connection has exactly one receive, armed or about to be.
THEOREM OneReceive == Spec => []OneReceivePerConn
<1>1. IInv => OneReceivePerConn
  BY DEF IInv
<1>2. QED
  BY <1>1, Inductive, PTL

\* An open endpoint has a home connection or an armed redial, never both.
THEOREM HomeKept == Spec => []HomePooledOrRedialing
<1>1. IInv => HomePooledOrRedialing
  BY DEF IInv
<1>2. QED
  BY <1>1, Inductive, PTL

\* No websocket leaves the pool without being closed.
THEOREM NoLeakedWire == Spec => []UnpooledIsClosed
<1>1. IInv => UnpooledIsClosed
  BY DEF IInv
<1>2. QED
  BY <1>1, Inductive, PTL

\* A pool entry changes only by the retirement of the failed or silent
\* connection it holds: a stale error never takes down a replacement.
THEOREM StaleErrorsIgnored == Spec => ReplacementSurvivesStaleErrors
<1> DEFINE Survives == \A k \in Keys : pool[k] # NoConn /\ pool'[k] # pool[k] =>
                          /\ pool'[k] = NoConn
                          /\ wire[pool[k]] \in {"failed", "silent"}
<1>1. IInv /\ [Next]_vars => [Survives]_vars
  <2> SUFFICES ASSUME IInv, Next PROVE Survives
    OBVIOUS
  <2> USE BoundAssumption
  <2>1. TypeOK /\ PoolTypes /\ Fresh /\ HomePooledOrRedialing /\ PooledIsOpen
    BY PoolTyped DEF IInv
  <2>2. ASSUME NEW p \in Callers, DialOk(p) PROVE Survives
    <3>1. DialOkFacts(p)
      BY <2>1, <2>2, DialOkPointwise
    <3>2. QED
      BY <2>1, <3>1 DEF DialOkFacts, Fresh, PoolTypes
  <2>3. CASE RedialOk
    <3>1. RedialOkFacts
      BY <2>1, <2>3, RedialOkPointwise
    <3>2. QED
      BY <2>1, <3>1 DEF RedialOkFacts, HomePooledOrRedialing
  <2>4. ASSUME NEW dead \in SUBSET Keys, Drops(dead) PROVE Survives
    BY <2>1, <2>4 DEF Drops, PooledIsOpen
  <2>5. CASE Calm
    BY <2>1, <2>5, CalmStep DEF CalmFacts
  <2>6. QED
    BY <2>1, <2>2, <2>3, <2>4, <2>5, FourKinds
<1>2. QED
  BY <1>1, Inductive, PTL DEF Spec, ReplacementSurvivesStaleErrors
=============================================================================
