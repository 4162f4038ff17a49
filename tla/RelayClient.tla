----------------------------- MODULE RelayClient -----------------------------
(***************************************************************************)
(* One relay client connection (relay.rs): the authentication handshake,   *)
(* then the armed receive with its queue of decoded datagrams, the pongs   *)
(* it sends, and the sends of other tasks on the same websocket.           *)
(*                                                                         *)
(* The relay is external.  A message it sends is a record; the bytes it    *)
(* puts on the websocket are RelayBytes of it, upstream's layout, and the  *)
(* client sees the bytes only.  "junk" messages are bytes that are no      *)
(* message of the protocol.  The liveness stamp is in RelayProbe.          *)
(***************************************************************************)
EXTENDS RelayFrames

CONSTANTS
    Us,         \* our endpoint id
    Peers,      \* endpoint ids
    Payloads,   \* payloads of datagrams and batches
    Pings,      \* ping payloads
    Challenges, \* handshake challenges
    Junk,       \* malformed or irrelevant frames
    MaxSegments, \* bound: segments of a batch
    MaxRead,    \* bound: websocket messages read
    MaxSent     \* bound: frames sent

VARIABLES
    phase,      \* connect: "handshake", "signing"; then "up", or "failed"
    rx,         \* recv_datagram: "idle", "receiving", "ponging"
    reply,      \* what the future in "signing" or "ponging" will send
    pending,    \* RelayConn.pending
    delivered,  \* history: the datagrams recv_datagram returned
    sent,       \* history: the frames sent
    meant,      \* history: what each of them was to say
    reads,      \* the relay: how many of its messages were read,
    confirmed,  \* ... whether the confirmation is among them,
    offered,    \* ... the datagrams in them,
    asked,      \* ... the ones that call for an answer,
    answers     \* ... and the answers it got

relayRead == <<reads, confirmed, offered, asked>>
relayGot == <<sent, meant, answers>>
vars == <<phase, rx, reply, pending, delivered, relayRead, relayGot>>

-----------------------------------------------------------------------------
(***************************************************************************)
(* The relay, from its side of the protocol.                               *)
(***************************************************************************)

\* Bodies of a batch: equal segments, of which the last may be shorter.
Bodies ==
    {b \in UNION {[1..k -> Payloads \ {<<>>}] : k \in 1..MaxSegments} :
        /\ Len(b[1]) < 65536
        /\ \A i \in 1..Len(b) : Len(b[i]) <= Len(b[1]) /\ (i < Len(b) => Len(b[i]) = Len(b[1]))}

\* The segments one after the other.
Contents(body) ==
    LET n == Len(body[1])
    IN [p \in 1..((Len(body) - 1) * n + Len(body[Len(body)])) |->
            body[((p - 1) \div n) + 1][((p - 1) % n) + 1]]

Messages ==
    {[kind |-> "text"], [kind |-> "confirm"], [kind |-> "deny"]}
    \cup [kind : {"challenge"}, bytes : Challenges]
    \cup [kind : {"ping"}, bytes : Pings]
    \cup [kind : {"junk"}, bytes : Junk]
    \cup [kind : {"datagram"}, source : Peers, body : {<<p>> : p \in Payloads}]
    \cup [kind : {"batch"}, source : Peers, body : Bodies]

RelayBytes(m) ==
    CASE m.kind = "challenge" -> <<SERVER_CHALLENGE>> \o m.bytes
      [] m.kind = "confirm" -> <<SERVER_CONFIRMS_AUTH>>
      [] m.kind = "deny" -> <<SERVER_DENIES_AUTH, 0>>
      [] m.kind = "ping" -> <<PING>> \o m.bytes
      [] m.kind = "junk" -> m.bytes
      [] m.kind = "datagram" ->
            <<RELAY_TO_CLIENT_DATAGRAM>> \o m.source \o <<3>> \o m.body[1]
      [] m.kind = "batch" ->
            <<RELAY_TO_CLIENT_DATAGRAM_BATCH>> \o m.source
               \o <<3, Len(m.body[1]) \div 256, Len(m.body[1]) % 256>> \o Contents(m.body)

\* Bytes that are no message of the protocol: no type or a type cut short, a type
\* that says nothing to a client (in one byte or more), or a body of a wrong
\* length, or a batch of empty segments.
Malformed(b) ==
    \/ b = <<>>
    \/ LET w == 2 ^ (b[1] \div 64)
       IN \/ Len(b) < w
          \/ b[w] \notin {SERVER_CHALLENGE, SERVER_CONFIRMS_AUTH, SERVER_DENIES_AUTH,
                         RELAY_TO_CLIENT_DATAGRAM, RELAY_TO_CLIENT_DATAGRAM_BATCH, PING}
    \/ b[1] = SERVER_CHALLENGE /\ Len(b) # ChallengeLen + 1
    \/ b[1] = PING /\ Len(b) # PingLen + 1
    \/ b[1] = RELAY_TO_CLIENT_DATAGRAM /\ Len(b) < KeyLen + 2
    \/ b[1] = RELAY_TO_CLIENT_DATAGRAM_BATCH
          /\ (Len(b) < KeyLen + 4 \/ (b[KeyLen + 3] = 0 /\ b[KeyLen + 4] = 0))

ASSUME ClientAssumption ==
    /\ Us \in [1..KeyLen -> Byte] /\ Peers \subseteq [1..KeyLen -> Byte]
    /\ \A p \in Payloads : p \in Seq(Byte)
    /\ Pings \subseteq [1..PingLen -> Byte] /\ Challenges \subseteq [1..ChallengeLen -> Byte]
    /\ \A b \in Junk : b \in Seq(Byte) /\ Malformed(b)
    /\ MaxSegments \in Nat \ {0} /\ MaxRead \in Nat /\ MaxSent \in Nat

\* The datagrams a message stands for.
DatagramsOf(m) ==
    IF m.kind \in {"datagram", "batch"}
    THEN [i \in 1..Len(m.body) |-> [source |-> m.source, payload |-> m.body[i]]]
    ELSE <<>>

\* The identity's signature of a challenge.
Signature(challenge) == [i \in 1..SigLen |-> challenge[1]]

\* How the relay reads a frame of ours.
Understood(frame) ==
    CASE frame[1] = CLIENT_AUTH ->
            [kind |-> "auth", key |-> SubSeq(frame, 2, KeyLen + 1),
             signature |-> From(frame, KeyLen + 3)]
      [] frame[1] = CLIENT_TO_RELAY_DATAGRAM ->
            [kind |-> "datagram", to |-> SubSeq(frame, 2, KeyLen + 1),
             payload |-> From(frame, KeyLen + 3)]
      [] frame[1] = PING -> [kind |-> "ping", bytes |-> From(frame, 2)]
      [] frame[1] = PONG -> [kind |-> "pong", bytes |-> From(frame, 2)]

-----------------------------------------------------------------------------
Datagram == [source : Seq(Byte), payload : Seq(Byte)]
Meanings ==
    [kind : {"auth"}, key : Seq(Byte), signature : Seq(Byte)]
    \cup [kind : {"datagram"}, to : Seq(Byte), payload : Seq(Byte)]
    \cup [kind : {"ping", "pong"}, bytes : Seq(Byte)]

\* What is pending comes from one frame: another is read only when nothing is.
TypeOK ==
    /\ phase \in {"handshake", "signing", "up", "failed"}
    /\ rx \in {"idle", "receiving", "ponging"}
    /\ reply \in Seq(Byte)
    /\ pending \in Seq(Datagram) /\ Len(pending) <= MaxSegments
    /\ delivered \in Seq(Datagram)
    /\ sent \in Seq(Seq(Byte)) /\ meant \in Seq(Meanings) /\ Len(meant) = Len(sent)
    /\ reads \in 0..MaxRead /\ confirmed \in BOOLEAN
    /\ offered \in Seq(Datagram) /\ asked \in Seq(Messages) /\ answers \in Seq(Meanings)

\* The websocket is open.
Init ==
    /\ phase = "handshake" /\ rx = "idle" /\ reply = <<>> /\ pending = <<>>
    /\ delivered = <<>> /\ sent = <<>> /\ meant = <<>>
    /\ reads = 0 /\ confirmed = FALSE /\ offered = <<>> /\ asked = <<>> /\ answers = <<>>

\* A message of the relay is read.  A challenge calls for an answer until the
\* relay confirms, a ping after that.
Reads(m) ==
    /\ reads < MaxRead /\ reads' = reads + 1
    /\ confirmed' = (confirmed \/ m.kind = "confirm")
    /\ offered' = offered \o DatagramsOf(m)
    /\ asked' = IF m.kind = (IF confirmed THEN "ping" ELSE "challenge")
                THEN Append(asked, m) ELSE asked

\* A frame is sent, and the relay reads it.
Sends(frame, meaning) ==
    /\ Len(sent) < MaxSent
    /\ sent' = Append(sent, frame) /\ meant' = Append(meant, meaning)
    /\ answers' = IF Understood(frame).kind \in {"auth", "pong"}
                  THEN Append(answers, Understood(frame)) ELSE answers

IsTagged(split, tag) == split # None /\ split[1] = tag

\* connect's handshake loop, one websocket message.
HandshakeReceives(m) ==
    /\ phase = "handshake" /\ Reads(m)
    /\ IF m.kind = "text" THEN UNCHANGED <<phase, reply>>
       ELSE LET split == SplitTag(RelayBytes(m))
                challenge == IsTagged(split, SERVER_CHALLENGE) /\ Len(split[2]) = ChallengeLen
                confirm == IsTagged(split, SERVER_CONFIRMS_AUTH)
            IN \/ challenge /\ phase' = "signing" /\ reply' = split[2]
               \/ confirm /\ phase' = "up" /\ UNCHANGED reply
               \/ ~challenge /\ ~confirm /\ phase' = "failed" /\ UNCHANGED reply
    /\ UNCHANGED <<rx, pending, delivered, relayGot>>

\* The identity signs and the websocket takes the answer, or either fails.
Authenticate ==
    /\ phase = "signing" /\ reply' = <<>>
    /\ \/ /\ phase' = "handshake"
          /\ Sends(EncodeClientAuth(Us, Signature(reply)),
                   [kind |-> "auth", key |-> Us, signature |-> Signature(reply)])
       \/ phase' = "failed" /\ UNCHANGED relayGot
    /\ UNCHANGED <<rx, pending, delivered, relayRead>>

-----------------------------------------------------------------------------
\* The pump arms a receive.  (On a failed websocket it resolves at once, unless
\* a datagram is pending.)
Arm ==
    /\ rx = "idle"
    /\ phase = "up" \/ (phase = "failed" /\ pending # <<>>)
    /\ rx' = "receiving"
    /\ UNCHANGED <<phase, reply, pending, delivered, relayRead, relayGot>>

\* Mutant: pop_back
LastPending == Len(pending)

\* pop_front
FirstPending == 1

\* A datagram is pending: recv_datagram returns it.
Deliver ==
    /\ rx = "receiving" /\ pending # <<>>
    /\ LET i == FirstPending
       IN /\ delivered' = Append(delivered, pending[i])
          /\ pending' = SubSeq(pending, 1, i - 1) \o From(pending, i + 1)
    /\ rx' = "idle"
    /\ UNCHANGED <<phase, reply, relayRead, relayGot>>

\* Otherwise it reads a websocket message and goes round.
Receive(m) ==
    /\ phase = "up" /\ rx = "receiving" /\ pending = <<>> /\ Reads(m)
    /\ LET split == IF m.kind = "text" THEN None ELSE SplitTag(RelayBytes(m))
           batch == IsTagged(split, RELAY_TO_CLIENT_DATAGRAM_BATCH)
           data == batch \/ IsTagged(split, RELAY_TO_CLIENT_DATAGRAM)
           ping == IsTagged(split, PING) /\ Len(split[2]) = PingLen
       IN \/ /\ data /\ pending' = pending \o DecodeRelayDatagrams(split[2], batch)
             /\ UNCHANGED <<rx, reply>>
          \/ ping /\ rx' = "ponging" /\ reply' = split[2] /\ UNCHANGED pending
          \/ ~data /\ ~ping /\ UNCHANGED <<rx, reply, pending>>
    /\ UNCHANGED <<phase, delivered, relayGot>>

Pong ==
    /\ rx = "ponging" /\ reply' = <<>>
    /\ \/ /\ rx' = "receiving" /\ UNCHANGED phase
          /\ Sends(EncodePong(reply), [kind |-> "pong", bytes |-> reply])
       \/ rx' = "idle" /\ phase' = "failed" /\ UNCHANGED relayGot
    /\ UNCHANGED <<pending, delivered, relayRead>>

\* Another task sends while the receive is wherever it is.
SendDatagram(to, payload) ==
    /\ phase = "up"
    /\ Sends(EncodeClientDatagram(to, payload),
             [kind |-> "datagram", to |-> to, payload |-> payload])
    /\ UNCHANGED <<phase, rx, reply, pending, delivered, relayRead>>

SendPing(payload) ==
    /\ phase = "up"
    /\ Sends(EncodePing(payload), [kind |-> "ping", bytes |-> payload])
    /\ UNCHANGED <<phase, rx, reply, pending, delivered, relayRead>>

\* The websocket fails, or close() was called: a receive that waits for it or
\* sends a pong resolves with the error, one that finds a datagram pending
\* returns that first.
Fail ==
    /\ phase # "failed" /\ phase' = "failed"
    /\ rx' = (IF rx = "receiving" /\ pending # <<>> THEN rx ELSE "idle")
    /\ reply' = <<>>
    /\ UNCHANGED <<pending, delivered, relayRead, relayGot>>

Next ==
    \/ \E m \in Messages : HandshakeReceives(m) \/ Receive(m)
    \/ Authenticate \/ Arm \/ Deliver \/ Pong \/ Fail
    \/ \E to \in Peers, payload \in Payloads : SendDatagram(to, payload)
    \/ \E payload \in Pings : SendPing(payload)

Spec == Init /\ [][Next]_vars

-----------------------------------------------------------------------------
(***************************************************************************)
(* Properties                                                              *)
(***************************************************************************)

\* Every datagram of every frame read is returned once, in order and with its
\* sender, whatever lies between the frames, however a batch is cut and even if
\* the websocket has failed meanwhile: what recv_datagram returned and what is
\* pending are the datagrams the relay sent since it confirmed us, and junk
\* adds none.
DatagramsInOrder == confirmed => delivered \o pending = offered

Answer(m) ==
    IF m.kind = "ping" THEN [kind |-> "pong", bytes |-> m.bytes]
    ELSE [kind |-> "auth", key |-> Us, signature |-> Signature(m.bytes)]

\* An answer is under way.
Due == IF phase = "signing" \/ rx = "ponging" THEN 1 ELSE 0

\* The relay reads our frames as they were meant, whatever tasks share the
\* websocket, and the answers among them are one auth per challenge and one
\* pong per ping, in the order they were asked; at most the last is under way.
RelayUnderstands ==
    /\ \A i \in 1..Len(sent) : Understood(sent[i]) = meant[i]
    /\ Len(answers) <= Len(asked)
    /\ \A i \in 1..Len(answers) : answers[i] = Answer(asked[i])
    /\ phase # "failed" => Len(asked) - Len(answers) = Due
=============================================================================
