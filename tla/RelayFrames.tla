----------------------------- MODULE RelayFrames -----------------------------
(***************************************************************************)
(* The relay frame codec of relay_frames.rs: a frame is a sequence of      *)
(* bytes, the QUIC-varint frame type and the payload.  Field widths are    *)
(* parameters; the code's are 32, 64, 16 and 8 bytes.                      *)
(***************************************************************************)
EXTENDS Integers, Sequences

CONSTANTS
    KeyLen,        \* an endpoint id
    SigLen,        \* a signature
    ChallengeLen,  \* a handshake challenge
    PingLen        \* a ping's payload

ASSUME WidthsAssumption ==
    /\ KeyLen \in Nat \ {0} /\ ChallengeLen \in Nat \ {0} /\ PingLen \in Nat \ {0}
    /\ SigLen \in 1..127  \* postcard's length prefix is one byte

Byte == 0..255
\* No result.  (For a list of datagrams that is the empty list, which the code
\* handles alike.)
None == <<>>

SERVER_CHALLENGE == 0
CLIENT_AUTH == 1
SERVER_CONFIRMS_AUTH == 2
SERVER_DENIES_AUTH == 3
CLIENT_TO_RELAY_DATAGRAM == 4
RELAY_TO_CLIENT_DATAGRAM == 6
RELAY_TO_CLIENT_DATAGRAM_BATCH == 7
PING == 9
PONG == 10

From(s, i) == SubSeq(s, i, Len(s))

\* The number in the first len bytes; the two high bits are its length.
VarInt(frame, len) ==
    LET value[i \in 1..len] ==
            IF i = 1 THEN frame[1] % 64 ELSE 256 * value[i - 1] + frame[i]
    IN value[len]

\* split_tag: None, or the type and the payload.
SplitTag(frame) ==
    IF frame = <<>> THEN None
    ELSE LET len == 2 ^ (frame[1] \div 64)
         IN IF Len(frame) < len THEN None ELSE <<VarInt(frame, len), From(frame, len + 1)>>

EncodeClientDatagram(dst, payload) == <<CLIENT_TO_RELAY_DATAGRAM>> \o dst \o <<0>> \o payload

\* The length prefix is postcard's.
EncodeClientAuth(key, signature) == <<CLIENT_AUTH>> \o key \o <<SigLen>> \o signature

EncodePing(payload) == <<PING>> \o payload

\* Mutant: the pong carries the ping's type.
EncodePongAsPing(payload) == <<PING>> \o payload

EncodePong(payload) == <<PONG>> \o payload

\* Mutant: a short last chunk is left out.
FullChunks(s, n) == [i \in 1..(Len(s) \div n) |-> SubSeq(s, (i - 1) * n + 1, i * n)]

\* Mutant: one chunk too many, which is empty where the segments are equal.
ExtraChunk(s, n) ==
    [i \in 1..((Len(s) \div n) + 1) |->
        SubSeq(s, (i - 1) * n + 1, IF i * n < Len(s) THEN i * n ELSE Len(s))]

\* slice::chunks
Chunks(s, n) ==
    [i \in 1..((Len(s) + n - 1) \div n) |->
        SubSeq(s, (i - 1) * n + 1, IF i * n < Len(s) THEN i * n ELSE Len(s))]

\* decode_relay_datagrams: None, or the datagrams of a frame's payload.
DecodeRelayDatagrams(payload, batch) ==
    LET source == SubSeq(payload, 1, KeyLen)
        rest == From(payload, KeyLen + 1)
        from(contents) == [i \in 1..Len(contents) |-> [source |-> source, payload |-> contents[i]]]
    IN IF Len(payload) < KeyLen THEN None
       ELSE IF ~batch
       THEN IF rest = <<>> THEN None ELSE from(<<From(rest, 2)>>)
       ELSE IF Len(rest) < 3 THEN None
       ELSE LET segmentSize == 256 * rest[2] + rest[3]
            IN IF segmentSize = 0 THEN None ELSE from(Chunks(From(rest, 4), segmentSize))
=============================================================================
