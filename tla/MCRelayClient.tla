---------------------------- MODULE MCRelayClient ----------------------------
(* Instances of RelayClient for TLC.  Two-byte ids and pings, payloads of   *)
(* up to two bytes, and junk at every boundary the decoder tests.         *)
EXTENDS RelayClient

MCUs == <<1, 1>>
MCPeers == {<<8, 9>>, <<9, 8>>}
MCPayloads == {<<>>, <<5>>, <<64, 6>>}
MCPings == {<<4, 2>>}
MCChallenges == {<<7, 3>>}
MCJunk == {
    <<>>, <<64>>,              \* no type, a varint cut short
    <<64, 12>>,                \* another type, in a longer varint
    <<0, 7>>, <<9, 4>>,        \* a challenge and a ping of a wrong length
    <<6, 8, 9>>,               \* no ECN byte
    <<7, 8, 9, 3, 0>>,         \* no segment size
    <<7, 8, 9, 3, 0, 0, 5>>}   \* segments of no bytes
=============================================================================
