SPECIFICATION Spec
CONSTANTS
    KeyLen = 2
    SigLen = 3
    ChallengeLen = 2
    PingLen = 2
    Us <- MCUs
    Peers <- MCPeers
    Payloads <- MCPayloads
    Pings <- MCPings
    Challenges <- MCChallenges
    Junk <- MCJunk
    MaxSegments = 3
    MaxRead = 4
    MaxSent = 2
INVARIANTS TypeOK DatagramsInOrder RelayUnderstands
CHECK_DEADLOCK FALSE
