SPECIFICATION FairSpec
CONSTANTS
    c1 = c1
    c2 = c2
    bi = bi
    Dirs = {bi}
    Callers = {c1, c2}
    Does <- TwoCallers
    MaxStreams = 2
INVARIANTS TypeOK NoStreamLost StreamsBeforeTheEnd NoKickLost
PROPERTIES CallsServed CallsEnd WatchConverges
CHECK_DEADLOCK FALSE
