SPECIFICATION Spec
CONSTANTS
    Urls = {home, u1}
    HomeUrl = home
    Callers = {p1, p2}
    MaxConns = 3
    MaxAttempt = 2
SYMMETRY CallerSymmetry
INVARIANTS TypeOK OneOpenPerRelay MappedKeysArePooled OneReceivePerConn HomePooledOrRedialing UnpooledIsClosed
PROPERTY ReplacementSurvivesStaleErrors
CHECK_DEADLOCK FALSE
