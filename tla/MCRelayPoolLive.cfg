SPECIFICATION FairSpec
CONSTANTS
    Urls = {home, u1}
    HomeUrl = home
    Callers = {p1, p2}
    MaxConns = 2
    MaxAttempt = 1
PROPERTIES WaitersResolve CloseEndsPump SilentRelayDetected
CHECK_DEADLOCK FALSE
