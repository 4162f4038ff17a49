SPECIFICATION Spec
CONSTANTS
    A = A
    B = B
    Relays = {0}
    Dialers = {A, B}
    MaxTasks = 4
    INBOX_CAP = 2
INVARIANTS TypeOK OneSessionPerPeer RouteFollowsChannels
CHECK_DEADLOCK FALSE
