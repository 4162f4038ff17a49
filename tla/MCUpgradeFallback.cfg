SPECIFICATION Spec
CONSTANTS
    A = A
    B = B
    Relays = {0, 1}
    Dialers = {A}
    MaxTasks = 2
    INBOX_CAP = 4
INVARIANT FallbackIsSignaledRelay
CHECK_DEADLOCK FALSE
