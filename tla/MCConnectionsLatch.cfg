SPECIFICATION Spec
CONSTANTS
    Slots = {s1, s2}
    Peers = {a, b}
    AnyPeer = any
    Dialers = {d1}
    MaxEpochs = 2
    ACCEPT_BACKLOG = 1
PROPERTY WaitClosedLatched
CHECK_DEADLOCK FALSE
