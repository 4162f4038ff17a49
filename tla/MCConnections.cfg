SPECIFICATION Spec
CONSTANTS
    Slots = {s1, s2}
    Peers = {a, b}
    AnyPeer = any
    Dialers = {d1}
    MaxEpochs = 3
    ACCEPT_BACKLOG = 1
SYMMETRY Symmetric
INVARIANTS TypeOK DeliveredOnceAsExpected OnlyOwnersClose NoOrphan UnacceptedBounded
CHECK_DEADLOCK FALSE
