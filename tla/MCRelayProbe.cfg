SPECIFICATION Spec
CONSTANTS
    QuietAfter = 3
    Deadline = 3
    TickPeriod = 2
    MaxRtt = 2
    MaxTime = 16
INVARIANTS TypeOK LiveRelayKept DetectedInTime
CHECK_DEADLOCK FALSE
