SPECIFICATION Spec
CONSTANTS
    Readers = {r1, r2}
    MaxBytes = 3
INVARIANT ViaOkIsFin
CHECK_DEADLOCK FALSE
