SPECIFICATION Spec
CONSTANTS
    Record = {r1, r2}
    NoRecord = NoRecord
    MaxOutstanding = 2
    MaxAttempts = 1
    MayCancel = {}
    MayExit = TRUE
CHECK_DEADLOCK FALSE
INVARIANT
    ExitDrains
