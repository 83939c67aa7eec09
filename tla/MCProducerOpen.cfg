SPECIFICATION Spec
CONSTANTS
    Record = {r1, r2, r3}
    NoRecord = NoRecord
    MaxOutstanding = 2
    MaxAttempts = 1
    MayCancel = {r1, r2, r3}
    MayExit = FALSE
SYMMETRY Symmetry
INVARIANTS
    TypeOK
    SlotsAccounted
    NeverDuplicated
    NeverLost
