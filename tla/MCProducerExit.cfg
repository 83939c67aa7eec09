SPECIFICATION FairSpec
CONSTANTS
    Record = {r1, r2}
    NoRecord = NoRecord
    MaxOutstanding = 2
    MaxAttempts = 1
    MayCancel = {r1}
    MayExit = TRUE
CHECK_DEADLOCK FALSE
INVARIANTS
    OutcomesTruthful
PROPERTY
    ExitCompletes
