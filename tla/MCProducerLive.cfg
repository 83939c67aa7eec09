SPECIFICATION FairSpec
CONSTANTS
    Record = {r1, r2}
    NoRecord = NoRecord
    MaxOutstanding = 1
    MaxAttempts = 1
    MayCancel = {}
    MayExit = TRUE
CHECK_DEADLOCK FALSE
PROPERTIES
    PutReturns
    ReturnedResolves
