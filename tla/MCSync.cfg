SPECIFICATION FairSpec
CONSTANTS
    Record = {r1, r2}
    MaxOutstanding = 1
CHECK_DEADLOCK FALSE
INVARIANTS
    NobodyForgotten
PROPERTIES
    FlushDrains
    OutcomeSetOnce
    CallsReturn
    ExitReturns
