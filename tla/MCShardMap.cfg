SPECIFICATION FairMapSpec
CONSTANTS
    Hash <- MCHash
    Topology <- MCTopology
    Low <- MCLow
    High <- MCHigh
    Invalidator = {c1, c2}
    ClosedTtl = 2
    MinBackoff = 1
    MaxBackoff = 3
    MaxTime = 6
CHECK_DEADLOCK FALSE
INVARIANTS
    MapTypeOK
    PredictionsOnceTrue
PROPERTIES
    ClosedShardsAnswerable
    OneRefresh
    RefreshEnds
    StartEnds
