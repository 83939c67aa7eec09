SPECIFICATION FairRoutingSpec
CONSTANTS
    r1 = r1
    r2 = r2
    Hash <- MCHash
    Topology <- MCTopology
    Low <- MCLow
    High <- MCHigh
    Invalidator = {r1, r2}
    HashOf <- MCHashOf
    MaxAttempts = 2
    ClosedTtl = 1
    MinBackoff = 1
    MaxBackoff = 1
    MaxTime = 2
CHECK_DEADLOCK FALSE
PROPERTY
    MapCatchesUp
