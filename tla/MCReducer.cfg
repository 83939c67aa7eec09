SPECIFICATION FairSpec
CONSTANTS
    i1 = i1
    i2 = i2
    i3 = i3
    i4 = i4
    Item <- MCItem
    Deadline <- MCDeadline
    BatchSize <- AggregatedSize
    FlushPredicate <- PerShardBytes
    CountLimit = 3
    SizeLimit = 8
    MaxTime = 3
INVARIANTS
    TypeOK
    Conservation
    TimerArmed
    BatchesFit
PROPERTIES
    NeverEarly
    FifoByDeadline
    EveryItemLeaves
    ImplementsBatcher
