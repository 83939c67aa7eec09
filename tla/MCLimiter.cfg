SPECIFICATION Spec
CONSTANTS
    r1 = r1
    r2 = r2
    Record <- MCRecord
    Shard = {s1}
    Rate <- MCRate
    MaxTokens <- MCMaxTokens
    BytesOf <- MCBytesOf
    Ttl = 2
    BufferedTime = 1
    RetryDelay = 1
    DrainInterval = 1
    SendTime = 1
    MaxTime = 8
    Origin = {0, 2}
INVARIANTS
    TypeOK
    RateKept
    QueueDrains
    LifetimeBounded
PROPERTY
    AdmitsByDeadline
