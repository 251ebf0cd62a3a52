SPECIFICATION CaptureSpec
CONSTANTS
    Partitions = {"bbo", "trades"}
    MaxTrades = 3
    Resent = 2
    MaxKeys = 2
    QueueSize = 2
    FlushRows = 2
    MaxBuffered = 2
    FlushTicks = 2
    MaxLost = 1
    MaxFailures = 1
    MaxTime = 3
    Wallets = {"w1", "w2"}
    Followed = "w1"
    MaxPosition = 1
    MaxActive = 1
    MaxFills = 3
    SnapshotSize = 2
    MaxNoted = 2
    MaxEdits = 2
    MaxTroubles = 1
    MaxWide = 3
    MaxTicks = 2
    MaxHolding = 1
    RecentWide = 2
    Retries = 2
    MaxMishaps = 1
INVARIANTS
    TapeIsComplete
    
PROPERTIES
    
    CaptureProgress
CHECK_DEADLOCK FALSE
