SPECIFICATION PeriodicSpec
CONSTANTS
    StaleAfter = 0
    NoProgressAfter = 0
    HangAfter = 0
    Cooldown = 1
    MaxRecoveryAttempts = 2
    Materials = 1
    MaxSupFaults = 1
    MaxSupKills = 1
    PrIssues = {1, 2}
    Parents = {2}
    PassLimit = 2
    MaxPrFaults = 1
    MaxMined = 7
    PageSize = 1
    RecentPages = 2
    BackfillPages = 2
    FrontierLength = 2
    MaxSeen = 4
    MaxMishaps = 1
    Candidates = {1, 2}
    Threshold = 2
    MaxTrades = 2
    ScanLimit = 1
    RefreshRuns = 2
    MaxLost = 1
    BaseIds = {1, 4}
    ShortIds = {2, 3}
    MaxRows = 3
    MaxClose = 1
INVARIANTS
    RestartsBounded
    ArchiveHasNoHole
PROPERTIES
    BoardFollowsLedger
    
    PeriodicProgress
CHECK_DEADLOCK FALSE
