SPECIFICATION JobsSpec
CONSTANTS
    MaxHour = 4
    BinHours = 3
    SnapshotGap = 1
    MaxPlanAge = 2
    MaxNewRows = 1
    OldRows <- SomeRows
    MaxScKills = 1
    Sources = {1, 2, 3}
    GroupSize = 2
    MaxOutputs = 4
    MaxTlKills = 3
    Canonical <- DirectoryCoins
    TapeAtFirst <- OldTape
    FirstDay = 3
    LastDay = 4
    RecentDays = 3
    DeleteBudget = 4
    Objective = 2
    MaxAudits = 2
    MaxTouches = 1
    MaxSrKills = 1
    LastHour = 5
    Capacity = 9
    StopUsed = 5
    ResumeUsed = 4
    WarnUsed = 3
    TapeBudget = 3
    TapeGrowth = 1
    HistoryWindow = 3
    MinForecast = 2
    UnaccountedBudget = 0
    MaxDecisionAge = 1
    PostObservations = 2
    BoundUsed = 3
    Burst = 2
    Derived = {"ledger", "status"}
    Signals = {1, 2, 3}
    MaxEpochs = 3
    MaxRsKills = 2
    MarketWallets = {w1, w2}
    MaxTime = 5
    CoinAt <- TwoCoins
    CoverageStart = 0
    CoverageEnd = 6
    LaneRules <- Lanes
    MaxLost = 1
SYMMETRY WalletSymmetry
INVARIANTS
    NoRowLost
    
    EpochsApart
    
PROPERTIES
    CompactionLosesNothing
    DeletesOnlyTheReviewed
CHECK_DEADLOCK FALSE
