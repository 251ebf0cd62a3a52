SPECIFICATION WatchSpec
CONSTANTS
    Trades = {a}
    Raisers = {}
    Closers = {a}
    FeedCopies = {a}
    NegativeMinObservations = 1
    NegativeGrace = 0
    RetirementGrace = 1
    MaxSignalAge = 0
    MaxTime = 3
    Token = 2
    Burst = 8
    Reserve = 2
    MaxRate = 3
    MinRate = 1
    RecoveryStep = 1
    RecoveryInterval = 4
    Decay = 4
    BaseCooldown = 2
    MaxCooldown = 4
    MaxRetryAfter = 6
    ShareDivisor = 3
    MaxWait = 6
    RetryAfters = {0, 7}
    MaxQueue = 2
INVARIANTS
    OwnedCloseStillReadable
    BudgetSafe
PROPERTIES
    RetiresSafely
