SPECIFICATION ServiceSpec
CONSTANTS
    Call = {c1, c2, c3, c4}
    Base = {q1, q2}
    NoPromise = NoPromise
    b1 = b1
    feed = feed
    direct = direct
    Source = {b1}
    Surface = {feed, direct}
    Moment = {1, 2, 3, 4}
    Signals <- OneTrade
    MaxSize = 2
    MaxSeen = 7
    MaxCalls = 1
    MaxCrashes = 1
    None = None
INVARIANTS
    FifoMutualExclusion
    AppliedOnce
PROPERTIES
    UnresolvedUntilClosed
    ImplementsCopyLifecycle
    ServiceProgress
CHECK_DEADLOCK FALSE
