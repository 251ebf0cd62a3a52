SPECIFICATION ResolverSpec
CONSTANTS
    MaxFills = 4
    MaxPosition = 2
    Prices = {1, 2}
    MaxLostFills = 1
    EntryTime = 1
    CloseTime = 0
    Drift = 0
    Blocks = 5
    Gaps = {1, 2}
    Rounds = 1
    Within = 1
    Padding = 1
    MinAround = 1
    Widths = {0, 3}
    Window = 2
    MaxPages = 4
    Retries = 1
    MaxTrades = 4
    MaxTimes = 2
    MaxHeld = 2
    MaxRows = 3
    MaxTick = 3
    RowPrices = {1}
    Tolerance = 1
    Shapes <- FewShapes
    Directions = {"LONG", "SHORT"}
    Feeds <- EarlyTimelyLate
    ExitTimes = {2}
    MaxBooks = 3
    MaxTime = 4
    ClockMin = 1
    ClockMax = 1
    PostReceipt = 1
    MaxForward = 1
    Notional = 30
    MaxSlippage = 2500
    FeeBps = 45
    Horizon = 3
INVARIANTS
    
    HistoryIsTrue
    EvidenceIsOwn
PROPERTIES
    
    ScoresStand
CHECK_DEADLOCK FALSE
