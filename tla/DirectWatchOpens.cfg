SPECIFICATION Spec
CONSTANTS
    Trades = {a, b}
    Raisers = {a}
    Closers = {}
    FeedCopies = {a}
    NegativeMinObservations = 2
    NegativeGrace = 1
    RetirementGrace = 1
    MaxSignalAge = 2
    MaxTime = 3
INVARIANTS
    IntervalsOrdered
PROPERTIES
    BaselineNotCopied
    WatermarkPassesHandledOnly
