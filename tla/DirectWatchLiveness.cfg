SPECIFICATION FairSpec
CONSTANTS
    Trades = {a}
    Raisers = {}
    Closers = {a}
    FeedCopies = {a}
    NegativeMinObservations = 1
    NegativeGrace = 0
    RetirementGrace = 1
    MaxSignalAge = 0
    MaxTime = 2
PROPERTIES
    WatchedExposureUnwinds
