SPECIFICATION Spec
CONSTANTS
    b1 = b1
    b2 = b2
    Source = {b1, b2}
    Signals <- OneTrade
    None = None
    Limit = 1
    MaxPages = 2
    Live = FALSE
    MaxPosts = 4
    MaxCrashes = 1
PROPERTIES
    GapKeepsVisibleCloses
