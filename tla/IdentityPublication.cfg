SPECIFICATION IdentitySpec
CONSTANTS
    Portfolios = {1, 2}
    Wallets = {"a", "b"}
    Limit = 1
    MaxPortfolios = 1
    MaxEvidence = 2
    MaxBackoff = 2
    MaxTurns = 1
PROPERTIES
    PublishesTheProven
    WatchesThePublished
    EveryoneAttempted
