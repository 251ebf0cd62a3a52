SPECIFICATION TeamSpec
CONSTANTS
    Routes <- EveryRoute
    ReviewLists <- EveryReviewList
    Rules = {"rule", "window"}
    CheckLists <- EveryCheckList
    MaxAttempts = 1
    MaxRecovery = 1
    MaxTasks = 3
    MaxSha = 2
    MaxPRs = 1
    MaxKills = 1
    MaxRuns = 2
    Contracts <- FewContracts
    Rollouts = {TRUE, FALSE}
    MaxAge = 1
    MaxDays = 2
    MaxRows = 5
    MaxCuts = 1
INVARIANTS
    MergedShaWasReviewed
    EffortBounded
PROPERTIES
    ActsOnFreshProof
CHECK_DEADLOCK FALSE
