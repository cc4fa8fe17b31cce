SPECIFICATION FairSpec
CONSTANTS
    TIERS <- ThreeTiers
    ESCALATE_PPS <- Thresholds
    DROP_TIER = 2
    CALM_WINDOWS = 2
    INITIAL_RATE = 9
    OperatorRates = {9}
    MaxResets = 1
    MaxRestarts = 1
    MaxWrites = 1
    MaxCount = 1
    MaxSecs = 1
INVARIANTS TypeOK TierFollowsLoad
PROPERTIES RelaxesSlowly CalmEndsRelaxed
