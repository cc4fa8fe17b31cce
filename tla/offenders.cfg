SPECIFICATION FairSpec
CONSTANTS
    s1 = s1
    s2 = s2
    Sources = {s1, s2}
    Persistent = {s1}
    STRIKES = 2
    DURATIONS <- ShortBlocks
    MAX_PER_WINDOW = 1
    MAX_BLOCKLIST = 2
    CLEANUP_EVERY = 2
    DRY_RUNS = {FALSE}
    ALLOW_ARGS = {}
    Commands = {"allow", "unallow", "unblock"}
    ManualDurations = {}
    MaxAge = 1
    MaxStrikes = 3
    MaxCrashes = 1
    MaxHistory = 0
PROPERTY OffendersAreBlocked
