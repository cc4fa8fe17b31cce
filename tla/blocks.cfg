SPECIFICATION Spec
SYMMETRY Symmetry
CONSTRAINT Remembered
CONSTANTS
    s1 = s1
    s2 = s2
    Sources = {s1, s2}
    Persistent = {}
    STRIKES = 2
    DURATIONS <- LongBlocks
    MAX_PER_WINDOW = 1
    MAX_BLOCKLIST = 1
    CLEANUP_EVERY = 1
    DRY_RUNS = {TRUE, FALSE}
    ALLOW_ARGS = {s1, s2}
    Commands = {"unallow", "block", "unblock"}
    ManualDurations = {0, 1}
    MaxAge = 1
    MaxStrikes = 6
    MaxCrashes = 1
    MaxHistory = 2
INVARIANTS TypeOK CapHolds StrikesAreRecent
PROPERTIES BeliefsMatchKernel DryRunOnlyWatches
