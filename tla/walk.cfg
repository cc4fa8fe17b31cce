SPECIFICATION FairSpec
CONSTANTS
    Size = 3
    MAX_ENTRIES = 2
    CHUNK = 1
    RUNAWAY = 3
    BATCH = {TRUE, FALSE}
    Ops = {"list", "clear", "unallow", "expire"}
    Durations = {0, 1}
    MaxClock = 1
INVARIANTS TypeOK ClearsEverything SparesLiveBlocks
PROPERTIES ReadsAreComplete OperationsEnd
