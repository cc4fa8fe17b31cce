SPECIFICATION Spec
SYMMETRY Symmetry
CONSTANTS
    c1 = c1
    c2 = c2
    ADDR_BITS = 1
    NSEC_PER_SEC = 1
    WORD = 64
    CPUs = {c1, c2}
    MAX_TRACKED = 1
    Packets <- MixedPackets
    InitConfig <- MixedInit
    MinRate = 1
    MaxRate = 1
    MaxBurst = 1
    MaxClock = 2
    MaxPackets = 2
    Tools = {"controller"}
    Commands <- RaceCommands
    AllowKeys <- NoKeys
    BlockKeys <- NoKeys
    Durations = {}
    RuleKeys <- NoKeys
    Changes <- NoChanges
    MAX_ALLOWLIST = 1
    MAX_BLOCKLIST = 1
    MAX_PORT_RULES = 1
    IDLE_TIMEOUT = 0
INVARIANTS PacketsConserved LedgerBalanced NoUncountedBypass RateContract
PROPERTIES RateIsScheduled
