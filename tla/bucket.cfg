SPECIFICATION Spec
SYMMETRY Symmetry
CONSTANTS
    c1 = c1
    c2 = c2
    ADDR_BITS = 0
    NSEC_PER_SEC = 4
    WORD = 64
    CPUs = {c1}
    MAX_TRACKED = 1
    Packets <- BucketPackets
    InitConfig <- RetuneInit
    MinRate = 1
    MaxRate = 2
    MaxBurst = 2
    MaxClock = 5
    MaxPackets = 4
    Tools = {"controller"}
    Commands <- RetuneCommands
    AllowKeys <- NoKeys
    BlockKeys <- NoKeys
    Durations = {}
    RuleKeys <- NoKeys
    Changes <- RetuneChanges
    MAX_ALLOWLIST = 1
    MAX_BLOCKLIST = 1
    MAX_PORT_RULES = 1
    IDLE_TIMEOUT = 2
INVARIANTS TypeOK RateContract BucketsSound
PROPERTIES FairShare
