SPECIFICATION Spec
SYMMETRY Symmetry
CONSTANTS
    c1 = c1
    c2 = c2
    ADDR_BITS = 0
    NSEC_PER_SEC = 1
    WORD = 64
    CPUs = {c1}
    MAX_TRACKED = 1
    Packets <- BucketPackets
    InitConfig <- RaceInit
    MinRate = 1
    MaxRate = 1
    MaxBurst = 1
    MaxClock = 0
    MaxPackets = 1
    Tools = {"fwctl"}
    Commands <- ResetCommands
    AllowKeys <- NoKeys
    BlockKeys <- NoKeys
    Durations = {}
    RuleKeys <- NoKeys
    Changes <- NoChanges
    MAX_ALLOWLIST = 1
    MAX_BLOCKLIST = 1
    MAX_PORT_RULES = 1
    IDLE_TIMEOUT = 0
INVARIANTS PassesPlusDrops
