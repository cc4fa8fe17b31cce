SPECIFICATION Spec
SYMMETRY Symmetry
CONSTANTS
    c1 = c1
    c2 = c2
    ADDR_BITS = 1
    NSEC_PER_SEC = 2
    WORD = 64
    CPUs = {c1}
    MAX_TRACKED = 1
    Packets <- RacePackets
    InitConfig <- RaceInit
    MinRate = 1
    MaxRate = 2
    MaxBurst = 2
    MaxClock = 2
    MaxPackets = 1
    Tools = {"fwctl", "controller"}
    Commands <- PolicyCommands
    AllowKeys <- NoKeys
    BlockKeys <- NoKeys
    Durations = {}
    RuleKeys <- NoKeys
    Changes <- PolicyChanges
    MAX_ALLOWLIST = 1
    MAX_BLOCKLIST = 1
    MAX_PORT_RULES = 1
    IDLE_TIMEOUT = 1
PROPERTY PolicyIsTheOperators
