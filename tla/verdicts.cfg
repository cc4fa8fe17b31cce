SPECIFICATION Spec
SYMMETRY Symmetry
CONSTANTS
    c1 = c1
    c2 = c2
    ADDR_BITS = 1
    NSEC_PER_SEC = 2
    WORD = 64
    CPUs = {c1}
    MAX_TRACKED = 1
    Packets <- VerdictPackets
    InitConfig <- VerdictInit
    MinRate = 1
    MaxRate = 1
    MaxBurst = 1
    MaxClock = 1
    MaxPackets = 1
    Tools = {"fwctl"}
    Commands <- VerdictCommands
    AllowKeys <- HostKeys
    BlockKeys <- ListKeys
    Durations = {0, 1}
    RuleKeys <- RuleKeySet
    Changes <- NoChanges
    MAX_ALLOWLIST = 1
    MAX_BLOCKLIST = 2
    MAX_PORT_RULES = 1
    IDLE_TIMEOUT = 1
INVARIANTS AllowlistWins HostBlockHolds BlocksLiftOnTime DenyIsClosed
           HitsBacked PacketsConserved NoUncountedBypass
