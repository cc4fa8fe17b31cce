SPECIFICATION Spec
CONSTANTS
    Sources = {"s1"}
    Packets <- Mixed
    FLOOD_PPS = 2
    SMALL_PKT = 3
    SYN_PERCENT = 85
    SYN_FIN_RATIO = 1
    SCAN_PORTS = 1
    SCAN_PKT = 2
    IDLE_TIMEOUT_S = 1
    CLEANUP_EVERY = 2
    Resets = TRUE
    MaxPackets = 3
    MaxSecs = 2
INVARIANT TypeOK
PROPERTIES NeverOverstates ExactWhileKept VerdictsAreEarned
