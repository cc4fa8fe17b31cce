SPECIFICATION Spec
SYMMETRY Symmetry
CONSTANTS
    a1 = a1
    a2 = a2
    i1 = i1
    i2 = i2
    Admins = {a1}
    Ifaces = {i1, i2}
    Native = {i1, i2}
    Names = {"config", "blocklist"}
    Edited = {"blocklist"}
    MaxLoads = 2
INVARIANTS TypeOK PinsReachProgram ToolsReachProgram PinnedProgramRuns
PROPERTY ReloadKeepsEntries
