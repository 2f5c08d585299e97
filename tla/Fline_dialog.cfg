SPECIFICATION Spec
CONSTANTS
    IdleWords = 1
    BusyWords = 2
    CycleCounts = {0, 5}
    MaxCalls = 3
    Formats = {"idle", "unknown"}
    MayGiveUp = FALSE
    MayFault = TRUE
    WriteClocks = 3
    ReadClocks = 4
INVARIANTS DialogOver
