SPECIFICATION Spec
CONSTANTS
    IdleWords = 1
    BusyWords = 2
    CycleCounts = {0, 5}
    MaxCalls = 3
    Formats = {"null", "idle", "busy"}
    MayGiveUp = TRUE
    MayFault = FALSE
    WriteClocks = 3
    ReadClocks = 4
INVARIANTS ResultsAreOwnAlways
