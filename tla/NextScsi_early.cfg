CONSTANTS
    Commands <- SomeCommands
    Cdbs <- FewRequests
    FifoSize = 2
    MaxCount = 4
    Counts = {0}
    RamTop = 3
    Windows <- SomeWindows
    Sectors = 3
    SectorSize = 2
    Slots = 1
    CardFails = FALSE
    IrqDelay = 2
    DmaDelay = 3
    SelDelay = 4
    Requests <- ReadRequests
    Chunk = 3
    CancelsDma = TRUE
    MayAbort = FALSE
    MaxStray = 1
SPECIFICATION Spec

PROPERTY NotTooSoon
