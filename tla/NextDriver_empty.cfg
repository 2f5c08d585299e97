CONSTANTS
    Commands <- AllCommands
    Cdbs <- EmptyRequests
    FifoSize = 2
    MaxCount = 4
    Counts = {}
    RamTop = 4
    Windows <- NoWindows
    Sectors = 3
    SectorSize = 2
    Slots = 1
    CardFails = TRUE
    IrqDelay = 1
    DmaDelay = 2
    SelDelay = 3
    Requests <- EmptyRequests
    Chunk = 3
    CancelsDma = TRUE
    MayAbort = FALSE
SPECIFICATION DriverSpec
INVARIANT DataPhaseHasData

