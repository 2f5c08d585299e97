CONSTANTS
    Commands <- AllCommands
    Cdbs <- DataRequests
    FifoSize = 2
    MaxCount = 4
    Counts = {}
    RamTop = 4
    Windows <- NoWindows
    Sectors = 3
    SectorSize = 2
    Slots = 1
    CardFails = FALSE
    IrqDelay = 1
    DmaDelay = 2
    SelDelay = 3
    Requests <- DataRequests
    Chunk = 3
    CancelsDma = FALSE
    MayAbort = TRUE
SPECIFICATION DriverSpec
INVARIANT NoPhantomInterrupt

