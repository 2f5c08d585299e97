CONSTANTS
    Commands <- AllCommands
    Cdbs <- DataRequests
    FifoSize = 2
    MaxCount = 4
    Counts = {}
    RamTop = 4
    Windows <- NoWindows
    Sectors = 3
    SectorSize = 2
    Slots = 1
    CardFails = TRUE
    IrqDelay = 1
    DmaDelay = 2
    SelDelay = 3
    Requests <- DataRequests
    Chunk = 3
    CancelsDma = TRUE
    MayAbort = TRUE
SPECIFICATION DriverSpec
INVARIANTS NoPhantomInterrupt InterruptHasCause GoodMeansMoved

PROPERTIES CommandsEnd
