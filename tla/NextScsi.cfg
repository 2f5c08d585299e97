CONSTANTS
    Commands <- SomeCommands
    Cdbs <- FewRequests
    FifoSize = 2
    MaxCount = 4
    Counts = {0}
    RamTop = 3
    Windows <- SomeWindows
    Sectors = 3
    SectorSize = 2
    Slots = 1
    CardFails = FALSE
    IrqDelay = 1
    DmaDelay = 2
    SelDelay = 3
    Requests <- ReadRequests
    Chunk = 3
    CancelsDma = TRUE
    MayAbort = FALSE
    MaxStray = 2
SPECIFICATION Spec
INVARIANTS TypeOK LineFollowsChip InterruptsArrive DmaLineMeansComplete
PROPERTIES OnlyCancellingStrands MemoryByTransferOnly
