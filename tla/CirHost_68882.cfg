CONSTANTS
    Regs = {r0, r1}
    Garbage = Garbage
    FrameWords = 2
    Is68882 = TRUE
    MayTrap = FALSE
    MaxInstr = 3
    Shapes = {"reg", "load", "store"}
    Moves = {TRUE, FALSE}
    WordCounts = {2}
    Orders = {"opword_first"}
    CommandLeads = FALSE
    Conditionals = FALSE
    SavePhases = {}
    BadFrames = FALSE
    WriteClocks = 3
    ReadClocks = 4
    Gap = 6
SPECIFICATION Spec
INVARIANTS WriteBackToOwnRegister NoReordering NoStartWhileBusy
