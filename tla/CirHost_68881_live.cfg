CONSTANTS
    Regs = {r0}
    Garbage = Garbage
    FrameWords = 2
    Is68882 = FALSE
    MayTrap = TRUE
    MaxInstr = 2
    Shapes = {"reg", "load", "store"}
    Moves = {TRUE, FALSE}
    WordCounts = {2}
    Orders = {"opword_first"}
    CommandLeads = FALSE
    Conditionals = TRUE
    SavePhases = {"free"}
    BadFrames = FALSE
    WriteClocks = 3
    ReadClocks = 4
    Gap = 0
SPECIFICATION FairSpec
PROPERTY HostReturns
