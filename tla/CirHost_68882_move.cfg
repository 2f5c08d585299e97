CONSTANTS
    Regs = {r0}
    Garbage = Garbage
    FrameWords = 2
    Is68882 = TRUE
    MayTrap = FALSE
    MaxInstr = 2
    Shapes = {"load"}
    Moves = {TRUE, FALSE}
    WordCounts = {1}
    Orders = {"opword_first"}
    CommandLeads = FALSE
    Conditionals = FALSE
    SavePhases = {}
    BadFrames = FALSE
    WriteClocks = 3
    ReadClocks = 4
    Gap = 6
SPECIFICATION Spec
INVARIANT MovesBypassExecute
