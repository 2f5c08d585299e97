CONSTANTS
    Regs = {r0}
    Garbage = Garbage
    FrameWords = 2
    Is68882 = FALSE
    MayTrap = FALSE
    MaxInstr = 1
    Shapes = {"reg"}
    Moves = {FALSE}
    WordCounts = {1}
    Orders = {"opword_first"}
    CommandLeads = FALSE
    Conditionals = FALSE
    SavePhases = {"busy"}
    BadFrames = FALSE
    WriteClocks = 3
    ReadClocks = 4
    Gap = 0
SPECIFICATION Spec
INVARIANT SaveSuspends
