CONSTANTS
    Regs = {r0, r1}
    Garbage = Garbage
    FrameWords = 2
    Is68882 = FALSE
    MayTrap = FALSE
    MaxInstr = 1
    Shapes = {"reg"}
    Moves = {TRUE}
    WordCounts = {1}
    Orders = {"command_first"}
    CommandLeads = TRUE
    Conditionals = TRUE
    SavePhases = {}
    BadFrames = FALSE
    WriteClocks = 3
    ReadClocks = 4
    Gap = 0
SPECIFICATION Spec
INVARIANT InOrderResults
