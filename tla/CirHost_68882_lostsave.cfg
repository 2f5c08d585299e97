CONSTANTS
    Regs = {r0}
    Garbage = Garbage
    FrameWords = 2
    Is68882 = TRUE
    MayTrap = FALSE
    MaxInstr = 3
    Shapes = {"reg", "store"}
    Moves = {FALSE}
    WordCounts = {1}
    Orders = {"opword_first"}
    CommandLeads = FALSE
    Conditionals = FALSE
    SavePhases = {"free", "busy"}
    BadFrames = FALSE
    WriteClocks = 3
    ReadClocks = 4
    Gap = 6
SPECIFICATION Spec
INVARIANT SavesAreTaken
