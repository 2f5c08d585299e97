CONSTANTS
    Regs = {r0, r1}
    Garbage = Garbage
    FrameWords = 2
    Is68882 = FALSE
    MayTrap = TRUE
    MaxInstr = 2
    Shapes = {"reg", "load", "store"}
    Moves = {TRUE, FALSE}
    WordCounts = {2}
    Orders = {"opword_first", "command_first", "command_only"}
    CommandLeads = FALSE
    Conditionals = TRUE
    SavePhases = {"free"}
    BadFrames = TRUE
    WriteClocks = 3
    ReadClocks = 4
    Gap = 0
SPECIFICATION Spec
INVARIANTS TypeOK InOrderResults StoreDelivers NullMeansDone
