CONSTANTS
    Addr = {a, b}
    Data = {0, 1, 2, 3}
    ResetValue = 0
    MaxWrites = 3
    Pipelined = TRUE
    MayAbort = TRUE
    WaitsOutAbort = TRUE
    MayReset = TRUE
SPECIFICATION FairWbSpec
INVARIANTS TypeOK AskedOnce AnswerIsOwn
PROPERTIES StallEnds StrobeAnswered
