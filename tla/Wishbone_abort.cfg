CONSTANTS
    Addr = {a, b}
    Data = {0, 1, 2}
    ResetValue = 0
    MaxWrites = 2
    Pipelined = TRUE
    MayAbort = TRUE
    WaitsOutAbort = FALSE
    MayReset = FALSE
SPECIFICATION WbSpec
INVARIANT AnswerIsOwn
