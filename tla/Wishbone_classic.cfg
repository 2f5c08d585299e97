CONSTANTS
    Addr = {a, b}
    Data = {0, 1, 2}
    ResetValue = 0
    MaxWrites = 2
    Pipelined = FALSE
    MayAbort = FALSE
    WaitsOutAbort = TRUE
    MayReset = FALSE
SPECIFICATION WbSpec
INVARIANT AskedOnce
