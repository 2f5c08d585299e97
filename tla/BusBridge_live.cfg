CONSTANTS
    Addr = {a1}
    Data = {d0, d1}
    ResetValue = d0
    DsackTimeouts = {2}
    MaxLag = 2
    BusTimeout = 10
    FpuClkMayStop = TRUE
    MayReset = FALSE
    ResetLength = 12
SPECIFICATION BusClockSpec
INVARIANT TypeOK
PROPERTY RequestAnswered
