CONSTANTS
    Addr = {a1}
    Data = {d0, d1}
    ResetValue = d0
    DsackTimeouts = {0}
    MaxLag = 2
    BusTimeout = 40
    FpuClkMayStop = FALSE
    MayReset = FALSE
    ResetLength = 12
SPECIFICATION Spec
INVARIANT DsackTimerInRange
