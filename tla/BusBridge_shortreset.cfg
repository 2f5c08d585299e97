CONSTANTS
    Addr = {a1}
    Data = {d0, d1}
    ResetValue = d0
    DsackTimeouts = {3}
    MaxLag = 2
    BusTimeout = 40
    FpuClkMayStop = FALSE
    MayReset = TRUE
    ResetLength = 1
SPECIFICATION Spec
INVARIANT RequestStable
