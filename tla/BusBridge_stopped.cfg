CONSTANTS
    Addr = {a1}
    Data = {d0, d1}
    ResetValue = d0
    DsackTimeouts = {2}
    MaxLag = 2
    BusTimeout = 6
    FpuClkMayStop = TRUE
    MayReset = FALSE
    ResetLength = 12
SPECIFICATION Spec
INVARIANT RequestStable
