CONSTANTS
    Addr = {a1, a2}
    Data = {d0, d1}
    ResetValue = d0
    DsackTimeouts = {0, 1, 2, 3}
    MaxLag = 2
    BusTimeout = 25
    FpuClkMayStop = FALSE
    MayReset = TRUE
    ResetLength = 8
SPECIFICATION Spec
SYMMETRY RegisterSymmetry
INVARIANTS TypeOK Handshake DataInv ErrorInv EffectInv
