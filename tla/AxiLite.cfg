CONSTANTS
    Addr = {0, 1}
    Data = {0, 1, 2}
    ResetValue = 0
    MaxWrites = 2
    AddrOf <- Alternating
    ChannelTimeouts = {0, 3}
    MayReset = TRUE
SPECIFICATION FairAxiSpec
INVARIANTS TypeOK AsksOnlyIdlePort WrittenWhereSent OkayMeansWritten ReadsSeeWrites
PROPERTIES ReadAnswered
