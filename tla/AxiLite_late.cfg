CONSTANTS
    Addr = {0, 1}
    Data = {0, 1, 2}
    ResetValue = 0
    MaxWrites = 2
    AddrOf <- Alternating
    ChannelTimeouts = {2}
    MayReset = FALSE
SPECIFICATION FairAxiSpec

PROPERTY AcceptedMeansAsked
