----------------------------- MODULE MCNextDriver -----------------------------
(***************************************************************************)
(* The values of the constants of the SCSI subsystem and its driver.        *)
(***************************************************************************)
EXTENDS NextDriver

AllCommands == {[op |-> o, dma |-> d] : o \in Ops, d \in BOOLEAN}
SomeCommands ==
    {[op |-> o, dma |-> FALSE] : o \in Ops \ {"pad"}} \cup {[op |-> o, dma |-> TRUE] : o \in {"ti", "pad"}}

AllRequests ==
    {Cdb("read", 0, 2), Cdb("read", 2, 2), Cdb("write", 0, 1), Cdb("reply", 0, 1),
     Cdb("plain", 0, 0), Cdb("bad", 0, 0)}
EmptyRequests == {Cdb("read", 0, 1), Cdb("read", 0, 0), Cdb("write", 0, 0), Cdb("write", 0, 1)}
DataRequests == {Cdb("read", 1, 2), Cdb("write", 1, 1)}
FewRequests == {Cdb("read", 0, 2), Cdb("write", 0, 1)}
ReadRequests == {Cdb("read", 0, 2)}
SomeWindows == {<<1, 4>>}
NoWindows == {}
=============================================================================
