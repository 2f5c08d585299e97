------------------------------ MODULE NextDriver ------------------------------
(***************************************************************************)
(* A driver above the SCSI subsystem: the register accesses the NeXT ROM and *)
(* kernel make, as the comments of next_esp.c, next_scsi_dma.c and main.c   *)
(* tell it, one access a step.  It loads the FIFO, selects, and from then on *)
(* does what each interrupt's cause and the bus phase ask for; it may give   *)
(* a command up at any time, and then resets channel, chip and bus.          *)
(***************************************************************************)
EXTENDS NextScsi

CONSTANTS
    Requests,     \* descriptor blocks it sends
    Chunk,        \* bytes it asks for with one transfer
    CancelsDma,   \* TRUE: giving up includes a RESET of the DMA channel
    MayAbort      \* TRUE: it may give up

\* It is one of the guests NextScsi knows, and its transfers fit the counter.
ASSUME DriverAssumption ==
    /\ Requests \subseteq Cdbs /\ Chunk \in 1..MaxCount /\ FifoSize >= 2
    /\ {[op |-> o, dma |-> FALSE] : o \in {"flush", "sel", "iccs", "msgacc", "reset", "busreset"}}
           \cup {[op |-> "ti", dma |-> TRUE]} \subseteq Commands

VARIABLES
    pc,
    request,
    moved,   \* bytes transferred so far
    result   \* how the last command ended

driverVars == <<scsiVars, pc, request, moved, result>>

Bytes(r) ==
    IF r.op \in {"read", "write"} THEN r.count * SectorSize
    ELSE IF r.op = "reply" THEN r.count ELSE 0
Total == Bytes(request)
Asked == IF Total - moved < Chunk THEN Total - moved ELSE Chunk
Progress == IF esp.counter <= Asked THEN Asked - esp.counter ELSE 0

Waiting == {"selecting", "transferring", "completing", "leaving", "resetting"}
Aborting == {"abort", "abort_chip", "abort_bus"}

DriverInit ==
    /\ ScsiInit
    /\ pc = "boot" /\ request \in Requests /\ moved = 0 /\ result = "none"

GoTo(next) == pc' = next /\ UNCHANGED <<request, moved, result>>

Boot ==
    \/ pc = "boot" /\ WriteMask(Lines) /\ GoTo("boot_enable")
    \/ pc = "boot_enable" /\ WriteDmaControl(TRUE, FALSE) /\ GoTo("idle")

Begin ==
    /\ pc = "idle"
    /\ pc' = "flush" /\ request' \in Requests /\ moved' = 0 /\ result' = "none"
    /\ \E present \in BOOLEAN : WriteSetup(0, present, esp.resrept)

Selecting ==
    \/ pc = "flush" /\ WriteCommand([op |-> "flush", dma |-> FALSE]) /\ GoTo("identify")
    \/ pc = "identify" /\ WriteFifo(Identify) /\ GoTo("block")
    \/ pc = "block" /\ WriteFifo(request) /\ GoTo("select")
    \/ pc = "select" /\ WriteCommand([op |-> "sel", dma |-> FALSE]) /\ GoTo("selecting")

\* The channel is reset, given the buffer as one window or as two chained
\* ones, and enabled; then the chip is started.
Transferring ==
    LET half == moved + Asked \div 2
    IN  \/ pc = "dma_reset" /\ WriteCsr({"reset"}) /\ GoTo("dma_window")
        \/ pc = "dma_window" /\ WriteDmaWindow(<<moved, Total>>, FALSE) /\ GoTo("dma_enable")
        \/ /\ pc = "dma_window" /\ half > moved
           /\ WriteDmaWindow(<<moved, half>>, FALSE) /\ GoTo("dma_chain")
        \/ pc = "dma_chain" /\ WriteDmaWindow(<<half, Total>>, TRUE) /\ GoTo("dma_enable_both")
        \/ pc = "dma_enable" /\ WriteCsr({"setenable"}) /\ GoTo("count")
        \/ pc = "dma_enable_both" /\ WriteCsr({"setenable", "setsupdate"}) /\ GoTo("count")
        \/ pc = "count" /\ WriteSetup(Asked, esp.busid, esp.resrept) /\ GoTo("transfer")
        \/ pc = "transfer" /\ WriteCommand([op |-> "ti", dma |-> TRUE]) /\ GoTo("transferring")

Completing ==
    \/ pc = "complete" /\ WriteCommand([op |-> "iccs", dma |-> FALSE]) /\ GoTo("completing")
    \/ /\ pc = "read_status" /\ ReadFifo
       /\ pc' = "read_message" /\ result' = disk.status /\ UNCHANGED <<request, moved>>
    \/ pc = "read_message" /\ ReadFifo /\ GoTo("accept")
    \/ pc = "accept" /\ WriteCommand([op |-> "msgacc", dma |-> FALSE]) /\ GoTo("leaving")
    \/ pc = "done" /\ GoTo("idle") /\ UNCHANGED scsiVars

\* What an interrupt's cause and the bus phase make of the command.
After(cause) ==
    IF "RST" \in cause \/ "DC" \in cause THEN "idle"
    ELSE IF pc = "resetting" \/ "ILL" \in cause THEN "abort"
    ELSE IF pc = "leaving" THEN "done"
    ELSE IF pc = "completing" THEN "read_status"
    ELSE IF disk.phase \in {"DI", "DO"} THEN "dma_reset" ELSE "complete"

ScsiInterrupt ==
    /\ pc \in Waiting /\ intr.irq = 3
    /\ ReadIntStatus
    /\ pc' = After(esp.intstatus)
    /\ moved' = IF pc = "transferring" THEN moved + Progress ELSE moved
    /\ UNCHANGED <<request, result>>

DmaInterrupt ==
    /\ intr.irq = 6
    /\ WriteCsr({"clrcomplete"}) /\ GoTo(pc)

GiveUp ==
    /\ MayAbort
    /\ pc \in Waiting \ {"resetting"}
    /\ GoTo("abort") /\ UNCHANGED scsiVars

Abort ==
    \/ /\ pc = "abort" /\ GoTo("abort_chip")
       /\ WriteCsr(IF CancelsDma THEN {"reset"} ELSE {"clrcomplete"})
    \/ pc = "abort_chip" /\ WriteCommand([op |-> "reset", dma |-> FALSE]) /\ GoTo("abort_bus")
    \/ pc = "abort_bus" /\ WriteCommand([op |-> "busreset", dma |-> FALSE]) /\ GoTo("resetting")

\* What goes on by itself once a command has begun.
Proceeds ==
    Boot \/ Selecting \/ Transferring \/ Completing \/ ScsiInterrupt \/ DmaInterrupt \/ Abort

Background == (InstructionHook \/ EndOfSlice) /\ UNCHANGED <<pc, request, moved, result>>

DriverNext == Begin \/ Proceeds \/ GiveUp \/ Background

\* The CPU keeps executing, and the driver in the middle of a command goes on.
DriverSpec ==
    /\ DriverInit /\ [][DriverNext]_driverVars
    /\ WF_driverVars(InstructionHook /\ UNCHANGED <<pc, request, moved, result>>)
    /\ WF_driverVars(Proceeds)

(***************************************************************************)
(* Properties.                                                              *)
(***************************************************************************)

\* The chip interrupts only for the command the driver has outstanding: never
\* between commands, and never for one that was given up.
NoPhantomInterrupt == esp.int => pc \in Waiting \cup {"abort", "abort_chip"}

\* An interrupt has a cause the driver can read.
InterruptHasCause == esp.int => esp.intstatus # {}

\* A command that ends well has moved all its data, each byte of a read to its
\* place: across transfers, windows, sectors, cache hits and failing sectors.
GoodMeansMoved ==
    pc = "done" /\ result = "good" /\ request.op # "bad" =>
        /\ moved = Total
        /\ request.op = "read" =>
              \A k \in 0..Total - 1 :
                  mem[k] = <<request.lba + k \div SectorSize, k % SectorSize>>

\* Every command comes to an end.
CommandsEnd == pc # "idle" ~> pc = "idle"
=============================================================================
