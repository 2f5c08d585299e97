------------------------------- MODULE NextScsi -------------------------------
(***************************************************************************)
(* The SCSI subsystem of the NeXT emulator: the NCR 53C90 (ESP) of          *)
(* next_esp.c, the DMA channel of next_scsi_dma.c, the disk (NextDisk) and   *)
(* the interrupt controller (NextIntr).                                     *)
(*                                                                         *)
(* A step is one register access of the guest, whose C handler runs to its  *)
(* end, or one call of emu_instr_hook before an instruction.  The guest is  *)
(* left free here: any access at any time.                                 *)
(***************************************************************************)
EXTENDS NextDisk, NextIntr, Sequences, FiniteSets

CONSTANTS
    Commands,   \* ESP commands the guest writes: [op, dma]
    Cdbs,       \* command descriptor blocks it writes to the FIFO
    FifoSize,   \* 16 in the code; here a descriptor block is one entry
    MaxCount,   \* 0x10000 in the code: what a transfer count of 0 means
    Counts,     \* transfer counts the guest writes
    RamTop,     \* RAM is 0..RamTop - 1; higher addresses fault
    Windows,    \* <<next, limit>> pairs the guest gives the DMA channel
    DmaDelay,   \* DMA_DEFER_TICKS, 20
    SelDelay,   \* ESP_SELECT_TIMEOUT_DEFER_TICKS, 500
    CardFails   \* TRUE: the SD card may fail to deliver a sector

Ops == {"nop", "flush", "reset", "busreset", "sel", "ti", "iccs", "msgacc", "pad", "illegal"}

ASSUME ScsiAssumption ==
    /\ Commands \subseteq [op : Ops, dma : BOOLEAN]
    /\ Cdbs \subseteq [op : {"read", "write", "reply", "plain", "bad"}, lba : Nat, count : Nat]
    /\ FifoSize \in Nat \ {0} /\ RamTop \in Nat /\ Windows \subseteq Nat \X Nat
    /\ MaxCount \in Nat \ {0} /\ Counts \subseteq 0..MaxCount
    /\ DmaDelay \in Nat \ {0} /\ SelDelay \in Nat \ {0}

VARIABLES
    esp,       \* the chip
    seltimer,  \* instructions until a selection times out, 0: none pending
    dma,       \* the channel's registers
    deferred,  \* the transfer waiting to be carried out
    disk,
    intr,
    mem        \* the guest's RAM

scsiVars == <<esp, seltimer, dma, deferred, disk, intr, mem>>

NoCommand == [op |-> "none", dma |-> FALSE]
Causes == {"FC", "BS", "DC", "ILL", "RST"}

\* FIFO entries other than a descriptor block.
Identify == Cdb("identify", 0, 0)
StatusByte == Cdb("status", 0, 0)
MessageByte == Cdb("message", 0, 0)
DataByte == Cdb("data", 0, 0)

ScsiInit ==
    /\ esp = [inprog |-> FALSE, queue |-> NoCommand, int |-> FALSE, ge |-> FALSE, tc |-> FALSE,
              intstatus |-> {}, counter |-> 0, fifo |-> <<>>, busid |-> TRUE, resrept |-> FALSE,
              enable |-> FALSE, count |-> 0]
    /\ seltimer = 0
    /\ dma = [next |-> 0, limit |-> 0, start |-> 0, stop |-> 0, enable |-> FALSE,
              supdate |-> FALSE, complete |-> TRUE, busexc |-> FALSE]
    /\ deferred = [ticks |-> 0, in |-> FALSE, count |-> 0]
    /\ disk = DiskInit
    /\ intr = IntrInit
    /\ mem = [a \in 0..RamTop - 1 |-> <<Empty, 0>>]

\* Sectors the SD card may fail to deliver during a step.
CardFaults == SUBSET (IF CardFails THEN 0..Sectors - 1 ELSE {})

(***************************************************************************)
(* Parts of ESP handlers.  e is the chip and i the interrupt controller as  *)
(* the code before the call has left them.                                 *)
(***************************************************************************)

\* esp_raise_irq: an interrupt that is already pending is not raised again.
Raised(e) == [e EXCEPT !.int = TRUE]
\* Wrong variant, for mutation: the enable bit is not looked at.
RaisedLineAlways(e, i) == IF ~e.int THEN IntrSet(i, "scsi") ELSE i

RaisedLine(e, i) == IF e.enable /\ ~e.int THEN IntrSet(i, "scsi") ELSE i

Raise(e, i) == esp' = Raised(e) /\ intr' = RaisedLine(e, i)

\* esp_fifo_write: an overflow is an interrupt of its own.
\* Wrong variant, for mutation: one entry too many.
FullTooLate(e) == Len(e.fifo) > FifoSize

Full(e) == Len(e.fifo) >= FifoSize
Pushed(e, item) ==
    IF Full(e) THEN Raised([e EXCEPT !.fifo[FifoSize] = item, !.ge = TRUE])
    ELSE [e EXCEPT !.fifo = Append(@, item)]
PushedLine(e, i) == IF Full(e) THEN RaisedLine(e, i) ELSE i

Cause(e, causes) == [e EXCEPT !.intstatus = causes]

\* esp_command_clear: a command waiting behind this one is forgotten.
CommandCleared(e) == [e EXCEPT !.queue = NoCommand]

\* Wrong variant, for mutation: an interrupt without a cause.
TransferEndedSilently(e, left) == CommandCleared([e EXCEPT !.counter = left, !.tc = (left = 0)])

\* What a transfer leaves behind: all of it, or a target that wants something else.
TransferEnded(e, left) ==
    IF left = 0 THEN Cause([e EXCEPT !.counter = 0, !.tc = TRUE], {"FC"})
    ELSE Cause(CommandCleared([e EXCEPT !.counter = left]), {"BS"})

\* Wrong variant, for mutation: the command in progress survives.
SoftResetKeepsInprog(e) ==
    [e EXCEPT !.tc = FALSE, !.intstatus = {}, !.counter = 0, !.queue = NoCommand]

SoftReset(e) ==
    [e EXCEPT !.tc = FALSE, !.intstatus = {}, !.counter = 0, !.inprog = FALSE, !.queue = NoCommand]

\* Wrong variant, for mutation: a pending interrupt survives.
HardResetKeepsInterrupt(e) ==
    [SoftReset(e) EXCEPT !.fifo = <<>>, !.ge = FALSE, !.resrept = FALSE]

HardReset(e) ==
    [SoftReset(e) EXCEPT !.fifo = <<>>, !.int = FALSE, !.ge = FALSE, !.resrept = FALSE]

(***************************************************************************)
(* The commands.  esp_finish_command, called by a command that is over at   *)
(* once, finds nothing waiting: the queue was emptied to start it.          *)
(***************************************************************************)

Nop(e, i) ==
    /\ esp' = [e EXCEPT !.inprog = FALSE] /\ intr' = i
    /\ UNCHANGED <<seltimer, deferred, disk>>

Flush(e, i) ==
    /\ esp' = [e EXCEPT !.inprog = FALSE, !.fifo = <<>>] /\ intr' = i
    /\ UNCHANGED <<seltimer, deferred, disk>>

ChipReset(e, i) ==
    /\ esp' = HardReset(e) /\ intr' = IntrClear(i, "scsi")
    /\ seltimer' = 0
    /\ UNCHANGED <<deferred, disk>>

BusReset(e, i) ==
    /\ seltimer' = 0
    /\ \/ /\ e.resrept
          /\ esp' = SoftReset(e) /\ intr' = i
          /\ UNCHANGED disk
       \/ /\ ~e.resrept
          /\ Raise(Cause(SoftReset(e), {"RST"}), i)
          /\ disk' = [disk EXCEPT !.phase = "MI"]
    /\ UNCHANGED deferred

\* No target answers: the cause can be read at once, the interrupt comes later.
SelectTimesOut(e, i) ==
    /\ ~e.busid
    /\ esp' = CommandCleared(Cause(e, {"DC"})) /\ intr' = i
    /\ seltimer' = SelDelay
    /\ disk' = [disk EXCEPT !.phase = "ST"]
    /\ UNCHANGED deferred

\* What the target takes for the descriptor block.  Anything but an identify
\* byte and a block makes it bytes nobody chose: left over from a dialog or,
\* when the FIFO is empty, an array that was never written.
BlockIn(fifo) ==
    IF Len(fifo) >= 2 /\ fifo[1] = Identify /\ fifo[2] \in Cdbs THEN {fifo[2]} ELSE Cdbs

\* The bytes after the block that are taken with it are lost, the rest stays.
SelectTakesCommand(e, i) ==
    /\ e.busid
    /\ seltimer' = 0
    /\ \E cdb \in BlockIn(e.fifo), failing \in CardFaults :
          disk' = ReceiveCommand(disk, cdb, failing)
    /\ \E taken \in {n \in 0..Len(e.fifo) : n >= 2 \/ n = Len(e.fifo)} :
          Raise(Cause(CommandCleared([e EXCEPT !.fifo = SubSeq(@, taken + 1, Len(@))]),
                      {"BS", "FC"}), i)
    /\ UNCHANGED deferred

\* A transfer by DMA is only noted down, and not even that if one is waiting.
TransferDma(e, i) ==
    /\ deferred' = IF deferred.ticks > 0 THEN deferred
                   ELSE [ticks |-> DmaDelay, in |-> disk.phase = "DI", count |-> e.counter]
    /\ esp' = e /\ intr' = i
    /\ UNCHANGED <<seltimer, disk>>

TransferByte(e, i) ==
    /\ \/ /\ disk.phase = "DI"
          /\ Raise(Cause(Pushed(e, DataByte), {"FC"}), PushedLine(e, i))
          /\ \E failing \in CardFaults :
                disk' = IF disk.size > 0 THEN ConsumeByte(disk, failing) ELSE disk
       \/ /\ disk.phase # "DI"
          /\ Raise(Cause(e, IF disk.phase \in {"MI", "ST"} THEN {"FC"} ELSE {"ILL"}), i)
          /\ UNCHANGED disk
    /\ UNCHANGED <<seltimer, deferred>>

CommandComplete(e, i) ==
    /\ LET e1 == Pushed(e, StatusByte)
           i1 == PushedLine(e, i)
       IN  Raise(Cause(Pushed(e1, MessageByte), {"FC"}), PushedLine(e1, i1))
    /\ disk' = [disk EXCEPT !.phase = "MI"]
    /\ UNCHANGED <<seltimer, deferred>>

MessageAccepted(e, i) ==
    /\ Raise(Cause(e, {"BS"}), i)
    /\ disk' = [disk EXCEPT !.phase = "ST"]
    /\ UNCHANGED <<seltimer, deferred>>

\* Data is thrown away until the count or the data phase ends.
TransferPad(e, i) ==
    /\ \E failing \in CardFaults :
          LET pad[n \in 0..e.counter] ==
                  IF n = 0 THEN [disk |-> disk, left |-> e.counter]
                  ELSE LET p == pad[n - 1]
                       IN  IF p.disk.phase # "DI" THEN p
                           ELSE [disk |-> IF p.disk.size > 0
                                          THEN ConsumeByte(p.disk, failing) ELSE p.disk,
                                 left |-> p.left - 1]
              end == pad[e.counter]
          IN  /\ disk' = end.disk
              /\ Raise(TransferEnded(e, end.left), i)
    /\ UNCHANGED <<seltimer, deferred>>

Refuse(e, i) ==
    /\ Raise(Cause(CommandCleared(e), e.intstatus \cup {"ILL"}), i)
    /\ UNCHANGED <<seltimer, deferred, disk>>

\* esp_start_command
Start(c, e0, i) ==
    LET e == [e0 EXCEPT !.inprog = TRUE,
                        !.tc = @ /\ ~c.dma,
                        !.counter = IF ~c.dma THEN @
                                    ELSE IF e0.count = 0 THEN MaxCount ELSE e0.count]
    IN  /\ \/ c.op = "nop" /\ Nop(e, i)
           \/ c.op = "flush" /\ Flush(e, i)
           \/ c.op = "reset" /\ ChipReset(e, i)
           \/ c.op = "busreset" /\ BusReset(e, i)
           \/ c.op = "sel" /\ (SelectTimesOut(e, i) \/ SelectTakesCommand(e, i))
           \/ c.op = "ti" /\ c.dma /\ TransferDma(e, i)
           \/ c.op = "ti" /\ ~c.dma /\ TransferByte(e, i)
           \/ c.op = "iccs" /\ CommandComplete(e, i)
           \/ c.op = "msgacc" /\ MessageAccepted(e, i)
           \/ c.op = "pad" /\ TransferPad(e, i)
           \/ c.op = "illegal" /\ Refuse(e, i)
        /\ UNCHANGED <<dma, mem>>

(***************************************************************************)
(* Register accesses of the guest.                                          *)
(***************************************************************************)

\* Resets start at once, anything else waits for the command in progress; a
\* command already waiting is overwritten.
WriteCommand(c) ==
    LET waiting == esp.queue # NoCommand
        e == [esp EXCEPT !.ge = @ \/ waiting]
    IN  \/ /\ c.op \in {"reset", "busreset"} \/ ~esp.inprog
           /\ Start(c, e, intr)
        \/ /\ c.op \notin {"reset", "busreset"} /\ esp.inprog
           /\ esp' = [e EXCEPT !.queue = c]
           /\ UNCHANGED <<seltimer, dma, deferred, disk, intr, mem>>

WriteFifo(item) ==
    /\ esp' = Pushed(esp, item) /\ intr' = PushedLine(esp, intr)
    /\ UNCHANGED <<seltimer, dma, deferred, disk, mem>>

ReadFifo ==
    /\ esp.fifo # <<>>
    /\ esp' = [esp EXCEPT !.fifo = Tail(@)]
    /\ UNCHANGED <<seltimer, dma, deferred, disk, intr, mem>>

\* Reading the cause ends the interrupt and the command in progress, and
\* starts the one waiting; without an interrupt it changes nothing.
ReadIntStatus ==
    /\ esp.int
    /\ LET e == [esp EXCEPT !.intstatus = {}, !.ge = FALSE, !.int = FALSE,
                            !.inprog = FALSE, !.queue = NoCommand]
           i == IntrClear(intr, "scsi")
       IN  \/ /\ esp.queue = NoCommand
              /\ esp' = e /\ intr' = i
              /\ UNCHANGED <<seltimer, dma, deferred, disk, mem>>
           \/ /\ esp.queue # NoCommand
              /\ Start(esp.queue, e, i)

\* Plain registers: transfer count, bus id, configuration.
WriteSetup(count, busid, resrept) ==
    /\ esp' = [esp EXCEPT !.count = count, !.busid = busid, !.resrept = resrept]
    /\ UNCHANGED <<seltimer, dma, deferred, disk, intr, mem>>

\* The interrupt line follows the enable bit while an interrupt is pending.
WriteDmaControl(enable, reset) ==
    LET e0 == [esp EXCEPT !.enable = enable]
        e == IF reset THEN HardReset(e0) ELSE e0
        i == IF reset THEN IntrClear(intr, "scsi") ELSE intr
    IN  /\ esp' = e
        /\ seltimer' = IF reset THEN 0 ELSE seltimer
        /\ intr' = IF ~enable THEN IntrClear(i, "scsi")
                   ELSE IF e.int THEN IntrSet(i, "scsi") ELSE i
        /\ UNCHANGED <<dma, deferred, disk, mem>>

WriteDmaWindow(window, chained) ==
    /\ dma' = IF chained THEN [dma EXCEPT !.start = window[1], !.stop = window[2]]
              ELSE [dma EXCEPT !.next = window[1], !.limit = window[2]]
    /\ UNCHANGED <<esp, seltimer, deferred, disk, intr, mem>>

\* next_scsi_dma_csr_write: flags is the set of bits written.  RESET forgets a
\* transfer that is waiting.
WriteCsr(flags) ==
    LET reset == "reset" \in flags
        clear == reset \/ "clrcomplete" \in flags
    IN  /\ dma' = [dma EXCEPT !.complete = @ /\ ~clear,
                              !.supdate = (@ /\ ~reset) \/ "setsupdate" \in flags,
                              !.enable = (@ /\ ~reset) \/ "setenable" \in flags]
        /\ deferred' = IF reset THEN [deferred EXCEPT !.ticks = 0] ELSE deferred
        /\ intr' = IF clear THEN IntrClear(intr, "scsi_dma") ELSE intr
        /\ UNCHANGED <<esp, seltimer, disk, mem>>

WriteMask(mask) ==
    /\ intr' = IntrMask(intr, mask)
    /\ UNCHANGED <<esp, seltimer, dma, deferred, disk, mem>>

(***************************************************************************)
(* The transfer itself, next_scsi_dma_transfer, a byte at a time.  A read   *)
(* stops at the end of the data, of the window or of the RAM; what is       *)
(* written is thrown away.                                                  *)
(***************************************************************************)

Available(d, in) == IF in THEN d.size ELSE d.writes

Moved(r, in, failing) ==
    LET at == r.dma.next
        onward == [r EXCEPT !.dma.next = @ + 1, !.left = @ - 1]
    IN  IF ~in THEN [onward EXCEPT !.disk = ConsumeWriteByte(@)]
        ELSE IF at >= RamTop THEN [r EXCEPT !.dma.busexc = TRUE]
        ELSE [onward EXCEPT !.mem[at] = NextByte(r.disk), !.disk = ConsumeByte(@, failing)]

\* Wrong variant, for mutation: one byte beyond the window.
CanMoveBeyond(r, in) ==
    r.left > 0 /\ r.dma.next <= r.dma.limit /\ Available(r.disk, in) > 0 /\ ~r.dma.busexc

CanMove(r, in) ==
    r.left > 0 /\ r.dma.next < r.dma.limit /\ Available(r.disk, in) > 0 /\ ~r.dma.busexc

\* The chained window replaces one that is full.
Chained(c) ==
    IF c.next >= c.limit /\ c.supdate
    THEN [c EXCEPT !.next = c.start, !.limit = c.stop, !.supdate = FALSE] ELSE c

\* A channel that is not enabled moves nothing, and its transfer is over.
\* Wrong variant, for mutation: it interrupts all the same.
NotMovedButDone(count) == [dma |-> dma, disk |-> disk, mem |-> mem, left |-> count, done |-> TRUE]

NotMoved(count) == [dma |-> dma, disk |-> disk, mem |-> mem, left |-> count, done |-> FALSE]

Transfer(in, count, failing) ==
    LET run[n \in 0..count] ==
            IF n = 0 THEN [dma |-> [dma EXCEPT !.busexc = FALSE], disk |-> disk, mem |-> mem, left |-> count]
            ELSE IF CanMove(run[n - 1], in) THEN Moved(run[n - 1], in, failing) ELSE run[n - 1]
        c == Chained(run[count].dma)
        done == run[count].left = 0 \/ c.next >= c.limit \/ c.busexc
    IN  IF ~dma.enable THEN NotMoved(count)
        ELSE [dma |-> IF done THEN [c EXCEPT !.complete = TRUE, !.enable = FALSE] ELSE c,
              disk |-> run[count].disk, mem |-> run[count].mem, left |-> run[count].left, done |-> done]

(***************************************************************************)
(* emu_instr_hook: the three countdowns, in this order.                     *)
(***************************************************************************)

\* Wrong variant, for mutation: the countdown ends without an interrupt.
SelectionTickSilently(e, i) ==
    /\ seltimer' = IF seltimer = 0 THEN 0 ELSE seltimer - 1
    /\ esp' = e /\ intr' = i

SelectionTick(e, i) ==
    /\ seltimer' = IF seltimer = 0 THEN 0 ELSE seltimer - 1
    /\ IF seltimer = 1 THEN Raise(e, i) ELSE esp' = e /\ intr' = i

DmaRuns ==
    /\ deferred.ticks = 1
    /\ \E failing \in CardFaults :
          LET t == Transfer(deferred.in, deferred.count, failing)
              i1 == IF t.done THEN IntrSet(IntrTick(intr), "scsi_dma") ELSE IntrTick(intr)
              e1 == TransferEnded(esp, t.left)
          IN  /\ dma' = t.dma /\ disk' = t.disk /\ mem' = t.mem
              /\ SelectionTick(Raised(e1), RaisedLine(e1, i1))
    /\ deferred' = [deferred EXCEPT !.ticks = 0]

DmaWaits ==
    /\ deferred.ticks # 1
    /\ deferred' = [deferred EXCEPT !.ticks = IF @ = 0 THEN 0 ELSE @ - 1]
    /\ SelectionTick(esp, IntrTick(intr))
    /\ UNCHANGED <<dma, disk, mem>>

InstructionHook == DmaRuns \/ DmaWaits

\* The main loop shows the pending level to the CPU after every slice.
EndOfSlice ==
    /\ intr' = Shown(intr)
    /\ UNCHANGED <<esp, seltimer, dma, deferred, disk, mem>>

Access ==
    \/ \E c \in Commands : WriteCommand(c)
    \/ \E item \in Cdbs \cup {Identify} : WriteFifo(item)
    \/ ReadFifo
    \/ ReadIntStatus
    \/ \E count \in Counts, busid, resrept \in BOOLEAN : WriteSetup(count, busid, resrept)
    \/ \E enable, reset \in BOOLEAN : WriteDmaControl(enable, reset)
    \/ \E window \in Windows, chained \in BOOLEAN : WriteDmaWindow(window, chained)
    \/ \E flags \in SUBSET {"reset", "setsupdate", "setenable", "clrcomplete"} : WriteCsr(flags)
    \/ \E mask \in SUBSET Lines : WriteMask(mask)

ScsiNext == Access \/ InstructionHook \/ EndOfSlice

ScsiSpec == ScsiInit /\ [][ScsiNext]_scsiVars

(***************************************************************************)
(* What holds whatever the guest does.                                      *)
(***************************************************************************)

ChipOK ==
    /\ esp \in [inprog : BOOLEAN, queue : Commands \cup {NoCommand}, int : BOOLEAN,
                ge : BOOLEAN, tc : BOOLEAN, intstatus : SUBSET Causes, counter : 0..MaxCount,
                fifo : Seq(Cdbs \cup {Identify, StatusByte, MessageByte, DataByte}),
                busid : BOOLEAN, resrept : BOOLEAN, enable : BOOLEAN, count : 0..MaxCount]
    /\ seltimer \in 0..SelDelay
    /\ intr \in Controllers

\* Types.  A command waits only behind another one, and is never a reset: the
\* test for a reset at the head of the queue (next_esp.c:308) cannot succeed.
TypeOK ==
    /\ ChipOK
    /\ esp.queue # NoCommand => esp.inprog
    /\ esp.queue.op \notin {"reset", "busreset"}
    /\ Len(esp.fifo) <= FifoSize
    /\ deferred \in [ticks : 0..DmaDelay, in : BOOLEAN, count : 0..MaxCount]
    /\ disk.phase \in Phases /\ disk.status \in {"good", "check"} /\ disk.size <= disk.limit
    /\ DOMAIN mem = 0..RamTop - 1

\* The interrupt line is a level: it is up exactly while the chip has an
\* interrupt pending and interrupts are enabled, however raising, reading,
\* enabling, disabling and resetting follow each other.
LineFollowsChip == "scsi" \in intr.status <=> esp.int /\ esp.enable

\* No interrupt is lost between the controller and the CPU: a pending one is
\* shown, or is being counted down to.
InterruptsArrive == NothingWithheld(intr)

\* The channel never interrupts for a transfer it does not report complete.
DmaLineMeansComplete == "scsi_dma" \in intr.status => dma.complete

\* A command in progress that nothing will ever end.
Stranded == esp.inprog /\ ~esp.int /\ seltimer = 0 /\ deferred.ticks = 0

\* Commands overlapping, waiting, overwritten, refused or timing out are never
\* stranded: only the guest cancelling the transfer of one does that.
OnlyCancellingStrands ==
    [][Stranded' => Stranded \/ (deferred.ticks > 0 /\ UNCHANGED <<esp, seltimer>>)]_scsiVars

\* RAM changes only when a transfer into memory is due, only in the window the
\* guest enabled, and only as many bytes as the chip's counter accounts for.
MemoryByTransferOnly ==
    [][\A a \in DOMAIN mem : mem'[a] # mem[a] =>
          /\ deferred.ticks = 1 /\ deferred.in /\ dma.enable
          /\ a \in dma.next..dma.limit - 1
          /\ a < dma.next + deferred.count - esp'.counter]_scsiVars

\* "Delivering too soon causes the interrupt to fire before the flag is set":
\* a SCSI interrupt first reaches the CPU when its countdown has ended.
NotTooSoon ==
    [][intr.irq = 0 /\ intr'.irq = 3 /\ "scsi" \in intr.mask => intr'.due = 0]_scsiVars

\* A target in a data phase has data to send or to take.
DataPhaseHasData ==
    /\ disk.phase = "DI" => disk.size > 0
    /\ disk.phase = "DO" => disk.writes > 0
=============================================================================
