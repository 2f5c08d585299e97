---------------------------- MODULE NextScsiProofs ----------------------------
(***************************************************************************)
(* Theorems about NextScsi, for every guest, disk, card, delay and memory:  *)
(* the types of all its devices, the interrupt line that follows the chip,  *)
(* interrupts that reach the processor, commands that are never left with   *)
(* nothing to end them, and the memory a transfer may touch.                *)
(***************************************************************************)
EXTENDS NextScsi, WellFoundedInduction, SequenceTheorems, TLAPS

-----------------------------------------------------------------------------
(* The interrupt controller                                                *)

\* What holds of the controller between two of its operations.
Sound(i) == i \in Controllers /\ NothingWithheld(i)

LEMMA IplRange == \A status, mask : PendingIpl(status, mask) \in {0, 3, 6}
BY DEF PendingIpl

LEMMA ShownSound ==
    ASSUME NEW i \in Controllers
    PROVE  Sound(Shown(i)) /\ Shown(i).status = i.status
BY IplRange DEF Controllers, Sound, Shown, NothingWithheld

LEMMA ClearSound ==
    ASSUME NEW i \in Controllers, NEW line \in Lines
    PROVE  Sound(IntrClear(i, line)) /\ IntrClear(i, line).status = i.status \ {line}
<1> DEFINE j == [i EXCEPT !.status = @ \ {line}, !.due = IF line = "scsi" THEN 0 ELSE @]
<1>1. j \in Controllers /\ j.status = i.status \ {line}
  <2>1. (IF line = "scsi" THEN 0 ELSE i.due) \in 0..IrqDelay
    BY IrqAssumption DEF Controllers
  <2>2. j = [i EXCEPT !.status = i.status \ {line}, !.due = IF line = "scsi" THEN 0 ELSE i.due]
    OBVIOUS
  <2> QED
    BY <2>1, <2>2 DEF Controllers
<1>2. IntrClear(i, line) = Shown(j)
  BY DEF IntrClear
<1> QED
  BY <1>1, <1>2, ShownSound

LEMMA MaskSound ==
    ASSUME NEW i \in Controllers, NEW mask \in SUBSET Lines
    PROVE  Sound(IntrMask(i, mask)) /\ IntrMask(i, mask).status = i.status
<1> DEFINE j == [i EXCEPT !.mask = mask]
<1>1. j \in Controllers /\ j.status = i.status
  BY DEF Controllers
<1>2. IntrMask(i, mask) = Shown(j)
  BY DEF IntrMask
<1> QED
  BY <1>1, <1>2, ShownSound

LEMMA TickSound ==
    ASSUME NEW i, Sound(i)
    PROVE  Sound(IntrTick(i)) /\ IntrTick(i).status = i.status
<1>1. CASE i.due = 0
  BY <1>1 DEF IntrTick
<1>2. CASE i.due = 1
  <2> DEFINE j == [i EXCEPT !.due = 0]
  <2>1. j \in Controllers /\ j.status = i.status
    BY IrqAssumption DEF Sound, Controllers
  <2> QED
    BY <1>2, <2>1, ShownSound DEF IntrTick
<1>3. CASE i.due > 1
  <2> DEFINE j == [i EXCEPT !.due = @ - 1]
  <2>1. /\ j \in Controllers /\ j.due > 0
        /\ j.status = i.status /\ j.mask = i.mask /\ j.irq = i.irq
    BY <1>3, IrqAssumption DEF Sound, Controllers
  <2>2. IntrTick(i) = j
    BY <1>3 DEF IntrTick, Sound, Controllers
  <2> QED
    BY <2>1, <2>2, <1>3 DEF Sound, NothingWithheld
<1> QED
  BY <1>1, <1>2, <1>3, IrqAssumption DEF Sound, Controllers

LEMMA SetSound ==
    ASSUME NEW i, Sound(i), NEW line \in Lines
    PROVE  Sound(IntrSet(i, line)) /\ IntrSet(i, line).status = i.status \cup {line}
<1> DEFINE s == [i EXCEPT !.status = @ \cup {line}]
<1>1. /\ s \in Controllers /\ s.status = i.status \cup {line}
      /\ s.mask = i.mask /\ s.irq = i.irq /\ s.due = i.due
  BY DEF Sound, Controllers
<1>2. CASE line = "scsi"
  <2> DEFINE t == [s EXCEPT !.due = IF @ = 0 THEN IrqDelay ELSE @]
  <2>1. IntrSet(i, line) = t
    BY <1>2 DEF IntrSet
  <2>2. /\ t \in Controllers /\ t.due > 0
        /\ t.status = i.status \cup {"scsi"} /\ t.mask = i.mask /\ t.irq = i.irq
    <3>1. (IF s.due = 0 THEN IrqDelay ELSE s.due) \in (0..IrqDelay) \ {0}
      BY <1>1, IrqAssumption DEF Controllers
    <3>2. t = [s EXCEPT !.due = IF s.due = 0 THEN IrqDelay ELSE s.due]
      OBVIOUS
    <3> HIDE DEF s
    <3> QED
      BY <1>1, <1>2, <3>1, <3>2, IrqAssumption DEF Controllers
  <2>3. CASE "scsi" \in i.status
    <3>1. t.status = i.status
      BY <2>2, <2>3
    <3> QED
      BY <2>1, <2>2, <3>1, <1>2 DEF Sound, NothingWithheld
  <2>4. CASE "scsi" \notin i.status
    <3>1. t.status \ {"scsi"} = i.status
      BY <2>2, <2>4
    <3>2. i.irq = PendingIpl(i.status, i.mask)
      BY <2>4 DEF Sound, NothingWithheld
    <3> QED
      BY <2>1, <2>2, <3>1, <3>2, <1>2 DEF Sound, NothingWithheld
  <2> QED
    BY <2>3, <2>4
<1>3. CASE line # "scsi"
  BY <1>1, <1>3, ShownSound DEF IntrSet
<1> QED
  BY <1>2, <1>3

-----------------------------------------------------------------------------
(* The chip and its line                                                   *)

ChipFields == {"inprog", "queue", "int", "ge", "tc", "intstatus", "counter", "fifo", "busid",
               "resrept", "enable", "count"}

\* The part of the chip's type that the arguments about the line need.
Chip(e) ==
    /\ e = [f \in ChipFields |-> e[f]]
    /\ e.int \in BOOLEAN /\ e.enable \in BOOLEAN /\ e.inprog \in BOOLEAN

Agree(e, i) == Chip(e) /\ Sound(i) /\ ("scsi" \in i.status <=> e.int /\ e.enable)

\* What the line depends on is the same in both.
Alike(e, f) == Chip(f) /\ f.int = e.int /\ f.enable = e.enable

LEMMA AlikeAgrees ==
    ASSUME NEW e, NEW f, NEW i, Agree(e, i), Alike(e, f)
    PROVE  Agree(f, i)
BY DEF Agree, Alike

LEMMA RaiseAgrees ==
    ASSUME NEW e, NEW i, Agree(e, i)
    PROVE  Agree(Raised(e), RaisedLine(e, i)) /\ Raised(e).int
<1>1. Chip(Raised(e)) /\ Raised(e).int /\ Raised(e).enable = e.enable
  BY DEF Agree, Chip, Raised, ChipFields
<1>2. CASE e.enable /\ ~e.int
  BY <1>1, <1>2, SetSound DEF Agree, Chip, RaisedLine, Lines
<1>3. CASE ~(e.enable /\ ~e.int)
  BY <1>1, <1>3 DEF Agree, Chip, RaisedLine
<1> QED
  BY <1>1, <1>2, <1>3

LEMMA PartsAlike ==
    ASSUME NEW e, Chip(e)
    PROVE  /\ \A causes : Alike(e, Cause(e, causes))
           /\ Alike(e, CommandCleared(e))
           /\ Alike(e, SoftReset(e)) /\ ~SoftReset(e).inprog
<1>1. ASSUME NEW causes PROVE Alike(e, Cause(e, causes))
  BY DEF Alike, Chip, Cause, ChipFields
<1>2. Alike(e, CommandCleared(e))
  BY DEF Alike, Chip, CommandCleared, ChipFields
<1>3. Alike(e, SoftReset(e)) /\ ~SoftReset(e).inprog
  BY DEF Alike, Chip, SoftReset, ChipFields
<1> QED
  BY <1>1, <1>2, <1>3

LEMMA CauseAgrees ==
    ASSUME NEW e, NEW i, Agree(e, i)
    PROVE  Agree(CommandCleared(e), i) /\ \A causes : Agree(Cause(e, causes), i)
BY PartsAlike, AlikeAgrees DEF Agree

LEMMA HardResetQuiets ==
    ASSUME NEW e, Chip(e)
    PROVE  /\ Chip(HardReset(e)) /\ ~HardReset(e).int /\ ~HardReset(e).inprog
           /\ HardReset(e).enable = e.enable
<1>1. Chip(SoftReset(e)) /\ SoftReset(e).enable = e.enable /\ ~SoftReset(e).inprog
  BY PartsAlike DEF Alike
<1> QED
  BY <1>1 DEF HardReset, Chip, ChipFields

LEMMA TransferEndedAlike ==
    ASSUME NEW e, Chip(e), NEW left
    PROVE  Alike(e, TransferEnded(e, left))
<1>1. CASE left = 0
  <2> DEFINE f == [e EXCEPT !.counter = 0, !.tc = TRUE]
  <2>1. Alike(e, f)
    BY DEF Alike, Chip, ChipFields
  <2> QED
    BY <1>1, <2>1, PartsAlike DEF TransferEnded, Alike
<1>2. CASE left # 0
  <2> DEFINE f == [e EXCEPT !.counter = left]
  <2>1. Alike(e, f)
    BY DEF Alike, Chip, ChipFields
  <2>2. Alike(f, CommandCleared([e EXCEPT !.counter = left]))
    BY <2>1, PartsAlike DEF Alike
  <2> QED
    BY <1>2, <2>1, <2>2, PartsAlike DEF TransferEnded, Alike
<1> QED
  BY <1>1, <1>2

\* A byte pushed to a full FIFO raises an interrupt.
LEMMA PushAgrees ==
    ASSUME NEW e, NEW i, Agree(e, i), NEW item
    PROVE  Agree(Pushed(e, item), PushedLine(e, i))
<1>1. CASE Full(e)
  <2> DEFINE f == [e EXCEPT !.fifo[FifoSize] = item, !.ge = TRUE]
  <2>1. Alike(e, f)
    BY DEF Agree, Alike, Chip, ChipFields
  <2>2. Agree(f, i)
    BY <2>1, AlikeAgrees
  <2>3. RaisedLine(f, i) = RaisedLine(e, i)
    BY <2>1 DEF Alike, RaisedLine
  <2> QED
    BY <1>1, <2>2, <2>3, RaiseAgrees DEF Pushed, PushedLine
<1>2. CASE ~Full(e)
  <2> DEFINE f == [e EXCEPT !.fifo = Append(@, item)]
  <2>1. Alike(e, f)
    BY DEF Agree, Alike, Chip, ChipFields
  <2> QED
    BY <1>2, <2>1, AlikeAgrees DEF Pushed, PushedLine
<1> QED
  BY <1>1, <1>2

-----------------------------------------------------------------------------
(* The commands                                                            *)

\* The countdowns of the deferred transfer and of a selection.
Timers ==
    /\ seltimer \in Nat /\ deferred.ticks \in Nat
    /\ deferred = [f \in {"ticks", "in", "count"} |-> deferred[f]]

\* A command is over at once, or raises an interrupt, or starts a countdown.
Proper == Agree(esp', intr') /\ Timers' /\ ~Stranded'

LEMMA RaiseProper ==
    ASSUME NEW e, NEW i, Agree(e, i), Raise(e, i), Timers, seltimer' \in Nat, UNCHANGED deferred
    PROVE  Proper
BY RaiseAgrees DEF Raise, Proper, Timers, Stranded

LEMMA PlainCommands ==
    ASSUME NEW e, NEW i, Agree(e, i), Timers, Nop(e, i) \/ Flush(e, i) \/ Refuse(e, i)
    PROVE  Proper
<1>1. CASE Nop(e, i) \/ Flush(e, i)
  <2>1. Alike(e, esp') /\ ~esp'.inprog /\ intr' = i /\ UNCHANGED <<seltimer, deferred>>
    BY <1>1 DEF Nop, Flush, Agree, Alike, Chip, ChipFields
  <2> QED
    BY <2>1, AlikeAgrees DEF Proper, Timers, Stranded
<1>2. CASE Refuse(e, i)
  <2> DEFINE f == Cause(CommandCleared(e), e.intstatus \cup {"ILL"})
  <2>1. Agree(f, i)
    BY PartsAlike, AlikeAgrees DEF Agree, Alike
  <2>2. Raise(f, i) /\ UNCHANGED <<seltimer, deferred>>
    BY <1>2 DEF Refuse
  <2> HIDE DEF f
  <2> QED
    BY <2>1, <2>2, RaiseProper DEF Timers
<1> QED
  BY <1>1, <1>2

LEMMA Resets ==
    ASSUME NEW e, NEW i, Agree(e, i), Timers, ChipReset(e, i) \/ BusReset(e, i)
    PROVE  Proper
<1>1. CASE ChipReset(e, i)
  <2>1. esp' = HardReset(e) /\ intr' = IntrClear(i, "scsi") /\ seltimer' = 0 /\ UNCHANGED deferred
    BY <1>1 DEF ChipReset
  <2>2. Sound(intr') /\ "scsi" \notin intr'.status
    BY <2>1, ClearSound DEF Agree, Sound, Lines
  <2> QED
    BY <2>1, <2>2, HardResetQuiets DEF Proper, Agree, Timers, Stranded
<1>2. CASE BusReset(e, i)
  <2>1. seltimer' = 0 /\ UNCHANGED deferred
    BY <1>2 DEF BusReset
  <2>2. Agree(SoftReset(e), i) /\ ~SoftReset(e).inprog
    BY PartsAlike, AlikeAgrees DEF Agree
  <2>3. CASE e.resrept
    BY <1>2, <2>1, <2>2, <2>3 DEF BusReset, Proper, Timers, Stranded
  <2>4. CASE ~e.resrept
    <3>1. Agree(Cause(SoftReset(e), {"RST"}), i)
      BY <2>2, PartsAlike, AlikeAgrees DEF Agree
    <3> QED
      BY <1>2, <2>1, <2>4, <3>1, RaiseProper DEF BusReset
  <2> QED
    BY <2>3, <2>4
<1> QED
  BY <1>1, <1>2

LEMMA Selections ==
    ASSUME NEW e, NEW i, Agree(e, i), Timers, SelectTimesOut(e, i) \/ SelectTakesCommand(e, i)
    PROVE  Proper
<1>1. CASE SelectTimesOut(e, i)
  <2>1. Agree(CommandCleared(Cause(e, {"DC"})), i)
    BY PartsAlike, AlikeAgrees DEF Agree, Alike
  <2>2. seltimer' = SelDelay /\ UNCHANGED deferred
    BY <1>1 DEF SelectTimesOut
  <2> QED
    BY <1>1, <2>1, <2>2, ScsiAssumption DEF SelectTimesOut, Proper, Timers, Stranded
<1>2. CASE SelectTakesCommand(e, i)
  <2>1. PICK n : Raise(Cause(CommandCleared([e EXCEPT !.fifo = SubSeq(@, n + 1, Len(@))]),
                             {"BS", "FC"}), i)
    BY <1>2 DEF SelectTakesCommand
  <2> DEFINE f == [e EXCEPT !.fifo = SubSeq(@, n + 1, Len(@))]
  <2>2. Alike(e, f)
    BY DEF Agree, Alike, Chip, ChipFields
  <2> HIDE DEF f
  <2>3. Agree(Cause(CommandCleared(f), {"BS", "FC"}), i)
    <3>1. Agree(f, i)
      BY <2>2, AlikeAgrees
    <3>2. Agree(CommandCleared(f), i)
      BY <3>1, CauseAgrees
    <3> QED
      BY <3>2, CauseAgrees
  <2>4. Raise(Cause(CommandCleared(f), {"BS", "FC"}), i)
    BY <2>1 DEF f
  <2>5. seltimer' \in Nat /\ UNCHANGED deferred
    BY <1>2 DEF SelectTakesCommand
  <2> QED
    BY <2>3, <2>4, <2>5, RaiseProper
<1> QED
  BY <1>1, <1>2

LEMMA Transfers ==
    ASSUME NEW e, NEW i, Agree(e, i), Timers, TransferDma(e, i) \/ TransferByte(e, i) \/ TransferPad(e, i)
    PROVE  Proper
<1>1. CASE TransferDma(e, i)
  <2>1. esp' = e /\ intr' = i /\ UNCHANGED seltimer
    BY <1>1 DEF TransferDma
  <2>2. Timers' /\ deferred'.ticks # 0
    <3>1. CASE deferred.ticks > 0
      BY <1>1, <3>1, <2>1 DEF TransferDma, Timers
    <3>2. CASE ~(deferred.ticks > 0)
      BY <1>1, <3>2, <2>1, ScsiAssumption DEF TransferDma, Timers
    <3> QED
      BY <3>1, <3>2
  <2> QED
    BY <2>1, <2>2 DEF Proper, Stranded
<1>2. CASE TransferByte(e, i)
  <2>1. UNCHANGED <<seltimer, deferred>>
    BY <1>2 DEF TransferByte
  <2>2. CASE disk.phase = "DI"
    <3>1. Agree(Cause(Pushed(e, DataByte), {"FC"}), PushedLine(e, i))
      <4>1. Agree(Pushed(e, DataByte), PushedLine(e, i))
        BY PushAgrees
      <4> QED
        BY <4>1, CauseAgrees
    <3> QED
      BY <1>2, <2>1, <2>2, <3>1, RaiseProper DEF TransferByte, Timers
  <2>3. CASE disk.phase # "DI"
    <3>1. PICK causes : Raise(Cause(e, causes), i)
      BY <1>2, <2>3 DEF TransferByte
    <3>2. Agree(Cause(e, causes), i)
      BY CauseAgrees
    <3> QED
      BY <2>1, <3>1, <3>2, RaiseProper DEF Timers
  <2> QED
    BY <2>2, <2>3
<1>3. CASE TransferPad(e, i)
  <2>1. PICK left : Raise(TransferEnded(e, left), i)
    BY <1>3 DEF TransferPad
  <2>2. Agree(TransferEnded(e, left), i)
    BY TransferEndedAlike, AlikeAgrees DEF Agree
  <2>3. UNCHANGED <<seltimer, deferred>>
    BY <1>3 DEF TransferPad
  <2> QED
    BY <2>1, <2>2, <2>3, RaiseProper DEF Timers
<1> QED
  BY <1>1, <1>2, <1>3

LEMMA Endings ==
    ASSUME NEW e, NEW i, Agree(e, i), Timers, CommandComplete(e, i) \/ MessageAccepted(e, i)
    PROVE  Proper
<1>1. CASE CommandComplete(e, i)
  <2> DEFINE e1 == Pushed(e, StatusByte)
             i1 == PushedLine(e, i)
  <2>1. Agree(e1, i1)
    BY PushAgrees
  <2>2. /\ Raise(Cause(Pushed(e1, MessageByte), {"FC"}), PushedLine(e1, i1))
        /\ UNCHANGED <<seltimer, deferred>>
    BY <1>1 DEF CommandComplete
  <2> HIDE DEF e1, i1
  <2>3. Agree(Cause(Pushed(e1, MessageByte), {"FC"}), PushedLine(e1, i1))
    <3>1. Agree(Pushed(e1, MessageByte), PushedLine(e1, i1))
      BY <2>1, PushAgrees
    <3> QED
      BY <3>1, CauseAgrees
  <2> QED
    BY <2>2, <2>3, RaiseProper DEF Timers
<1>2. CASE MessageAccepted(e, i)
  <2>1. Agree(Cause(e, {"BS"}), i)
    BY PartsAlike, AlikeAgrees DEF Agree
  <2> QED
    BY <1>2, <2>1, RaiseProper DEF MessageAccepted, Timers
<1> QED
  BY <1>1, <1>2

LEMMA StartProper ==
    ASSUME NEW c, NEW e0, NEW i, Agree(e0, i), Timers, Start(c, e0, i)
    PROVE  Proper
<1> DEFINE e == [e0 EXCEPT !.inprog = TRUE,
                           !.tc = @ /\ ~c.dma,
                           !.counter = IF ~c.dma THEN @
                                       ELSE IF e0.count = 0 THEN MaxCount ELSE e0.count]
<1>1. Agree(e, i)
  <2>1. Alike(e0, e)
    BY DEF Agree, Alike, Chip, ChipFields
  <2> QED
    BY <2>1, AlikeAgrees
<1>2. \/ Nop(e, i) \/ Flush(e, i) \/ Refuse(e, i)
      \/ ChipReset(e, i) \/ BusReset(e, i)
      \/ SelectTimesOut(e, i) \/ SelectTakesCommand(e, i)
      \/ TransferDma(e, i) \/ TransferByte(e, i) \/ TransferPad(e, i)
      \/ CommandComplete(e, i) \/ MessageAccepted(e, i)
  BY DEF Start
<1> HIDE DEF e
<1> QED
  BY <1>1, <1>2, PlainCommands, Resets, Selections, Transfers, Endings

-----------------------------------------------------------------------------
(* The steps                                                               *)

ScsiInv == Agree(esp, intr) /\ Timers

\* Any guest there is: one whose counts and windows are not bounded either.
Guest ==
    \/ \E c \in Commands : WriteCommand(c)
    \/ \E item \in Cdbs \cup {Identify} : WriteFifo(item)
    \/ ReadFifo
    \/ ReadIntStatus
    \/ \E count \in 0..MaxCount, busid, resrept \in BOOLEAN : WriteSetup(count, busid, resrept)
    \/ \E enable, reset \in BOOLEAN : WriteDmaControl(enable, reset)
    \/ \E window \in Nat \X Nat, chained \in BOOLEAN : WriteDmaWindow(window, chained)
    \/ \E flags : WriteCsr(flags)
    \/ \E mask \in SUBSET Lines : WriteMask(mask)

GuestNext == Guest \/ InstructionHook \/ EndOfSlice

LEMMA AccessIsGuests == [ScsiNext]_scsiVars => [GuestNext]_scsiVars
<1>1. Access => Guest
  <2>1. Counts \subseteq 0..MaxCount /\ Windows \subseteq Nat \X Nat
    BY ScsiAssumption
  <2> QED
    BY <2>1 DEF Access, Guest
<1> QED
  BY <1>1 DEF ScsiNext, GuestNext

\* A step that leaves a command without an end cancels its transfer.
Cancels == deferred.ticks > 0 /\ UNCHANGED <<esp, seltimer>>

LEMMA WriteCommandStep ==
    ASSUME ScsiInv, NEW c, WriteCommand(c)
    PROVE  ScsiInv' /\ (Stranded' => Stranded)
<1> DEFINE e == [esp EXCEPT !.ge = @ \/ esp.queue # NoCommand]
<1>1. Alike(esp, e) /\ e.inprog = esp.inprog
  BY DEF ScsiInv, Agree, Alike, Chip, ChipFields
<1>2. CASE Start(c, e, intr)
  <2>1. Agree(e, intr) /\ Timers
    BY <1>1, AlikeAgrees DEF ScsiInv
  <2> HIDE DEF e
  <2> QED
    BY <1>2, <2>1, StartProper DEF Proper, ScsiInv
<1>3. CASE esp' = [e EXCEPT !.queue = c] /\ UNCHANGED <<seltimer, deferred, intr>>
  <2>1. Alike(esp, esp') /\ esp'.inprog = esp.inprog
    BY <1>1, <1>3 DEF Alike, Chip, ChipFields
  <2> QED
    BY <1>3, <2>1, AlikeAgrees DEF ScsiInv, Alike, Timers, Stranded
<1> QED
  BY <1>2, <1>3 DEF WriteCommand

\* Accesses that touch neither the line nor a countdown.
LEMMA PlainAccess ==
    ASSUME ScsiInv, Alike(esp, esp'), esp'.inprog = esp.inprog, UNCHANGED <<seltimer, deferred, intr>>
    PROVE  ScsiInv' /\ (Stranded' => Stranded)
BY AlikeAgrees DEF ScsiInv, Alike, Timers, Stranded

LEMMA FifoStep ==
    ASSUME ScsiInv, ReadFifo \/ \E item : WriteFifo(item)
    PROVE  ScsiInv' /\ (Stranded' => Stranded)
<1>1. CASE ReadFifo
  <2>1. Alike(esp, esp') /\ esp'.inprog = esp.inprog /\ UNCHANGED <<seltimer, deferred, intr>>
    BY <1>1 DEF ReadFifo, ScsiInv, Agree, Alike, Chip, ChipFields
  <2> QED
    BY <2>1, PlainAccess
<1>2. ASSUME NEW item, WriteFifo(item) PROVE ScsiInv' /\ (Stranded' => Stranded)
  <2>1. esp' = Pushed(esp, item) /\ intr' = PushedLine(esp, intr) /\ UNCHANGED <<seltimer, deferred>>
    BY <1>2 DEF WriteFifo
  <2>2. Agree(esp', intr')
    BY <2>1, PushAgrees DEF ScsiInv
  <2>3. esp'.inprog = esp.inprog /\ (esp.int => esp'.int)
    <3>1. CASE Full(esp)
      BY <2>1, <3>1 DEF Pushed, Raised, ScsiInv, Agree, Chip, ChipFields
    <3>2. CASE ~Full(esp)
      BY <2>1, <3>2 DEF Pushed, ScsiInv, Agree, Chip, ChipFields
    <3> QED
      BY <3>1, <3>2
  <2> QED
    BY <2>1, <2>2, <2>3 DEF ScsiInv, Timers, Stranded
<1> QED
  BY <1>1, <1>2

LEMMA ReadIntStatusStep ==
    ASSUME ScsiInv, ReadIntStatus
    PROVE  ScsiInv' /\ ~Stranded'
<1> DEFINE e == [esp EXCEPT !.intstatus = {}, !.ge = FALSE, !.int = FALSE,
                            !.inprog = FALSE, !.queue = NoCommand]
           i == IntrClear(intr, "scsi")
<1>1. Chip(e) /\ ~e.int /\ ~e.inprog
  BY DEF ScsiInv, Agree, Chip, ChipFields
<1>2. Sound(i) /\ "scsi" \notin i.status
  BY ClearSound DEF ScsiInv, Agree, Sound, Lines
<1>3. Agree(e, i) /\ Timers
  BY <1>1, <1>2 DEF Agree, ScsiInv
<1>4. \/ esp' = e /\ intr' = i /\ UNCHANGED <<seltimer, deferred>>
      \/ Start(esp.queue, e, i)
  BY DEF ReadIntStatus
<1> HIDE DEF e, i
<1> QED
  BY <1>1, <1>3, <1>4, StartProper DEF ScsiInv, Proper, Timers, Stranded

LEMMA SetupStep ==
    ASSUME ScsiInv, NEW count, NEW busid, NEW resrept, WriteSetup(count, busid, resrept)
    PROVE  ScsiInv' /\ (Stranded' => Stranded)
<1>1. Alike(esp, esp') /\ esp'.inprog = esp.inprog /\ UNCHANGED <<seltimer, deferred, intr>>
  BY DEF WriteSetup, ScsiInv, Agree, Alike, Chip, ChipFields
<1> QED
  BY <1>1, PlainAccess

\* Enabling shows a pending interrupt, disabling withdraws it.
LEMMA DmaControlStep ==
    ASSUME ScsiInv, NEW enable \in BOOLEAN, NEW reset \in BOOLEAN, WriteDmaControl(enable, reset)
    PROVE  ScsiInv' /\ (Stranded' => Stranded)
<1> DEFINE e0 == [esp EXCEPT !.enable = enable]
           e == IF reset THEN HardReset(e0) ELSE e0
           i == IF reset THEN IntrClear(intr, "scsi") ELSE intr
<1>1. Chip(e0) /\ e0.enable = enable /\ e0.int = esp.int /\ e0.inprog = esp.inprog
  BY DEF ScsiInv, Agree, Chip, ChipFields
<1>2. /\ Chip(e) /\ e.enable = enable
      /\ reset => ~e.int /\ ~e.inprog
      /\ ~reset => e.int = esp.int /\ e.inprog = esp.inprog
  <2> HIDE DEF e0
  <2> QED
    BY <1>1, HardResetQuiets
<1>3. Sound(i)
  BY ClearSound DEF ScsiInv, Agree, Sound, Lines
<1>4. /\ esp' = e /\ UNCHANGED deferred
      /\ seltimer' = IF reset THEN 0 ELSE seltimer
      /\ intr' = IF ~enable THEN IntrClear(i, "scsi")
                 ELSE IF e.int THEN IntrSet(i, "scsi") ELSE i
  BY DEF WriteDmaControl
<1>5. ~reset => i = intr
  OBVIOUS
<1>6. reset => "scsi" \notin i.status
  BY ClearSound DEF ScsiInv, Agree, Sound, Lines
<1> HIDE DEF e0, e, i
<1>7. Sound(intr') /\ ("scsi" \in intr'.status <=> e.int /\ enable)
  <2>1. CASE ~enable
    BY <1>3, <1>4, <2>1, ClearSound DEF Sound, Lines
  <2>2. CASE enable /\ e.int
    BY <1>3, <1>4, <2>2, SetSound DEF Lines
  <2>3. CASE enable /\ ~e.int
    BY <1>2, <1>3, <1>4, <1>5, <1>6, <2>3 DEF ScsiInv, Agree
  <2> QED
    BY <2>1, <2>2, <2>3
<1> QED
  BY <1>2, <1>4, <1>7 DEF ScsiInv, Agree, Timers, Stranded

\* The controller changes, but not its SCSI line; the chip does not.
LEMMA OtherLines ==
    ASSUME ScsiInv, Sound(intr'), "scsi" \in intr'.status <=> "scsi" \in intr.status,
           UNCHANGED <<esp, seltimer, deferred>>
    PROVE  ScsiInv' /\ (Stranded' => Stranded)
BY DEF ScsiInv, Agree, Timers, Stranded

LEMMA ChannelStep ==
    ASSUME ScsiInv, (\E window, chained : WriteDmaWindow(window, chained)) \/ \E flags : WriteCsr(flags)
    PROVE  ScsiInv' /\ (Stranded' => Stranded \/ Cancels)
<1>1. CASE \E window, chained : WriteDmaWindow(window, chained)
  BY <1>1 DEF WriteDmaWindow, ScsiInv, Timers, Stranded
<1>2. ASSUME NEW flags, WriteCsr(flags) PROVE ScsiInv' /\ (Stranded' => Stranded \/ Cancels)
  <2>1. UNCHANGED <<esp, seltimer>>
    BY <1>2 DEF WriteCsr
  <2>2. deferred' = deferred \/ deferred' = [deferred EXCEPT !.ticks = 0]
    BY <1>2 DEF WriteCsr
  <2>3. Timers' /\ (deferred'.ticks = 0 => deferred.ticks = 0 \/ deferred.ticks > 0)
    BY <2>1, <2>2 DEF ScsiInv, Timers
  <2>4. intr' = intr \/ intr' = IntrClear(intr, "scsi_dma")
    BY <1>2 DEF WriteCsr
  <2>5. Sound(intr') /\ ("scsi" \in intr'.status <=> "scsi" \in intr.status)
    BY <2>4, ClearSound DEF ScsiInv, Agree, Sound, Lines
  <2> QED
    BY <2>1, <2>3, <2>5 DEF ScsiInv, Agree, Stranded, Cancels
<1> QED
  BY <1>1, <1>2

LEMMA MaskStep ==
    ASSUME ScsiInv, EndOfSlice \/ \E mask \in SUBSET Lines : WriteMask(mask)
    PROVE  ScsiInv' /\ (Stranded' => Stranded)
<1>1. Sound(intr') /\ intr'.status = intr.status /\ UNCHANGED <<esp, seltimer, deferred>>
  BY ShownSound, MaskSound DEF EndOfSlice, WriteMask, ScsiInv, Agree, Sound
<1> QED
  BY <1>1, OtherLines

\* The countdown of a selection, after whatever else the hook has done.
LEMMA SelectionStep ==
    ASSUME NEW e, NEW i, Agree(e, i), Timers, SelectionTick(e, i)
    PROVE  /\ Agree(esp', intr') /\ seltimer' \in Nat
           /\ \/ esp'.int
              \/ esp' = e /\ (seltimer' = 0 => seltimer = 0)
<1>1. seltimer' \in Nat
  BY DEF SelectionTick, Timers
<1>2. CASE seltimer = 1
  BY <1>1, <1>2, RaiseAgrees DEF SelectionTick, Raise
<1>3. CASE seltimer # 1
  BY <1>1, <1>3 DEF SelectionTick, Timers
<1> QED
  BY <1>2, <1>3

LEMMA HookStep ==
    ASSUME ScsiInv, InstructionHook
    PROVE  ScsiInv' /\ (Stranded' => Stranded)
<1>1. Sound(IntrTick(intr)) /\ IntrTick(intr).status = intr.status
  BY TickSound DEF ScsiInv, Agree
<1>2. CASE DmaRuns
  <2>1. PICK failing :
           LET t == Transfer(deferred.in, deferred.count, failing)
               i1 == IF t.done THEN IntrSet(IntrTick(intr), "scsi_dma") ELSE IntrTick(intr)
               e1 == TransferEnded(esp, t.left)
           IN  SelectionTick(Raised(e1), RaisedLine(e1, i1))
    BY <1>2 DEF DmaRuns
  <2> DEFINE t == Transfer(deferred.in, deferred.count, failing)
             i1 == IF t.done THEN IntrSet(IntrTick(intr), "scsi_dma") ELSE IntrTick(intr)
             e1 == TransferEnded(esp, t.left)
  <2>2. SelectionTick(Raised(e1), RaisedLine(e1, i1))
    BY <2>1
  <2>3. Sound(i1) /\ ("scsi" \in i1.status <=> "scsi" \in intr.status)
    BY <1>1, SetSound DEF Lines
  <2>4. Alike(esp, e1)
    BY TransferEndedAlike DEF ScsiInv, Agree
  <2> HIDE DEF t, i1, e1
  <2>5. Agree(e1, i1)
    BY <2>3, <2>4 DEF ScsiInv, Agree, Alike
  <2>6. Agree(Raised(e1), RaisedLine(e1, i1)) /\ Raised(e1).int
    BY <2>5, RaiseAgrees
  <2>7. Agree(esp', intr') /\ seltimer' \in Nat /\ esp'.int
    BY <2>2, <2>6, SelectionStep DEF ScsiInv
  <2>8. Timers'
    BY <1>2, <2>7 DEF DmaRuns, ScsiInv, Timers
  <2> QED
    BY <2>7, <2>8 DEF ScsiInv, Stranded
<1>3. CASE DmaWaits
  <2>1. Agree(esp, IntrTick(intr)) /\ SelectionTick(esp, IntrTick(intr))
    BY <1>1, <1>3 DEF DmaWaits, ScsiInv, Agree
  <2>2. /\ Agree(esp', intr') /\ seltimer' \in Nat
        /\ esp'.int \/ (esp' = esp /\ (seltimer' = 0 => seltimer = 0))
    <3>1. Timers
      BY DEF ScsiInv
    <3> QED
      BY <2>1, <3>1, SelectionStep, Zenon
  <2>3. deferred' = [deferred EXCEPT !.ticks = IF @ = 0 THEN 0 ELSE @ - 1] /\ deferred.ticks # 1
    BY <1>3 DEF DmaWaits
  <2>4. Timers' /\ (deferred'.ticks = 0 => deferred.ticks = 0)
    BY <2>2, <2>3 DEF ScsiInv, Timers
  <2> QED
    BY <2>2, <2>4 DEF ScsiInv, Stranded
<1> QED
  BY <1>2, <1>3 DEF InstructionHook

LEMMA ScsiStep ==
    ASSUME ScsiInv, [GuestNext]_scsiVars
    PROVE  ScsiInv' /\ (Stranded' => Stranded \/ Cancels)
<1>1. CASE UNCHANGED scsiVars
  BY <1>1 DEF scsiVars, ScsiInv, Timers, Stranded
<1>2. CASE Guest
  BY <1>2, WriteCommandStep, FifoStep, ReadIntStatusStep, SetupStep, DmaControlStep,
     ChannelStep, MaskStep DEF Guest
<1>3. CASE InstructionHook \/ EndOfSlice
  BY <1>3, HookStep, MaskStep
<1> QED
  BY <1>1, <1>2, <1>3 DEF GuestNext

LEMMA ScsiStart == ScsiInit => ScsiInv
<1>1. ScsiInit => Chip(esp) /\ ~esp.int
  <2>1. ScsiInit => esp.int = FALSE /\ esp.enable = FALSE /\ esp.inprog = FALSE
    BY DEF ScsiInit
  <2>2. ScsiInit => DOMAIN esp = ChipFields
    BY DEF ScsiInit, ChipFields
  <2>3. ScsiInit => esp = [f \in DOMAIN esp |-> esp[f]]
    BY DEF ScsiInit
  <2> QED
    BY <2>1, <2>2, <2>3 DEF Chip
<1>2. ScsiInit => Timers
  BY DEF ScsiInit, Timers
<1>3. ScsiInit => Sound(intr) /\ intr.status = {}
  BY IrqAssumption DEF ScsiInit, IntrInit, Sound, Controllers, NothingWithheld, PendingIpl
<1> QED
  BY <1>1, <1>2, <1>3 DEF ScsiInv, Agree

LEMMA ScsiInvariant == ScsiSpec => []ScsiInv
<1>1. ScsiInit => ScsiInv
  BY ScsiStart
<1>2. ScsiInv /\ [ScsiNext]_scsiVars => ScsiInv'
  BY ScsiStep, AccessIsGuests
<1> QED
  BY <1>1, <1>2, PTL DEF ScsiSpec

-----------------------------------------------------------------------------
(* Induction over the steps of a loop: the library's principle for a set,  *)
(* which names no operator.                                                 *)

LEMMA Least ==
    ASSUME NEW T, T \subseteq Nat, T # {}
    PROVE  \E m \in T : \A k \in T : m <= k
<1> DEFINE R == OpToRel(<, Nat)
<1>1. IsWellFoundedOn(R, Nat)
  BY NatLessThanWellFounded
<1>2. ASSUME NEW x \in Nat, NEW y \in Nat, x < y PROVE <<x, y>> \in R
  BY <1>2 DEF OpToRel
<1> HIDE DEF R
<1>3. PICK m \in T : \A y \in T : ~(<<y, m>> \in R)
  BY <1>1, WFMin
<1>4. ASSUME NEW k \in T PROVE m <= k
  <2>1. m \in Nat /\ k \in Nat
    OBVIOUS
  <2>2. ~(<<k, m>> \in R)
    BY <1>3
  <2>3. ~(k < m)
    BY <1>2, <2>1, <2>2
  <2> QED
    BY <2>1, <2>3
<1> QED
  BY <1>4

\* What holds at 0 and is handed on holds at every index.
LEMMA Induct ==
    ASSUME NEW k \in Nat, NEW P, 0 \in P, \A n \in 1..k : n - 1 \in P => n \in P
    PROVE  \A n \in 0..k : n \in P
<1> DEFINE T == (0..k) \ P
<1>1. SUFFICES ASSUME T # {} PROVE FALSE
  OBVIOUS
<1>2. \E m \in T : \A n \in T : m <= n
  <2>1. T \subseteq Nat
    OBVIOUS
  <2> HIDE DEF T
  <2> QED
    BY <1>1, <2>1, Least
<1>3. PICK m \in T : \A n \in T : m <= n
  BY <1>2
<1>4. m \in 1..k /\ m - 1 \in 0..k
  BY <1>3
<1>5. m - 1 \in P
  BY <1>3, <1>4
<1> QED
  BY <1>3, <1>4, <1>5

-----------------------------------------------------------------------------
(* The loops                                                               *)

\* The states of the transfer loop, after each of its rounds.
Rounds(run, n, in, count, failing) ==
    run = [k \in 0..n |->
              IF k = 0 THEN [dma |-> [dma EXCEPT !.busexc = FALSE], disk |-> disk, mem |-> mem, left |-> count]
              ELSE IF CanMove(run[k - 1], in) THEN Moved(run[k - 1], in, failing) ELSE run[k - 1]]

\* What is left of a transfer after its last round.
Concluded(r, count) ==
    LET c == Chained(r.dma)
        done == r.left = 0 \/ c.next >= c.limit \/ c.busexc
    IN  IF ~dma.enable THEN NotMoved(count)
        ELSE [dma |-> IF done THEN [c EXCEPT !.complete = TRUE, !.enable = FALSE] ELSE c,
              disk |-> r.disk, mem |-> r.mem, left |-> r.left, done |-> done]

LEMMA RoundsExist ==
    ASSUME NEW in, NEW count \in Nat, NEW failing
    PROVE  \E run : Rounds(run, count, in, count, failing)
<1> DEFINE P == {n \in 0..count : \E run : Rounds(run, n, in, count, failing)}
<1>1. 0 \in P
  <2> DEFINE f == [k \in 0..0 |-> [dma |-> [dma EXCEPT !.busexc = FALSE], disk |-> disk, mem |-> mem, left |-> count]]
  <2>1. Rounds(f, 0, in, count, failing)
    BY DEF Rounds
  <2> QED
    BY <2>1
<1>2. ASSUME NEW n \in 1..count, n - 1 \in P PROVE n \in P
  <2>1. PICK f : Rounds(f, n - 1, in, count, failing)
    BY <1>2
  <2> DEFINE last == IF CanMove(f[n - 1], in) THEN Moved(f[n - 1], in, failing) ELSE f[n - 1]
             g == [k \in 0..n |-> IF k = n THEN last ELSE f[k]]
  <2>2. \A k \in 1..n : g[k - 1] = f[k - 1]
    <3> HIDE DEF last
    <3> QED OBVIOUS
  <2>3. ASSUME NEW k \in 0..n
        PROVE g[k] = IF k = 0 THEN [dma |-> [dma EXCEPT !.busexc = FALSE], disk |-> disk, mem |-> mem, left |-> count]
                     ELSE IF CanMove(g[k - 1], in) THEN Moved(g[k - 1], in, failing) ELSE g[k - 1]
    <3>1. CASE k = n
      <4>1. g[k] = last /\ g[k - 1] = f[n - 1] /\ k # 0
        BY <2>2, <3>1
      <4> HIDE DEF g
      <4> QED
        BY <3>1, <4>1
    <3>2. CASE k # n
      <4>1. g[k] = f[k] /\ k \in 0..n - 1
        BY <3>2
      <4>2. k # 0 => g[k - 1] = f[k - 1]
        BY <2>2
      <4> HIDE DEF g, last
      <4> QED
        BY <2>1, <4>1, <4>2 DEF Rounds
    <3> QED
      BY <3>1, <3>2
  <2>4. DOMAIN g = 0..n /\ g = [k \in 0..n |-> g[k]]
    OBVIOUS
  <2> HIDE DEF g
  <2>5. Rounds(g, n, in, count, failing)
    BY <2>3, <2>4 DEF Rounds
  <2> QED
    BY <2>5
<1>3. \A n \in 0..count : n \in P
  <2> HIDE DEF P
  <2> QED
    BY <1>1, <1>2, Induct
<1> QED
  BY <1>3

LEMMA TransferIsLoop ==
    ASSUME NEW in, NEW count \in Nat, NEW failing
    PROVE  \E run : /\ Rounds(run, count, in, count, failing)
                    /\ Transfer(in, count, failing) = Concluded(run[count], count)
<1> DEFINE run[n \in 0..count] ==
               IF n = 0 THEN [dma |-> [dma EXCEPT !.busexc = FALSE], disk |-> disk, mem |-> mem, left |-> count]
               ELSE IF CanMove(run[n - 1], in) THEN Moved(run[n - 1], in, failing) ELSE run[n - 1]
<1>1. Rounds(run, count, in, count, failing)
  <2>1. \E f : Rounds(f, count, in, count, failing)
    BY RoundsExist
  <2> QED
    BY <2>1 DEF Rounds
<1>2. Transfer(in, count, failing) = Concluded(run[count], count)
  BY DEF Transfer, Concluded
<1> QED
  BY <1>1, <1>2

-----------------------------------------------------------------------------
(* The target                                                              *)

TargetFields == {"phase", "status", "lba", "left", "writes", "size", "limit", "from", "is_disk",
                 "tag", "data"}

Target(d) ==
    /\ d = [f \in TargetFields |-> d[f]]
    /\ d.phase \in Phases /\ d.status \in {"good", "check"}
    /\ d.size \in Nat /\ d.limit \in Nat /\ d.size <= d.limit

LEMMA PhaseKept ==
    ASSUME NEW d, Target(d), NEW phase \in Phases
    PROVE  Target([d EXCEPT !.phase = phase])
BY DEF Target, TargetFields

LEMMA LoadedTarget ==
    ASSUME NEW d, Target(d), NEW content
    PROVE  Target(Loaded(d, content))
<1>1. Loaded(d, content) = [f \in TargetFields |-> Loaded(d, content)[f]]
  BY DEF Target, TargetFields, Loaded
<1>2. /\ Loaded(d, content).phase = d.phase /\ Loaded(d, content).status = "good"
      /\ Loaded(d, content).size = SectorSize /\ Loaded(d, content).limit = SectorSize
  BY DEF Target, TargetFields, Loaded
<1> QED
  BY <1>1, <1>2, DiskAssumption DEF Target

LEMMA FailedTarget ==
    ASSUME NEW d, Target(d)
    PROVE  Target(Failed(d))
BY DEF Target, TargetFields, Failed, Phases

LEMMA ReadSectorTarget ==
    ASSUME NEW d, Target(d), NEW failing
    PROVE  Target(ReadSector(d, failing))
<1> DEFINE e == [d EXCEPT !.tag[Slot(d.lba)] = d.lba, !.data[Slot(d.lba)] = d.lba]
<1>1. Target(e)
  BY DEF Target, TargetFields
<1>2. Target([d EXCEPT !.phase = "ST"])
  BY PhaseKept DEF Phases
<1>3. \/ ReadSector(d, failing) = [d EXCEPT !.phase = "ST"]
      \/ ReadSector(d, failing) = Failed(d)
      \/ ReadSector(d, failing) = Loaded(d, d.data[Slot(d.lba)])
      \/ ReadSector(d, failing) = Loaded(e, d.lba)
  BY DEF ReadSector
<1> HIDE DEF e
<1> QED
  BY <1>1, <1>2, <1>3, LoadedTarget, FailedTarget

LEMMA ConsumeTarget ==
    ASSUME NEW d, Target(d), NEW failing
    PROVE  Target(ConsumeByte(d, failing)) /\ Target(ConsumeWriteByte(d))
<1>1. Target(ConsumeByte(d, failing))
  <2>1. CASE d.size > 1
    <3>1. Target([d EXCEPT !.size = @ - 1])
      BY <2>1 DEF Target, TargetFields
    <3> QED
      BY <2>1, <3>1 DEF ConsumeByte
  <2>2. CASE ~(d.size > 1)
    <3>1. Target([d EXCEPT !.size = 0])
      BY DEF Target, TargetFields
    <3>2. Target([[d EXCEPT !.size = 0] EXCEPT !.phase = "ST"])
      BY <3>1, PhaseKept DEF Phases
    <3> QED
      BY <2>2, <3>1, <3>2, ReadSectorTarget DEF ConsumeByte
  <2> QED
    BY <2>1, <2>2
<1>2. Target(ConsumeWriteByte(d))
  BY DEF Target, TargetFields, ConsumeWriteByte, Phases
<1> QED
  BY <1>1, <1>2

LEMMA ReceiveTarget ==
    ASSUME NEW d, Target(d), NEW cdb \in Cdbs, NEW failing
    PROVE  Target(ReceiveCommand(d, cdb, failing))
<1>1. cdb.op \in {"read", "write", "reply", "plain", "bad"} /\ cdb.count \in Nat
  BY ScsiAssumption
<1>2. CASE cdb.op = "read"
  <2> DEFINE e == [d EXCEPT !.lba = cdb.lba, !.left = cdb.count, !.is_disk = TRUE,
                            !.size = 0, !.phase = "DI"]
  <2>1. Target(e)
    <3>1. e = [f \in TargetFields |-> e[f]]
      BY DEF Target, TargetFields
    <3>2. e.phase = "DI" /\ e.status = d.status /\ e.size = 0 /\ e.limit = d.limit
      BY DEF Target, TargetFields
    <3> HIDE DEF e
    <3> QED
      BY <3>1, <3>2 DEF Target, Phases
  <2>2. ReceiveCommand(d, cdb, failing) = ReadSector(e, failing)
    BY <1>2 DEF ReceiveCommand, Reads
  <2> HIDE DEF e
  <2> QED
    BY <2>1, <2>2, ReadSectorTarget
<1>3. CASE cdb.op = "write"
  <2> DEFINE e == Invalidated(d, cdb.lba..cdb.lba + cdb.count - 1)
  <2>1. Target(e)
    BY DEF Target, TargetFields, Invalidated
  <2>2. ReceiveCommand(d, cdb, failing) =
            [e EXCEPT !.lba = cdb.lba, !.left = cdb.count, !.writes = cdb.count * SectorSize,
                      !.status = "good", !.phase = "DO"]
    BY <1>3 DEF ReceiveCommand, Writes
  <2> HIDE DEF e
  <2> QED
    BY <2>1, <2>2 DEF Target, TargetFields, Phases
<1>4. CASE cdb.op = "reply"
  <2> DEFINE e == Replies(d, cdb)
  <2>1. ReceiveCommand(d, cdb, failing) = e
    BY <1>4 DEF ReceiveCommand
  <2>2. e = [f \in TargetFields |-> e[f]]
    BY DEF Target, TargetFields, Replies
  <2>3. e.phase = "DI" /\ e.status = "good" /\ e.size = cdb.count /\ e.limit = cdb.count
    BY DEF Target, TargetFields, Replies
  <2> HIDE DEF e
  <2> QED
    BY <1>1, <2>1, <2>2, <2>3 DEF Target, Phases
<1>5. CASE cdb.op = "plain"
  <2>1. ReceiveCommand(d, cdb, failing) = [d EXCEPT !.status = "good", !.phase = "ST"]
    BY <1>5 DEF ReceiveCommand
  <2> QED
    BY <2>1 DEF Target, TargetFields, Phases
<1>6. CASE cdb.op = "bad"
  <2>1. ReceiveCommand(d, cdb, failing) = Failed(d)
    BY <1>6 DEF ReceiveCommand
  <2> QED
    BY <2>1, FailedTarget
<1> QED
  BY <1>1, <1>2, <1>3, <1>4, <1>5, <1>6

-----------------------------------------------------------------------------
(* What the transfer loop leaves alone, and how far it gets                *)

Channels ==
    [next : Nat, limit : Nat, start : Nat, stop : Nat, enable : BOOLEAN, supdate : BOOLEAN,
     complete : BOOLEAN, busexc : BOOLEAN]

\* A round has moved a byte for each one that is no longer left, from the start
\* of the window on and not beyond it.
Round(r, in, count) ==
    /\ r = [dma |-> r.dma, disk |-> r.disk, mem |-> r.mem, left |-> r.left]
    /\ r.dma \in Channels /\ Target(r.disk)
    /\ r.dma.complete = dma.complete /\ r.dma.limit = dma.limit
    /\ r.left \in 0..count
    /\ r.dma.next = dma.next + (count - r.left)
    /\ r.left = count \/ r.dma.next <= dma.limit
    /\ DOMAIN r.mem = DOMAIN mem
    /\ \A a \in DOMAIN mem : r.mem[a] # mem[a] => in /\ a \in dma.next..r.dma.next - 1

LEMMA RoundStep ==
    ASSUME NEW in, NEW count \in Nat, NEW failing, NEW r, Round(r, in, count), CanMove(r, in),
           dma \in Channels
    PROVE  Round(Moved(r, in, failing), in, count)
<1> DEFINE at == r.dma.next
           s == Moved(r, in, failing)
           c == [r.dma EXCEPT !.next = @ + 1]
<1>1. /\ r.left > 0 /\ at < r.dma.limit
      /\ r.dma \in Channels /\ r.left \in 0..count /\ r.dma.next = dma.next + (count - r.left)
      /\ r.dma.limit = dma.limit /\ r.dma.complete = dma.complete /\ Target(r.disk)
      /\ DOMAIN r.mem = DOMAIN mem
      /\ \A a \in DOMAIN mem : r.mem[a] # mem[a] => in /\ a \in dma.next..r.dma.next - 1
      /\ r = [dma |-> r.dma, disk |-> r.disk, mem |-> r.mem, left |-> r.left]
  BY DEF Round, CanMove
<1>2. c \in Channels /\ c.next = at + 1 /\ c.limit = dma.limit /\ c.complete = dma.complete
  BY <1>1 DEF Channels
<1>3. CASE ~in
  <2>1. s = [dma |-> c, disk |-> ConsumeWriteByte(r.disk), mem |-> r.mem, left |-> r.left - 1]
    BY <1>1, <1>3 DEF Moved
  <2>2. Target(ConsumeWriteByte(r.disk))
    BY <1>1, ConsumeTarget
  <2> HIDE DEF s, c
  <2>3. s.dma = c /\ s.mem = r.mem /\ s.left = r.left - 1 /\ s.disk = ConsumeWriteByte(r.disk)
        /\ s = [dma |-> s.dma, disk |-> s.disk, mem |-> s.mem, left |-> s.left]
    BY <2>1
  <2>4. s.left \in 0..count /\ s.dma.next = dma.next + (count - s.left) /\ s.dma.next <= dma.limit
    BY <1>1, <1>2, <2>3 DEF Channels
  <2>5. \A a \in DOMAIN mem : s.mem[a] = mem[a]
    BY <1>1, <1>3, <2>3
  <2> HIDE DEF at
  <2>8. Round(s, in, count)
    BY <1>1, <1>2, <2>2, <2>3, <2>4, <2>5 DEF Round
  <2> QED
    BY <2>8 DEF s
<1>4. CASE in /\ at >= RamTop
  <2>1. s = [dma |-> [r.dma EXCEPT !.busexc = TRUE], disk |-> r.disk, mem |-> r.mem, left |-> r.left]
    BY <1>1, <1>4 DEF Moved
  <2>2. /\ [r.dma EXCEPT !.busexc = TRUE] \in Channels
        /\ [r.dma EXCEPT !.busexc = TRUE].next = r.dma.next
        /\ [r.dma EXCEPT !.busexc = TRUE].limit = r.dma.limit
        /\ [r.dma EXCEPT !.busexc = TRUE].complete = r.dma.complete
    BY <1>1 DEF Channels
  <2>3. r.left = count \/ r.dma.next <= dma.limit
    BY DEF Round
  <2> DEFINE b == [r.dma EXCEPT !.busexc = TRUE]
  <2> HIDE DEF s, b
  <2>4. s = [dma |-> b, disk |-> r.disk, mem |-> r.mem, left |-> r.left]
    BY <2>1 DEF b
  <2>5. s.dma = b /\ s.disk = r.disk /\ s.mem = r.mem /\ s.left = r.left
        /\ s = [dma |-> s.dma, disk |-> s.disk, mem |-> s.mem, left |-> s.left]
    BY <2>4
  <2>6. b \in Channels /\ b.next = r.dma.next /\ b.limit = dma.limit /\ b.complete = dma.complete
    BY <1>1, <2>2 DEF b
  <2> HIDE DEF at
  <2>8. Round(s, in, count)
    BY <1>1, <2>3, <2>5, <2>6 DEF Round
  <2> QED
    BY <2>8 DEF s
<1>5. CASE in /\ ~(at >= RamTop)
  <2> DEFINE m == [r.mem EXCEPT ![at] = NextByte(r.disk)]
  <2>1. s = [dma |-> c, disk |-> ConsumeByte(r.disk, failing), mem |-> m, left |-> r.left - 1]
    BY <1>1, <1>5 DEF Moved
  <2>2. Target(ConsumeByte(r.disk, failing))
    BY <1>1, ConsumeTarget
  <2>3. DOMAIN m = DOMAIN mem /\ \A a \in DOMAIN mem : a # at => m[a] = r.mem[a]
    BY <1>1
  <2> HIDE DEF s, c, m
  <2>4. s.dma = c /\ s.mem = m /\ s.left = r.left - 1 /\ s.disk = ConsumeByte(r.disk, failing)
        /\ s = [dma |-> s.dma, disk |-> s.disk, mem |-> s.mem, left |-> s.left]
    BY <2>1
  <2>5. s.left \in 0..count /\ s.dma.next = dma.next + (count - s.left) /\ s.dma.next <= dma.limit
    BY <1>1, <1>2, <2>4 DEF Channels
  <2>6. ASSUME NEW a \in DOMAIN mem, m[a] # mem[a] PROVE in /\ a \in dma.next..s.dma.next - 1
    <3>1. dma.next \in Nat /\ at \in Nat /\ s.dma.next = at + 1 /\ dma.next <= at
      BY <1>1, <1>2, <2>4 DEF Channels
    <3>2. CASE a = at
      BY <1>5, <3>1, <3>2
    <3>3. CASE a # at
      <4>1. in /\ a \in dma.next..at - 1
        BY <1>1, <2>3, <2>6, <3>3
      <4> QED
        BY <3>1, <4>1
    <3> QED
      BY <3>2, <3>3
  <2>7. DOMAIN s.mem = DOMAIN mem
        /\ \A a \in DOMAIN mem : s.mem[a] # mem[a] => in /\ a \in dma.next..s.dma.next - 1
    BY <2>3, <2>4, <2>6
  <2> HIDE DEF at
  <2>8. Round(s, in, count)
    BY <1>2, <2>2, <2>4, <2>5, <2>7 DEF Round
  <2> QED
    BY <2>8 DEF s
<1> QED
  BY <1>3, <1>4, <1>5

LEMMA TransferKeeps ==
    ASSUME NEW in, NEW count \in Nat, NEW failing, dma \in Channels, Target(disk)
    PROVE  \E r : Round(r, in, count) /\ Transfer(in, count, failing) = Concluded(r, count)
<1>1. PICK run : /\ Rounds(run, count, in, count, failing)
                 /\ Transfer(in, count, failing) = Concluded(run[count], count)
  BY TransferIsLoop
<1> DEFINE P == {n \in 0..count : Round(run[n], in, count)}
<1>2. 0 \in P
  <2> DEFINE r == [dma |-> [dma EXCEPT !.busexc = FALSE], disk |-> disk, mem |-> mem, left |-> count]
  <2>1. run[0] = r
    BY <1>1 DEF Rounds
  <2>2. /\ r.dma \in Channels /\ r.dma.next = dma.next /\ r.dma.limit = dma.limit
        /\ r.dma.complete = dma.complete
    BY DEF Channels
  <2>3. dma.next \in Nat
    BY DEF Channels
  <2>4. Round(r, in, count)
    BY <2>2, <2>3 DEF Round
  <2> QED
    BY <2>1, <2>4
<1>3. ASSUME NEW n \in 1..count, n - 1 \in P PROVE n \in P
  <2>1. n \in 0..count /\ n # 0 /\ Round(run[n - 1], in, count)
    BY <1>3
  <2>2. run[n] = IF CanMove(run[n - 1], in) THEN Moved(run[n - 1], in, failing) ELSE run[n - 1]
    BY <1>1, <2>1 DEF Rounds
  <2> QED
    BY <2>1, <2>2, RoundStep
<1>4. count \in P
  <2> HIDE DEF P
  <2> QED
    BY <1>2, <1>3, Induct
<1> QED
  BY <1>1, <1>4

-----------------------------------------------------------------------------
(* Data thrown away                                                        *)

\* The states of the loop that throws data away.
PadRounds(pad, n, counter, failing) ==
    pad = [k \in 0..n |->
              IF k = 0 THEN [disk |-> disk, left |-> counter]
              ELSE LET p == pad[k - 1]
                   IN  IF p.disk.phase # "DI" THEN p
                       ELSE [disk |-> IF p.disk.size > 0
                                      THEN ConsumeByte(p.disk, failing) ELSE p.disk,
                             left |-> p.left - 1]]

PadRound(p, failing) ==
    IF p.disk.phase # "DI" THEN p
    ELSE [disk |-> IF p.disk.size > 0 THEN ConsumeByte(p.disk, failing) ELSE p.disk,
          left |-> p.left - 1]

LEMMA PadRoundsExist ==
    ASSUME NEW counter \in Nat, NEW failing
    PROVE  \E pad : PadRounds(pad, counter, counter, failing)
<1> DEFINE P == {n \in 0..counter : \E pad : PadRounds(pad, n, counter, failing)}
<1>1. 0 \in P
  <2> DEFINE f == [k \in 0..0 |-> [disk |-> disk, left |-> counter]]
  <2>1. PadRounds(f, 0, counter, failing)
    BY DEF PadRounds
  <2> QED
    BY <2>1
<1>2. ASSUME NEW n \in 1..counter, n - 1 \in P PROVE n \in P
  <2>1. PICK f : PadRounds(f, n - 1, counter, failing)
    BY <1>2
  <2> DEFINE last == PadRound(f[n - 1], failing)
             g == [k \in 0..n |-> IF k = n THEN last ELSE f[k]]
  <2>2. \A k \in 1..n : g[k - 1] = f[k - 1]
    <3> HIDE DEF last
    <3> QED OBVIOUS
  <2>3. ASSUME NEW k \in 0..n
        PROVE g[k] = IF k = 0 THEN [disk |-> disk, left |-> counter] ELSE PadRound(g[k - 1], failing)
    <3>1. CASE k = n
      <4>1. g[k] = last /\ g[k - 1] = f[n - 1] /\ k # 0
        BY <2>2, <3>1
      <4> HIDE DEF g
      <4> QED
        BY <3>1, <4>1
    <3>2. CASE k # n
      <4>1. g[k] = f[k] /\ k \in 0..n - 1
        BY <3>2
      <4>2. k # 0 => g[k - 1] = f[k - 1]
        BY <2>2
      <4>3. f[k] = IF k = 0 THEN [disk |-> disk, left |-> counter] ELSE PadRound(f[k - 1], failing)
        BY <2>1, <4>1 DEF PadRounds, PadRound
      <4> HIDE DEF g, last
      <4> QED
        BY <4>1, <4>2, <4>3
    <3> QED
      BY <3>1, <3>2
  <2>4. DOMAIN g = 0..n /\ g = [k \in 0..n |-> g[k]]
    OBVIOUS
  <2> HIDE DEF g
  <2>5. PadRounds(g, n, counter, failing)
    BY <2>3, <2>4 DEF PadRounds, PadRound
  <2> QED
    BY <2>5
<1>3. \A n \in 0..counter : n \in P
  <2> HIDE DEF P
  <2> QED
    BY <1>1, <1>2, Induct
<1> QED
  BY <1>3

\* Data thrown away leaves a target, and no more to throw away than before.
LEMMA PadKeeps ==
    ASSUME NEW counter \in Nat, NEW failing, NEW pad, PadRounds(pad, counter, counter, failing),
           Target(disk)
    PROVE  Target(pad[counter].disk) /\ pad[counter].left \in 0..counter
<1> DEFINE P == {n \in 0..counter : /\ Target(pad[n].disk)
                                    /\ pad[n].left \in counter - n..counter}
<1>1. pad[0] = [disk |-> disk, left |-> counter]
  BY DEF PadRounds
<1>2. 0 \in P
  BY <1>1
<1>3. ASSUME NEW n \in 1..counter, n - 1 \in P PROVE n \in P
  <2> DEFINE p == pad[n - 1]
  <2>1. n \in 0..counter /\ Target(p.disk) /\ p.left \in counter - (n - 1)..counter
    BY <1>3
  <2>2. pad[n] = PadRound(p, failing)
    <3>1. pad[n] = IF n = 0 THEN [disk |-> disk, left |-> counter] ELSE PadRound(pad[n - 1], failing)
      BY <2>1 DEF PadRounds, PadRound
    <3>2. n # 0
      BY <1>3
    <3> QED
      BY <3>1, <3>2
  <2> HIDE DEF p
  <2>3. Target(ConsumeByte(p.disk, failing))
    BY <2>1, ConsumeTarget
  <2>4. CASE p.disk.phase # "DI"
    BY <2>1, <2>2, <2>4 DEF PadRound
  <2>5. CASE p.disk.phase = "DI"
    <3>1. /\ pad[n].disk = IF p.disk.size > 0 THEN ConsumeByte(p.disk, failing) ELSE p.disk
          /\ pad[n].left = p.left - 1
      BY <2>2, <2>5 DEF PadRound
    <3> QED
      BY <2>1, <2>3, <3>1
  <2> QED
    BY <2>4, <2>5
<1>4. counter \in P
  <2> HIDE DEF P
  <2> QED
    BY <1>2, <1>3, Induct
<1> QED
  BY <1>4

LEMMA PadIsLoop ==
    ASSUME NEW e, NEW i, e.counter \in Nat, TransferPad(e, i), Target(disk)
    PROVE  /\ Target(disk')
           /\ \E left \in 0..e.counter : Raise(TransferEnded(e, left), i)
<1>1. PICK failing :
          LET pad[n \in 0..e.counter] ==
                  IF n = 0 THEN [disk |-> disk, left |-> e.counter]
                  ELSE LET p == pad[n - 1]
                       IN  IF p.disk.phase # "DI" THEN p
                           ELSE [disk |-> IF p.disk.size > 0
                                          THEN ConsumeByte(p.disk, failing) ELSE p.disk,
                                 left |-> p.left - 1]
              end == pad[e.counter]
          IN  disk' = end.disk /\ Raise(TransferEnded(e, end.left), i)
  BY DEF TransferPad
<1> DEFINE pad[n \in 0..e.counter] ==
                  IF n = 0 THEN [disk |-> disk, left |-> e.counter]
                  ELSE LET p == pad[n - 1]
                       IN  IF p.disk.phase # "DI" THEN p
                           ELSE [disk |-> IF p.disk.size > 0
                                          THEN ConsumeByte(p.disk, failing) ELSE p.disk,
                                 left |-> p.left - 1]
<1>2. disk' = pad[e.counter].disk /\ Raise(TransferEnded(e, pad[e.counter].left), i)
  BY <1>1
<1>3. PadRounds(pad, e.counter, e.counter, failing)
  <2>1. \E f : PadRounds(f, e.counter, e.counter, failing)
    BY PadRoundsExist
  <2> QED
    BY <2>1 DEF PadRounds
<1> HIDE DEF pad
<1> QED
  BY <1>2, <1>3, PadKeeps

-----------------------------------------------------------------------------
(* What a transfer leaves in the channel, the counter and memory           *)

\* A transfer is over only when the channel says so, and memory has changed only
\* where the bytes it has moved went.
Delivery(t, in, count) ==
    /\ t.dma \in Channels /\ Target(t.disk) /\ t.left \in 0..count
    /\ DOMAIN t.mem = DOMAIN mem
    /\ t.done => t.dma.complete
    /\ dma.complete => t.dma.complete
    /\ \A a \in DOMAIN mem : t.mem[a] # mem[a] =>
          /\ in /\ dma.enable
          /\ a \in dma.next..dma.limit - 1
          /\ a < dma.next + count - t.left

LEMMA TransferResult ==
    ASSUME NEW in, NEW count \in Nat, NEW failing, dma \in Channels, Target(disk)
    PROVE  Delivery(Transfer(in, count, failing), in, count)
<1> DEFINE t == Transfer(in, count, failing)
<1>1. CASE ~dma.enable
  <2>1. t = NotMoved(count)
    BY <1>1 DEF Transfer
  <2> QED
    <3>1. /\ t.dma = dma /\ t.disk = disk /\ t.mem = mem /\ t.left = count /\ t.done = FALSE
      BY <2>1 DEF NotMoved
    <3> HIDE DEF t
    <3>2. Delivery(t, in, count)
      BY <3>1 DEF Delivery
    <3> QED
      BY <3>2 DEF t
<1>2. CASE dma.enable
  <2>1. PICK r : Round(r, in, count) /\ t = Concluded(r, count)
    BY TransferKeeps
  <2> DEFINE c == Chained(r.dma)
             done == r.left = 0 \/ c.next >= c.limit \/ c.busexc
             d == IF done THEN [c EXCEPT !.complete = TRUE, !.enable = FALSE] ELSE c
  <2>2. t = [dma |-> d, disk |-> r.disk, mem |-> r.mem, left |-> r.left, done |-> done]
    BY <1>2, <2>1 DEF Concluded
  <2>3. r.dma \in Channels /\ r.dma.complete = dma.complete
    BY <2>1 DEF Round
  <2>4. c \in Channels /\ c.complete = dma.complete
    BY <2>3 DEF Chained, Channels
  <2>5. d \in Channels /\ (done => d.complete) /\ (dma.complete => d.complete)
    <3> HIDE DEF c
    <3> QED
      BY <2>4 DEF Channels
  <2> HIDE DEF d, done, c
  <2> HIDE DEF t
  <2>6. t.dma = d /\ t.disk = r.disk /\ t.mem = r.mem /\ t.left = r.left /\ t.done = done
    BY <2>2
  <2>7. Target(r.disk) /\ r.left \in 0..count /\ DOMAIN r.mem = DOMAIN mem
    BY <2>1 DEF Round
  <2>8. ASSUME NEW a \in DOMAIN mem, r.mem[a] # mem[a]
        PROVE  in /\ a \in dma.next..dma.limit - 1 /\ a < dma.next + count - r.left
    <3>1. /\ in /\ a \in dma.next..r.dma.next - 1
          /\ r.dma.next = dma.next + (count - r.left)
          /\ r.left = count \/ r.dma.next <= dma.limit
      BY <2>1, <2>8 DEF Round
    <3>2. dma.next \in Nat /\ dma.limit \in Nat
      BY DEF Channels
    <3> QED
      BY <2>7, <3>1, <3>2
  <2>9. Delivery(t, in, count)
    BY <1>2, <2>5, <2>6, <2>7, <2>8 DEF Delivery
  <2> QED
    BY <2>9 DEF t
<1> QED
  BY <1>1, <1>2

-----------------------------------------------------------------------------
(* The type of the chip                                                    *)

Items == Cdbs \cup {Identify, StatusByte, MessageByte, DataByte}

Chips ==
    [inprog : BOOLEAN, queue : Commands \cup {NoCommand}, int : BOOLEAN,
     ge : BOOLEAN, tc : BOOLEAN, intstatus : SUBSET Causes, counter : 0..MaxCount,
     fifo : Seq(Items), busid : BOOLEAN, resrept : BOOLEAN, enable : BOOLEAN, count : 0..MaxCount]

\* A waiting command waits behind another one, and is never a reset.
Queued(e) == (e.queue # NoCommand => e.inprog) /\ e.queue.op \notin {"reset", "busreset"}

Well(e) == e \in Chips /\ Queued(e) /\ Len(e.fifo) <= FifoSize

LEMMA QueueEmpty == NoCommand.op = "none"
BY DEF NoCommand

LEMMA CauseWell ==
    ASSUME NEW e, Well(e)
    PROVE  /\ \A causes \in SUBSET Causes : Well(Cause(e, causes))
           /\ Well(CommandCleared(e)) /\ Well(Raised(e))
<1>1. ASSUME NEW causes \in SUBSET Causes PROVE Well(Cause(e, causes))
  BY DEF Well, Queued, Chips, Cause
<1>2. Well(CommandCleared(e))
  BY QueueEmpty DEF Well, Queued, Chips, CommandCleared
<1>3. Well(Raised(e))
  BY DEF Well, Queued, Chips, Raised
<1> QED
  BY <1>1, <1>2, <1>3

LEMMA ResetWell ==
    ASSUME NEW e \in Chips, Len(e.fifo) <= FifoSize
    PROVE  Well(SoftReset(e)) /\ Well(HardReset(e))
<1>1. Well(SoftReset(e))
  <2>1. 0 \in 0..MaxCount /\ {} \in SUBSET Causes /\ NoCommand \in Commands \cup {NoCommand}
    BY ScsiAssumption
  <2>2. SoftReset(e) \in Chips
    BY <2>1 DEF Chips, SoftReset
  <2>3. SoftReset(e).queue = NoCommand /\ SoftReset(e).fifo = e.fifo
    BY DEF Chips, SoftReset
  <2> QED
    BY <2>2, <2>3, QueueEmpty DEF Well, Queued
<1>2. ASSUME NEW f, Well(f) PROVE Well([f EXCEPT !.fifo = <<>>, !.int = FALSE, !.ge = FALSE, !.resrept = FALSE])
  <2>1. <<>> \in Seq(Items) /\ Len(<<>>) = 0
    OBVIOUS
  <2> DEFINE g == [f EXCEPT !.fifo = <<>>, !.int = FALSE, !.ge = FALSE, !.resrept = FALSE]
  <2>2. f \in Chips
    BY <1>2 DEF Well
  <2>3. g \in Chips
    BY <2>1, <2>2 DEF Chips
  <2>4. g.queue = f.queue /\ g.inprog = f.inprog /\ g.fifo = <<>>
    BY <2>2 DEF Chips
  <2> HIDE DEF g
  <2>5. Well(g)
    BY <1>2, <2>1, <2>3, <2>4, ScsiAssumption DEF Well, Queued
  <2> QED
    BY <2>5 DEF g
<1> QED
  BY <1>1, <1>2 DEF HardReset

LEMMA PushWell ==
    ASSUME NEW e, Well(e), NEW item \in Items
    PROVE  Well(Pushed(e, item))
<1>0. e \in Chips /\ e.fifo \in Seq(Items) /\ Len(e.fifo) <= FifoSize /\ FifoSize \in Nat \ {0}
  BY ScsiAssumption DEF Well, Chips
<1>1. CASE Full(e)
  <2> DEFINE q == [e.fifo EXCEPT ![FifoSize] = item]
             f == [e EXCEPT !.fifo = q, !.ge = TRUE]
  <2>1. q \in Seq(Items) /\ Len(q) = Len(e.fifo)
    <3>1. FifoSize \in 1..Len(e.fifo)
      <4>1. Len(e.fifo) \in Nat
        BY <1>0
      <4> QED
        BY <1>0, <1>1, <4>1 DEF Full
    <3> QED
      BY <1>0, <3>1, ExceptSeq
  <2>2. f = [e EXCEPT !.fifo[FifoSize] = item, !.ge = TRUE]
    OBVIOUS
  <2> HIDE DEF q
  <2>3. Well(f)
    BY <1>0, <2>1 DEF Well, Queued, Chips
  <2> HIDE DEF f
  <2>4. Pushed(e, item) = Raised(f)
    BY <1>1, <2>2 DEF Pushed
  <2> QED
    BY <2>3, <2>4, CauseWell
<1>2. CASE ~Full(e)
  <2> DEFINE q == Append(e.fifo, item)
  <2>1. q \in Seq(Items) /\ Len(q) = Len(e.fifo) + 1
    BY <1>0
  <2>2. Len(q) <= FifoSize
    <3>1. Len(e.fifo) \in Nat /\ Len(e.fifo) < FifoSize
      BY <1>0, <1>2 DEF Full
    <3> QED
      BY <2>1, <3>1, <1>0
  <2> HIDE DEF q
  <2>3. Pushed(e, item) = [e EXCEPT !.fifo = q]
    BY <1>2 DEF Pushed, q
  <2> QED
    BY <1>0, <2>1, <2>2, <2>3 DEF Well, Queued, Chips
<1> QED
  BY <1>1, <1>2

LEMMA EndedWell ==
    ASSUME NEW e, Well(e), NEW left \in 0..MaxCount
    PROVE  Well(TransferEnded(e, left)) /\ TransferEnded(e, left).counter = left
<1>1. CASE left = 0
  <2> DEFINE f == [e EXCEPT !.counter = 0, !.tc = TRUE]
  <2>1. Well(f) /\ f.counter = 0
    <3>1. 0 \in 0..MaxCount
      BY ScsiAssumption
    <3>2. f \in Chips /\ f.counter = 0
      BY <3>1 DEF Well, Chips
    <3>3. f.queue = e.queue /\ f.inprog = e.inprog /\ f.fifo = e.fifo
      BY DEF Well, Chips
    <3> HIDE DEF f
    <3> QED
      BY <3>2, <3>3 DEF Well, Queued
  <2>2. TransferEnded(e, left) = Cause(f, {"FC"})
    BY <1>1 DEF TransferEnded
  <2> HIDE DEF f
  <2>3. Cause(f, {"FC"}).counter = f.counter
    BY <2>1 DEF Cause, Well, Chips
  <2> QED
    BY <1>1, <2>1, <2>2, <2>3, CauseWell DEF Causes
<1>2. CASE left # 0
  <2> DEFINE f == [e EXCEPT !.counter = left]
             g == CommandCleared(f)
  <2>1. Well(f) /\ f.counter = left
    BY DEF Well, Queued, Chips
  <2>2. TransferEnded(e, left) = Cause(g, {"BS"})
    BY <1>2 DEF TransferEnded
  <2> HIDE DEF f
  <2>3. Well(g) /\ g.counter = f.counter
    BY <2>1, CauseWell DEF CommandCleared, Well, Chips
  <2> HIDE DEF g
  <2>4. Cause(g, {"BS"}).counter = g.counter
    BY <2>3 DEF Cause, Well, Chips
  <2> QED
    BY <2>1, <2>2, <2>3, <2>4, CauseWell DEF Causes
<1> QED
  BY <1>1, <1>2

-----------------------------------------------------------------------------
(* The line of the DMA channel is not the chip's                           *)

SameChannel(i, j) == "scsi_dma" \in j.status <=> "scsi_dma" \in i.status

LEMMA LineSame ==
    ASSUME NEW e, NEW i, Sound(i)
    PROVE  Sound(RaisedLine(e, i)) /\ SameChannel(i, RaisedLine(e, i))
BY SetSound DEF RaisedLine, SameChannel, Lines

LEMMA PushLineSame ==
    ASSUME NEW e, NEW i, Sound(i)
    PROVE  Sound(PushedLine(e, i)) /\ SameChannel(i, PushedLine(e, i))
BY LineSame DEF PushedLine, SameChannel

LEMMA ClearSame ==
    ASSUME NEW i, Sound(i)
    PROVE  Sound(IntrClear(i, "scsi")) /\ SameChannel(i, IntrClear(i, "scsi"))
BY ClearSound DEF Sound, SameChannel, Lines

-----------------------------------------------------------------------------
(* The commands, once more: what they leave in every other part            *)

Deferrals == [ticks : 0..DmaDelay, in : BOOLEAN, count : 0..MaxCount]

\* The devices a command works on, apart from the chip's line.
Parts == Well(esp) /\ seltimer \in 0..SelDelay /\ deferred \in Deferrals /\ Target(disk)

\* A command started on chip e leaves them as they should be.
Tidy(i) == Parts' /\ SameChannel(i, intr')

LEMMA RaiseTidy ==
    ASSUME NEW e, Well(e), NEW causes \in SUBSET Causes, NEW i, NEW j, Sound(j), SameChannel(i, j),
           Raise(Cause(e, causes), j),
           seltimer' \in 0..SelDelay, deferred' \in Deferrals, Target(disk)'
    PROVE  Tidy(i)
<1>1. Well(Cause(e, causes))
  BY CauseWell
<1>2. Well(esp')
  BY <1>1, CauseWell DEF Raise
<1>3. SameChannel(j, intr')
  BY LineSame DEF Raise
<1> QED
  BY <1>2, <1>3 DEF Tidy, Parts, SameChannel

LEMMA PlainTidy ==
    ASSUME NEW e, Well(e), NEW i, Sound(i), Parts,
           \/ e.queue = NoCommand /\ (Nop(e, i) \/ Flush(e, i))
           \/ Refuse(e, i)
    PROVE  Tidy(i)
<1>1. CASE e.queue = NoCommand /\ Nop(e, i)
  <2>1. esp' = [e EXCEPT !.inprog = FALSE] /\ intr' = i /\ UNCHANGED <<seltimer, deferred, disk>>
    BY <1>1 DEF Nop
  <2>2. Well(esp')
    BY <1>1, <2>1 DEF Well, Queued, Chips
  <2> QED
    BY <2>1, <2>2 DEF Parts, Tidy, SameChannel
<1>2. CASE e.queue = NoCommand /\ Flush(e, i)
  <2> DEFINE f == [e EXCEPT !.inprog = FALSE, !.fifo = <<>>]
  <2>1. esp' = f /\ intr' = i /\ UNCHANGED <<seltimer, deferred, disk>>
    BY <1>2 DEF Flush
  <2>2. <<>> \in Seq(Items) /\ Len(<<>>) = 0
    OBVIOUS
  <2>3. f \in Chips
    BY <2>2 DEF Well, Chips
  <2>4. f.queue = e.queue /\ f.fifo = <<>>
    BY DEF Well, Chips
  <2> HIDE DEF f
  <2>5. Well(esp')
    BY <1>2, <2>1, <2>2, <2>3, <2>4, ScsiAssumption DEF Well, Queued
  <2> QED
    BY <2>1, <2>5 DEF Parts, Tidy, SameChannel
<1>3. CASE Refuse(e, i)
  <2>1. /\ Raise(Cause(CommandCleared(e), e.intstatus \cup {"ILL"}), i)
        /\ UNCHANGED <<seltimer, deferred, disk>>
    BY <1>3 DEF Refuse
  <2>2. e.intstatus \cup {"ILL"} \in SUBSET Causes
    BY DEF Well, Chips, Causes
  <2>3. Well(CommandCleared(e))
    BY CauseWell
  <2>4. seltimer' \in 0..SelDelay /\ deferred' \in Deferrals /\ Target(disk)'
    BY <2>1 DEF Parts
  <2>5. SameChannel(i, i)
    BY DEF SameChannel
  <2> QED
    BY <2>1, <2>2, <2>3, <2>4, <2>5, RaiseTidy
<1> QED
  BY <1>1, <1>2, <1>3

LEMMA ResetTidy ==
    ASSUME NEW e \in Chips, Len(e.fifo) <= FifoSize, NEW i, Sound(i), Parts,
           ChipReset(e, i) \/ BusReset(e, i)
    PROVE  Tidy(i)
<1>0. 0 \in 0..SelDelay
  BY ScsiAssumption
<1>1. CASE ChipReset(e, i)
  BY <1>0, <1>1, ResetWell, ClearSame DEF ChipReset, Parts, Tidy
<1>2. CASE BusReset(e, i)
  <2>1. seltimer' = 0 /\ UNCHANGED deferred
    BY <1>2 DEF BusReset
  <2>2. Well(SoftReset(e)) /\ SameChannel(i, i)
    BY ResetWell DEF SameChannel
  <2>3. CASE esp' = SoftReset(e) /\ intr' = i /\ UNCHANGED disk
    BY <1>0, <2>1, <2>2, <2>3 DEF Parts, Tidy
  <2>4. CASE Raise(Cause(SoftReset(e), {"RST"}), i) /\ disk' = [disk EXCEPT !.phase = "MI"]
    <3>1. Target(disk)'
      BY <2>4, PhaseKept DEF Parts, Phases
    <3>2. seltimer' \in 0..SelDelay /\ deferred' \in Deferrals /\ {"RST"} \in SUBSET Causes
      BY <1>0, <2>1 DEF Parts, Causes
    <3> QED
      BY <2>2, <2>4, <3>1, <3>2, RaiseTidy
  <2> QED
    BY <1>2, <2>3, <2>4 DEF BusReset
<1> QED
  BY <1>1, <1>2

LEMMA SelectTidy ==
    ASSUME NEW e, Well(e), NEW i, Sound(i), Parts, SelectTimesOut(e, i) \/ SelectTakesCommand(e, i)
    PROVE  Tidy(i)
<1>0. SameChannel(i, i)
  BY DEF SameChannel
<1>1. CASE SelectTimesOut(e, i)
  <2>1. /\ esp' = CommandCleared(Cause(e, {"DC"})) /\ intr' = i /\ seltimer' = SelDelay
        /\ disk' = [disk EXCEPT !.phase = "ST"] /\ UNCHANGED deferred
    BY <1>1 DEF SelectTimesOut
  <2>2. Well(Cause(e, {"DC"}))
    BY CauseWell DEF Causes
  <2>3. Well(esp')
    BY <2>1, <2>2, CauseWell
  <2>4. Target(disk)'
    BY <2>1, PhaseKept DEF Parts, Phases
  <2>5. seltimer' \in 0..SelDelay
    BY <2>1, ScsiAssumption
  <2> QED
    BY <1>0, <2>1, <2>3, <2>4, <2>5 DEF Parts, Tidy
<1>2. CASE SelectTakesCommand(e, i)
  <2>1. PICK cdb \in BlockIn(e.fifo), failing \in CardFaults : disk' = ReceiveCommand(disk, cdb, failing)
    BY <1>2 DEF SelectTakesCommand
  <2>2. PICK n \in 0..Len(e.fifo) :
           Raise(Cause(CommandCleared([e EXCEPT !.fifo = SubSeq(@, n + 1, Len(@))]), {"BS", "FC"}), i)
    BY <1>2 DEF SelectTakesCommand
  <2>3. seltimer' = 0 /\ UNCHANGED deferred
    BY <1>2 DEF SelectTakesCommand
  <2>4. cdb \in Cdbs
    BY DEF BlockIn
  <2>5. Target(disk)'
    BY <2>1, <2>4, ReceiveTarget DEF Parts
  <2> DEFINE q == SubSeq(e.fifo, n + 1, Len(e.fifo))
             f == [e EXCEPT !.fifo = q]
  <2>6. q \in Seq(Items) /\ Len(q) <= FifoSize
    <3>0. e.fifo \in Seq(Items) /\ Len(e.fifo) <= FifoSize /\ FifoSize \in Nat
      BY ScsiAssumption DEF Well, Chips
    <3>1. Len(e.fifo) \in Nat /\ n + 1 \in 1..Len(e.fifo) + 1
      BY <3>0
    <3>2. q \in Seq(Items) /\ Len(q) = Len(e.fifo) - n
      BY <3>0, <3>1, SubSeqProperties
    <3> QED
      BY <3>0, <3>1, <3>2
  <2>7. f = [e EXCEPT !.fifo = SubSeq(@, n + 1, Len(@))]
    OBVIOUS
  <2> HIDE DEF q
  <2>8. Well(f)
    BY <2>6 DEF Well, Queued, Chips
  <2> HIDE DEF f
  <2>9. Well(CommandCleared(f)) /\ {"BS", "FC"} \in SUBSET Causes
    BY <2>8, CauseWell DEF Causes
  <2>10. Raise(Cause(CommandCleared(f), {"BS", "FC"}), i)
    BY <2>2, <2>7
  <2>11. seltimer' \in 0..SelDelay /\ deferred' \in Deferrals
    BY <2>3, ScsiAssumption DEF Parts
  <2> QED
    BY <1>0, <2>5, <2>9, <2>10, <2>11, RaiseTidy
<1> QED
  BY <1>1, <1>2

LEMMA TransferTidy ==
    ASSUME NEW e, Well(e), NEW i, Sound(i), Parts,
           TransferDma(e, i) \/ TransferByte(e, i) \/ TransferPad(e, i)
    PROVE  Tidy(i)
<1>0. SameChannel(i, i) /\ e.counter \in 0..MaxCount /\ MaxCount \in Nat
  BY ScsiAssumption DEF SameChannel, Well, Chips
<1>1. CASE TransferDma(e, i)
  <2>1. /\ deferred' = IF deferred.ticks > 0 THEN deferred
                       ELSE [ticks |-> DmaDelay, in |-> disk.phase = "DI", count |-> e.counter]
        /\ esp' = e /\ intr' = i /\ UNCHANGED <<seltimer, disk>>
    BY <1>1 DEF TransferDma
  <2>2. deferred' \in Deferrals
    <3>1. DmaDelay \in 0..DmaDelay /\ (disk.phase = "DI") \in BOOLEAN
      BY ScsiAssumption
    <3> QED
      BY <1>0, <2>1, <3>1 DEF Parts, Deferrals
  <2> QED
    BY <1>0, <2>1, <2>2 DEF Parts, Tidy
<1>2. CASE TransferByte(e, i)
  <2>1. seltimer' \in 0..SelDelay /\ deferred' \in Deferrals
    BY <1>2 DEF TransferByte, Parts
  <2>2. CASE disk.phase = "DI"
    <3>1. Raise(Cause(Pushed(e, DataByte), {"FC"}), PushedLine(e, i))
      BY <1>2, <2>2 DEF TransferByte
    <3>2. PICK failing : disk' = IF disk.size > 0 THEN ConsumeByte(disk, failing) ELSE disk
      BY <1>2, <2>2 DEF TransferByte
    <3>3. Target(disk)'
      BY <3>2, ConsumeTarget DEF Parts
    <3>4. Well(Pushed(e, DataByte)) /\ {"FC"} \in SUBSET Causes
      BY PushWell DEF Items, Causes
    <3>5. Sound(PushedLine(e, i)) /\ SameChannel(i, PushedLine(e, i))
      BY PushLineSame
    <3> QED
      BY <2>1, <3>1, <3>3, <3>4, <3>5, RaiseTidy
  <2>3. CASE disk.phase # "DI"
    <3>1. PICK causes \in {{"FC"}, {"ILL"}} : Raise(Cause(e, causes), i)
      BY <1>2, <2>3 DEF TransferByte
    <3>2. causes \in SUBSET Causes
      BY DEF Causes
    <3>3. Target(disk)'
      BY <1>2, <2>3 DEF TransferByte, Parts
    <3> QED
      BY <1>0, <2>1, <3>1, <3>2, <3>3, RaiseTidy
  <2> QED
    BY <2>2, <2>3
<1>3. CASE TransferPad(e, i)
  <2>1. seltimer' \in 0..SelDelay /\ deferred' \in Deferrals
    BY <1>3 DEF TransferPad, Parts
  <2>2. Target(disk)' /\ \E left \in 0..e.counter : Raise(TransferEnded(e, left), i)
    BY <1>0, <1>3, PadIsLoop DEF Parts
  <2>3. PICK left \in 0..e.counter : Raise(TransferEnded(e, left), i)
    BY <2>2
  <2>4. Well(TransferEnded(e, left))
    BY <1>0, EndedWell
  <2>5. Well(esp')
    BY <2>3, <2>4, CauseWell DEF Raise
  <2>6. SameChannel(i, intr')
    BY <2>3, LineSame DEF Raise
  <2> QED
    BY <2>1, <2>2, <2>5, <2>6 DEF Tidy, Parts
<1> QED
  BY <1>1, <1>2, <1>3

LEMMA EndingTidy ==
    ASSUME NEW e, Well(e), NEW i, Sound(i), Parts, CommandComplete(e, i) \/ MessageAccepted(e, i)
    PROVE  Tidy(i)
<1>1. CASE CommandComplete(e, i)
  <2> DEFINE e1 == Pushed(e, StatusByte)
             i1 == PushedLine(e, i)
  <2>1. Well(e1) /\ Sound(i1) /\ SameChannel(i, i1)
    BY PushWell, PushLineSame DEF Items
  <2>2. /\ Raise(Cause(Pushed(e1, MessageByte), {"FC"}), PushedLine(e1, i1))
        /\ disk' = [disk EXCEPT !.phase = "MI"] /\ UNCHANGED <<seltimer, deferred>>
    BY <1>1 DEF CommandComplete
  <2> HIDE DEF e1, i1
  <2>3. Well(Pushed(e1, MessageByte)) /\ Sound(PushedLine(e1, i1)) /\ SameChannel(i, PushedLine(e1, i1))
    BY <2>1, PushWell, PushLineSame DEF Items, SameChannel
  <2>4. Target(disk)' /\ seltimer' \in 0..SelDelay /\ deferred' \in Deferrals
    BY <2>2, PhaseKept DEF Parts, Phases
  <2>5. {"FC"} \in SUBSET Causes
    BY DEF Causes
  <2> QED
    BY <2>2, <2>3, <2>4, <2>5, RaiseTidy
<1>2. CASE MessageAccepted(e, i)
  <2>1. /\ Raise(Cause(e, {"BS"}), i)
        /\ disk' = [disk EXCEPT !.phase = "ST"] /\ UNCHANGED <<seltimer, deferred>>
    BY <1>2 DEF MessageAccepted
  <2>2. Target(disk)' /\ seltimer' \in 0..SelDelay /\ deferred' \in Deferrals
    BY <2>1, PhaseKept DEF Parts, Phases
  <2>3. {"BS"} \in SUBSET Causes /\ SameChannel(i, i)
    BY DEF Causes, SameChannel
  <2> QED
    BY <2>1, <2>2, <2>3, RaiseTidy
<1> QED
  BY <1>1, <1>2

\* A reset may come while another command is in progress and a third one waits.
LEMMA StartTidy ==
    ASSUME NEW c \in Commands, NEW e0, Well(e0), NEW i, Sound(i), Parts, Start(c, e0, i),
           c.op \in {"reset", "busreset"} \/ e0.queue = NoCommand
    PROVE  Tidy(i) /\ UNCHANGED <<dma, mem>>
<1> DEFINE e == [e0 EXCEPT !.inprog = TRUE,
                           !.tc = @ /\ ~c.dma,
                           !.counter = IF ~c.dma THEN @
                                       ELSE IF e0.count = 0 THEN MaxCount ELSE e0.count]
<1>1. Well(e) /\ e.queue = e0.queue
  <2>1. /\ (IF ~c.dma THEN e0.counter ELSE IF e0.count = 0 THEN MaxCount ELSE e0.count) \in 0..MaxCount
        /\ (e0.tc /\ ~c.dma) \in BOOLEAN
    BY ScsiAssumption DEF Well, Chips
  <2>2. e \in Chips /\ e.queue = e0.queue /\ e.inprog = TRUE /\ e.fifo = e0.fifo
    BY <2>1 DEF Well, Chips
  <2> HIDE DEF e
  <2> QED
    BY <2>2 DEF Well, Queued
<1>2. /\ UNCHANGED <<dma, mem>>
      /\ \/ c.op \notin {"reset", "busreset"} /\ (Nop(e, i) \/ Flush(e, i))
         \/ Refuse(e, i)
         \/ ChipReset(e, i) \/ BusReset(e, i)
         \/ SelectTimesOut(e, i) \/ SelectTakesCommand(e, i)
         \/ TransferDma(e, i) \/ TransferByte(e, i) \/ TransferPad(e, i)
         \/ CommandComplete(e, i) \/ MessageAccepted(e, i)
  BY DEF Start
<1> HIDE DEF e
<1>3. CASE c.op \notin {"reset", "busreset"} /\ (Nop(e, i) \/ Flush(e, i))
  BY <1>1, <1>2, <1>3, PlainTidy
<1>4. CASE ChipReset(e, i) \/ BusReset(e, i)
  BY <1>1, <1>2, <1>4, ResetTidy DEF Well
<1> QED
  BY <1>1, <1>2, <1>3, <1>4, PlainTidy, SelectTidy, TransferTidy, EndingTidy

-----------------------------------------------------------------------------
(* The steps, once more                                                    *)

Memory == DOMAIN mem = 0..RamTop - 1

FreeInv == ScsiInv /\ Parts /\ dma \in Channels /\ Memory /\ DmaLineMeansComplete

\* A step that leaves the channel, its line and memory alone.
LEMMA ChipStep ==
    ASSUME FreeInv, Tidy(intr), UNCHANGED <<dma, mem>>
    PROVE  Parts' /\ dma' \in Channels /\ Memory' /\ DmaLineMeansComplete'
BY DEF FreeInv, Tidy, SameChannel, DmaLineMeansComplete, Memory

LEMMA CommandFree ==
    ASSUME FreeInv, NEW c \in Commands, WriteCommand(c)
    PROVE  Tidy(intr) /\ UNCHANGED <<dma, mem>>
<1> DEFINE waiting == esp.queue # NoCommand
           e == [esp EXCEPT !.ge = @ \/ waiting]
<1>0. Well(esp) /\ Sound(intr) /\ Parts
  BY DEF FreeInv, Parts, ScsiInv, Agree
<1>1. Well(e) /\ e.queue = esp.queue /\ e.inprog = esp.inprog /\ e.fifo = esp.fifo
  <2>1. (esp.ge \/ waiting) \in BOOLEAN
    BY <1>0 DEF Well, Chips
  <2> HIDE DEF waiting
  <2>2. e \in Chips /\ e.queue = esp.queue /\ e.inprog = esp.inprog /\ e.fifo = esp.fifo
    BY <1>0, <2>1 DEF Well, Chips
  <2> HIDE DEF e
  <2> QED
    BY <1>0, <2>2 DEF Well, Queued
<1>2. \/ (c.op \in {"reset", "busreset"} \/ ~esp.inprog) /\ Start(c, e, intr)
      \/ /\ c.op \notin {"reset", "busreset"} /\ esp.inprog
         /\ esp' = [e EXCEPT !.queue = c]
         /\ UNCHANGED <<seltimer, dma, deferred, disk, intr, mem>>
  BY DEF WriteCommand
<1> HIDE DEF e
<1>3. CASE (c.op \in {"reset", "busreset"} \/ ~esp.inprog) /\ Start(c, e, intr)
  <2>1. c.op \in {"reset", "busreset"} \/ e.queue = NoCommand
    BY <1>0, <1>1, <1>3 DEF Well, Queued
  <2> QED
    BY <1>0, <1>1, <1>3, <2>1, StartTidy
<1>4. CASE /\ c.op \notin {"reset", "busreset"} /\ esp.inprog
           /\ esp' = [e EXCEPT !.queue = c]
           /\ UNCHANGED <<seltimer, dma, deferred, disk, intr, mem>>
  <2>1. Well(esp')
    BY <1>1, <1>4 DEF Well, Queued, Chips
  <2> QED
    BY <1>0, <1>4, <2>1 DEF Tidy, Parts, SameChannel
<1> QED
  BY <1>2, <1>3, <1>4

LEMMA FifoFree ==
    ASSUME FreeInv, ReadFifo \/ \E item \in Cdbs \cup {Identify} : WriteFifo(item)
    PROVE  Tidy(intr) /\ UNCHANGED <<dma, mem>>
<1>0. Well(esp) /\ Sound(intr) /\ Parts
  BY DEF FreeInv, Parts, ScsiInv, Agree
<1>1. CASE ReadFifo
  <2> DEFINE q == Tail(esp.fifo)
  <2>1. /\ esp.fifo # <<>> /\ esp' = [esp EXCEPT !.fifo = q]
        /\ UNCHANGED <<seltimer, dma, deferred, disk, intr, mem>>
    BY <1>1 DEF ReadFifo
  <2>2. q \in Seq(Items) /\ Len(q) <= FifoSize
    <3>1. esp.fifo \in Seq(Items) /\ Len(esp.fifo) <= FifoSize /\ FifoSize \in Nat
      BY <1>0, ScsiAssumption DEF Well, Chips
    <3>2. q \in Seq(Items) /\ Len(q) = Len(esp.fifo) - 1 /\ Len(esp.fifo) \in Nat
      BY <2>1, <3>1
    <3> QED
      BY <3>1, <3>2
  <2> HIDE DEF q
  <2>3. Well(esp')
    BY <1>0, <2>1, <2>2 DEF Well, Queued, Chips
  <2> QED
    BY <1>0, <2>1, <2>3 DEF Tidy, Parts, SameChannel
<1>2. ASSUME NEW item \in Cdbs \cup {Identify}, WriteFifo(item)
      PROVE  Tidy(intr) /\ UNCHANGED <<dma, mem>>
  <2>1. Well(Pushed(esp, item)) /\ SameChannel(intr, PushedLine(esp, intr))
    BY <1>0, PushWell, PushLineSame DEF Items
  <2> QED
    BY <1>0, <1>2, <2>1 DEF WriteFifo, Tidy, Parts
<1> QED
  BY <1>1, <1>2

LEMMA IntStatusFree ==
    ASSUME FreeInv, ReadIntStatus
    PROVE  Tidy(intr) /\ UNCHANGED <<dma, mem>>
<1> DEFINE e == [esp EXCEPT !.intstatus = {}, !.ge = FALSE, !.int = FALSE,
                            !.inprog = FALSE, !.queue = NoCommand]
           i == IntrClear(intr, "scsi")
<1>0. Well(esp) /\ Sound(intr) /\ Parts
  BY DEF FreeInv, Parts, ScsiInv, Agree
<1>1. Well(e) /\ e.queue = NoCommand
  <2>1. {} \in SUBSET Causes /\ NoCommand \in Commands \cup {NoCommand}
    OBVIOUS
  <2>2. e \in Chips /\ e.queue = NoCommand /\ e.fifo = esp.fifo
    BY <1>0, <2>1 DEF Well, Chips
  <2> HIDE DEF e
  <2> QED
    BY <1>0, <2>2, QueueEmpty DEF Well, Queued
<1>2. Sound(i) /\ SameChannel(intr, i)
  BY <1>0, ClearSame
<1>3. \/ /\ esp' = e /\ intr' = i /\ UNCHANGED <<seltimer, dma, deferred, disk, mem>>
      \/ esp.queue # NoCommand /\ Start(esp.queue, e, i)
  BY DEF ReadIntStatus
<1> HIDE DEF e, i
<1>4. CASE esp' = e /\ intr' = i /\ UNCHANGED <<seltimer, dma, deferred, disk, mem>>
  BY <1>0, <1>1, <1>2, <1>4 DEF Tidy, Parts
<1>5. CASE esp.queue # NoCommand /\ Start(esp.queue, e, i)
  <2>1. esp.queue \in Commands
    BY <1>0, <1>5 DEF Well, Chips
  <2>2. Tidy(i) /\ UNCHANGED <<dma, mem>>
    BY <1>0, <1>1, <1>2, <1>5, <2>1, StartTidy
  <2> QED
    BY <1>2, <2>2 DEF Tidy, SameChannel
<1> QED
  BY <1>3, <1>4, <1>5

LEMMA RegistersFree ==
    ASSUME FreeInv,
           \/ \E count \in 0..MaxCount, busid, resrept \in BOOLEAN : WriteSetup(count, busid, resrept)
           \/ \E enable, reset \in BOOLEAN : WriteDmaControl(enable, reset)
    PROVE  Tidy(intr) /\ UNCHANGED <<dma, mem>>
<1>0. Well(esp) /\ Sound(intr) /\ Parts
  BY DEF FreeInv, Parts, ScsiInv, Agree
<1>1. ASSUME NEW count \in 0..MaxCount, NEW busid \in BOOLEAN, NEW resrept \in BOOLEAN,
             WriteSetup(count, busid, resrept)
      PROVE  Tidy(intr) /\ UNCHANGED <<dma, mem>>
  <2>1. Well(esp')
    BY <1>0, <1>1 DEF WriteSetup, Well, Queued, Chips
  <2> QED
    BY <1>0, <1>1, <2>1 DEF WriteSetup, Tidy, Parts, SameChannel
<1>2. ASSUME NEW enable \in BOOLEAN, NEW reset \in BOOLEAN, WriteDmaControl(enable, reset)
      PROVE  Tidy(intr) /\ UNCHANGED <<dma, mem>>
  <2> DEFINE e0 == [esp EXCEPT !.enable = enable]
             i == IF reset THEN IntrClear(intr, "scsi") ELSE intr
  <2>1. Well(e0)
    BY <1>0 DEF Well, Queued, Chips
  <2>2. Sound(i) /\ SameChannel(intr, i)
    BY <1>0, ClearSame DEF SameChannel
  <2>3. esp' = IF reset THEN HardReset(e0) ELSE e0
    BY <1>2 DEF WriteDmaControl
  <2>4. intr' = IntrClear(i, "scsi") \/ intr' = IntrSet(i, "scsi") \/ intr' = i
    BY <1>2 DEF WriteDmaControl
  <2>5. seltimer' = (IF reset THEN 0 ELSE seltimer) /\ UNCHANGED <<dma, deferred, disk, mem>>
    BY <1>2 DEF WriteDmaControl
  <2> HIDE DEF e0, i
  <2>6. Well(esp')
    BY <2>1, <2>3, ResetWell DEF Well
  <2>7. SameChannel(i, intr')
    BY <2>2, <2>4, ClearSame, SetSound DEF SameChannel, Lines
  <2>8. seltimer' \in 0..SelDelay
    BY <1>0, <2>5, ScsiAssumption DEF Parts
  <2> QED
    BY <1>0, <2>2, <2>5, <2>6, <2>7, <2>8 DEF Tidy, Parts, SameChannel
<1> QED
  BY <1>1, <1>2

\* Clearing what is complete withdraws the line with it.
LEMMA ChannelFree ==
    ASSUME FreeInv,
           \/ \E window \in Nat \X Nat, chained \in BOOLEAN : WriteDmaWindow(window, chained)
           \/ \E flags : WriteCsr(flags)
    PROVE  Parts' /\ dma' \in Channels /\ Memory' /\ DmaLineMeansComplete' /\ UNCHANGED mem
<1>0. Parts /\ Sound(intr) /\ dma \in Channels /\ Memory /\ DmaLineMeansComplete
  BY DEF FreeInv, ScsiInv, Agree
<1>1. ASSUME NEW window \in Nat \X Nat, NEW chained \in BOOLEAN, WriteDmaWindow(window, chained)
      PROVE  Parts' /\ dma' \in Channels /\ Memory' /\ DmaLineMeansComplete' /\ UNCHANGED mem
  <2>1. window[1] \in Nat /\ window[2] \in Nat
    OBVIOUS
  <2>2. dma' \in Channels /\ dma'.complete = dma.complete
    BY <1>0, <1>1, <2>1 DEF WriteDmaWindow, Channels
  <2> QED
    BY <1>0, <1>1, <2>2 DEF WriteDmaWindow, Parts, Memory, DmaLineMeansComplete
<1>2. ASSUME NEW flags, WriteCsr(flags)
      PROVE  Parts' /\ dma' \in Channels /\ Memory' /\ DmaLineMeansComplete' /\ UNCHANGED mem
  <2> DEFINE reset == "reset" \in flags
             clear == reset \/ "clrcomplete" \in flags
  <2>1. /\ dma' = [dma EXCEPT !.complete = @ /\ ~clear,
                              !.supdate = (@ /\ ~reset) \/ "setsupdate" \in flags,
                              !.enable = (@ /\ ~reset) \/ "setenable" \in flags]
        /\ deferred' = IF reset THEN [deferred EXCEPT !.ticks = 0] ELSE deferred
        /\ intr' = IF clear THEN IntrClear(intr, "scsi_dma") ELSE intr
        /\ UNCHANGED <<esp, seltimer, disk, mem>>
    BY <1>2 DEF WriteCsr
  <2> HIDE DEF reset, clear
  <2>2. dma' \in Channels /\ (~clear => dma'.complete = dma.complete)
    BY <1>0, <2>1 DEF Channels
  <2>3. clear => "scsi_dma" \notin intr'.status
    BY <1>0, <2>1, ClearSound DEF Sound, Lines
  <2>4. deferred' \in Deferrals
    BY <1>0, <2>1, ScsiAssumption DEF Parts, Deferrals
  <2> QED
    BY <1>0, <2>1, <2>2, <2>3, <2>4 DEF Parts, Memory, DmaLineMeansComplete
<1> QED
  BY <1>1, <1>2

LEMMA ControllerFree ==
    ASSUME FreeInv, EndOfSlice \/ \E mask \in SUBSET Lines : WriteMask(mask)
    PROVE  Tidy(intr) /\ UNCHANGED <<dma, mem>>
<1>1. intr'.status = intr.status /\ UNCHANGED <<esp, seltimer, dma, deferred, disk, mem>>
  BY ShownSound, MaskSound DEF EndOfSlice, WriteMask, FreeInv, ScsiInv, Agree, Sound
<1> QED
  BY <1>1 DEF FreeInv, Tidy, Parts, SameChannel

\* RAM changes as MemoryByTransferOnly says.
Deposits ==
    \A a \in DOMAIN mem : mem'[a] # mem[a] =>
          /\ deferred.ticks = 1 /\ deferred.in /\ dma.enable
          /\ a \in dma.next..dma.limit - 1
          /\ a < dma.next + deferred.count - esp'.counter

LEMMA TickWell ==
    ASSUME NEW e, Well(e), NEW i, Sound(i), SelectionTick(e, i), seltimer \in 0..SelDelay
    PROVE  Well(esp') /\ esp'.counter = e.counter /\ SameChannel(i, intr') /\ seltimer' \in 0..SelDelay
<1>1. seltimer' \in 0..SelDelay
  BY ScsiAssumption DEF SelectionTick
<1>2. CASE seltimer = 1
  <2>1. Raise(e, i)
    BY <1>2 DEF SelectionTick
  <2>2. Well(Raised(e)) /\ SameChannel(i, RaisedLine(e, i))
    BY CauseWell, LineSame
  <2>3. Raised(e).counter = e.counter
    BY DEF Raised, Well, Chips
  <2> QED
    BY <1>1, <2>1, <2>2, <2>3 DEF Raise
<1>3. CASE seltimer # 1
  BY <1>1, <1>3 DEF SelectionTick, SameChannel
<1> QED
  BY <1>2, <1>3

LEMMA HookFree ==
    ASSUME FreeInv, InstructionHook
    PROVE  Parts' /\ dma' \in Channels /\ Memory' /\ DmaLineMeansComplete' /\ Deposits
<1>0. /\ Parts /\ Sound(intr) /\ dma \in Channels /\ Memory /\ DmaLineMeansComplete
      /\ Well(esp) /\ Target(disk) /\ deferred \in Deferrals /\ seltimer \in 0..SelDelay
  BY DEF FreeInv, ScsiInv, Agree, Parts
<1>1. Sound(IntrTick(intr)) /\ IntrTick(intr).status = intr.status
  BY <1>0, TickSound
<1>2. CASE DmaRuns
  <2>1. PICK failing :
           LET t == Transfer(deferred.in, deferred.count, failing)
               i1 == IF t.done THEN IntrSet(IntrTick(intr), "scsi_dma") ELSE IntrTick(intr)
               e1 == TransferEnded(esp, t.left)
           IN  /\ dma' = t.dma /\ disk' = t.disk /\ mem' = t.mem
               /\ SelectionTick(Raised(e1), RaisedLine(e1, i1))
    BY <1>2 DEF DmaRuns
  <2> DEFINE t == Transfer(deferred.in, deferred.count, failing)
             i1 == IF t.done THEN IntrSet(IntrTick(intr), "scsi_dma") ELSE IntrTick(intr)
             e1 == TransferEnded(esp, t.left)
  <2>2. /\ dma' = t.dma /\ disk' = t.disk /\ mem' = t.mem
        /\ SelectionTick(Raised(e1), RaisedLine(e1, i1))
    BY <2>1
  <2>3. deferred.ticks = 1 /\ deferred' = [deferred EXCEPT !.ticks = 0]
    BY <1>2 DEF DmaRuns
  <2>4. Sound(i1) /\ (SameChannel(intr, i1) \/ t.done)
    BY <1>1, SetSound DEF Lines, SameChannel
  <2>5. deferred.count \in 0..MaxCount /\ deferred.count \in Nat
    BY <1>0, ScsiAssumption DEF Deferrals
  <2> HIDE DEF i1
  <2>6. /\ t.dma \in Channels /\ Target(t.disk) /\ t.left \in 0..deferred.count
        /\ DOMAIN t.mem = DOMAIN mem
        /\ t.done => t.dma.complete
        /\ dma.complete => t.dma.complete
        /\ \A a \in DOMAIN mem : t.mem[a] # mem[a] =>
              /\ deferred.in /\ dma.enable
              /\ a \in dma.next..dma.limit - 1
              /\ a < dma.next + deferred.count - t.left
    <3>1. Delivery(Transfer(deferred.in, deferred.count, failing), deferred.in, deferred.count)
      BY <1>0, <2>5, TransferResult
    <3>2. Delivery(t, deferred.in, deferred.count)
      BY <3>1
    <3> HIDE DEF e1, t
    <3> QED
      BY <3>2 DEF Delivery
  <2> HIDE DEF t
  <2>7. t.left \in 0..MaxCount
    BY <2>5, <2>6, ScsiAssumption
  <2>8. Well(e1) /\ e1.counter = t.left
    BY <1>0, <2>7, EndedWell
  <2> HIDE DEF e1
  <2>9. Well(Raised(e1)) /\ Raised(e1).counter = t.left
    <3>1. Raised(e1).counter = e1.counter
      BY <2>8 DEF Raised, Well, Chips
    <3> QED
      BY <2>8, <3>1, CauseWell
  <2>10. Sound(RaisedLine(e1, i1)) /\ SameChannel(i1, RaisedLine(e1, i1))
    BY <2>4, LineSame
  <2>11. /\ Well(esp') /\ esp'.counter = t.left /\ SameChannel(RaisedLine(e1, i1), intr')
         /\ seltimer' \in 0..SelDelay
    <3>1. /\ Well(esp') /\ esp'.counter = Raised(e1).counter
          /\ SameChannel(RaisedLine(e1, i1), intr') /\ seltimer' \in 0..SelDelay
      BY <1>0, <2>2, <2>9, <2>10, TickWell
    <3> QED
      BY <2>9, <3>1
  <2>12. DmaLineMeansComplete'
    BY <1>0, <2>2, <2>4, <2>6, <2>10, <2>11 DEF DmaLineMeansComplete, SameChannel
  <2>13. deferred' \in Deferrals
    BY <1>0, <2>3, ScsiAssumption DEF Deferrals
  <2>14. Deposits
    BY <2>2, <2>3, <2>6, <2>11 DEF Deposits
  <2>15. Parts'
    BY <2>2, <2>6, <2>11, <2>13 DEF Parts
  <2>16. dma' \in Channels /\ Memory'
    BY <1>0, <2>2, <2>6 DEF Memory
  <2> QED
    BY <2>12, <2>14, <2>15, <2>16
<1>3. CASE DmaWaits
  <2>1. /\ deferred' = [deferred EXCEPT !.ticks = IF @ = 0 THEN 0 ELSE @ - 1]
        /\ SelectionTick(esp, IntrTick(intr)) /\ UNCHANGED <<dma, disk, mem>>
    BY <1>3 DEF DmaWaits
  <2>2. Well(esp') /\ SameChannel(IntrTick(intr), intr') /\ seltimer' \in 0..SelDelay
    BY <1>0, <1>1, <2>1, TickWell
  <2>3. deferred' \in Deferrals
    BY <1>0, <2>1, ScsiAssumption DEF Deferrals
  <2> QED
    BY <1>0, <1>1, <2>1, <2>2, <2>3 DEF Parts, Memory, DmaLineMeansComplete, SameChannel, Deposits
<1> QED
  BY <1>2, <1>3 DEF InstructionHook

LEMMA FreeStep ==
    ASSUME FreeInv, [GuestNext]_scsiVars
    PROVE  FreeInv' /\ Deposits
<1>0. ScsiInv'
  BY ScsiStep DEF FreeInv
<1>1. CASE UNCHANGED scsiVars
  BY <1>0, <1>1 DEF scsiVars, FreeInv, Parts, Memory, DmaLineMeansComplete, Deposits
<1>2. CASE Tidy(intr) /\ UNCHANGED <<dma, mem>>
  <2>1. Parts' /\ dma' \in Channels /\ Memory' /\ DmaLineMeansComplete'
    BY <1>2, ChipStep
  <2>2. Deposits
    BY <1>2 DEF Deposits
  <2> QED
    BY <1>0, <2>1, <2>2 DEF FreeInv
<1>3. CASE Guest
  <2>1. CASE \/ \E window \in Nat \X Nat, chained \in BOOLEAN : WriteDmaWindow(window, chained)
             \/ \E flags : WriteCsr(flags)
    <3>1. Parts' /\ dma' \in Channels /\ Memory' /\ DmaLineMeansComplete' /\ UNCHANGED mem
      BY <2>1, ChannelFree
    <3>2. Deposits
      BY <3>1 DEF Deposits
    <3> QED
      BY <1>0, <3>1, <3>2 DEF FreeInv
  <2>2. CASE ~ \/ \E window \in Nat \X Nat, chained \in BOOLEAN : WriteDmaWindow(window, chained)
               \/ \E flags : WriteCsr(flags)
    <3>1. Tidy(intr) /\ UNCHANGED <<dma, mem>>
      BY <1>3, <2>2, CommandFree, FifoFree, IntStatusFree, RegistersFree, ControllerFree DEF Guest
    <3> QED
      BY <1>2, <3>1
  <2> QED
    BY <2>1, <2>2
<1>4. CASE InstructionHook
  BY <1>0, <1>4, HookFree DEF FreeInv
<1>5. CASE EndOfSlice
  BY <1>2, <1>5, ControllerFree
<1> QED
  BY <1>1, <1>3, <1>4, <1>5 DEF GuestNext

LEMMA FreeStart == ScsiInit => FreeInv
<1> SUFFICES ASSUME ScsiInit PROVE FreeInv
  OBVIOUS
<1>1. ScsiInit => ScsiInv
  BY ScsiStart
<1>2. Well(esp)
  <2>1. esp \in Chips
    <3>1. <<>> \in Seq(Items) /\ {} \in SUBSET Causes /\ 0 \in 0..MaxCount
      BY ScsiAssumption
    <3> QED
      BY <3>1 DEF ScsiInit, Chips
  <2>2. esp.queue = NoCommand /\ Len(esp.fifo) = 0
    BY DEF ScsiInit
  <2> QED
    BY <2>1, <2>2, QueueEmpty, ScsiAssumption DEF Well, Queued
<1>3. seltimer \in 0..SelDelay /\ deferred \in Deferrals /\ dma \in Channels
  BY ScsiAssumption DEF ScsiInit, Deferrals, Channels
<1>4. Target(disk)
  <2>1. disk = DiskInit
    BY DEF ScsiInit
  <2>2. disk = [f \in TargetFields |-> disk[f]]
    BY <2>1 DEF DiskInit, TargetFields
  <2>3. disk.phase = "ST" /\ disk.status = "good" /\ disk.size = 0 /\ disk.limit = 0
    BY <2>1 DEF DiskInit
  <2> QED
    BY <2>2, <2>3 DEF Target, Phases
<1>5. Memory /\ DmaLineMeansComplete
  BY DEF ScsiInit, Memory, DmaLineMeansComplete
<1> QED
  BY <1>1, <1>2, <1>3, <1>4, <1>5 DEF FreeInv, Parts

LEMMA FreeInvariant == ScsiSpec => []FreeInv
<1>1. ScsiInit => FreeInv
  BY FreeStart
<1>2. FreeInv /\ [ScsiNext]_scsiVars => FreeInv'
  BY FreeStep, AccessIsGuests
<1> QED
  BY <1>1, <1>2, PTL DEF ScsiSpec

-----------------------------------------------------------------------------
(* The theorems                                                            *)

\* The SCSI interrupt line is up exactly while the chip has an interrupt
\* pending and interrupts are enabled, for every guest, disk and delay.
THEOREM LineIsLevel == ScsiSpec => []LineFollowsChip
<1>1. ScsiInv => LineFollowsChip
  BY DEF ScsiInv, Agree, LineFollowsChip
<1> QED
  BY <1>1, ScsiInvariant, PTL

\* A pending interrupt is shown to the processor, or is being counted down
\* to, and nothing above it is held back meanwhile.
THEOREM NothingIsLost == ScsiSpec => []InterruptsArrive
<1>1. ScsiInv => InterruptsArrive
  BY DEF ScsiInv, Agree, Sound, InterruptsArrive
<1> QED
  BY <1>1, ScsiInvariant, PTL

\* Whatever commands the guest writes and when, the one in progress has an
\* interrupt or a countdown that will end it, unless the guest cancels its
\* transfer.
THEOREM CommandsAreEnded == ScsiSpec => OnlyCancellingStrands
<1>1. ScsiInv /\ [ScsiNext]_scsiVars =>
          [Stranded' => Stranded \/ (deferred.ticks > 0 /\ UNCHANGED <<esp, seltimer>>)]_scsiVars
  BY ScsiStep, AccessIsGuests DEF Cancels
<1> QED
  BY <1>1, ScsiInvariant, PTL DEF ScsiSpec, OnlyCancellingStrands

\* Types: every register keeps its range, the FIFO its size and the sector
\* buffer its limit, and only a command that is no reset ever waits.
THEOREM TypeCorrect == ScsiSpec => []TypeOK
<1>1. FreeInv => TypeOK
  <2> SUFFICES ASSUME FreeInv PROVE TypeOK
    OBVIOUS
  <2>1. Parts /\ intr \in Controllers /\ Memory
    BY DEF FreeInv, ScsiInv, Agree, Sound
  <2>2. ChipOK
    BY <2>1 DEF ChipOK, Parts, Well, Chips, Items
  <2> QED
    BY <2>1, <2>2 DEF TypeOK, Parts, Well, Queued, Target, Memory, Deferrals
<1> QED
  BY <1>1, FreeInvariant, PTL

\* The channel's interrupt line is up only while the channel reports its
\* transfer complete.
THEOREM DmaLineIsHonest == ScsiSpec => []DmaLineMeansComplete
<1>1. FreeInv => DmaLineMeansComplete
  BY DEF FreeInv
<1> QED
  BY <1>1, FreeInvariant, PTL

\* RAM changes only by a transfer that is due, inside the window the guest
\* enabled, and by no more bytes than the chip's counter accounts for.
THEOREM MemoryIsGuarded == ScsiSpec => MemoryByTransferOnly
<1>1. FreeInv /\ [ScsiNext]_scsiVars =>
          [\A a \in DOMAIN mem : mem'[a] # mem[a] =>
              /\ deferred.ticks = 1 /\ deferred.in /\ dma.enable
              /\ a \in dma.next..dma.limit - 1
              /\ a < dma.next + deferred.count - esp'.counter]_scsiVars
  BY FreeStep, AccessIsGuests DEF Deposits
<1> QED
  BY <1>1, FreeInvariant, PTL DEF ScsiSpec, MemoryByTransferOnly

=============================================================================
