------------------------------- MODULE NextIntr -------------------------------
(***************************************************************************)
(* The interrupt controller of the NeXT emulator, next_devs.c, as operators *)
(* on a record its users keep: the status and mask registers, the level     *)
(* last given to the 68040 (m68k_set_irq), and next_irq_pending_update, the  *)
(* instructions left before a SCSI interrupt is shown to it.                *)
(***************************************************************************)
EXTENDS Naturals

CONSTANT IrqDelay \* 10 in the code: instructions a SCSI interrupt is held back

ASSUME IrqAssumption == IrqDelay \in Nat \ {0}

\* The lines the SCSI subsystem drives, of some thirty.
Lines == {"scsi", "scsi_dma"}

Controllers ==
    [status : SUBSET Lines, mask : SUBSET Lines, due : 0..IrqDelay, irq : {0, 3, 6}]

IntrInit == [status |-> {}, mask |-> {}, due |-> 0, irq |-> 0]

PendingIpl(status, mask) ==
    IF "scsi_dma" \in status \cap mask THEN 6
    ELSE IF "scsi" \in status \cap mask THEN 3 ELSE 0

\* m68k_set_irq(next_intr_pending_ipl())
Shown(i) == [i EXCEPT !.irq = PendingIpl(i.status, i.mask)]

\* A SCSI interrupt starts the countdown, or leaves a running one alone; any
\* other line is shown to the CPU at once.
IntrSet(i, line) ==
    LET s == [i EXCEPT !.status = @ \cup {line}]
    IN  IF line = "scsi"
        THEN [s EXCEPT !.due = IF @ = 0 THEN IrqDelay ELSE @]
        ELSE Shown(s)

IntrClear(i, line) ==
    Shown([i EXCEPT !.status = @ \ {line},
                    !.due = IF line = "scsi" THEN 0 ELSE @])

\* A write of the mask register takes effect at once.
IntrMask(i, mask) == Shown([i EXCEPT !.mask = mask])

\* Wrong variant, for mutation: the countdown ends, and nothing is shown.
TickForgets(i) == IF i.due = 0 THEN i ELSE [i EXCEPT !.due = @ - 1]

\* The part of emu_instr_hook that counts down.
IntrTick(i) ==
    IF i.due = 0 THEN i
    ELSE IF i.due = 1 THEN Shown([i EXCEPT !.due = 0])
    ELSE [i EXCEPT !.due = @ - 1]

(***************************************************************************)
(* What the users of the controller rely on.                                *)
(***************************************************************************)

\* With no countdown running the CPU sees exactly what is pending; while one
\* runs it may not see the SCSI interrupt yet, but sees everything above it.
NothingWithheld(i) ==
    \/ i.irq = PendingIpl(i.status, i.mask)
    \/ /\ i.due > 0
       /\ "scsi" \in i.status
       /\ i.irq = PendingIpl(i.status \ {"scsi"}, i.mask)
=============================================================================
