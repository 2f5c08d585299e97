---------------------------- MODULE FlineHandler ----------------------------
(***************************************************************************)
(* The NeXT emulator's use of the FPU: fline_handler.c carries out one     *)
(* F-line instruction at a time through fpu_periph.c, operands first, then *)
(* OPSEL, then STATUS until VALID, then RES, and keeps the programmer's    *)
(* registers in software (fp_regfile.c).  FSAVE and FRESTORE switch the    *)
(* FPU to dialog mode and back.  Composed with Peripheral, one step is one *)
(* clock edge; a bus cycle shows its strobes as the bridge shows them.     *)
(*                                                                         *)
(* An instruction is a call; the value of its operands, and the one it     *)
(* should return, is its number.  FSINCOS is two of them, one after the    *)
(* other.                                                                  *)
(***************************************************************************)
EXTENDS Peripheral, Sequences

CONSTANTS
    MaxCalls,       \* bound: the instructions carried out
    Formats,        \* what memory may hold for FRESTORE, as the FPU is told
    MayGiveUp,      \* TRUE: STATUS may run out of polls
    MayFault,       \* TRUE: reading a frame from memory may fault
    WriteClocks, ReadClocks

ASSUME FlineAssumption ==
    /\ MaxCalls \in Nat \ {0}
    /\ Formats \subseteq {"null", "idle", "busy", "unknown"}
    /\ MayGiveUp \in BOOLEAN /\ MayFault \in BOOLEAN
    /\ WriteClocks \in Nat \ {0} /\ ReadClocks \in Nat \ {0}

VARIABLES
    phase,          \* what the handler does next
    cur,            \* the call it is busy with
    sent,           \* writes made, or words of a frame left to move
    fpcr_shadow,    \* fp_regfile.c
    answer,         \* what the last call returned
    late            \* history: a call has been given up

hostVars == <<phase, cur, sent, fpcr_shadow, answer, late>>
vars == <<fpuVars, bus, hostVars>>

NoCycle == [op |-> "none", addr |-> "STATUS", data |-> 0, left |-> 0, first |-> FALSE]
NoCall == [n |-> 0, call |-> "none", op |-> NoOp, tests |-> FALSE, format |-> "null"]
NoAnswer == [rc |-> "none", result |-> 0, fpsr |-> 0]

Starts(op, addr, data) ==
    bus' = [op |-> op, addr |-> addr, data |-> data, first |-> TRUE,
            left |-> IF op = "write" THEN WriteClocks ELSE ReadClocks]
Writes(w) == Starts("write", w[1], w[2])
Reads(addr) == Starts("read", addr, 0)
BusFree == bus.op = "none"

\* The writes a call begins with, in their order.
CallWrites(c) ==
    CASE c.call = "init" -> << <<"CIR_MODE", FALSE>>, <<"FPCR", 0>> >>
      [] c.call = "ctrl" -> << <<"FPCR", c.n>> >>
      [] c.call = "movecr" ->
            << <<"CIR_MODE", FALSE>>, <<"MOVE_CFG", "fmovecr">>, <<"OPA_L", c.n>>,
               <<"OPSEL", c.op>> >>
      [] c.call = "exec" ->
            << <<"CIR_MODE", FALSE>>, <<"OPA_L", c.n>>, <<"OPA_HE", c.n>> >>
            \o (IF c.op.kind = "dyadic" THEN << <<"OPB_LH", c.n>>, <<"OPB_E", c.n>> >> ELSE <<>>)
            \o << <<"OPSEL", c.op>> >>
      [] c.call = "fsave" -> << <<"CIR_MODE", TRUE>>, <<OPWORD, "cpSAVE">> >>
      [] c.call = "frestore" ->
            << <<"CIR_MODE", TRUE>>, <<OPWORD, "cpRESTORE">>, <<"RESTORE", c.format>> >>

\* (format_word & 0xFF) / 4, also of a format the FPU does not know.
FrameWords(format) ==
    IF format = "null" THEN 0 ELSE IF format = "busy" THEN BusyWords ELSE IdleWords

SameCall == UNCHANGED <<cur, fpcr_shadow, answer, late>>

\* The instructions that come to the FPU; the rest is done in software.
Calls(n) ==
    LET Call(what, kind, tests, format) ==
            [n |-> n, call |-> what, tests |-> tests, format |-> format,
             op |-> [n |-> n, kind |-> kind, cr |-> fpcr_shadow]]
    IN  {Call("exec", k, t, "null") : k \in {"monadic", "dyadic"}, t \in BOOLEAN}
        \cup {Call("movecr", "const", FALSE, "null"), Call("ctrl", "const", FALSE, "null"),
              Call("fsave", "const", FALSE, "null")}
        \cup {Call("frestore", "const", FALSE, f) : f \in Formats}

fline_illg_callback ==
    /\ BusFree /\ phase = "free" /\ cur.n < MaxCalls
    /\ cur' \in Calls(cur.n + 1)
    /\ sent' = 0 /\ phase' = "send"
    /\ fpcr_shadow' = IF cur'.call = "ctrl" THEN cur'.n ELSE fpcr_shadow
    /\ answer' = NoAnswer /\ UNCHANGED <<bus, late>>

fpu_wr ==
    /\ BusFree /\ phase = "send"
    /\ Writes(CallWrites(cur)[sent + 1])
    /\ IF sent + 1 < Len(CallWrites(cur))
       THEN sent' = sent + 1 /\ UNCHANGED phase
       ELSE /\ sent' = IF cur.call = "frestore" THEN FrameWords(cur.format) ELSE 0
            /\ phase' = CASE cur.call \in {"init", "ctrl"} -> "free"
                          [] cur.call \in {"exec", "movecr"} -> "wait"
                          [] cur.call = "fsave" -> "save"
                          [] cur.call = "frestore" ->
                                IF sent' = 0 THEN "drain" ELSE "restore_words"
    /\ SameCall

\* What is read next: STATUS, then the result, then the FPSR of a test; the
\* format word of a save; the response register until it is not BUSY.
fpu_rd ==
    /\ BusFree
    /\ \/ phase = "wait" /\ Reads("STATUS")
       \/ phase = "result" /\ Reads("RES_L")
       \/ phase = "test" /\ Reads("FPSR")
       \/ phase = "save" /\ Reads("SAVE")
       \/ phase = "drain" /\ Reads("RESPONSE")
    /\ UNCHANGED <<phase, sent>> /\ SameCall

SaveWord ==
    /\ BusFree /\ phase = "save_words"
    /\ Reads(OPERAND) /\ sent' = sent - 1
    /\ phase' = IF sent = 1 THEN "drain" ELSE "save_words"
    /\ SameCall

\* A word of a frame comes from the guest's memory: a page fault jumps out of
\* the handler, which leaves the dialog where it is.
RestoreWord ==
    /\ BusFree /\ phase = "restore_words"
    /\ \/ /\ Writes(<<OPERAND, 0>>) /\ sent' = sent - 1
          /\ phase' = IF sent = 1 THEN "drain" ELSE "restore_words"
       \/ MayFault /\ phase' = "free" /\ UNCHANGED <<bus, sent>>
    /\ SameCall

LeaveDialog ==
    /\ BusFree /\ phase = "leave"
    /\ Writes(<<"CIR_MODE", FALSE>>) /\ phase' = "free"
    /\ UNCHANGED sent /\ SameCall

Holds ==
    /\ ~BusFree /\ bus.left > 1
    /\ bus' = [bus EXCEPT !.left = @ - 1, !.first = FALSE]
    /\ UNCHANGED hostVars

Returns(rc, r, f) ==
    /\ phase' = "free" /\ answer' = [rc |-> rc, result |-> r, fpsr |-> f]
    /\ UNCHANGED sent

\* The last clock of a cycle: a read's data is taken.
Ends ==
    /\ ~BusFree /\ bus.left = 1
    /\ bus' = [bus EXCEPT !.op = "none", !.left = 0, !.first = FALSE]
    /\ UNCHANGED <<cur, fpcr_shadow>>
    /\ \/ /\ bus_read("STATUS")
          /\ \/ d_out[2] /\ phase' = "result" /\ UNCHANGED <<sent, answer, late>>
             \/ ~d_out[2] /\ UNCHANGED <<phase, sent, answer, late>>
             \/ ~d_out[2] /\ MayGiveUp /\ late' = TRUE /\ Returns("timeout", 0, 0)
       \/ /\ bus_read("RES_L") /\ UNCHANGED late
          /\ IF cur.tests
             THEN phase' = "test" /\ answer' = [answer EXCEPT !.result = d_out[2]] /\ UNCHANGED sent
             ELSE Returns("ok", d_out[2], 0)
       \/ bus_read("FPSR") /\ Returns("ok", answer.result, d_out[2]) /\ UNCHANGED late
       \/ /\ bus_read("SAVE") /\ sent' = FrameWords(d_out[2])
          /\ phase' = IF sent' = 0 THEN "drain" ELSE "save_words"
          /\ UNCHANGED <<answer, late>>
       \/ /\ bus_read("RESPONSE")
          /\ phase' = IF d_out[2] = "BUSY" THEN "drain" ELSE "leave"
          /\ UNCHANGED <<sent, answer, late>>
       \/ (bus.op = "write" \/ bus_read(OPERAND)) /\ UNCHANGED <<phase, sent, answer, late>>

Pauses == BusFree /\ UNCHANGED <<bus, hostVars>>

HostStarts ==
    fline_illg_callback \/ fpu_wr \/ fpu_rd \/ SaveWord \/ RestoreWord \/ LeaveDialog

Host == HostStarts \/ Holds \/ Ends \/ Pauses

\* fline_init: out of dialog mode before the first instruction.
Init ==
    /\ FpuInit /\ bus = NoCycle
    /\ phase = "send" /\ cur = [NoCall EXCEPT !.call = "init"] /\ sent = 0
    /\ fpcr_shadow = 0 /\ answer = NoAnswer /\ late = FALSE

Next == FpuClock /\ Host

\* The clock runs, an operation takes finitely many clocks, and a handler in
\* the middle of an instruction goes on with it.
Spec == Init /\ [][Next]_vars
FairSpec ==
    /\ Spec /\ WF_vars(Next)
    /\ WF_vars(Next /\ AluDone)
    /\ WF_vars(Next /\ HostStarts /\ phase # "free")

-----------------------------------------------------------------------------
(* Properties *)

\* Every register keeps to its range: the cycle count, which waits at zero for
\* the result, and the words of a frame on both sides.
TypeOK ==
    /\ phase \in {"free", "send", "wait", "result", "test", "save", "save_words",
                  "restore_words", "drain", "leave"}
    /\ cir_state \in {"IDLE", "SAVE_WAIT", "SAVE_FORMAT", "SAVE_FRAME", "XFER_DST_WAIT",
                      "RESTORE_FORMAT", "RESTORE_FRAME", "EXCEPT_PRE"}
    /\ micro_remaining \in Nat
    /\ word_idx \in 0..BusyWords - 1 /\ word_count \in {0, IdleWords, BusyWords}
    /\ sent \in 0..BusyWords \cup 0..6
    /\ {result, result_reg, alu_job, fpsr, fpcr} \subseteq 0..MaxCalls

\* What a call returns without an error is the result of its own operation on
\* its own operands under the rounding mode the guest set, and a test's FPSR
\* is about its own result: not left over from the call before, a result that
\* came after its call was given up, or a dialog.  The one call this cannot
\* be said of is one whose OPSEL fell on an FPU still busy with a call that
\* was given up: the write is lost and the late answer taken for its own.
ResultsAreOwn ==
    /\ phase = "free" /\ answer.rc = "ok"
    /\ ~late \/ last_op_sel.n = cur.n
    => /\ answer.result = cur.n
       /\ cur.tests => answer.fpsr = cur.n

\* The same without the exception: fpu_exec returns FPU_OK only with the result
\* of its own operation.  Polls that run out once (fpu_wait_done) refute it.
ResultsAreOwnAlways == phase = "free" /\ answer.rc = "ok" => answer.result = cur.n

\* Every instruction returns: VALID comes, and a save or restore gets its
\* words moved and finds the response register not BUSY without counting on
\* the bound of that loop.
CallsReturn == phase # "free" ~> phase = "free"

\* Between two instructions the FPU is out of its dialog and out of dialog
\* mode, so that all operand registers can be written: FSAVE and FRESTORE wait
\* "for CIR to return to idle", but only poll until the response is not BUSY.
DialogOver == phase = "free" /\ BusFree => cir_state = "IDLE" /\ ~cir_mode

=============================================================================
