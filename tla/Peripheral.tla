------------------------------ MODULE Peripheral ------------------------------
(***************************************************************************)
(* The FPU core seen through its memory-mapped registers, mc68881_top.vhd  *)
(* in peripheral mode: the operand and control registers and OPSEL         *)
(* (bus_frame_proc), the issue of an operation, its cycle count and its    *)
(* result (alu_control_proc), STATUS (status_proc), and the dialog machine *)
(* as far as a host in this mode drives it, to save and restore frames.    *)
(* The two share addresses and the operand registers: which of them a      *)
(* write reaches depends on the mode bit and on the dialog's state.        *)
(*                                                                         *)
(* One step is one rising edge, as in CirDialog: the processes are actions *)
(* on their own variables, FpuClock is their conjunction, and the bus is   *)
(* the host's.                                                             *)
(*                                                                         *)
(* A value is the number of the call it belongs to, or 0 for anything      *)
(* else: the operand registers say which call wrote them, a result is its  *)
(* call's number if the operation found that call's operands and rounding  *)
(* mode.  An operation is a record                                         *)
(*   n     the number of its call                                          *)
(*   kind  "monadic", "dyadic", or "const" (FMOVECR, done at issue)        *)
(*   cr    the FPCR value it is to be carried out under                    *)
(* A frame is its format and its number of words.                          *)
(***************************************************************************)
EXTENDS Integers

CONSTANTS
    IdleWords, BusyWords,   \* data words of the two kinds of frame
    CycleCounts             \* what an operation's cycle count may be

ASSUME PeripheralAssumption ==
    IdleWords \in Nat \ {0} /\ BusyWords \in Nat \ {0} /\ CycleCounts \subseteq Nat

VARIABLES
    bus,        \* the bus cycle: op, addr, data, the clocks left, the first one
    \* bus_frame_proc
    operand, op_sel, opsel_prev, fpcr, move_cfg, fpsr, initialized,
    restore_trigger, restore_kind,
    \* alu_control_proc and status_proc
    micro_active, micro_remaining, result_ready, op_start, last_op_sel,
    result_reg, exc_event, status_valid, response,
    \* mc68881_alu
    alu_busy, alu_job, valid, result,
    \* cir_write_proc
    cir_mode, opword_written, instr_type, word_arrived, write_prev,
    read_done, read_prev, save_read_done, save_prev,
    \* cir_dialog_proc
    cir_state, word_idx, word_count, frame_format, null_req, commit_req,
    d_out

frameProcVars == <<operand, op_sel, opsel_prev, fpcr, move_cfg, fpsr, initialized,
                   restore_trigger, restore_kind>>
controlVars == <<micro_active, micro_remaining, result_ready, op_start, last_op_sel,
                 result_reg, exc_event, status_valid, response>>
aluVars == <<alu_busy, alu_job, valid, result>>
cirVars == <<cir_mode, opword_written, instr_type, word_arrived, write_prev,
             read_done, read_prev, save_read_done, save_prev, cir_state, word_idx,
             word_count, frame_format, null_req, commit_req>>
fpuVars == <<frameProcVars, controlVars, aluVars, cirVars, d_out>>

NoOp == [n |-> 0, kind |-> "monadic", cr |-> 0]
NoEvent == [on |-> FALSE, of |-> 0]

bus_write(a) == bus.op = "write" /\ bus.addr = a
bus_read(a) == bus.op = "read" /\ bus.addr = a
\* The addresses the two register sets share: an operation word is written
\* where the low half of operand B is, a frame's words move where RES_H is,
\* and the mode bit is written where the response is read.
OPWORD == "OPB_LH"
OPERAND == "RES_H"

\* The operand registers hold what operation op is about.
Fed(op, o) ==
    /\ o.a_l = op.n
    /\ op.kind # "const" => o.a_he = op.n
    /\ op.kind = "dyadic" => o.b_lh = op.n /\ o.b_e = op.n

Compute(op, o) == IF Fed(op, o) /\ fpcr = op.cr THEN op.n ELSE 0
Constant(op, o) == IF Fed(op, o) /\ move_cfg = "fmovecr" THEN op.n ELSE 0

-----------------------------------------------------------------------------
(* bus_frame_proc *)

cir_active == cir_mode \/ cir_state # "IDLE"

\* A write of OPSEL issues its operation when both engines are idle; else it
\* is lost, though op_sel is overwritten.
op_issue_pulse ==
    /\ bus_write("OPSEL") /\ ~opsel_prev
    /\ ~micro_active /\ ~alu_busy

\* A restored busy frame brings the operands of its own operation.
FrameOperands == [a_l |-> 0, a_he |-> 0, b_lh |-> 0, b_e |-> 0]

\* Parts whose address a dialog register shares are written only when no
\* dialog can be meant.
OperandWrites ==
    operand' = IF commit_req /\ word_count = BusyWords THEN FrameOperands
               ELSE IF bus_write("OPA_L") /\ ~cir_active THEN [operand EXCEPT !.a_l = bus.data]
               ELSE IF bus_write("OPA_HE") THEN [operand EXCEPT !.a_he = bus.data]
               ELSE IF bus_write("OPB_LH") /\ ~cir_active THEN [operand EXCEPT !.b_lh = bus.data]
               ELSE IF bus_write("OPB_E") THEN [operand EXCEPT !.b_e = bus.data]
               ELSE operand

\* The classification of a finished operation looks at the operand registers
\* as they are then, and at the operation issued last.
Classify ==
    fpsr' = IF commit_req /\ word_count = BusyWords THEN 0
            ELSE IF valid
            THEN IF Fed(last_op_sel, operand) /\ result = last_op_sel.n THEN result ELSE 0
            ELSE IF exc_event.on THEN exc_event.of
            ELSE fpsr

bus_frame_proc ==
    /\ opsel_prev' = bus_write("OPSEL")
    /\ op_sel' = IF bus_write("OPSEL") THEN bus.data ELSE op_sel
    /\ OperandWrites
    /\ fpcr' = IF bus_write("FPCR") THEN bus.data ELSE fpcr
    /\ move_cfg' = IF bus_write("MOVE_CFG") THEN bus.data ELSE move_cfg
    /\ Classify
    /\ initialized' = (commit_req \/ (~null_req /\ (op_issue_pulse \/ initialized)))
    /\ restore_trigger' = bus_write("RESTORE")
    /\ restore_kind' = IF bus_write("RESTORE") THEN bus.data ELSE restore_kind

-----------------------------------------------------------------------------
(* alu_control_proc, status_proc and the response register *)

\* Wrong variant, for mutation: a result is announced for a clock only, though
\* the cycle count may still run.
ResultReadyPulse == result_ready' = (valid \/ (op_issue_pulse /\ bus.data.kind = "const"))

\* A constant is there at once, an arithmetic result when the ALU has it.
ResultReady ==
    result_ready' = (\/ op_issue_pulse /\ bus.data.kind = "const"
                     \/ valid
                     \/ result_ready /\ ~op_issue_pulse)

Issue ==
    /\ op_start' = (op_issue_pulse /\ bus.data.kind # "const")
    /\ last_op_sel' = IF op_issue_pulse THEN bus.data ELSE last_op_sel
    /\ ResultReady
    /\ result_reg' = IF valid THEN result
                     ELSE IF op_issue_pulse /\ bus.data.kind = "const"
                     THEN Constant(bus.data, operand) ELSE result_reg
    /\ exc_event' = IF op_issue_pulse /\ bus.data.kind = "const"
                    THEN [on |-> TRUE, of |-> Constant(bus.data, operand)] ELSE NoEvent

\* An operation is over when its cycle count has run out and its result is
\* there, whichever is later.
MicroOver == micro_active /\ micro_remaining = 0 /\ result_ready

MicroCycles ==
    \/ /\ op_issue_pulse /\ micro_active' = TRUE
       /\ micro_remaining' \in CycleCounts
    \/ /\ ~op_issue_pulse /\ micro_active' = (micro_active /\ ~MicroOver)
       /\ micro_remaining' = IF micro_active /\ micro_remaining > 0
                             THEN micro_remaining - 1 ELSE micro_remaining

\* Wrong variant, for mutation: VALID is not taken back.
statusNeverCleared == status_valid' = (status_valid \/ MicroOver)

status_proc == status_valid' = (~op_issue_pulse /\ (MicroOver \/ status_valid))

\* The primitive of the dialog's state, a clock late.
cir_response_gen ==
    response' = IF cir_state = "IDLE" THEN "NULL"
                ELSE IF cir_state = "EXCEPT_PRE" THEN "EXCEPT" ELSE "BUSY"

alu_control_proc == Issue /\ MicroCycles /\ status_proc /\ cir_response_gen

AluIdle == ~alu_busy /\ ~op_start /\ valid' = FALSE /\ UNCHANGED <<alu_busy, alu_job, result>>
AluStart ==
    /\ ~alu_busy /\ op_start
    /\ alu_busy' = TRUE /\ alu_job' = Compute(op_sel, operand)
    /\ valid' = FALSE /\ UNCHANGED result
AluWork == alu_busy /\ valid' = FALSE /\ UNCHANGED <<alu_busy, alu_job, result>>
AluDone ==
    /\ alu_busy
    /\ valid' = TRUE /\ alu_busy' = FALSE /\ result' = alu_job /\ UNCHANGED alu_job

mc68881_alu == AluIdle \/ AluStart \/ AluWork \/ AluDone

-----------------------------------------------------------------------------
(* cir_write_proc: an operation word counts in dialog mode only *)

cir_write_proc ==
    /\ cir_mode' = IF bus_write("CIR_MODE") THEN bus.data ELSE cir_mode
    /\ opword_written' = (\/ bus_write(OPWORD) /\ cir_mode
                          \/ opword_written /\ cir_state = "IDLE")
    /\ instr_type' = IF bus_write(OPWORD) /\ cir_mode THEN bus.data ELSE instr_type
    /\ write_prev' = bus_write(OPERAND)
    /\ word_arrived' = (bus_write(OPERAND) /\ ~write_prev /\ cir_state = "RESTORE_FRAME")
    /\ read_prev' = bus_read(OPERAND)
    /\ read_done' = (bus_read(OPERAND) /\ ~read_prev /\ cir_state = "SAVE_FRAME")
    /\ save_prev' = bus_read("SAVE")
    /\ save_read_done' = (bus_read("SAVE") /\ ~save_prev /\ cir_state = "SAVE_FORMAT")

-----------------------------------------------------------------------------
(* cir_dialog_proc, the states of a save and a restore *)

Goto(s) == cir_state' = s
SamePulses == null_req' = FALSE /\ commit_req' = FALSE
SameWords == UNCHANGED <<word_idx, word_count, frame_format>>

Idle ==
    /\ cir_state = "IDLE"
    /\ Goto(IF ~opword_written THEN "IDLE"
            ELSE IF instr_type = "cpSAVE" THEN "SAVE_WAIT" ELSE "RESTORE_FORMAT")
    /\ SamePulses /\ SameWords

SaveWait ==
    /\ cir_state = "SAVE_WAIT" /\ Goto("SAVE_FORMAT")
    /\ frame_format' = IF ~initialized THEN "null" ELSE IF alu_busy THEN "busy" ELSE "idle"
    /\ word_count' = IF ~initialized THEN 0 ELSE IF alu_busy THEN BusyWords ELSE IdleWords
    /\ word_idx' = 0 /\ SamePulses

SaveFormat ==
    /\ cir_state = "SAVE_FORMAT"
    /\ Goto(IF ~save_read_done THEN "SAVE_FORMAT"
            ELSE IF word_count = 0 THEN "IDLE" ELSE "SAVE_FRAME")
    /\ SamePulses /\ SameWords

\* One word of a frame has moved.
NextWord(moved, over) ==
    LET last == word_idx + 1 >= word_count
    IN  /\ Goto(IF moved /\ last THEN over ELSE cir_state)
        /\ word_idx' = IF moved /\ ~last THEN word_idx + 1 ELSE word_idx
        /\ UNCHANGED <<word_count, frame_format>>

SaveFrame ==
    /\ cir_state = "SAVE_FRAME" /\ NextWord(read_done, "XFER_DST_WAIT") /\ SamePulses

\* The frame is out; or the exception stands, which only an acknowledge in
\* dialog mode ends: a host in peripheral mode gives none.
DialogEnds ==
    /\ cir_state \in {"XFER_DST_WAIT", "EXCEPT_PRE"}
    /\ Goto(IF cir_state = "EXCEPT_PRE" THEN "EXCEPT_PRE" ELSE "IDLE")
    /\ SamePulses /\ SameWords

\* An invalid format word is an exception.
RestoreFormat ==
    /\ cir_state = "RESTORE_FORMAT"
    /\ Goto(IF ~restore_trigger THEN "RESTORE_FORMAT"
            ELSE IF restore_kind = "null" THEN "IDLE"
            ELSE IF restore_kind \in {"idle", "busy"} THEN "RESTORE_FRAME" ELSE "EXCEPT_PRE")
    /\ null_req' = (restore_trigger /\ restore_kind = "null") /\ commit_req' = FALSE
    /\ word_idx' = 0 /\ UNCHANGED frame_format
    /\ word_count' = IF restore_trigger /\ restore_kind = "busy" THEN BusyWords
                     ELSE IF restore_trigger /\ restore_kind = "idle" THEN IdleWords
                     ELSE word_count

RestoreFrame ==
    /\ cir_state = "RESTORE_FRAME" /\ NextWord(word_arrived, "IDLE")
    /\ null_req' = FALSE /\ commit_req' = (cir_state' = "IDLE")

cir_dialog_proc ==
    \/ Idle \/ SaveWait \/ SaveFormat \/ SaveFrame \/ DialogEnds
    \/ RestoreFormat \/ RestoreFrame

-----------------------------------------------------------------------------
\* Dialog registers are read as they are on the first clock of the access,
\* the others until its end.  RES stands for the parts of a result: no
\* operation can be issued between the reads.
ReadMux ==
    d_out' = IF bus_read("STATUS") THEN <<"VALID", status_valid>>
             ELSE IF bus_read("RES_L") THEN <<"RES", result_reg>>
             ELSE IF bus_read("FPSR") THEN <<"FPSR", fpsr>>
             ELSE IF bus_read("SAVE") /\ bus.first THEN <<"SAVE", frame_format>>
             ELSE IF bus_read("RESPONSE") /\ bus.first THEN <<"RESPONSE", response>>
             ELSE d_out

FpuClock ==
    /\ bus_frame_proc /\ alu_control_proc /\ mc68881_alu
    /\ cir_write_proc /\ cir_dialog_proc /\ ReadMux

FpuInit ==
    /\ operand = FrameOperands /\ op_sel = NoOp /\ opsel_prev = FALSE
    /\ fpcr = 0 /\ move_cfg = "reset" /\ fpsr = 0 /\ initialized = FALSE
    /\ restore_trigger = FALSE /\ restore_kind = "null"
    /\ micro_active = FALSE /\ micro_remaining = 0 /\ result_ready = FALSE
    /\ op_start = FALSE /\ last_op_sel = NoOp /\ result_reg = 0
    /\ exc_event = NoEvent /\ status_valid = FALSE /\ response = "NULL"
    /\ alu_busy = FALSE /\ alu_job = 0 /\ valid = FALSE /\ result = 0
    /\ cir_mode = TRUE /\ opword_written = FALSE /\ instr_type = "cpSAVE"
    /\ word_arrived = FALSE /\ write_prev = FALSE /\ read_done = FALSE
    /\ read_prev = FALSE /\ save_read_done = FALSE /\ save_prev = FALSE
    /\ cir_state = "IDLE" /\ word_idx = 0 /\ word_count = 0
    /\ frame_format = "null" /\ null_req = FALSE /\ commit_req = FALSE
    /\ d_out = <<"RES", 0>>

=============================================================================
