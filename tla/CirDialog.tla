------------------------------ MODULE CirDialog ------------------------------
(***************************************************************************)
(* The coprocessor interface of the FPU core, mc68881_top.vhd: the         *)
(* register file the host writes (cir_write_proc), the dialog state        *)
(* machine (cir_dialog_proc), the issue, launch and write-back of an       *)
(* instruction (alu_control_proc, the operand load of bus_frame_proc), the *)
(* ALU's start/valid handshake, and the response register.                 *)
(*                                                                         *)
(* All of it is clocked logic: one step is one rising edge, on which every *)
(* process computes its registers from the values they all had before.     *)
(* Each process is an action on its own variables, and FpuClock is their   *)
(* conjunction.  What the bus does on the edge is CirHost's.               *)
(*                                                                         *)
(* An instruction is abstracted to a record:                               *)
(*   n      its number in program order                                    *)
(*   shape  "reg" FPm op FPn, "load" <ea> op FPn, "store" FPn to <ea>      *)
(*   move   FMOVE (copies its source, bypassing the ALU)                   *)
(*   src, dst  the two register fields; a store reads dst                  *)
(*   words  operand words of its memory format                             *)
(*   want   the operands program order gives it: <<old dst, source>>       *)
(* A value is where it comes from: a register's own initial value, the     *)
(* number of the instruction whose operand words or result it is, or       *)
(* Garbage, the result of anything computed from the wrong operands.       *)
(*                                                                         *)
(* A state frame has FrameWords words: the first stands for the header and *)
(* the operands, the last for the pending instruction a 68882 adds.  The   *)
(* words of the ALU's own snapshot are left out: a busy restore loads them *)
(* into shadow registers that nothing reads back.                          *)
(***************************************************************************)
EXTENDS Naturals, Sequences

CONSTANTS
    Regs,       \* the floating-point registers
    Garbage,    \* the result of wrong operands
    FrameWords, \* data words of an idle or busy frame
    Is68882,    \* generic fpu_version_g is FPU_68882
    MayTrap     \* an operation may raise an exception that FPCR enables

ASSUME DialogAssumption ==
    /\ Regs # {}
    /\ FrameWords \in Nat \ {0, 1}
    /\ Is68882 \in BOOLEAN /\ MayTrap \in BOOLEAN
    /\ Garbage \notin Regs /\ Garbage \notin Nat

VARIABLES
    bus,        \* the bus cycle: op, addr and data, and the clocks it has left
    \* cir_write_proc
    opword_written, command_written, condition_written,
    instr_type, command, control_ack, word_arrived, read_done,
    write_prev, read_prev, staging, opword_seen, cmd_seen,
    save_read_done, save_prev, frame_header,
    \* cir_dialog_proc
    cir_state, word_idx, word_count, launch_alu, flags_consumed,
    frame_kind, frame_idx, null_req, commit_req,
    pending_valid, pending_launch, pending_skip, pending, pending_idx,
    pending_staging,
    \* alu_control_proc and bus_frame_proc
    fp_reg, operand, op_sel, op_start, launch_dst, arith_active, move_pending,
    trap_pending, response_pending, response, exc_enabled, d_out,
    restore_trigger, restore_kind, fpu_initialized,
    \* mc68881_alu
    alu_busy, alu_job, valid, result

writeVars == <<opword_written, command_written, condition_written, instr_type,
               command, control_ack, word_arrived, read_done, write_prev,
               read_prev, staging, opword_seen, cmd_seen, save_read_done,
               save_prev, frame_header>>
pulseVars == <<launch_alu, flags_consumed, pending_launch, null_req, commit_req>>
frameVars == <<frame_kind, frame_idx>>
pendingVars == <<pending_valid, pending_skip, pending, pending_idx,
                 pending_staging>>
dialogVars == <<cir_state, word_idx, word_count, pulseVars, frameVars,
                pendingVars>>
controlVars == <<fp_reg, operand, op_sel, op_start, launch_dst, arith_active,
                 move_pending, trap_pending, response_pending, response,
                 exc_enabled, d_out, restore_trigger, restore_kind,
                 fpu_initialized>>
aluVars == <<alu_busy, alu_job, valid, result>>
fpuVars == <<writeVars, dialogVars, controlVars, aluVars>>

WordIdx == 0..2
NoInstr == [n |-> 0, shape |-> "reg", move |-> TRUE,
            src |-> CHOOSE r \in Regs : TRUE, dst |-> CHOOSE r \in Regs : TRUE,
            words |-> 1, want |-> <<Garbage, Garbage>>]

bus_write(a) == bus.op = "write" /\ bus.addr = a
bus_read(a) == bus.op = "read" /\ bus.addr = a

\* Word k of a value's memory format.
Word(value, k) == [of |-> value, at |-> k]

\* A memory operand is right when its words are those of one value, in order.
Converted(words, w) ==
    IF \A k \in 0..w-1 : words[k] = Word(words[0].of, k) THEN words[0].of ELSE Garbage

-----------------------------------------------------------------------------
(* cir_write_proc: the registers the host writes *)

\* A flag is consumed by every state but IDLE.
Cleared(flag) == flag /\ cir_state = "IDLE" /\ ~flags_consumed

\* A write that is still asserted sets its flag again on every edge.
WrittenFlags ==
    /\ opword_written' = (bus_write("OPWORD") \/ Cleared(opword_written))
    /\ command_written' = (bus_write("COMMAND") \/ Cleared(command_written))
    /\ condition_written' = (bus_write("CONDITION") \/ Cleared(condition_written))
    /\ instr_type' = IF bus_write("OPWORD") THEN bus.data ELSE instr_type
    /\ command' = IF bus_write("COMMAND") THEN bus.data ELSE command
    /\ control_ack' = bus_write("CONTROL")

\* 68882: what arrived while an operation executes.
SeenFlags ==
    LET keep == cir_state \notin {"PENDING_DECODE", "IDLE"}
        executing == Is68882 /\ cir_state = "EXECUTE"
    IN  /\ opword_seen' = \/ opword_seen /\ keep
                          \/ executing /\ bus_write("OPWORD")
        /\ cmd_seen' = \/ cmd_seen /\ keep
                       \/ executing /\ bus_write("COMMAND")

\* Wrong variant, for mutation: a write counts on every clock it shows.
wroteEveryClock == bus_write("OPERAND")

\* Only the first clock of an operand access counts.
wrote == bus_write("OPERAND") /\ ~write_prev

OperandAccess ==
    /\ write_prev' = bus_write("OPERAND")
    /\ read_prev' = bus_read("OPERAND")
    /\ word_arrived' = (wrote /\ cir_state \in {"XFER_SRC", "PENDING_XFER_SRC",
                                                "RESTORE_FRAME"})
    /\ read_done' = /\ bus_read("OPERAND") /\ ~read_prev
                    /\ cir_state \in {"XFER_DST", "SAVE_FRAME"}
    /\ save_prev' = bus_read("SAVE")
    /\ save_read_done' = (bus_read("SAVE") /\ ~save_prev /\ cir_state = "SAVE_FORMAT")
    /\ frame_header' = IF wrote /\ cir_state = "RESTORE_FRAME" /\ frame_idx = 0
                       THEN bus.data ELSE frame_header
    /\ staging' =
         IF wrote /\ cir_state = "XFER_SRC" THEN [staging EXCEPT ![word_idx] = bus.data]
         ELSE IF cir_state = "XFER_DST" /\ word_idx = 0 /\ ~read_done
         THEN [k \in WordIdx |-> IF k < command.words THEN Word(fp_reg[command.dst], k)
                                 ELSE staging[k]]
         ELSE staging

cir_write_proc == WrittenFlags /\ SeenFlags /\ OperandAccess

-----------------------------------------------------------------------------
(* cir_dialog_proc: one action per state *)

Goto(s) == cir_state' = s
\* The one-clock pulses: all but the named one fall.
Pulse(p) ==
    /\ launch_alu' = (p = "launch") /\ pending_launch' = (p = "pending_launch")
    /\ flags_consumed' = (p = "flags_consumed")
    /\ null_req' = (p = "null_req") /\ commit_req' = (p = "commit_req")
NoPulse == Pulse("none")
SameFrame == UNCHANGED frameVars
SameXfer == UNCHANGED <<word_idx, word_count, frameVars>>
StartXfer(w) == word_idx' = 0 /\ word_count' = w /\ SameFrame

\* Wrong variant, for mutation: arithmetic does not wait either.
LaunchedAndIdle(i) == Goto("IDLE")

\* Where a launched instruction goes: FMOVE does not use the ALU.
Launched(i) == Goto(IF i.move THEN "IDLE" ELSE "EXECUTE")

Idle ==
    /\ cir_state = "IDLE"
    /\ LET conditional == opword_written /\ condition_written /\ instr_type = "cpCOND"
           general == /\ command_written
                      /\ ~opword_written \/ instr_type = "cpGEN"
       IN  Goto(IF opword_written /\ instr_type = "cpRESTORE" THEN "RESTORE_FORMAT"
                ELSE IF opword_written /\ instr_type = "cpSAVE" THEN "SAVE_WAIT"
                ELSE IF conditional THEN "COND_EVAL"
                ELSE IF general THEN "DECODE" ELSE "IDLE")
    /\ frame_idx' = IF opword_written /\ instr_type = "cpRESTORE" THEN 0 ELSE frame_idx
    /\ Pulse(IF opword_written /\ instr_type = "undefined" THEN "flags_consumed" ELSE "none")
    /\ UNCHANGED <<word_idx, word_count, frame_kind, pendingVars>>

Decode ==
    /\ cir_state = "DECODE"
    /\ \/ /\ command.shape = "reg" /\ Launched(command)
          /\ Pulse("launch") /\ SameXfer
       \/ /\ command.shape = "store" /\ Goto("XFER_DST")
          /\ NoPulse /\ StartXfer(command.words)
       \/ /\ command.shape = "load" /\ Goto("XFER_SRC")
          /\ NoPulse /\ StartXfer(command.words)
    /\ UNCHANGED pendingVars

XferSrc ==
    /\ cir_state = "XFER_SRC"
    /\ Goto(IF word_arrived /\ word_idx + 1 >= word_count
            THEN "XFER_SRC_WAIT" ELSE "XFER_SRC")
    /\ word_idx' = IF word_arrived THEN word_idx + 1 ELSE word_idx
    /\ NoPulse /\ SameFrame /\ UNCHANGED <<word_count, pendingVars>>

XferSrcWait ==
    /\ cir_state = "XFER_SRC_WAIT" /\ Goto("XFER_SRC_WAIT2")
    /\ NoPulse /\ SameXfer /\ UNCHANGED pendingVars

XferSrcWait2 ==
    /\ cir_state = "XFER_SRC_WAIT2"
    /\ Launched(command) /\ Pulse("launch")
    /\ SameXfer /\ UNCHANGED pendingVars

\* 68882: a second cpGEN is taken while the ALU works on the first.
AcceptsPending ==
    /\ Is68882 /\ opword_seen /\ cmd_seen
    /\ ~pending_valid /\ instr_type = "cpGEN"

\* cpSAVE leaves EXECUTE whatever else happens on the edge.
Execute ==
    /\ cir_state = "EXECUTE"
    /\ LET done == pending_skip = 0 /\ valid
           accept == pending_skip = 0 /\ ~valid /\ AcceptsPending
       IN  /\ Goto(IF opword_written /\ instr_type = "cpSAVE" THEN "SAVE_WAIT"
                   ELSE IF done THEN "EXECUTE_DONE"
                   ELSE IF accept THEN "PENDING_DECODE" ELSE "EXECUTE")
           /\ pending' = IF accept THEN command ELSE pending
    /\ pending_skip' = IF pending_skip > 0 THEN pending_skip - 1 ELSE 0
    /\ NoPulse /\ SameXfer
    /\ UNCHANGED <<pending_valid, pending_idx, pending_staging>>

\* The ways an instruction from the pending slot may leave EXECUTE_DONE.
PendingLaunched ==
    \/ pending.shape = "reg" /\ Launched(pending) /\ SameXfer
    \/ pending.shape = "store" /\ Goto("XFER_DST") /\ StartXfer(pending.words)
    \/ pending.shape = "load" /\ Goto("EXECUTE") /\ SameXfer

\* Wrong variant, for mutation: the slot is launched but not emptied.
ExecuteDoneKeepsSlot ==
    /\ cir_state = "EXECUTE_DONE"
    /\ UNCHANGED <<pending_valid, pending, pending_idx, pending_staging>>
    /\ IF Is68882 /\ pending_valid
       THEN pending_skip' = 2 /\ Pulse("pending_launch") /\ PendingLaunched
       ELSE Goto("IDLE") /\ NoPulse /\ SameXfer /\ UNCHANGED pending_skip

ExecuteDone ==
    /\ cir_state = "EXECUTE_DONE"
    /\ UNCHANGED <<pending, pending_idx, pending_staging>>
    /\ \/ /\ exc_enabled /\ Goto("EXCEPT_POST")
          /\ NoPulse /\ SameXfer /\ UNCHANGED <<pending_valid, pending_skip>>
       \/ /\ ~exc_enabled /\ ~(Is68882 /\ pending_valid) /\ Goto("IDLE")
          /\ NoPulse /\ SameXfer /\ UNCHANGED <<pending_valid, pending_skip>>
       \/ /\ ~exc_enabled /\ Is68882 /\ pending_valid
          /\ pending_valid' = FALSE /\ pending_skip' = 2
          /\ Pulse("pending_launch") /\ PendingLaunched

XferDst ==
    /\ cir_state = "XFER_DST"
    /\ LET last == word_idx + 1 >= word_count
       IN  /\ Goto(IF read_done /\ last THEN "XFER_DST_WAIT" ELSE "XFER_DST")
           /\ word_idx' = IF read_done /\ ~last THEN word_idx + 1 ELSE word_idx
    /\ NoPulse /\ SameFrame /\ UNCHANGED <<word_count, pendingVars>>

XferDstWait ==
    /\ cir_state = "XFER_DST_WAIT" /\ Goto("IDLE")
    /\ NoPulse /\ SameXfer /\ UNCHANGED pendingVars

CondEval ==
    /\ cir_state = "COND_EVAL" /\ Goto("COND_WAIT")
    /\ Pulse("launch") /\ SameXfer /\ UNCHANGED pendingVars

CondWait ==
    /\ cir_state = "COND_WAIT" /\ Goto("COND_CHECK")
    /\ NoPulse /\ SameXfer /\ UNCHANGED pendingVars

CondCheck ==
    /\ cir_state = "COND_CHECK"
    /\ Goto(IF trap_pending THEN "EXCEPT_PRE" ELSE "IDLE")
    /\ NoPulse /\ SameXfer /\ UNCHANGED pendingVars

\* Wrong variant, for mutation: an exception after the operation is never over.
ExceptWaitsAgain ==
    /\ cir_state \in {"EXCEPT_PRE", "EXCEPT_POST"}
    /\ Goto(IF control_ack /\ cir_state = "EXCEPT_PRE" THEN "IDLE" ELSE cir_state)
    /\ NoPulse /\ SameXfer /\ UNCHANGED pendingVars

Except ==
    /\ cir_state \in {"EXCEPT_PRE", "EXCEPT_POST"}
    /\ Goto(IF control_ack THEN "IDLE" ELSE cir_state)
    /\ NoPulse /\ SameXfer /\ UNCHANGED pendingVars

\* The kind of frame is decided here; the ALU goes on working.
SaveWait ==
    /\ cir_state = "SAVE_WAIT" /\ Goto("SAVE_FORMAT")
    /\ frame_kind' = IF ~fpu_initialized THEN "null" ELSE IF alu_busy THEN "busy" ELSE "idle"
    /\ word_count' = IF fpu_initialized THEN FrameWords ELSE 0
    /\ frame_idx' = 0
    /\ NoPulse /\ UNCHANGED <<word_idx, pendingVars>>

SaveFormat ==
    /\ cir_state = "SAVE_FORMAT"
    /\ Goto(IF ~save_read_done THEN "SAVE_FORMAT"
            ELSE IF word_count = 0 THEN "IDLE" ELSE "SAVE_FRAME")
    /\ NoPulse /\ SameXfer /\ UNCHANGED pendingVars

\* Wrong variant, for mutation: the index moves past the last word.
SaveFrameOverruns ==
    /\ cir_state = "SAVE_FRAME"
    /\ Goto(IF read_done /\ frame_idx + 1 >= word_count THEN "XFER_DST_WAIT"
            ELSE "SAVE_FRAME")
    /\ frame_idx' = IF read_done THEN frame_idx + 1 ELSE frame_idx
    /\ NoPulse /\ UNCHANGED <<word_idx, word_count, frame_kind, pendingVars>>

SaveFrame ==
    /\ cir_state = "SAVE_FRAME"
    /\ LET last == frame_idx + 1 >= word_count
       IN  /\ Goto(IF read_done /\ last THEN "XFER_DST_WAIT" ELSE "SAVE_FRAME")
           /\ frame_idx' = IF read_done /\ ~last THEN frame_idx + 1 ELSE frame_idx
    /\ NoPulse /\ UNCHANGED <<word_idx, word_count, frame_kind, pendingVars>>

\* frame_idx is cir_save_word_idx and cir_restore_word_idx, which are never
\* in use at the same time.
\* Any valid frame empties the pending slot; an invalid one is an exception.
RestoreFormat ==
    /\ cir_state = "RESTORE_FORMAT"
    /\ LET frame == restore_trigger /\ restore_kind \in {"idle", "busy"}
           null == restore_trigger /\ restore_kind = "null"
       IN  /\ Goto(IF ~restore_trigger THEN "RESTORE_FORMAT"
                   ELSE IF null THEN "IDLE"
                   ELSE IF frame THEN "RESTORE_FRAME" ELSE "EXCEPT_PRE")
           /\ Pulse(IF null THEN "null_req" ELSE "none")
           /\ pending_valid' = IF null \/ frame THEN FALSE ELSE pending_valid
           /\ frame_idx' = IF frame THEN 0 ELSE frame_idx
           /\ word_count' = IF frame THEN FrameWords ELSE word_count
    /\ UNCHANGED <<word_idx, frame_kind, pending_skip, pending, pending_idx,
                   pending_staging>>

\* Wrong variant, for mutation: the pending slot is not restored.
RestoreFrameForgets ==
    /\ cir_state = "RESTORE_FRAME"
    /\ LET last == frame_idx + 1 >= word_count
       IN  /\ Goto(IF word_arrived /\ last THEN "IDLE" ELSE "RESTORE_FRAME")
           /\ Pulse(IF word_arrived /\ last THEN "commit_req" ELSE "none")
           /\ frame_idx' = IF word_arrived /\ ~last THEN frame_idx + 1 ELSE frame_idx
    /\ UNCHANGED <<word_idx, word_count, frame_kind, pendingVars>>

RestoreFrame ==
    /\ cir_state = "RESTORE_FRAME"
    /\ LET last == frame_idx + 1 >= word_count
       IN  /\ Goto(IF word_arrived /\ last THEN "IDLE" ELSE "RESTORE_FRAME")
           /\ Pulse(IF word_arrived /\ last THEN "commit_req" ELSE "none")
           /\ frame_idx' = IF word_arrived /\ ~last THEN frame_idx + 1 ELSE frame_idx
           /\ IF word_arrived /\ last /\ Is68882
              THEN /\ pending_valid' = bus.data.valid /\ pending' = bus.data.instr
                   /\ pending_idx' = bus.data.idx /\ pending_staging' = bus.data.staging
              ELSE UNCHANGED <<pending_valid, pending, pending_idx, pending_staging>>
    /\ UNCHANGED <<word_idx, word_count, frame_kind, pending_skip>>

\* Wrong variant, for mutation: the second instruction is launched at once.
PendingDecodeLaunches ==
    /\ cir_state = "PENDING_DECODE" /\ Goto("EXECUTE")
    /\ Pulse("pending_launch") /\ SameXfer
    /\ UNCHANGED pendingVars

\* The ALU's completion has priority, also over the instruction being taken.
PendingDecode ==
    /\ cir_state = "PENDING_DECODE"
    /\ NoPulse /\ SameXfer
    /\ UNCHANGED <<pending, pending_skip, pending_staging>>
    /\ \/ valid /\ Goto("EXECUTE_DONE") /\ UNCHANGED <<pending_valid, pending_idx>>
       \/ /\ ~valid /\ pending.shape # "load" /\ Goto("EXECUTE")
          /\ pending_valid' = TRUE /\ UNCHANGED pending_idx
       \/ /\ ~valid /\ pending.shape = "load" /\ Goto("PENDING_XFER_SRC")
          /\ pending_idx' = 0 /\ UNCHANGED pending_valid

PendingXferSrc ==
    /\ cir_state = "PENDING_XFER_SRC"
    /\ NoPulse /\ SameXfer /\ UNCHANGED <<pending, pending_valid, pending_skip>>
    /\ LET last == pending_idx + 1 >= pending.words
       IN  IF valid
           THEN Goto("EXECUTE_DONE") /\ UNCHANGED <<pending_idx, pending_staging>>
           ELSE IF word_arrived
           THEN /\ pending_staging' = [pending_staging EXCEPT ![pending_idx] = bus.data]
                /\ Goto(IF last THEN "PENDING_XFER_SRC_WAIT" ELSE "PENDING_XFER_SRC")
                /\ pending_idx' = IF last THEN pending_idx ELSE pending_idx + 1
           ELSE Goto("PENDING_XFER_SRC") /\ UNCHANGED <<pending_idx, pending_staging>>

PendingXferSrcWait ==
    /\ \/ cir_state = "PENDING_XFER_SRC_WAIT" /\ Goto("PENDING_XFER_SRC_WAIT2")
       \/ cir_state = "PENDING_XFER_SRC_WAIT2" /\ Goto("PENDING_XFER_SRC_WAIT3")
    /\ NoPulse /\ SameXfer /\ UNCHANGED pendingVars

PendingXferSrcWait3 ==
    /\ cir_state = "PENDING_XFER_SRC_WAIT3"
    /\ Goto(IF valid THEN "EXECUTE_DONE" ELSE "EXECUTE")
    /\ pending_valid' = TRUE
    /\ NoPulse /\ SameXfer
    /\ UNCHANGED <<pending_skip, pending, pending_idx, pending_staging>>

cir_dialog_proc ==
    \/ Idle \/ Decode \/ XferSrc \/ XferSrcWait \/ XferSrcWait2
    \/ Execute \/ ExecuteDone \/ XferDst \/ XferDstWait
    \/ CondEval \/ CondWait \/ CondCheck \/ Except
    \/ SaveWait \/ SaveFormat \/ SaveFrame \/ RestoreFormat \/ RestoreFrame
    \/ PendingDecode \/ PendingXferSrc \/ PendingXferSrcWait
    \/ PendingXferSrcWait3

\* Wrong variant, for mutation: EXECUTE answers NULL on a 68881 too.
response_prim_ready ==
    IF cir_state \in {"IDLE", "EXECUTE"} THEN "NULL"
    ELSE IF cir_state = "XFER_SRC" THEN "TO_CP"
    ELSE IF cir_state = "XFER_DST" THEN "FROM_CP"
    ELSE IF cir_state \in {"EXCEPT_PRE", "EXCEPT_POST"} THEN "EXCEPT"
    ELSE "BUSY"

\* cir_response_gen: the primitive each state presents.
cir_response_prim ==
    IF cir_state = "IDLE" \/ (cir_state = "EXECUTE" /\ Is68882 /\ ~pending_valid)
    THEN "NULL"
    ELSE IF cir_state \in {"XFER_SRC", "PENDING_XFER_SRC"} THEN "TO_CP"
    ELSE IF cir_state = "XFER_DST" THEN "FROM_CP"
    ELSE IF cir_state \in {"EXCEPT_PRE", "EXCEPT_POST"} THEN "EXCEPT"
    ELSE "BUSY"

-----------------------------------------------------------------------------
(* bus_frame_proc and alu_control_proc: issue, launch, write-back *)

conditionalLaunch == launch_alu /\ instr_type = "cpCOND"
\* The instruction issued on this edge, when there is one.
general == (launch_alu /\ instr_type # "cpCOND") \/ pending_launch
issued == IF launch_alu THEN command ELSE pending

\* The operands are read where the instruction says, on the launch edge.
OperandLoad ==
    LET words == IF launch_alu THEN staging ELSE pending_staging
        source == IF issued.shape = "reg" THEN fp_reg[issued.src]
                  ELSE Converted(words, issued.words)
    IN  IF general
        THEN operand' = <<fp_reg[issued.dst], source>> /\ op_sel' = issued
        ELSE /\ operand' = IF commit_req /\ restore_kind = "busy" THEN frame_header
                           ELSE operand
             /\ UNCHANGED op_sel

\* Wrong variant, for mutation: the destination follows the command register.
IssueTracksCommand ==
    /\ op_start' = (general /\ ~issued.move)
    /\ launch_dst' = command.dst
    /\ arith_active' = \/ arith_active /\ ~valid
                       \/ general /\ ~issued.move
    /\ move_pending' = (general /\ issued.move /\ ~move_pending)

Issue ==
    /\ op_start' = (general /\ ~issued.move)
    /\ launch_dst' = IF launch_alu \/ pending_launch THEN issued.dst ELSE launch_dst
    /\ arith_active' =
         IF valid /\ arith_active /\ ~pending_launch THEN FALSE
         ELSE arith_active \/ (general /\ ~issued.move)
    /\ move_pending' = (general /\ issued.move /\ ~move_pending)

\* A move is copied one clock after its operand was loaded.
WriteBack ==
    LET written == IF valid /\ arith_active
                   THEN [fp_reg EXCEPT ![launch_dst] = result.val] ELSE fp_reg
    IN  fp_reg' = IF move_pending
                  THEN [written EXCEPT ![command.dst] = operand[2]] ELSE written

\* A conditional leaves its answer in the response register until the host
\* has read it; whether it traps is data.
Respond ==
    \/ /\ conditionalLaunch
       /\ response' \in {"COND"} \cup (IF MayTrap THEN {"COND_TRAP"} ELSE {})
       /\ trap_pending' = (response' = "COND_TRAP")
       /\ response_pending' = TRUE
    \/ /\ ~conditionalLaunch
       /\ response' = IF response_pending THEN response ELSE cir_response_prim
       /\ response_pending' = (response_pending /\ ~bus_read("RESPONSE"))
       /\ trap_pending' = (trap_pending /\ ~(/\ bus_read("RESPONSE")
                              /\ cir_state \notin {"COND_WAIT", "COND_CHECK"}))

\* The exception classification of a completed operation.
Classify ==
    IF valid THEN exc_enabled' \in (IF MayTrap THEN BOOLEAN ELSE {FALSE})
    ELSE UNCHANGED exc_enabled

\* What a state frame says of the unit, and the restore register.
FrameState ==
    /\ restore_trigger' = bus_write("RESTORE")
    /\ restore_kind' = IF bus_write("RESTORE") THEN bus.data ELSE restore_kind
    /\ fpu_initialized' = \/ commit_req
                          \/ ~null_req /\ (launch_alu \/ pending_launch \/ fpu_initialized)

frameWord ==
    IF frame_idx = 0 THEN <<"HEADER", operand>>
    ELSE IF Is68882 /\ frame_idx + 1 = FrameWords
    THEN <<"PENDING", [valid |-> pending_valid, instr |-> pending,
                       idx |-> pending_idx, staging |-> pending_staging]>>
    ELSE <<"RESERVED", 0>>

\* What the operand register shows: a word of a store, of a frame, or else the
\* result register of peripheral mode, which no dialog asks for.
operandRead ==
    IF cir_state \in {"XFER_DST", "XFER_DST_WAIT"} THEN <<"OPERAND", staging[word_idx]>>
    ELSE IF cir_state = "SAVE_FRAME" THEN frameWord ELSE <<"RESULT", 0>>

\* Wrong variant, for mutation: the data follows the state on every clock.
LiveReadPath ==
    d_out' = IF bus_read("RESPONSE") THEN <<"RESPONSE", response>>
             ELSE IF bus_read("SAVE") THEN <<"SAVE", frame_kind>>
             ELSE IF bus_read("OPERAND") THEN operandRead ELSE d_out

\* CIR reads return what was there on the first clock of the access.
ReadPath ==
    d_out' = IF ~bus.first THEN d_out
             ELSE IF bus_read("RESPONSE") THEN <<"RESPONSE", response>>
             ELSE IF bus_read("SAVE") THEN <<"SAVE", frame_kind>>
             ELSE IF bus_read("OPERAND") THEN operandRead ELSE d_out

alu_control_proc ==
    /\ OperandLoad /\ Issue /\ WriteBack
    /\ Respond /\ Classify /\ FrameState /\ ReadPath

-----------------------------------------------------------------------------
(* mc68881_alu: a start is ignored while busy; valid lasts one clock *)

Compute(i, o) == [by |-> i.n, val |-> IF o = i.want THEN i.n ELSE Garbage]

AluIdle == ~alu_busy /\ ~op_start /\ valid' = FALSE /\ UNCHANGED <<alu_busy, alu_job, result>>
AluStart ==
    /\ ~alu_busy /\ op_start
    /\ valid' = FALSE /\ alu_busy' = TRUE /\ alu_job' = Compute(op_sel, operand)
    /\ UNCHANGED result
AluWork == alu_busy /\ valid' = FALSE /\ UNCHANGED <<alu_busy, alu_job, result>>
AluDone ==
    /\ alu_busy
    /\ valid' = TRUE /\ alu_busy' = FALSE /\ result' = alu_job /\ UNCHANGED alu_job

mc68881_alu == AluIdle \/ AluStart \/ AluWork \/ AluDone

FpuClock == cir_write_proc /\ cir_dialog_proc /\ alu_control_proc /\ mc68881_alu

FpuInit ==
    /\ opword_written = FALSE /\ command_written = FALSE /\ condition_written = FALSE
    /\ instr_type = "cpGEN" /\ command = NoInstr /\ control_ack = FALSE
    /\ word_arrived = FALSE /\ read_done = FALSE
    /\ write_prev = FALSE /\ read_prev = FALSE
    /\ staging = [k \in WordIdx |-> Word(Garbage, 0)]
    /\ opword_seen = FALSE /\ cmd_seen = FALSE
    /\ cir_state = "IDLE" /\ word_idx = 0 /\ word_count = 0
    /\ launch_alu = FALSE /\ flags_consumed = FALSE
    /\ pending_valid = FALSE /\ pending_launch = FALSE /\ pending_skip = 0
    /\ pending = NoInstr /\ pending_idx = 0
    /\ pending_staging = [k \in WordIdx |-> Word(Garbage, 0)]
    /\ fp_reg = [r \in Regs |-> r]
    /\ operand = <<Garbage, Garbage>> /\ op_sel = NoInstr
    /\ op_start = FALSE /\ launch_dst = NoInstr.dst
    /\ arith_active = FALSE /\ move_pending = FALSE
    /\ trap_pending = FALSE /\ response_pending = FALSE
    /\ response = "NULL" /\ exc_enabled = FALSE /\ d_out = <<"RESPONSE", "NULL">>
    /\ save_read_done = FALSE /\ save_prev = FALSE /\ frame_header = <<Garbage, Garbage>>
    /\ frame_kind = "null" /\ frame_idx = 0 /\ null_req = FALSE /\ commit_req = FALSE
    /\ restore_trigger = FALSE /\ restore_kind = "null" /\ fpu_initialized = FALSE
    /\ alu_busy = FALSE /\ alu_job = [by |-> 0, val |-> Garbage]
    /\ valid = FALSE /\ result = [by |-> 0, val |-> Garbage]

=============================================================================
