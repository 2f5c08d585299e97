-------------------------- MODULE CirPipelineProofs --------------------------
(***************************************************************************)
(* What holds of CirHost on a 68881 and on a 68882 alike.  First, for      *)
(* programs that mix cpGEN instructions, conditionals and operation words  *)
(* of no known type, in every order a host writes them: what the dialog    *)
(* launches, the ALU finishes, in order, once, and for its own register.   *)
(* Then, for any program that is saved and restored wherever the host      *)
(* likes: a frame carries the pending slot.                                *)
(***************************************************************************)
EXTENDS CirHost, SequenceTheorems, TLAPS

\* Nothing is saved, and the host works through the bridge, which shows a write
\* for three clocks.  On a 68882 a save can find the ALU at work: it goes on,
\* the restore ends in IDLE, and the next command starts it while it is busy.
Unsaved == SavePhases = {} /\ WriteClocks = 3

-----------------------------------------------------------------------------
(* The inductive invariant                                                 *)

\* The states in which the ALU may work; in all but the first, the dialog is
\* taking a second instruction meanwhile.
Overlapping == {"PENDING_DECODE", "PENDING_XFER_SRC", "PENDING_XFER_SRC_WAIT",
                "PENDING_XFER_SRC_WAIT2", "PENDING_XFER_SRC_WAIT3"}
Executing == Overlapping \cup {"EXECUTE"}
\* The states on the way from a command to its launch.
Decoding == {"DECODE", "XFER_SRC", "XFER_SRC_WAIT", "XFER_SRC_WAIT2"}
UnsavedStates == Executing \cup Decoding \cup
    {"IDLE", "EXECUTE_DONE", "XFER_DST", "XFER_DST_WAIT", "COND_EVAL", "COND_WAIT",
     "COND_CHECK", "EXCEPT_PRE", "EXCEPT_POST"}
OpwordTypes == {"cpGEN", "cpCOND", "undefined"}

IssuedIn(p, i) == i.n \in 1..Len(p) /\ p[i.n] = i
Issued(i) == IssuedIn(program, i)

\* Instructions are numbered as they are issued, and every register that
\* holds one holds one of the program's, or none yet.
ProgramOK ==
    /\ golden \in [Regs -> Values] /\ program \in Seq(Instrs)
    /\ Len(program) <= MaxInstr
    /\ \A k \in 1..Len(program) :
         program[k].n = k /\ (program[k].shape = "store" => program[k].move)
    /\ \A i \in {command, pending, op_sel} : i = NoInstr \/ Issued(i)
    /\ {alu_job.by, result.by, last_done} \subseteq 0..Len(program)

\* The bus cycles such a host makes.
IsBus == bus \in [op : {"none", "read", "write"}, addr : {bus.addr}, data : {bus.data},
                  left : Nat, first : BOOLEAN]
BusOK ==
    /\ IsBus
    /\ bus.op = "none" => ~bus.first
    /\ bus.op = "write" => bus.left \in 1..3 /\ (bus.first <=> bus.left = 3)
    /\ bus_write("OPWORD") => bus.data \in OpwordTypes
    /\ bus_write("CONDITION") => phase = "poll"
    /\ bus_write("COMMAND") => Issued(bus.data) /\ phase \in {"poll", "opword"}
    /\ instr_type \in OpwordTypes /\ cir_state \in UnsavedStates
    /\ phase \in {"free", "command", "opword", "condition", "poll", "busy", "polled",
                  "operand", "fetch", "fetched", "ack"}

\* Instruction i is the last one issued, and nothing has seen it yet.
Newest(i) ==
    /\ Issued(i) /\ i.n = Len(program)
    /\ \A x \in {command.n, pending.n, op_sel.n, alu_job.by, result.by, last_done} : x < i.n

\* What IDLE looks for.
Decodes == command_written /\ (~opword_written \/ instr_type = "cpGEN")
Evaluates == opword_written /\ condition_written /\ instr_type = "cpCOND"

\* A command is in the register after one clock, and is decoded, or its
\* operand words arrive, only when its own write is (nearly) over; or it is one
\* that waited, and is decoded because of the operation word being written.
CommandTiming ==
    /\ phase = "command" => Newest(cur)
    /\ bus_write("COMMAND") => IF bus.first THEN Newest(bus.data) ELSE command = bus.data
    /\ cir_state = "IDLE" /\ Decodes =>
         \/ (bus_write("COMMAND") \/ bus_write("OPWORD")) /\ ~bus.first
         \/ bus.op = "none" /\ phase \in {"poll", "opword"}
    /\ cir_state = "DECODE" /\ bus_write("COMMAND") => bus.left = 1
    /\ bus_write("OPERAND") => (write_prev <=> ~bus.first)
    /\ word_arrived => bus_write("OPERAND") /\ bus.left = 2
    /\ cir_state = "XFER_SRC_WAIT" => bus_write("OPERAND") /\ bus.left = 1
    /\ cir_state = "XFER_SRC_WAIT2" => bus.op = "none"

\* An arithmetic instruction is launched on this clock.
Starting == general /\ ~issued.move

\* One operation at a time is between its launch and its result, and only
\* while the dialog executes; its destination stays with it.
Pipeline ==
    /\ launch_alu \/ pending_launch => ~alu_busy /\ ~op_start /\ ~valid
    /\ launch_alu => ~pending_launch /\ (bus_write("COMMAND") => bus.first)
    /\ Starting => cir_state = "EXECUTE" /\ Issued(issued)
    /\ op_start => ~alu_busy /\ ~valid
    /\ alu_busy => ~valid
    /\ op_start \/ alu_busy \/ valid => cir_state \in Executing
    /\ op_start => Issued(op_sel) /\ launch_dst = op_sel.dst
    /\ alu_busy => alu_job.by # 0 /\ launch_dst = program[alu_job.by].dst
    /\ valid => result.by # 0 /\ launch_dst = program[result.by].dst

\* An operation word is in the register after one clock, and a condition is
\* evaluated under the word of a conditional, which stays until it is.
ConditionTiming ==
    /\ bus_write("OPWORD") /\ ~bus.first => opword_written /\ instr_type = bus.data
    /\ cir_state = "IDLE" /\ Evaluates =>
         \/ (bus_write("CONDITION") \/ bus_write("OPWORD")) /\ ~bus.first
         \/ bus.op = "none" /\ phase = "poll"
    /\ cir_state = "COND_EVAL" =>
         /\ instr_type = "cpCOND" /\ ~bus_write("COMMAND")
         /\ bus_write("OPWORD") => ~bus.first
    /\ cir_state = "COND_WAIT" => instr_type = "cpCOND"

PipelineInv == ProgramOK /\ BusOK /\ CommandTiming /\ ConditionTiming /\ Pipeline

-----------------------------------------------------------------------------
(* What a step of the dialog may do                                        *)

\* Which states follow which; only a decoded command, or a pending one when
\* the operation before it is done, is launched.
LEMMA DialogGoes ==
    ASSUME cir_dialog_proc, cir_state \in UnsavedStates, instr_type \in OpwordTypes
    PROVE  /\ cir_state' \in UnsavedStates
           /\ cir_state \in Executing => ~launch_alu' /\ ~pending_launch'
           /\ cir_state \in Executing /\ ~valid => cir_state' \in Executing
           /\ cir_state = "IDLE" => cir_state' = IF Evaluates THEN "COND_EVAL"
                                                 ELSE IF Decodes THEN "DECODE" ELSE "IDLE"
           /\ launch_alu' => /\ ~pending_launch'
                             /\ \/ cir_state = "COND_EVAL" /\ cir_state' = "COND_WAIT"
                                \/ /\ cir_state \in {"DECODE", "XFER_SRC_WAIT2"}
                                   /\ cir_state' = IF command.move THEN "IDLE" ELSE "EXECUTE"
           /\ pending_launch' =>
                /\ cir_state = "EXECUTE_DONE" /\ pending_valid /\ pending' = pending
                /\ ~pending.move /\ pending.shape # "store" => cir_state' = "EXECUTE"
           /\ cir_state' \in {"DECODE", "COND_EVAL"} => cir_state = "IDLE"
           /\ cir_state' = "COND_WAIT" => cir_state = "COND_EVAL"
           /\ cir_state' = "XFER_SRC_WAIT" => cir_state = "XFER_SRC" /\ word_arrived
           /\ cir_state' = "XFER_SRC_WAIT2" => cir_state = "XFER_SRC_WAIT"
           /\ pending' = pending \/ pending' = command
<1> USE DEF UnsavedStates, Executing, Overlapping, Decoding, Goto, Pulse, NoPulse,
            SameXfer, SameFrame, StartXfer, Launched, pendingVars, frameVars
<1>1. CASE Idle BY <1>1 DEF Idle, Evaluates, Decodes, OpwordTypes
<1>2. CASE Decode BY <1>2 DEF Decode
<1>3. CASE XferSrc \/ XferSrcWait \/ XferSrcWait2
  BY <1>3 DEF XferSrc, XferSrcWait, XferSrcWait2
<1>4. CASE Execute BY <1>4 DEF Execute, AcceptsPending, OpwordTypes
<1>5. CASE ExecuteDone BY <1>5 DEF ExecuteDone, PendingLaunched
<1>6. CASE XferDst \/ XferDstWait \/ Except BY <1>6 DEF XferDst, XferDstWait, Except
<1>7. CASE CondEval \/ CondWait \/ CondCheck \/ SaveWait \/ SaveFormat \/ SaveFrame
           \/ RestoreFormat \/ RestoreFrame
  BY <1>7 DEF CondEval, CondWait, CondCheck, SaveWait, SaveFormat, SaveFrame,
              RestoreFormat, RestoreFrame
<1>8. CASE PendingDecode BY <1>8 DEF PendingDecode
<1>9. CASE PendingXferSrc BY <1>9 DEF PendingXferSrc
<1>10. CASE PendingXferSrcWait \/ PendingXferSrcWait3
  BY <1>10 DEF PendingXferSrcWait, PendingXferSrcWait3
<1> QED
  BY <1>1, <1>2, <1>3, <1>4, <1>5, <1>6, <1>7, <1>8, <1>9, <1>10 DEF cir_dialog_proc

-----------------------------------------------------------------------------
(* What a step of the host may do                                          *)

\* The bus cycle goes on, ends, or a new one begins with its first clock.
LEMMA BusGoes ==
    ASSUME Unsaved, BusOK, Host
    PROVE  /\ IsBus'
           /\ bus'.op = "none" => ~bus'.first
           /\ bus'.op = "write" => bus'.left \in 1..3 /\ (bus'.first <=> bus'.left = 3)
           /\ bus.op # "none" /\ bus.left > 1 =>
                /\ bus'.op = bus.op /\ bus'.addr = bus.addr /\ bus'.data = bus.data
                /\ bus'.left = bus.left - 1 /\ ~bus'.first
           /\ bus.op # "none" /\ bus.left <= 1 => bus'.op = "none"
           /\ bus.op = "none" => bus'.op = "none" \/ bus'.first
<1> USE HostAssumption DEF Unsaved, BusOK, IsBus
<1>1. CASE \E op \in {"read", "write"} : \E addr, data : Starts(op, addr, data) /\ BusFree
  <2>1. PICK op \in {"read", "write"} : \E addr, data : Starts(op, addr, data) /\ BusFree
    BY <1>1
  <2>2. PICK addr, data : Starts(op, addr, data) /\ BusFree
    BY <2>1
  <2>3. /\ bus.op = "none" /\ bus'.op = op /\ bus'.first = TRUE
        /\ bus'.left = IF op = "write" THEN WriteClocks ELSE ReadClocks
    BY <2>2 DEF Starts, BusFree
  <2>4. IsBus' BY <2>2, <2>3 DEF Starts
  <2> QED BY <2>3, <2>4
<1>2. CASE HostHolds
  <2>1. /\ bus.op # "none" /\ bus.left > 1 /\ bus'.left = bus.left - 1 /\ bus'.first = FALSE
        /\ bus'.op = bus.op /\ bus'.addr = bus.addr /\ bus'.data = bus.data
    BY <1>2 DEF HostHolds
  <2>2. bus'.left \in Nat BY <2>1
  <2>3. IsBus' BY <1>2, <2>1, <2>2 DEF HostHolds
  <2> QED BY <2>1, <2>2, <2>3
<1>3. CASE HostEnds
  <2>1. bus.op # "none" /\ bus.left = 1 /\ bus'.op = "none" /\ bus'.first = FALSE /\ bus'.left = Gap
    BY <1>3 DEF HostEnds
  <2>2. IsBus' BY <1>3, <2>1 DEF HostEnds
  <2> QED BY <2>1, <2>2
<1>4. CASE HostPauses
  <2>1. /\ bus.op = "none" /\ bus'.op = "none" /\ bus'.first = bus.first
        /\ bus'.left \in Nat
    BY <1>4 DEF HostPauses
  <2>2. IsBus' BY <1>4, <2>1 DEF HostPauses
  <2> QED BY <2>1, <2>2
<1>5. HostStarts => \E op \in {"read", "write"} : \E addr, data : Starts(op, addr, data) /\ BusFree
  BY DEF HostStarts, HostGeneral, HostConditional, HostUndefined, HostSecondWrite,
       HostPoll, HostOperand, HostFetch, HostAck, HostSave, HostSaveFormat, HostSaveWord,
       HostRestore, HostRestoreFormat, HostRestoreWord, HostSettles, HostAcksRefusal,
       Writes, Reads
<1> QED
  BY <1>1, <1>2, <1>3, <1>4, <1>5 DEF Host

\* Only an instruction the host issues next, or has just issued, is written to
\* the command register.
LEMMA HostGoes ==
    ASSUME Unsaved, BusOK, Host
    PROVE  /\ phase' \in {"free", "command", "opword", "condition", "poll", "busy",
                           "polled", "operand", "fetch", "fetched", "ack"}
           /\ bus_write("OPWORD")' => bus'.data \in OpwordTypes
           /\ bus_write("OPWORD")' /\ bus'.first => phase \in {"free", "opword"}
           /\ bus_write("CONDITION")' => phase' = "poll"
           /\ bus_write("CONDITION") => phase' = phase
           /\ bus_write("COMMAND")' => phase' \in {"poll", "opword"}
           /\ bus_write("COMMAND")' /\ bus'.first =>
                \/ phase = "command" /\ bus'.data = cur /\ program' = program
                \/ /\ bus'.data \in Instructions /\ program' = Append(program, bus'.data)
                   /\ Len(program) < MaxInstr /\ phase = "free"
           /\ phase' = "command" =>
                \/ phase = "command" /\ cur' = cur /\ program' = program
                \/ /\ cur' \in Instructions /\ program' = Append(program, cur')
                   /\ Len(program) < MaxInstr
           /\ bus_write("COMMAND") => phase' = phase
           /\ \/ program' = program /\ golden' = golden
              \/ \E i \in Instructions :
                   /\ program' = Append(program, i) /\ Len(program) < MaxInstr
                   /\ golden' = IF i.shape = "store" THEN golden
                                ELSE [golden EXCEPT ![i.dst] = Outcome(i)]
<1> USE HostAssumption
    DEF Unsaved, BusOK, Starts, Writes, Reads, BusFree, SameHost, SameSave, historyVars,
        hostVars, bus_write, OpwordTypes
<1>1. CASE HostGeneral
  <2>1. PICK i \in Instructions, o \in Orders :
          /\ Issues(i) /\ Len(program) < MaxInstr /\ bus.op = "none" /\ phase = "free"
          /\ IF o = "opword_first" THEN Writes("OPWORD", "cpGEN") ELSE Writes("COMMAND", i)
          /\ phase' = IF o = "opword_first" THEN "command"
                      ELSE IF o = "command_first" THEN "opword" ELSE "poll"
    BY <1>1 DEF HostGeneral
  <2>2. /\ cur' = i /\ program' = Append(program, i)
        /\ golden' = IF i.shape = "store" THEN golden
                     ELSE [golden EXCEPT ![i.dst] = Outcome(i)]
    BY <2>1 DEF Issues
  <2>3. CASE o = "opword_first"
    <3>1. bus'.op = "write" /\ bus'.addr = "OPWORD" /\ bus'.data = "cpGEN" /\ phase' = "command"
      BY <2>1, <2>3
    <3> QED BY <2>1, <2>2, <3>1
  <2>4. CASE o # "opword_first"
    <3>1. /\ bus'.op = "write" /\ bus'.addr = "COMMAND" /\ bus'.data = i
          /\ phase' \in {"poll", "opword"}
      BY <2>1, <2>4
    <3> QED BY <2>1, <2>2, <3>1
  <2> QED BY <2>3, <2>4
<1>2. CASE HostConditional \/ HostUndefined \/ HostSave
  BY <1>2 DEF HostConditional, HostUndefined, HostSave
<1>3. CASE HostSecondWrite BY <1>3 DEF HostSecondWrite
<1>4. CASE HostPoll \/ HostOperand \/ HostFetch \/ HostAck
  BY <1>4 DEF HostPoll, HostOperand, HostFetch, HostAck
<1>5. CASE HostSaveFormat \/ HostSaveWord \/ HostRestore \/ HostRestoreFormat
           \/ HostRestoreWord \/ HostSettles \/ HostAcksRefusal
  BY <1>5 DEF HostSaveFormat, HostSaveWord, HostRestore, HostRestoreFormat,
              HostRestoreWord, HostSettles, HostAcksRefusal
<1>6. CASE HostHolds
  <2>1. UNCHANGED <<phase, cur, program, golden>> /\ bus.op # "none" /\ bus.left > 1
    BY <1>6 DEF HostHolds
  <2>2. bus'.op = bus.op /\ bus'.addr = bus.addr /\ bus'.data = bus.data /\ ~bus'.first
    BY <2>1, BusGoes
  <2> QED BY <2>1, <2>2
<1>8. CASE HostPauses
  <2>1. UNCHANGED <<phase, cur, program, golden>> /\ bus.op = "none" /\ bus'.op = "none"
    BY <1>8 DEF HostPauses, IsBus
  <2> QED BY <2>1
<1>7. CASE HostEnds BY <1>7 DEF HostEnds, Responds, Got
<1> QED
  BY <1>1, <1>2, <1>3, <1>4, <1>5, <1>6, <1>7, <1>8 DEF Host, HostStarts

-----------------------------------------------------------------------------
(* The program only grows                                                  *)

LEMMA NoInstrIsMove ==
    /\ NoInstr.n = 0 /\ NoInstr.move = TRUE /\ NoInstr.shape = "reg"
    /\ NoInstr.src \in Regs /\ NoInstr.dst \in Regs /\ NoInstr.words = 1
BY DialogAssumption DEF NoInstr

LEMMA NextInstruction ==
    ASSUME golden \in [Regs -> Values], program \in Seq(Instrs), Len(program) < MaxInstr,
           NEW i \in Instructions
    PROVE  i \in Instrs /\ i.n = Len(program) + 1 /\ (i.shape = "store" => i.move)
<1>1. Len(program) \in Nat /\ Len(program) + 1 \in 0..MaxInstr /\ Len(program) + 1 \in Values
  BY HostAssumption, LenProperties DEF Values
<1>2. PICK s \in Shapes, m \in Moves, r \in Regs, d \in Regs, w \in WordCounts :
        i = [n |-> Len(program) + 1, shape |-> s, move |-> (m \/ s = "store"),
             src |-> IF s = "reg" THEN r ELSE d, dst |-> d,
             words |-> IF s = "reg" THEN 1 ELSE w,
             want |-> <<golden[d], IF s = "load" THEN Len(program) + 1 ELSE golden[r]>>]
  BY DEF Instructions
<1>3. <<golden[d], IF s = "load" THEN Len(program) + 1 ELSE golden[r]>> \in Values \X Values
  BY <1>1
<1>4. i.n = Len(program) + 1 /\ i.shape = s /\ i.move = (m \/ s = "store")
  BY <1>2
<1>5. i \in Instrs
  BY <1>1, <1>2, <1>3, HostAssumption DEF Instrs
<1> QED
  BY <1>4, <1>5

LEMMA ProgramGrows ==
    ASSUME Unsaved, ProgramOK, BusOK, Host
    PROVE  /\ golden' \in [Regs -> Values] /\ program' \in Seq(Instrs)
           /\ Len(program') \in Nat /\ Len(program) \in Nat
           /\ Len(program) <= Len(program') /\ Len(program') <= MaxInstr
           /\ \A k \in 1..Len(program') :
                     program'[k].n = k /\ (program'[k].shape = "store" => program'[k].move)
           /\ \A k \in 1..Len(program) : program'[k] = program[k]
           /\ \A i : IssuedIn(program, i) => IssuedIn(program', i)
           /\ \A i \in Instructions : program' = Append(program, i) /\ Len(program) < MaxInstr =>
                IssuedIn(program', i) /\ i.n = Len(program') /\ Len(program') = Len(program) + 1
<1>1. program \in Seq(Instrs) /\ golden \in [Regs -> Values] /\ Len(program) \in Nat
      /\ Len(program) <= MaxInstr
  BY LenProperties DEF ProgramOK
<1>2. ASSUME NEW i \in Instructions, program' = Append(program, i), Len(program) < MaxInstr
      PROVE  /\ program' \in Seq(Instrs) /\ Len(program') = Len(program) + 1
             /\ program'[Len(program) + 1] = i
             /\ \A k \in 1..Len(program) : program'[k] = program[k]
             /\ i \in Instrs /\ i.n = Len(program) + 1 /\ (i.shape = "store" => i.move)
  <2>1. i \in Instrs /\ i.n = Len(program) + 1 /\ (i.shape = "store" => i.move)
    BY <1>1, <1>2, NextInstruction
  <2> QED
    BY <1>1, <1>2, <2>1, AppendProperties
<1>3. \A i \in Instructions : program' = Append(program, i) /\ Len(program) < MaxInstr =>
        IssuedIn(program', i) /\ i.n = Len(program') /\ Len(program') = Len(program) + 1
  BY <1>1, <1>2 DEF IssuedIn
<1>4. CASE program' = program /\ golden' = golden
  BY <1>1, <1>3, <1>4 DEF ProgramOK
<1>5. CASE \E i \in Instructions :
             /\ program' = Append(program, i) /\ Len(program) < MaxInstr
             /\ golden' = IF i.shape = "store" THEN golden
                          ELSE [golden EXCEPT ![i.dst] = Outcome(i)]
  <2>1. PICK i \in Instructions :
             /\ program' = Append(program, i) /\ Len(program) < MaxInstr
             /\ golden' = IF i.shape = "store" THEN golden
                          ELSE [golden EXCEPT ![i.dst] = Outcome(i)]
    BY <1>5
  <2>2. /\ program' \in Seq(Instrs) /\ Len(program') = Len(program) + 1
        /\ program'[Len(program) + 1] = i
        /\ \A k \in 1..Len(program) : program'[k] = program[k]
        /\ i \in Instrs /\ i.n = Len(program) + 1 /\ (i.shape = "store" => i.move)
    BY <1>2, <2>1
  <2>3. golden' \in [Regs -> Values]
    <3>1. Outcome(i) \in Values
      <4>1. i.want[2] \in Values /\ i.n \in Nat
        BY <2>2, <1>1 DEF Instrs
      <4> QED BY <4>1 DEF Outcome, Values
    <3> QED BY <1>1, <2>1, <3>1
  <2>4. \A k \in 1..Len(program') :
              program'[k].n = k /\ (program'[k].shape = "store" => program'[k].move)
    <3> TAKE k \in 1..Len(program')
    <3>1. CASE k = Len(program) + 1 BY <3>1, <2>2
    <3>2. CASE k \in 1..Len(program) BY <3>2, <2>2 DEF ProgramOK
    <3> QED BY <1>1, <2>2, <3>1, <3>2
  <2>5. \A j : IssuedIn(program, j) => IssuedIn(program', j)
    BY <1>1, <2>2 DEF IssuedIn
  <2>6. Len(program') \in Nat /\ Len(program) <= Len(program') /\ Len(program') <= MaxInstr
    BY <1>1, <2>1, <2>2, HostAssumption
  <2> QED
    BY <1>1, <1>3, <2>2, <2>3, <2>4, <2>5, <2>6
<1> QED
  BY <1>4, <1>5, HostGoes

-----------------------------------------------------------------------------
(* Each part of the invariant is kept                                      *)

\* What one clock loads into the registers the invariant is about.
LEMMA Loads ==
    ASSUME FpuClock, RecordDone
    PROVE  /\ command' = IF bus_write("COMMAND") THEN bus.data ELSE command
           /\ instr_type' = IF bus_write("OPWORD") THEN bus.data ELSE instr_type
           /\ command_written' = (bus_write("COMMAND") \/ Cleared(command_written))
           /\ opword_written' = (bus_write("OPWORD") \/ Cleared(opword_written))
           /\ condition_written' = (bus_write("CONDITION") \/ Cleared(condition_written))
           /\ write_prev' = bus_write("OPERAND")
           /\ word_arrived' => wrote
           /\ op_sel' = IF general THEN issued ELSE op_sel
           /\ op_start' = Starting
           /\ launch_dst' = IF launch_alu \/ pending_launch THEN issued.dst ELSE launch_dst
           /\ last_done' \in {last_done, result.by}
           /\ alu_job' = IF ~alu_busy /\ op_start THEN Compute(op_sel, operand) ELSE alu_job
           /\ result' \in {result, alu_job} /\ (valid' => alu_busy /\ result' = alu_job)
           /\ alu_busy' => ~valid' /\ (alu_busy \/ op_start)
           /\ cir_dialog_proc
<1>1. cir_write_proc /\ cir_dialog_proc /\ alu_control_proc /\ mc68881_alu
  BY DEF FpuClock
<1>2. /\ command' = IF bus_write("COMMAND") THEN bus.data ELSE command
      /\ instr_type' = IF bus_write("OPWORD") THEN bus.data ELSE instr_type
      /\ command_written' = (bus_write("COMMAND") \/ Cleared(command_written))
      /\ opword_written' = (bus_write("OPWORD") \/ Cleared(opword_written))
      /\ condition_written' = (bus_write("CONDITION") \/ Cleared(condition_written))
  BY <1>1 DEF cir_write_proc, WrittenFlags
<1>3. write_prev' = bus_write("OPERAND") /\ (word_arrived' => wrote)
  BY <1>1 DEF cir_write_proc, OperandAccess
<1>4. op_sel' = IF general THEN issued ELSE op_sel
  BY <1>1 DEF alu_control_proc, OperandLoad
<1>5. /\ op_start' = Starting
      /\ launch_dst' = IF launch_alu \/ pending_launch THEN issued.dst ELSE launch_dst
  BY <1>1 DEF alu_control_proc, Issue, Starting
<1>6. last_done' \in {last_done, result.by}
  BY DEF RecordDone
<1>7. /\ alu_job' = IF ~alu_busy /\ op_start THEN Compute(op_sel, operand) ELSE alu_job
      /\ result' \in {result, alu_job} /\ (valid' => alu_busy /\ result' = alu_job)
      /\ alu_busy' => ~valid' /\ (alu_busy \/ op_start)
  BY <1>1 DEF mc68881_alu, AluIdle, AluStart, AluWork, AluDone
<1> QED
  BY <1>1, <1>2, <1>3, <1>4, <1>5, <1>6, <1>7

LEMMA KeepsProgram ==
    ASSUME Unsaved, PipelineInv, Next
    PROVE  ProgramOK'
<1>0. ProgramOK /\ BusOK /\ CommandTiming /\ Pipeline BY DEF PipelineInv
<1>1. /\ golden' \in [Regs -> Values] /\ program' \in Seq(Instrs)
      /\ Len(program') \in Nat /\ Len(program) \in Nat
      /\ Len(program) <= Len(program') /\ Len(program') <= MaxInstr
      /\ \A k \in 1..Len(program') :
                program'[k].n = k /\ (program'[k].shape = "store" => program'[k].move)
      /\ \A i : IssuedIn(program, i) => IssuedIn(program', i)
  BY <1>0, ProgramGrows DEF Next
<1>2. \A i \in {command, pending, op_sel} : i = NoInstr \/ IssuedIn(program, i)
  BY <1>0 DEF ProgramOK, Issued
<1>3. \A i \in {command', pending', op_sel'} : i = NoInstr \/ IssuedIn(program', i)
  <2>1. command' \in {command, pending, op_sel} \/ IssuedIn(program, command')
    BY <1>0, Loads DEF Next, BusOK, Issued
  <2>2. pending' \in {command, pending}
    BY <1>0, DialogGoes, Loads DEF Next, BusOK
  <2>3. op_sel' \in {command, pending, op_sel}
    BY Loads DEF Next, issued
  <2> QED BY <1>1, <1>2, <2>1, <2>2, <2>3
<1>4. {alu_job'.by, result'.by, last_done'} \subseteq 0..Len(program')
  <2>1. op_sel.n \in 0..Len(program)
    BY <1>1, <1>2, NoInstrIsMove DEF IssuedIn
  <2>2. {alu_job.by, result.by, last_done} \subseteq 0..Len(program)
    BY <1>0 DEF ProgramOK
  <2>3. Compute(op_sel, operand).by = op_sel.n
    BY DEF Compute
  <2> QED BY <1>1, <2>1, <2>2, <2>3, Loads DEF Next
<1>5. \A i \in {command', pending', op_sel'} : i = NoInstr \/ IssuedIn(program', i)
  BY <1>3
<1> QED
  BY <1>1, <1>4, <1>5 DEF ProgramOK, Issued

LEMMA KeepsBus ==
    ASSUME Unsaved, PipelineInv, Next
    PROVE  BusOK'
<1>0. ProgramOK /\ BusOK /\ CommandTiming /\ Pipeline BY DEF PipelineInv
<1>1. instr_type' \in OpwordTypes /\ cir_state' \in UnsavedStates
  BY <1>0, Loads, DialogGoes DEF Next, BusOK
<1>2. bus_write("COMMAND")' => IssuedIn(program', bus'.data)
  <2>1. SUFFICES ASSUME bus'.op = "write", bus'.addr = "COMMAND"
                 PROVE  IssuedIn(program', bus'.data)
    BY DEF bus_write
  <2>2. CASE bus'.first
    <3>1. CASE phase = "command" /\ bus'.data = cur /\ program' = program
      BY <1>0, <3>1 DEF CommandTiming, Newest, Issued
    <3>2. CASE /\ bus'.data \in Instructions /\ program' = Append(program, bus'.data)
               /\ Len(program) < MaxInstr
      BY <1>0, <3>2, ProgramGrows DEF Next
    <3> QED BY <2>1, <2>2, <3>1, <3>2, <1>0, HostGoes DEF Next, bus_write
  <2>3. CASE ~bus'.first
    <3>1. bus.op = "write" /\ bus.addr = "COMMAND" /\ bus'.data = bus.data
      BY <1>0, <2>1, <2>3, BusGoes DEF Next, BusOK, IsBus
    <3> QED BY <1>0, <3>1, ProgramGrows DEF Next, BusOK, Issued, bus_write
  <2> QED BY <2>2, <2>3
<1> QED
  BY <1>0, <1>1, <1>2, BusGoes, HostGoes DEF Next, BusOK, Issued, IsBus, bus_write

\* What the registers hold after a clock was issued before it.
LEMMA NumbersLag ==
    ASSUME Unsaved, PipelineInv, Next
    PROVE  /\ Len(program) \in Nat
           /\ \A x \in {command'.n, pending'.n, op_sel'.n, alu_job'.by, result'.by, last_done'} :
                x \in 0..Len(program)
<1>0. ProgramOK /\ BusOK /\ Len(program) \in Nat
  BY LenProperties DEF PipelineInv, ProgramOK
<1>1. \A i : i = NoInstr \/ IssuedIn(program, i) => i.n \in 0..Len(program)
  BY <1>0, NoInstrIsMove DEF IssuedIn
<1>2. {command.n, pending.n, op_sel.n} \subseteq 0..Len(program)
  BY <1>0, <1>1 DEF ProgramOK, Issued
<1>3. command'.n \in 0..Len(program)
  BY <1>0, <1>1, <1>2, Loads DEF Next, BusOK, Issued
<1>4. pending' \in {pending, command}
  BY <1>0, DialogGoes, Loads DEF Next, BusOK
<1>5. op_sel' \in {command, pending, op_sel}
  BY Loads DEF Next, issued
<1>6. alu_job'.by \in {alu_job.by, op_sel.n} /\ result'.by \in {result.by, alu_job.by}
  BY Loads DEF Next, Compute
<1> QED
  BY <1>0, <1>2, <1>3, <1>4, <1>5, <1>6, Loads DEF Next, ProgramOK

LEMMA NextIsNewest ==
    ASSUME Unsaved, PipelineInv, Next, Len(program) < MaxInstr,
           NEW i \in Instructions, program' = Append(program, i)
    PROVE  IssuedIn(program', i) /\ i.n = Len(program')
           /\ \A x \in {command'.n, pending'.n, op_sel'.n, alu_job'.by, result'.by, last_done'} :
                x < i.n
<1>1. IssuedIn(program', i) /\ i.n = Len(program') /\ Len(program') = Len(program) + 1
  BY ProgramGrows DEF PipelineInv, Next
<1> QED
  BY <1>1, NumbersLag

\* The last instruction issued stays unseen until it is written.
LEMMA StaysNewest ==
    ASSUME Unsaved, PipelineInv, Next, phase = "command", program' = program
    PROVE  IssuedIn(program', cur) /\ cur.n = Len(program')
           /\ \A x \in {command'.n, pending'.n, op_sel'.n, alu_job'.by, result'.by, last_done'} :
                x < cur.n
<1>0. ProgramOK /\ BusOK /\ Newest(cur)
  BY DEF PipelineInv, CommandTiming
<1>1. command' = command
  BY <1>0, Loads DEF Next, BusOK
<1>2. pending' \in {pending, command}
  BY <1>0, DialogGoes, Loads DEF Next, BusOK
<1>3. op_sel' \in {command, pending, op_sel}
  BY Loads DEF Next, issued
<1>4. alu_job'.by \in {alu_job.by, op_sel.n} /\ result'.by \in {result.by, alu_job.by}
      /\ last_done' \in {last_done, result.by}
  BY Loads DEF Next, Compute
<1> QED
  BY <1>0, <1>1, <1>2, <1>3, <1>4 DEF Newest, Issued

LEMMA KeepsTiming ==
    ASSUME Unsaved, PipelineInv, Next
    PROVE  CommandTiming'
<1>0. ProgramOK /\ BusOK /\ CommandTiming /\ ConditionTiming /\ Host /\ IsBus
  BY DEF PipelineInv, Next, BusOK
<1>1. (phase = "command" => Newest(cur))'
  <2>1. SUFFICES ASSUME phase' = "command"
                 PROVE  /\ IssuedIn(program', cur') /\ cur'.n = Len(program')
                        /\ \A x \in {command'.n, pending'.n, op_sel'.n, alu_job'.by,
                                     result'.by, last_done'} : x < cur'.n
    BY DEF Newest, Issued
  <2> QED BY <1>0, <2>1, HostGoes, StaysNewest, NextIsNewest
<1>2. (bus_write("COMMAND") => IF bus.first THEN Newest(bus.data) ELSE command = bus.data)'
  <2>1. SUFFICES ASSUME bus'.op = "write", bus'.addr = "COMMAND"
                 PROVE  IF bus'.first
                        THEN /\ IssuedIn(program', bus'.data) /\ bus'.data.n = Len(program')
                             /\ \A x \in {command'.n, pending'.n, op_sel'.n, alu_job'.by,
                                          result'.by, last_done'} : x < bus'.data.n
                        ELSE command' = bus'.data
    BY DEF Newest, Issued, bus_write
  <2>2. CASE bus'.first
    BY <1>0, <2>1, <2>2, HostGoes, StaysNewest, NextIsNewest DEF bus_write
  <2>3. CASE ~bus'.first
    BY <1>0, <2>1, <2>3, BusGoes, Loads DEF Next, IsBus, bus_write
  <2> QED BY <2>2, <2>3
<1>3. (cir_state = "IDLE" /\ Decodes =>
         \/ (bus_write("COMMAND") \/ bus_write("OPWORD")) /\ ~bus.first
         \/ bus.op = "none" /\ phase \in {"poll", "opword"})'
  <2>1. SUFFICES ASSUME cir_state' = "IDLE", command_written',
                        ~opword_written' \/ instr_type' = "cpGEN"
                 PROVE  \/ bus'.op = "write" /\ bus'.addr \in {"COMMAND", "OPWORD"} /\ ~bus'.first
                        \/ bus'.op = "none" /\ phase' \in {"poll", "opword"}
    BY DEF bus_write, Decodes
  <2>2. CASE bus.op = "write" /\ bus.addr = "COMMAND"
    BY <1>0, <2>2, BusGoes, HostGoes DEF BusOK, IsBus, bus_write
\* The command waited; the operation word must be new.
  <2>3. CASE ~bus_write("COMMAND")
    <3>1. cir_state = "IDLE" /\ command_written /\ ~flags_consumed
      BY <2>1, <2>3, Loads DEF Next, Cleared
    <3>2. opword_written /\ instr_type # "cpGEN"
      <4>1. ~Decodes \/ Evaluates
        BY <1>0, <2>1, <3>1, Loads, DialogGoes DEF Next, BusOK
      <4> QED BY <3>1, <4>1 DEF Decodes, Evaluates
    <3>3. bus_write("OPWORD") /\ bus.data = "cpGEN"
      BY <2>1, <3>1, <3>2, Loads DEF Next, Cleared
    <3>4. bus.first
      BY <1>0, <3>2, <3>3 DEF ConditionTiming
    <3> QED BY <1>0, <3>3, <3>4, BusGoes DEF BusOK, IsBus, bus_write
  <2> QED BY <2>2, <2>3 DEF bus_write
<1>4. (cir_state = "DECODE" /\ bus_write("COMMAND") => bus.left = 1)'
  <2>1. SUFFICES ASSUME cir_state' = "DECODE", bus'.op = "write", bus'.addr = "COMMAND"
                 PROVE  bus'.left = 1
    BY DEF bus_write
  <2>2. cir_state = "IDLE" /\ Decodes
    BY <1>0, <2>1, Loads, DialogGoes DEF Next, BusOK
  <2>3. CASE (bus_write("COMMAND") \/ bus_write("OPWORD")) /\ ~bus.first
    BY <1>0, <2>1, <2>3, BusGoes DEF BusOK, IsBus, bus_write
  <2>4. CASE bus.op = "none" /\ phase \in {"poll", "opword"}
    BY <1>0, <2>1, <2>4, BusGoes, HostGoes DEF bus_write
  <2> QED BY <1>0, <2>2, <2>3, <2>4 DEF CommandTiming
<1>5. (bus_write("OPERAND") => (write_prev <=> ~bus.first))'
  <2>1. SUFFICES ASSUME bus'.op = "write", bus'.addr = "OPERAND"
                 PROVE  (bus.op = "write" /\ bus.addr = "OPERAND") <=> ~bus'.first
    BY Loads DEF Next, bus_write
  <2> QED BY <1>0, <2>1, BusGoes DEF BusOK, IsBus
<1>6. (word_arrived => bus_write("OPERAND") /\ bus.left = 2)'
  <2>1. SUFFICES ASSUME word_arrived'
                 PROVE  bus'.op = "write" /\ bus'.addr = "OPERAND" /\ bus'.left = 2
    BY DEF bus_write
  <2>2. bus_write("OPERAND") /\ ~write_prev
    BY <2>1, Loads DEF Next, wrote
  <2>3. bus.op = "write" /\ bus.addr = "OPERAND" /\ bus.left = 3
    BY <1>0, <2>2 DEF CommandTiming, BusOK, IsBus, bus_write
  <2> QED BY <1>0, <2>3, BusGoes
<1>7. (cir_state = "XFER_SRC_WAIT" => bus_write("OPERAND") /\ bus.left = 1)'
  <2>1. SUFFICES ASSUME cir_state' = "XFER_SRC_WAIT"
                 PROVE  bus'.op = "write" /\ bus'.addr = "OPERAND" /\ bus'.left = 1
    BY DEF bus_write
  <2>2. word_arrived
    BY <1>0, <2>1, Loads, DialogGoes DEF Next, BusOK
  <2> QED BY <1>0, <2>2, BusGoes DEF CommandTiming, bus_write
<1>8. (cir_state = "XFER_SRC_WAIT2" => bus.op = "none")'
  <2>1. SUFFICES ASSUME cir_state' = "XFER_SRC_WAIT2" PROVE bus'.op = "none"
    OBVIOUS
  <2>2. cir_state = "XFER_SRC_WAIT"
    BY <1>0, <2>1, Loads, DialogGoes DEF Next, BusOK
  <2> QED BY <1>0, <2>2, BusGoes DEF CommandTiming, bus_write
<1> QED
  BY <1>1, <1>2, <1>3, <1>4, <1>5, <1>6, <1>7, <1>8 DEF CommandTiming

LEMMA KeepsConditionTiming ==
    ASSUME Unsaved, PipelineInv, Next
    PROVE  ConditionTiming'
<1>0. BusOK /\ ConditionTiming /\ Host /\ IsBus
  BY DEF PipelineInv, Next, BusOK
<1>1. (bus_write("OPWORD") /\ ~bus.first => opword_written /\ instr_type = bus.data)'
  <2>1. SUFFICES ASSUME bus'.op = "write", bus'.addr = "OPWORD", ~bus'.first
                 PROVE  opword_written' /\ instr_type' = bus'.data
    BY DEF bus_write
  <2>2. bus.op = "write" /\ bus.addr = "OPWORD" /\ bus'.data = bus.data
    BY <1>0, <2>1, BusGoes DEF IsBus
  <2> QED BY <2>2, Loads DEF Next, bus_write
<1>2. (cir_state = "IDLE" /\ Evaluates =>
         \/ (bus_write("CONDITION") \/ bus_write("OPWORD")) /\ ~bus.first
         \/ bus.op = "none" /\ phase = "poll")'
  <2>1. SUFFICES ASSUME cir_state' = "IDLE", opword_written', condition_written',
                        instr_type' = "cpCOND"
                 PROVE  \/ bus'.op = "write" /\ bus'.addr \in {"CONDITION", "OPWORD"} /\ ~bus'.first
                        \/ bus'.op = "none" /\ phase' = "poll"
    BY DEF bus_write, Evaluates
  <2>2. CASE bus.op = "write" /\ bus.addr = "CONDITION"
    BY <1>0, <2>2, BusGoes, HostGoes DEF BusOK, IsBus, bus_write
\* The condition waited; the operation word must be new.
  <2>3. CASE ~bus_write("CONDITION")
    <3>1. cir_state = "IDLE" /\ condition_written /\ ~flags_consumed
      BY <2>1, <2>3, Loads DEF Next, Cleared
    <3>2. ~opword_written \/ instr_type # "cpCOND"
      <4>1. ~Evaluates
        BY <1>0, <2>1, <3>1, Loads, DialogGoes DEF Next, BusOK
      <4> QED BY <3>1, <4>1 DEF Evaluates
    <3>3. bus_write("OPWORD") /\ bus.data = "cpCOND"
      BY <2>1, <3>1, <3>2, Loads DEF Next, Cleared
    <3>4. bus.first
      BY <1>0, <3>2, <3>3 DEF ConditionTiming
    <3> QED BY <1>0, <3>3, <3>4, BusGoes DEF BusOK, IsBus, bus_write
  <2> QED BY <2>2, <2>3 DEF bus_write
<1>3. (cir_state = "COND_EVAL" =>
         /\ instr_type = "cpCOND" /\ ~bus_write("COMMAND")
         /\ bus_write("OPWORD") => ~bus.first)'
  <2>1. SUFFICES ASSUME cir_state' = "COND_EVAL"
                 PROVE  /\ instr_type' = "cpCOND"
                        /\ ~(bus'.op = "write" /\ bus'.addr = "COMMAND")
                        /\ bus'.op = "write" /\ bus'.addr = "OPWORD" => ~bus'.first
    BY DEF bus_write
  <2>2. cir_state = "IDLE" /\ Evaluates
    BY <1>0, <2>1, Loads, DialogGoes DEF Next, BusOK
  <2>3. CASE (bus_write("CONDITION") \/ bus_write("OPWORD")) /\ ~bus.first
    BY <1>0, <2>2, <2>3, BusGoes, Loads DEF Next, BusOK, IsBus, bus_write, ConditionTiming, Evaluates
  <2>4. CASE bus.op = "none" /\ phase = "poll"
    BY <1>0, <2>2, <2>4, BusGoes, HostGoes, Loads DEF Next, bus_write, Evaluates
  <2> QED BY <1>0, <2>2, <2>3, <2>4 DEF ConditionTiming
<1>4. (cir_state = "COND_WAIT" => instr_type = "cpCOND")'
  <2>1. SUFFICES ASSUME cir_state' = "COND_WAIT" PROVE instr_type' = "cpCOND"
    OBVIOUS
  <2>2. cir_state = "COND_EVAL"
    BY <1>0, <2>1, Loads, DialogGoes DEF Next, BusOK
  <2> QED BY <1>0, <2>2, Loads DEF Next, ConditionTiming
<1> QED
  BY <1>1, <1>2, <1>3, <1>4 DEF ConditionTiming

\* Only a decoded command or the pending instruction starts, and it is still
\* the one decoded when it does.
LEMMA LaunchEdge ==
    ASSUME Unsaved, PipelineInv, Next
    PROVE  /\ launch_alu' \/ pending_launch' => cir_state \notin Executing
           /\ launch_alu' => /\ ~pending_launch' /\ (bus_write("COMMAND")' => bus'.first)
                             /\ command' = command
                             /\ \/ instr_type' = "cpCOND"
                                \/ /\ cir_state \in Decoding
                                   /\ ~command.move => cir_state' = "EXECUTE"
           /\ pending_launch' =>
                /\ pending_valid /\ pending' = pending /\ cir_state = "EXECUTE_DONE"
                /\ ~pending.move => cir_state' = "EXECUTE"
<1>0. ProgramOK /\ BusOK /\ CommandTiming /\ ConditionTiming /\ Host /\ IsBus
  BY DEF PipelineInv, Next, BusOK
<1>1. CASE launch_alu' /\ cir_state = "COND_EVAL"
  <2>1. cir_state' = "COND_WAIT" /\ ~pending_launch'
    BY <1>0, <1>1, Loads, DialogGoes DEF Next, BusOK
  <2>2. ~bus_write("COMMAND") /\ instr_type' = "cpCOND"
    BY <1>0, <1>1, Loads DEF Next, ConditionTiming
  <2>3. command' = command /\ (bus_write("COMMAND")' => bus'.first)
    BY <1>0, <2>2, BusGoes, Loads DEF Next, IsBus, bus_write
  <2> QED BY <1>1, <2>1, <2>2, <2>3 DEF Executing, Overlapping
<1>2. CASE launch_alu' /\ cir_state # "COND_EVAL"
  <2>1. /\ cir_state \in {"DECODE", "XFER_SRC_WAIT2"} /\ ~pending_launch'
        /\ cir_state' = IF command.move THEN "IDLE" ELSE "EXECUTE"
    BY <1>0, <1>2, Loads, DialogGoes DEF Next, BusOK
  <2>2. bus_write("COMMAND") => bus.left = 1 /\ ~bus.first
    BY <1>0, <2>1 DEF CommandTiming, BusOK, bus_write
  <2>3. command' = command
    BY <1>0, <2>2, Loads DEF Next, CommandTiming
  <2>4. bus_write("COMMAND")' => bus'.first
    <3>1. SUFFICES ASSUME bus'.op = "write", bus'.addr = "COMMAND", ~bus'.first PROVE FALSE
      BY DEF bus_write
    <3> QED BY <1>0, <2>2, <3>1, BusGoes DEF IsBus, bus_write
  <2> QED BY <2>1, <2>3, <2>4 DEF Executing, Overlapping, Decoding
<1>3. CASE pending_launch'
  <2>1. /\ cir_state = "EXECUTE_DONE" /\ pending_valid /\ pending' = pending /\ ~launch_alu'
        /\ ~pending.move /\ pending.shape # "store" => cir_state' = "EXECUTE"
    BY <1>0, <1>3, Loads, DialogGoes DEF Next, BusOK
  <2>2. pending.shape = "store" => pending.move
    BY <1>0, NoInstrIsMove DEF ProgramOK, Issued, IssuedIn
  <2> QED BY <2>1, <2>2 DEF Executing, Overlapping
<1> QED
  BY <1>1, <1>2, <1>3

LEMMA KeepsPipeline ==
    ASSUME Unsaved, PipelineInv, Next
    PROVE  Pipeline'
<1>0. ProgramOK /\ BusOK /\ Pipeline /\ Host
  BY DEF PipelineInv, Next
<1>1. \A i : IssuedIn(program, i) => IssuedIn(program', i)
  BY <1>0, ProgramGrows
<1>2. \A k \in 1..Len(program) : program'[k] = program[k]
  BY <1>0, ProgramGrows
<1>3. /\ \A i \in {command', pending', op_sel'} : i = NoInstr \/ IssuedIn(program', i)
      /\ {alu_job.by, result.by} \subseteq 0..Len(program) /\ Len(program) \in Nat
  BY <1>0, KeepsProgram, LenProperties DEF ProgramOK, Issued
<1>4. launch_alu' \/ pending_launch' => ~alu_busy' /\ ~op_start' /\ ~valid'
  <2>1. SUFFICES ASSUME launch_alu' \/ pending_launch' PROVE ~alu_busy' /\ ~op_start' /\ ~valid'
    OBVIOUS
  <2>2. ~op_start /\ ~alu_busy /\ ~valid /\ ~Starting
    BY <1>0, <2>1, LaunchEdge DEF Pipeline, Executing
  <2> QED BY <2>2, Loads DEF Next
<1>5. launch_alu' => ~pending_launch' /\ (bus_write("COMMAND")' => bus'.first)
  BY LaunchEdge
<1>6. Starting' => cir_state' = "EXECUTE" /\ IssuedIn(program', issued')
  BY <1>3, LaunchEdge, NoInstrIsMove DEF Starting, general, issued
<1>7. op_start' => /\ ~alu_busy' /\ ~valid' /\ cir_state' \in Executing
                  /\ IssuedIn(program', op_sel') /\ launch_dst' = op_sel'.dst
  <2>1. SUFFICES ASSUME Starting
                 PROVE  /\ ~alu_busy' /\ ~valid' /\ cir_state' \in Executing
                        /\ IssuedIn(program', op_sel') /\ launch_dst' = op_sel'.dst
    BY Loads DEF Next
  <2>2. general /\ (launch_alu \/ pending_launch)
    BY <2>1 DEF Starting, general
  <2>3. ~alu_busy /\ ~op_start /\ ~valid /\ cir_state = "EXECUTE" /\ IssuedIn(program, issued)
    BY <1>0, <2>1, <2>2 DEF Pipeline, Issued
  <2>4. cir_state' \in Executing
    BY <1>0, <2>3, Loads, DialogGoes DEF Next, BusOK, Executing
  <2>5. op_sel' = issued /\ launch_dst' = issued.dst
    BY <2>2, Loads DEF Next
  <2> QED BY <1>1, <2>3, <2>4, <2>5, Loads DEF Next
<1>8. alu_busy' => /\ ~valid' /\ cir_state' \in Executing
                  /\ alu_job'.by # 0 /\ launch_dst' = program'[alu_job'.by].dst
  <2>1. SUFFICES ASSUME alu_busy'
                 PROVE  /\ ~valid' /\ cir_state' \in Executing
                        /\ alu_job'.by # 0 /\ launch_dst' = program'[alu_job'.by].dst
    OBVIOUS
  <2>2. ~valid' /\ (alu_busy \/ op_start)
    BY <2>1, Loads DEF Next
  <2>3. ~launch_alu /\ ~pending_launch /\ ~valid /\ cir_state \in Executing
    BY <1>0, <2>2 DEF Pipeline
  <2>4. cir_state' \in Executing /\ launch_dst' = launch_dst
    BY <1>0, <2>3, Loads, DialogGoes DEF Next, BusOK
  <2>5. CASE alu_busy
    <3>1. alu_job' = alu_job /\ alu_job.by # 0 /\ launch_dst = program[alu_job.by].dst
      BY <1>0, <2>5, Loads DEF Next, Pipeline
    <3> QED BY <1>2, <1>3, <2>2, <2>4, <3>1
  <2>6. CASE ~alu_busy /\ op_start
    <3>1. alu_job'.by = op_sel.n /\ IssuedIn(program, op_sel) /\ launch_dst = op_sel.dst
      BY <1>0, <2>6, Loads DEF Next, Pipeline, Issued, Compute
    <3> QED BY <1>2, <1>3, <2>2, <2>4, <3>1 DEF IssuedIn
  <2> QED BY <2>2, <2>5, <2>6
<1>9. valid' => /\ cir_state' \in Executing
               /\ result'.by # 0 /\ launch_dst' = program'[result'.by].dst
  <2>1. SUFFICES ASSUME valid'
                 PROVE  /\ cir_state' \in Executing
                        /\ result'.by # 0 /\ launch_dst' = program'[result'.by].dst
    OBVIOUS
  <2>2. alu_busy /\ result' = alu_job
    BY <2>1, Loads DEF Next
  <2>3. /\ ~launch_alu /\ ~pending_launch /\ ~valid /\ cir_state \in Executing
        /\ alu_job.by # 0 /\ launch_dst = program[alu_job.by].dst
    BY <1>0, <2>2 DEF Pipeline
  <2>4. cir_state' \in Executing /\ launch_dst' = launch_dst
    BY <1>0, <2>3, Loads, DialogGoes DEF Next, BusOK
  <2> QED BY <1>2, <1>3, <2>2, <2>3, <2>4
<1> QED
  BY <1>4, <1>5, <1>6, <1>7, <1>8, <1>9 DEF Pipeline, Issued

-----------------------------------------------------------------------------
(* The theorems                                                            *)

LEMMA PipelineInvInit ==
    ASSUME Init
    PROVE  PipelineInv
<1> USE NoInstrIsMove, DialogAssumption, HostAssumption DEF Init, FpuInit, NoCycle
<1>1. ProgramOK
  <2>1. program = <<>> /\ program \in Seq(Instrs) /\ Len(program) = 0
    BY EmptySeq
  <2>2. golden \in [Regs -> Values]
    BY DEF Values
  <2> QED BY <2>1, <2>2 DEF ProgramOK
<1>2. BusOK
  BY DEF BusOK, IsBus, UnsavedStates, OpwordTypes, bus_write
<1>3. CommandTiming /\ ConditionTiming
  BY DEF CommandTiming, ConditionTiming, Decodes, Evaluates, bus_write
<1>4. Pipeline
  BY DEF Pipeline, Starting, general
<1> QED
  BY <1>1, <1>2, <1>3, <1>4 DEF PipelineInv

LEMMA PipelineInvariant ==
    ASSUME Unsaved
    PROVE  Spec => []PipelineInv
<1>1. PipelineInv /\ [Next]_vars => PipelineInv'
  <2>1. CASE Next
    BY <2>1, KeepsProgram, KeepsBus, KeepsTiming, KeepsConditionTiming, KeepsPipeline
    DEF PipelineInv
  <2>2. CASE UNCHANGED vars
    BY <2>2 DEF PipelineInv, ProgramOK, BusOK, IsBus, CommandTiming, ConditionTiming, Decodes,
         Evaluates, Pipeline, Newest, Issued,
         Starting, general, issued, bus_write, vars, fpuVars, writeVars, dialogVars,
         pulseVars, frameVars, pendingVars, controlVars, aluVars, hostVars, historyVars
  <2> QED BY <2>1, <2>2
<1> QED
  BY <1>1, PipelineInvInit, PTL DEF Spec

\* The ALU, which ignores a start while it works, is never given one then.
THEOREM StartsAreTaken ==
    ASSUME Unsaved
    PROVE  Spec => []NoStartWhileBusy
<1>1. PipelineInv => NoStartWhileBusy
  BY DEF PipelineInv, Pipeline, NoStartWhileBusy
<1> QED
  BY <1>1, PipelineInvariant, PTL

\* A result is written to the destination of the instruction it belongs to,
\* whatever has been written to the command register since.
THEOREM ResultsReachOwnRegister ==
    ASSUME Unsaved
    PROVE  Spec => []WriteBackToOwnRegister
<1>1. PipelineInv => WriteBackToOwnRegister
  BY DEF PipelineInv, Pipeline, WriteBackToOwnRegister
<1> QED
  BY <1>1, PipelineInvariant, PTL

-----------------------------------------------------------------------------
(* The order of completion.  An exception leaves the pending instruction   *)
(* behind, to run after newer ones, so a 68882 must not trap.              *)

Untrapped == Is68882 => ~MayTrap

\* Number x comes after everything launched so far.
Above(x) ==
    /\ x > last_done /\ (Starting => x > issued.n) /\ (op_start => x > op_sel.n)
    /\ (alu_busy => x > alu_job.by) /\ (valid => x > result.by)

Launches ==
    /\ Starting => issued.n > last_done
    /\ op_start => op_sel.n > last_done
    /\ alu_busy => alu_job.by > last_done
    /\ valid => result.by > last_done

\* Where the second instruction is on its way to the pending slot, or in it.
SlotOK ==
    /\ pending_valid => cir_state \in {"EXECUTE", "EXECUTE_DONE"}
    /\ pending_valid \/ cir_state \in Overlapping => Is68882
    /\ exc_enabled => ~Is68882
    /\ cir_state \in Decoding => ~cmd_seen
    /\ cir_state \in Overlapping /\ cmd_seen => cir_state = "PENDING_DECODE"

\* What waits, is being taken or is being written comes after what was
\* launched, and in that order.
Order ==
    /\ pending_valid \/ cir_state \in Overlapping => Above(pending.n)
    /\ cmd_seen /\ cir_state \in {"EXECUTE", "EXECUTE_DONE"} =>
         Above(command.n) /\ (pending_valid => command.n > pending.n)
    /\ bus_write("COMMAND") => Above(bus.data.n)
    /\ bus_write("COMMAND") /\ (pending_valid \/ cir_state \in Overlapping) =>
         bus.data.n > pending.n \/ (cir_state = "PENDING_DECODE" /\ bus.left = 1)
    /\ (cir_state = "IDLE" /\ command_written) \/ cir_state \in Decoding =>
         command.n > last_done

OrderInv == Launches /\ SlotOK /\ Order

\* How the second instruction moves.
LEMMA SlotGoes ==
    ASSUME cir_dialog_proc, cir_write_proc, cir_state \in UnsavedStates,
           instr_type \in OpwordTypes, SlotOK
    PROVE  /\ cir_state' = "PENDING_DECODE" =>
                /\ cir_state = "EXECUTE" /\ Is68882 /\ cmd_seen
                /\ ~pending_valid' /\ pending' = command
           /\ cir_state' \in Overlapping /\ cir_state' # "PENDING_DECODE" =>
                cir_state \in Overlapping /\ ~pending_valid' /\ pending' = pending
           /\ pending_valid' =>
                /\ (cir_state = "EXECUTE" /\ pending_valid) \/ cir_state \in Overlapping
                /\ cir_state' \in {"EXECUTE", "EXECUTE_DONE"} /\ pending' = pending
           /\ cir_state' \in {"EXECUTE", "EXECUTE_DONE"} =>
                cir_state \in Executing \cup Decoding \cup {"EXECUTE_DONE"}
           /\ cir_state' \in Decoding => cir_state \in Decoding \cup {"IDLE"}
           /\ cir_state' = "IDLE" => cir_state \notin Executing
           /\ cmd_seen' =>
                \/ cmd_seen /\ cir_state \notin {"PENDING_DECODE", "IDLE"}
                \/ cir_state = "EXECUTE" /\ bus_write("COMMAND")
<1> USE DEF UnsavedStates, Executing, Overlapping, Decoding, Goto, Pulse, NoPulse,
            SameXfer, SameFrame, StartXfer, Launched, pendingVars, frameVars, SlotOK
<1>0. cmd_seen' =>
                \/ cmd_seen /\ cir_state \notin {"PENDING_DECODE", "IDLE"}
                \/ cir_state = "EXECUTE" /\ bus_write("COMMAND")
  BY DEF cir_write_proc, SeenFlags
<1>1. CASE Idle BY <1>0, <1>1 DEF Idle, OpwordTypes
<1>2. CASE Decode BY <1>0, <1>2 DEF Decode
<1>3. CASE XferSrc \/ XferSrcWait \/ XferSrcWait2
  BY <1>0, <1>3 DEF XferSrc, XferSrcWait, XferSrcWait2
<1>4. CASE Execute BY <1>0, <1>4 DEF Execute, AcceptsPending, OpwordTypes
<1>5. CASE ExecuteDone BY <1>0, <1>5 DEF ExecuteDone, PendingLaunched
<1>6. CASE XferDst \/ XferDstWait \/ Except BY <1>0, <1>6 DEF XferDst, XferDstWait, Except
<1>7. CASE CondEval \/ CondWait \/ CondCheck
  BY <1>0, <1>7 DEF CondEval, CondWait, CondCheck
\* A host that saves nothing never brings the dialog there.
<1>11. CASE SaveWait \/ SaveFormat \/ SaveFrame \/ RestoreFormat \/ RestoreFrame
  <2>1. cir_state \in {"SAVE_WAIT", "SAVE_FORMAT", "SAVE_FRAME", "RESTORE_FORMAT", "RESTORE_FRAME"}
    BY <1>11 DEF SaveWait, SaveFormat, SaveFrame, RestoreFormat, RestoreFrame
  <2> QED
    BY <2>1
<1>8. CASE PendingDecode BY <1>0, <1>8 DEF PendingDecode
<1>9. CASE PendingXferSrc BY <1>0, <1>9 DEF PendingXferSrc
<1>10. CASE PendingXferSrcWait \/ PendingXferSrcWait3
  BY <1>0, <1>10 DEF PendingXferSrcWait, PendingXferSrcWait3
<1> QED
  BY <1>1, <1>2, <1>3, <1>4, <1>5, <1>6, <1>7, <1>8, <1>9, <1>10, <1>11
     DEF cir_dialog_proc

\* What comes after everything launched still does after a clock, unless that
\* clock launches it or a newer one.
LEMMA AboveStays ==
    ASSUME FpuClock, RecordDone
    PROVE  \A x : Above(x) /\ (Starting' => x > issued'.n) =>
             /\ x > last_done' /\ (op_start' => x > op_sel'.n)
             /\ (alu_busy' => x > alu_job'.by) /\ (valid' => x > result'.by)
<1> TAKE x
<1>1. SUFFICES ASSUME Above(x), Starting' => x > issued'.n
               PROVE  /\ x > last_done' /\ (op_start' => x > op_sel'.n)
                      /\ (alu_busy' => x > alu_job'.by) /\ (valid' => x > result'.by)
  OBVIOUS
<1>2. x > last_done'
  BY <1>1 DEF RecordDone, Above
<1>3. op_start' => x > op_sel'.n
  BY <1>1, Loads DEF Above, Starting
<1>4. alu_busy' => x > alu_job'.by
  BY <1>1, Loads DEF Above, Compute
<1>5. valid' => x > result'.by
  BY <1>1, Loads DEF Above
<1> QED
  BY <1>2, <1>3, <1>4, <1>5

LEMMA KeepsLaunches ==
    ASSUME Unsaved, PipelineInv, OrderInv, Next
    PROVE  Launches'
<1>0. ProgramOK /\ BusOK /\ Pipeline /\ Launches /\ SlotOK /\ Order
  BY DEF PipelineInv, OrderInv
<1>1. FpuClock /\ RecordDone BY DEF Next
<1>2. ~valid => last_done' = last_done
  BY <1>1 DEF RecordDone
<1>3. Starting' => issued'.n > last_done'
  <2>1. CASE launch_alu' /\ Starting'
    <3>1. cir_state \in Decoding /\ command' = command
      BY <2>1, LaunchEdge DEF Starting, general
    <3>2. ~valid /\ command.n > last_done
      BY <1>0, <3>1 DEF Order, Pipeline, Executing, Overlapping, Decoding
    <3> QED BY <1>2, <2>1, <3>1, <3>2 DEF issued
  <2>2. CASE ~launch_alu' /\ pending_launch'
    <3>1. pending_valid /\ pending' = pending /\ cir_state = "EXECUTE_DONE"
      BY <2>2, LaunchEdge
    <3>2. ~valid /\ pending.n > last_done
      BY <1>0, <3>1 DEF Order, Above, Pipeline, Executing, Overlapping
    <3> QED BY <1>2, <2>2, <3>1, <3>2 DEF issued
  <2> QED BY <2>1, <2>2 DEF Starting, general
<1>4. op_start' => op_sel'.n > last_done'
  BY <1>0, <1>1, <1>2, Loads DEF Pipeline, Launches, Starting, general
<1>5. alu_busy' => alu_job'.by > last_done'
  BY <1>0, <1>1, <1>2, Loads DEF Pipeline, Launches, Compute
<1>6. valid' => result'.by > last_done'
  BY <1>0, <1>1, <1>2, Loads DEF Pipeline, Launches
<1> QED
  BY <1>3, <1>4, <1>5, <1>6 DEF Launches

LEMMA KeepsSlot ==
    ASSUME Unsaved, Untrapped, PipelineInv, OrderInv, Next
    PROVE  SlotOK'
<1>0. BusOK /\ SlotOK /\ cir_dialog_proc /\ cir_write_proc
  BY DEF PipelineInv, OrderInv, Next, FpuClock
<1>1. exc_enabled' => ~Is68882
  BY <1>0 DEF Next, FpuClock, alu_control_proc, Classify, Untrapped, SlotOK
<1>2. pending_valid' => cir_state' \in {"EXECUTE", "EXECUTE_DONE"}
  BY <1>0, SlotGoes DEF BusOK
<1>3. pending_valid' \/ cir_state' \in Overlapping => Is68882
  BY <1>0, SlotGoes DEF BusOK, SlotOK
<1>4. cir_state' \in Decoding => ~cmd_seen'
  BY <1>0, SlotGoes DEF BusOK, SlotOK, Decoding
<1>5. cir_state' \in Overlapping /\ cmd_seen' => cir_state' = "PENDING_DECODE"
  BY <1>0, SlotGoes DEF BusOK, SlotOK, Overlapping
<1> QED
  BY <1>1, <1>2, <1>3, <1>4, <1>5 DEF SlotOK

LEMMA KeepsOrder ==
    ASSUME Unsaved, Untrapped, PipelineInv, OrderInv, Next
    PROVE  Order'
<1>0. /\ ProgramOK /\ BusOK /\ CommandTiming /\ Pipeline /\ Launches /\ SlotOK /\ Order
      /\ FpuClock /\ RecordDone /\ Host /\ cir_dialog_proc /\ cir_write_proc
  BY DEF PipelineInv, OrderInv, Next, FpuClock
<1>1. command' = IF bus_write("COMMAND") THEN bus.data ELSE command
  BY <1>0, Loads
<1>2. Starting' /\ launch_alu' => cir_state \in Decoding
  BY LaunchEdge DEF Starting, general
\* In a state with a second instruction, only the slot can be launched.
<1>3. Starting' /\ cir_state \notin Decoding => cir_state = "EXECUTE_DONE" /\ pending_valid
                                                /\ issued' = pending /\ ~pending_valid'
  <2>1. SUFFICES ASSUME Starting', cir_state \notin Decoding
                 PROVE  cir_state = "EXECUTE_DONE" /\ pending_valid
                        /\ issued' = pending /\ ~pending_valid'
    OBVIOUS
  <2>2. ~launch_alu' /\ pending_launch'
    BY <1>2, <2>1 DEF Starting, general
  <2>3. cir_state = "EXECUTE_DONE" /\ pending_valid /\ pending' = pending
    BY <2>2, LaunchEdge
  <2> QED
    BY <1>0, <2>2, <2>3, SlotGoes DEF BusOK, issued, Overlapping
<1>4. pending_valid' \/ cir_state' \in Overlapping =>
        /\ pending'.n > last_done' /\ (Starting' => pending'.n > issued'.n)
        /\ (op_start' => pending'.n > op_sel'.n)
        /\ (alu_busy' => pending'.n > alu_job'.by) /\ (valid' => pending'.n > result'.by)
  <2>1. SUFFICES ASSUME pending_valid' \/ cir_state' \in Overlapping
                 PROVE  Above(pending'.n) /\ ~Starting'
    BY <1>0, AboveStays
  <2>2. cir_state \in Executing
    BY <1>0, <2>1, SlotGoes DEF BusOK, Executing, Overlapping
  <2>3. ~Starting'
    BY <2>2, LaunchEdge DEF Starting, general
  <2>4. CASE cir_state' = "PENDING_DECODE"
    <3>1. Above(command.n) /\ pending' = command
      BY <1>0, <2>4, SlotGoes DEF BusOK, Order
    <3> QED BY <2>3, <3>1
  <2>5. CASE cir_state' # "PENDING_DECODE"
    <3>1. Above(pending.n) /\ pending' = pending
      BY <1>0, <2>1, <2>5, SlotGoes DEF BusOK, Order
    <3> QED BY <2>3, <3>1
  <2> QED BY <2>4, <2>5
<1>5. cmd_seen' /\ cir_state' \in {"EXECUTE", "EXECUTE_DONE"} =>
        /\ command'.n > last_done' /\ (Starting' => command'.n > issued'.n)
        /\ (op_start' => command'.n > op_sel'.n)
        /\ (alu_busy' => command'.n > alu_job'.by) /\ (valid' => command'.n > result'.by)
        /\ (pending_valid' => command'.n > pending'.n)
  <2>1. SUFFICES ASSUME cmd_seen', cir_state' \in {"EXECUTE", "EXECUTE_DONE"}
                 PROVE  /\ Above(command'.n)
                        /\ (Starting' => command'.n > issued'.n)
                        /\ (pending_valid' => command'.n > pending'.n)
    BY <1>0, AboveStays
  <2>2. /\ cir_state \in {"EXECUTE", "EXECUTE_DONE"}
        /\ cmd_seen \/ bus_write("COMMAND")
    BY <1>0, <2>1, SlotGoes DEF BusOK, SlotOK, Executing, Overlapping
  <2>3. Above(command'.n) /\ (pending_valid => command'.n > pending.n)
    BY <1>0, <1>1, <2>2 DEF Order
  <2>4. pending_valid' => pending_valid /\ pending' = pending
    BY <1>0, <2>2, SlotGoes DEF BusOK, Overlapping
  <2> QED BY <1>3, <2>2, <2>3, <2>4 DEF Decoding
<1>6. bus'.op = "write" /\ bus'.addr = "COMMAND" =>
        /\ bus'.data.n > last_done' /\ (Starting' => bus'.data.n > issued'.n)
        /\ (op_start' => bus'.data.n > op_sel'.n)
        /\ (alu_busy' => bus'.data.n > alu_job'.by) /\ (valid' => bus'.data.n > result'.by)
        /\ (pending_valid' \/ cir_state' \in Overlapping =>
              bus'.data.n > pending'.n \/ (cir_state' = "PENDING_DECODE" /\ bus'.left = 1))
  <2>1. SUFFICES ASSUME bus'.op = "write", bus'.addr = "COMMAND"
                 PROVE  /\ bus'.data.n > last_done' /\ (Starting' => bus'.data.n > issued'.n)
                        /\ (op_start' => bus'.data.n > op_sel'.n)
                        /\ (alu_busy' => bus'.data.n > alu_job'.by)
                        /\ (valid' => bus'.data.n > result'.by)
                        /\ (pending_valid' \/ cir_state' \in Overlapping =>
                              \/ bus'.data.n > pending'.n
                              \/ cir_state' = "PENDING_DECODE" /\ bus'.left = 1)
    OBVIOUS
  <2>2. CASE bus'.first
    <3>1. \A x \in {command'.n, pending'.n, op_sel'.n, alu_job'.by, result'.by, last_done'} :
            x < bus'.data.n
      BY <2>1, <2>2, KeepsTiming DEF CommandTiming, Newest, bus_write
    <3>2. issued'.n \in {command'.n, pending'.n}
      BY DEF issued
    <3>3. bus'.data.n \in Int /\ {command'.n, pending'.n, op_sel'.n, alu_job'.by, result'.by,
                                  last_done'} \subseteq Int
      <4>1. \A x \in {command'.n, pending'.n, op_sel'.n, alu_job'.by, result'.by, last_done'} :
              x \in Int
        BY NumbersLag
      <4>2. bus'.data.n \in 1..Len(program')
        BY <2>1, KeepsBus DEF BusOK, Issued, IssuedIn, bus_write
      <4> QED BY <4>1, <4>2
    <3> QED BY <3>1, <3>2, <3>3
  <2>3. CASE ~bus'.first
    <3>1. /\ bus_write("COMMAND") /\ bus'.data = bus.data
          /\ bus.left > 1 /\ bus'.left = bus.left - 1
      BY <1>0, <2>1, <2>3, BusGoes DEF BusOK, IsBus, bus_write
    <3>2. ~launch_alu'
      BY <2>1, <2>3, LaunchEdge DEF bus_write
    <3>3. Starting' => cir_state = "EXECUTE_DONE" /\ pending_valid /\ issued' = pending
      BY <3>2, LaunchEdge DEF Starting, general, issued
    <3>4. Above(bus.data.n) /\ (Starting' => bus.data.n > issued'.n)
      BY <1>0, <3>1, <3>3 DEF Order
    <3>5. CASE cir_state' = "PENDING_DECODE"
      <4>1. pending' = command /\ ~pending_valid'
        BY <1>0, <3>5, SlotGoes DEF BusOK
      <4>2. CASE bus.first
        <5>1. command.n < bus.data.n
          BY <1>0, <3>1, <4>2 DEF CommandTiming, Newest
        <5>2. bus.data.n \in Int /\ command.n \in Int
          BY <1>0, <3>1, NoInstrIsMove, LenProperties DEF BusOK, ProgramOK, Issued, IssuedIn
        <5> QED BY <1>0, <3>1, <3>4, <4>1, <5>1, <5>2, AboveStays
      <4>3. CASE ~bus.first
        <5>1. bus'.left = 1
          BY <1>0, <3>1, <4>3 DEF BusOK, IsBus, bus_write
        <5> QED BY <1>0, <3>1, <3>4, <3>5, <5>1, AboveStays
      <4> QED BY <4>2, <4>3
    <3>6. CASE cir_state' # "PENDING_DECODE"
      <4>1. pending_valid' \/ cir_state' \in Overlapping =>
              pending' = pending /\ (pending_valid \/ cir_state \in Overlapping)
        BY <1>0, <3>6, SlotGoes DEF BusOK
      <4>2. pending_valid' \/ cir_state' \in Overlapping => bus.data.n > pending'.n
        BY <1>0, <3>1, <4>1 DEF Order
      <4> QED BY <1>0, <3>1, <3>4, <4>2, AboveStays
    <3> QED BY <3>5, <3>6
  <2> QED BY <2>2, <2>3
<1>7. (cir_state' = "IDLE" /\ command_written') \/ cir_state' \in Decoding =>
         command'.n > last_done'
  <2>1. SUFFICES ASSUME (cir_state' = "IDLE" /\ command_written') \/ cir_state' \in Decoding
                 PROVE  command'.n > last_done'
    OBVIOUS
  <2>2. CASE bus_write("COMMAND")
    BY <1>0, <1>1, <2>2 DEF Order, Above, RecordDone
  <2>3. CASE ~bus_write("COMMAND")
    <3>1. command_written' => command_written /\ cir_state = "IDLE"
      BY <1>0, <2>3, Loads DEF Cleared
    <3>2. cir_state' = "DECODE" => cir_state = "IDLE" /\ command_written
      BY <1>0, SlotGoes, DialogGoes DEF BusOK, Decodes
    <3>3. (cir_state = "IDLE" /\ command_written) \/ cir_state \in Decoding
      BY <1>0, <2>1, <3>1, <3>2, SlotGoes, DialogGoes DEF BusOK, Decoding
    <3>4. ~valid /\ command.n > last_done
      BY <1>0, <3>3 DEF Order, Pipeline, Executing, Overlapping, Decoding
    <3> QED BY <1>0, <1>1, <2>3, <3>4 DEF RecordDone
  <2> QED BY <2>2, <2>3
<1> QED
  BY <1>4, <1>5, <1>6, <1>7 DEF Order, Above, bus_write

\* Operations finish in program order, each at most once, though the one that
\* waits in the pending slot is launched by the one before it.
THEOREM CompletesInOrder ==
    ASSUME Unsaved, Untrapped
    PROVE  Spec => []NoReordering
<1>1. Init => OrderInv
  BY DEF Init, FpuInit, NoCycle, OrderInv, Launches, SlotOK, Order, Starting, general,
         bus_write, Overlapping, Decoding
<1>2. PipelineInv /\ OrderInv /\ [Next]_vars => OrderInv'
  <2>1. CASE Next
    BY <2>1, KeepsLaunches, KeepsSlot, KeepsOrder DEF OrderInv
  <2>2. CASE UNCHANGED vars
    BY <2>2 DEF OrderInv, Launches, SlotOK, Order, Above, Starting, general, issued,
         bus_write, vars, fpuVars, writeVars, dialogVars, pulseVars, frameVars,
         pendingVars, controlVars, aluVars
  <2> QED BY <2>1, <2>2
<1>3. OrderInv => NoReordering
  BY DEF OrderInv, Launches, NoReordering
<1> QED
  BY <1>1, <1>2, <1>3, PipelineInvariant, PTL DEF Spec

-----------------------------------------------------------------------------
(* What a state frame carries                                              *)

\* The host works through the bridge, whose cycles are at least seven clocks
\* apart; two are enough for a save to be under way before its format is read.
Bridged == WriteClocks = 3 /\ ReadClocks = 4 /\ Gap > 0

NoBus == bus.op = "none"
ReadPhases == {"polled", "fetched", "saved", "save_word", "save_done?", "restored?", "refused?"}
RestPhases == {"free", "command", "opword", "condition", "poll", "busy", "operand", "fetch",
               "ack", "save", "save_words", "save_done", "away", "restore", "restore_words",
               "restored", "refused", "ack_refusal"}

\* The host reads in the ReadPhases and in no other; a read of the bridge lasts
\* four clocks and a write three.
CycleOK ==
    /\ IsBus
    /\ phase \in IF bus.op = "read" THEN ReadPhases ELSE RestPhases
    /\ NoBus => ~bus.first
    /\ bus.op = "read" =>
         /\ bus.left \in 1..4 /\ (bus.first <=> bus.left = 4)
         /\ bus.addr = IF phase = "saved" THEN "SAVE"
                       ELSE IF phase \in {"fetched", "save_word"} THEN "OPERAND" ELSE "RESPONSE"
    /\ bus.op = "write" =>
         /\ bus.left \in 1..3 /\ (bus.first <=> bus.left = 3)
         /\ bus.addr \in {"OPWORD", "COMMAND", "CONDITION", "CONTROL", "OPERAND", "RESTORE"}

\* The edge detectors of the operand and save registers follow the bus cycle.
PrevOK ==
    /\ bus_write("OPERAND") => (write_prev <=> ~bus.first)
    /\ bus_read("OPERAND") => (read_prev <=> ~bus.first)
    /\ bus_read("SAVE") => (save_prev <=> ~bus.first)

\* The frame is a record, and its words a sequence, whatever they are.
IsFrame == frame \in [kind : {frame.kind}, words : {frame.words}]
Framed == \E S : frame.words \in Seq(S)

\* The phases of an instruction's dialog, and those in which the host has a frame.
Talking == {"free", "command", "opword", "condition", "poll", "polled", "busy", "operand",
            "fetch", "fetched", "ack"}
Away == {"save_done", "save_done?", "away", "restore", "restore_words", "restored",
         "restored?", "refused", "refused?", "ack_refusal"}

\* What the host writes in which phase.
FrameWrites ==
    /\ bus_write("OPWORD") => \/ phase = "save" /\ bus.data = "cpSAVE"
                              \/ phase = "restore" /\ bus.data = "cpRESTORE"
                              \/ phase \in Talking /\ bus.data \in OpwordTypes
    /\ bus_write("COMMAND") \/ bus_write("CONDITION") => phase \in Talking
    /\ bus_write("CONTROL") => phase \in Talking \cup {"away"}
    /\ bus_write("OPERAND") => phase \in Talking \cup {"restore_words", "restored"}
    /\ bus_write("OPERAND") /\ phase \notin Talking =>
         /\ sent \in 1..FrameWords /\ bus.data = frame.words[sent][2]
         /\ phase = "restored" <=> sent = FrameWords
    /\ bus_write("RESTORE") =>
         \/ phase = "restore_words" /\ bus.data \in {"idle", "busy"} /\ sent = 0
         \/ phase = "restored" /\ bus.data = "null" /\ frame.kind = "null"
         \/ phase = "refused" /\ bus.data = "invalid"

\* How far the host is with its frame.
FrameCounts ==
    /\ resume \in {"free", "busy"} /\ {frame_kind, frame.kind} \subseteq {"null", "idle", "busy"}
    /\ IsFrame /\ Framed
    /\ phase \in {"save_words", "save_word"} =>
         sent \in 0..FrameWords-1 /\ Len(frame.words) = sent /\ frame.kind # "null"
    /\ phase = "restore_words" => sent \in 0..FrameWords-1 /\ frame.kind # "null"
    /\ ReadOut => frame.kind # "null" /\ Is68882
    /\ d_out[1] = "PENDING" => Is68882
    /\ phase = "saved" /\ bus.left < 4 =>
         d_out \in {<<"SAVE", "null">>, <<"SAVE", "idle">>, <<"SAVE", "busy">>}

\* An operation word that is acted on has just been written.
Opened ==
    opword_written /\ instr_type \in {"cpSAVE", "cpRESTORE"} /\ cir_state \in {"IDLE", "EXECUTE"} =>
        /\ phase = IF instr_type = "cpSAVE" THEN "save" ELSE "restore"
        /\ \/ bus_write("OPWORD") /\ bus.left <= 2
           \/ NoBus /\ bus.left = Gap

NoFlags == ~opword_written /\ ~command_written

\* Saving: host and unit are at the same word.
Saving ==
    /\ cir_state = "SAVE_WAIT" => phase = "save" /\ (NoBus \/ bus.left = 1)
    /\ cir_state = "SAVE_FORMAT" =>
         /\ \/ phase = "save" /\ (NoBus \/ bus.left = 1)
            \/ phase = "saved" /\ bus.left >= 3
         /\ frame_idx = 0
         /\ word_count = IF frame_kind = "null" THEN 0 ELSE FrameWords
         /\ save_read_done <=> phase = "saved" /\ bus.left = 3
         /\ save_read_done => NoFlags /\ d_out = <<"SAVE", frame_kind>>
    /\ cir_state = "SAVE_FRAME" =>
         /\ NoFlags /\ word_count = FrameWords
         /\ \/ /\ phase = "saved" /\ bus.left <= 2
               /\ d_out = <<"SAVE", frame_kind>> /\ frame_kind # "null"
            \/ phase \in {"save_words", "save_word"}
         /\ read_done <=> phase = "save_word" /\ bus.left = 3
         /\ frame_idx = IF phase = "saved" THEN 0
                        ELSE IF phase = "save_words" \/ bus.left >= 3 THEN sent ELSE sent + 1
         /\ frame_idx < FrameWords

\* Restoring: likewise.
Restoring ==
    /\ cir_state = "RESTORE_FORMAT" =>
         /\ \/ phase = "restore" /\ (NoBus \/ bus.left = 1)
            \/ bus_write("RESTORE") /\ bus.left >= 2
         /\ restore_trigger <=> bus_write("RESTORE") /\ bus.left = 2
         /\ restore_trigger => NoFlags /\ restore_kind = bus.data
    /\ cir_state = "RESTORE_FRAME" =>
         /\ NoFlags /\ word_count = FrameWords
         /\ \/ phase = "restore_words" /\ (bus_write("RESTORE") => bus.left = 1)
            \/ phase = "restored" /\ bus_write("OPERAND") /\ bus.left >= 2
         /\ word_arrived <=> bus_write("OPERAND") /\ bus.left = 2
         /\ frame_idx = IF bus_write("OPERAND") /\ bus.left >= 2 THEN sent - 1 ELSE sent

Slot == [valid |-> pending_valid, instr |-> pending, idx |-> pending_idx,
         staging |-> pending_staging]
LastWord == frame.words[FrameWords][2]
IsSlot(w) == w \in [valid : {w.valid}, instr : {w.instr}, idx : {w.idx}, staging : {w.staging}]

\* The slot on its way to the host.
LastRead ==
    phase = "save_word" /\ bus.left < 4 /\ d_out[1] = "PENDING" =>
        /\ d_out[2] = Slot /\ sent + 1 = FrameWords /\ NoFlags
        /\ cir_state = IF bus.left = 3 THEN "SAVE_FRAME"
                       ELSE IF bus.left = 2 THEN "XFER_DST_WAIT" ELSE "IDLE"

\* The unit while the host has its frame.
Held ==
    ReadOut /\ phase \in Away =>
        /\ IsSlot(LastWord) /\ ~command_written
        /\ cir_state \in {"IDLE", "EXCEPT_PRE", "RESTORE_FORMAT", "RESTORE_FRAME"}
        /\ cir_state # "RESTORE_FRAME" => LastWord = Slot
        /\ cir_state = "IDLE" =>
             /\ phase # "restore_words" /\ ~bus_write("RESTORE")
             /\ bus_write("OPERAND") => bus.left = 1
             /\ IF phase = "restore"
                THEN /\ bus_write("OPWORD") /\ bus.left >= 2
                     /\ opword_written <=> bus.left = 2
                     /\ opword_written => instr_type = "cpRESTORE"
                ELSE ~opword_written
        /\ cir_state = "EXCEPT_PRE" =>
             /\ ~opword_written /\ phase \in {"refused", "refused?", "ack_refusal", "away"}
             /\ phase = "away" =>
                  bus_write("CONTROL") /\ bus.left >= 2 /\ (control_ack <=> bus.left = 2)
             /\ bus_write("RESTORE") => bus.left = 1

FrameInv ==
    /\ CycleOK /\ PrevOK /\ FrameWrites /\ FrameCounts
    /\ Opened /\ Saving /\ Restoring /\ LastRead /\ Held

-----------------------------------------------------------------------------
(* What a step of the host may do *)

SameFrameHost == UNCHANGED <<phase, sent, frame, resume>>

CycleHolds ==
    /\ ~NoBus /\ bus.left > 1 /\ bus'.op = bus.op /\ bus'.addr = bus.addr
    /\ bus'.data = bus.data /\ bus'.left = bus.left - 1 /\ SameFrameHost

CyclePauses ==
    /\ NoBus /\ bus'.op = "none" /\ SameFrameHost
    /\ bus'.left = IF bus.left > 0 THEN bus.left - 1 ELSE 0

CycleEnds ==
    /\ ~NoBus /\ bus.left = 1 /\ bus'.op = "none" /\ bus'.left = Gap /\ UNCHANGED resume
    /\ \/ bus.op = "write" /\ UNCHANGED <<phase, sent, frame>>
       \/ phase \in {"polled", "fetched"} /\ phase' \in Talking \ {"polled", "fetched"} /\ UNCHANGED frame
       \/ /\ phase = "saved" /\ sent' = 0 /\ frame'.kind = d_out[2] /\ frame'.words = <<>>
          /\ phase' = IF d_out[2] = "null" THEN "save_done" ELSE "save_words"
       \/ /\ phase = "save_word" /\ sent' = sent + 1 /\ frame'.kind = frame.kind
          /\ frame'.words = Append(frame.words, d_out)
          /\ phase' = IF sent + 1 = FrameWords THEN "save_done" ELSE "save_words"
       \/ /\ UNCHANGED <<sent, frame>>
          /\ \/ phase = "save_done?" /\ phase' \in {"save_done", "away"}
             \/ phase = "restored?" /\ phase' \in {"restored", resume}
             \/ phase = "refused?" /\ phase' \in {"refused", "ack_refusal"}

Shows(op, addr) == bus'.op = op /\ bus'.addr = addr /\ bus'.left = IF op = "write" THEN 3 ELSE 4

\* In an instruction's dialog; around a save; around a restore.
BeginsTalk ==
    /\ phase \in Talking /\ UNCHANGED <<frame, resume>>
    /\ \/ /\ phase' \in Talking \ ReadPhases
          /\ \/ Shows("write", "OPWORD") /\ bus'.data \in OpwordTypes
             \/ Shows("write", "COMMAND") \/ Shows("write", "CONDITION")
             \/ Shows("write", "CONTROL") \/ Shows("write", "OPERAND")
       \/ Shows("read", "RESPONSE") /\ phase' = "polled"
       \/ Shows("read", "OPERAND") /\ phase' = "fetched"
BeginsSave ==
    /\ UNCHANGED <<sent, frame>>
    /\ \/ /\ phase \in {"free", "busy"} /\ phase' = "save" /\ resume' = phase
          /\ Shows("write", "OPWORD") /\ bus'.data = "cpSAVE"
       \/ phase = "save" /\ phase' = "saved" /\ Shows("read", "SAVE") /\ UNCHANGED resume
       \/ phase = "save_words" /\ phase' = "save_word" /\ Shows("read", "OPERAND") /\ UNCHANGED resume
       \/ phase = "save_done" /\ phase' = "save_done?" /\ Shows("read", "RESPONSE") /\ UNCHANGED resume
BeginsRestore ==
    /\ UNCHANGED <<frame, resume>>
    /\ \/ /\ UNCHANGED sent
          /\ \/ /\ phase = "away" /\ phase' = "restore"
                /\ Shows("write", "OPWORD") /\ bus'.data = "cpRESTORE"
             \/ /\ phase = "restore" /\ phase' = "refused"
                /\ Shows("write", "RESTORE") /\ bus'.data = "invalid"
             \/ phase = "ack_refusal" /\ phase' = "away" /\ Shows("write", "CONTROL")
             \/ phase = "restored" /\ phase' = "restored?" /\ Shows("read", "RESPONSE")
             \/ phase = "refused" /\ phase' = "refused?" /\ Shows("read", "RESPONSE")
       \/ /\ phase = "restore" /\ Shows("write", "RESTORE") /\ bus'.data = frame.kind
          /\ IF frame.kind = "null" THEN phase' = "restored" ELSE phase' = "restore_words" /\ sent' = 0
       \/ /\ phase = "restore_words" /\ sent' = sent + 1
          /\ phase' = IF sent + 1 = FrameWords THEN "restored" ELSE "restore_words"
          /\ Shows("write", "OPERAND") /\ bus'.data = frame.words[sent + 1][2]
CycleBegins == NoBus /\ bus.left = 0 /\ (BeginsTalk \/ BeginsSave \/ BeginsRestore)

LEMMA FrameHost ==
    ASSUME Bridged, CycleOK, FrameCounts, Host
    PROVE  /\ CycleHolds \/ CyclePauses \/ CycleEnds \/ CycleBegins
           /\ IsBus' /\ IsFrame' /\ (bus'.first <=> NoBus /\ bus'.op # "none")
<1> USE HostAssumption DEF Bridged, CycleOK, IsBus, NoBus, SameFrameHost, Starts, Writes, Reads,
        BusFree, SameHost, SameSave, historyVars, hostVars
<1>0. IsFrame
  BY DEF FrameCounts
<1>1. CASE HostHolds
  <2>1. /\ bus.op # "none" /\ bus.left > 1 /\ bus'.left = bus.left - 1 /\ bus'.first = FALSE
        /\ bus'.op = bus.op /\ bus'.addr = bus.addr /\ bus'.data = bus.data
    BY <1>1 DEF HostHolds
  <2>2. bus'.left \in Nat
    BY <2>1
  <2>3. IsBus'
    BY <1>1, <2>1, <2>2 DEF HostHolds
  <2>4. CycleHolds /\ IsFrame'
    BY <1>0, <1>1, <2>1 DEF HostHolds, CycleHolds, IsFrame
  <2> QED
    BY <2>1, <2>3, <2>4
<1>2. CASE HostPauses
  <2>1. /\ bus.op = "none" /\ bus'.op = "none" /\ bus'.first = bus.first /\ bus'.left \in Nat
        /\ bus'.left = IF bus.left > 0 THEN bus.left - 1 ELSE 0
    BY <1>2 DEF HostPauses
  <2>2. IsBus'
    BY <1>2, <2>1 DEF HostPauses
  <2>3. CyclePauses /\ IsFrame'
    BY <1>0, <1>2, <2>1 DEF HostPauses, CyclePauses, IsFrame
  <2> QED
    BY <2>1, <2>2, <2>3
<1>3. CASE HostEnds
  <2>1. bus.op # "none" /\ bus.left = 1 /\ bus'.op = "none" /\ bus'.first = FALSE /\ bus'.left = Gap
    BY <1>3 DEF HostEnds
  <2>2. IsBus'
    BY <1>3, <2>1 DEF HostEnds
  <2>3. CycleEnds /\ IsFrame'
    <3>0. ~NoBus /\ bus.left = 1 /\ bus'.op = "none" /\ bus'.left = Gap /\ UNCHANGED resume
      BY <1>3, <2>1 DEF HostEnds
    <3>1. CASE phase = "saved" /\ frame' = [kind |-> d_out[2], words |-> <<>>]
               /\ sent' = 0 /\ phase' = IF d_out[2] = "null" THEN "save_done" ELSE "save_words"
      BY <3>0, <3>1 DEF CycleEnds, IsFrame
    <3>2. CASE /\ phase = "save_word" /\ sent' = sent + 1
               /\ frame' = [frame EXCEPT !.words = Append(frame.words, d_out)]
               /\ phase' = IF sent + 1 = FrameWords THEN "save_done" ELSE "save_words"
      <4>1. frame'.words = Append(frame.words, d_out) /\ frame'.kind = frame.kind
        BY <1>0, <3>2 DEF IsFrame
      <4>2. IsFrame'
        BY <1>0, <3>2, <4>1 DEF IsFrame
      <4> QED
        BY <3>0, <3>2, <4>1, <4>2 DEF CycleEnds
    <3>3. CASE /\ phase \in {"polled", "fetched"} /\ UNCHANGED frame
               /\ phase' \in {"busy", "free", "ack", "operand", "fetch", "poll"}
      BY <1>0, <3>0, <3>3 DEF CycleEnds, IsFrame, Talking
    <3>4. CASE bus.op = "write" /\ UNCHANGED <<phase, sent, frame>>
      BY <1>0, <3>0, <3>4 DEF CycleEnds, IsFrame
    <3>5. CASE /\ UNCHANGED <<sent, frame>>
               /\ \/ phase = "save_done?" /\ phase' \in {"save_done", "away"}
                  \/ phase = "restored?" /\ phase' \in {"restored", resume}
                  \/ phase = "refused?" /\ phase' \in {"refused", "ack_refusal"}
      BY <1>0, <3>0, <3>5 DEF CycleEnds, IsFrame
    <3> QED
      BY <1>3, <3>1, <3>2, <3>3, <3>4, <3>5 DEF HostEnds, Responds, Got
  <2> QED
    BY <2>1, <2>2, <2>3
<1>4. CASE HostStarts
  <2>1. /\ \E op \in {"read", "write"} : \E addr, data : Starts(op, addr, data)
        /\ bus.op = "none" /\ bus.left = 0
    BY <1>4 DEF HostStarts, HostGeneral, HostConditional, HostUndefined, HostSecondWrite,
       HostPoll, HostOperand, HostFetch, HostAck, HostSave, HostSaveFormat, HostSaveWord,
       HostRestore, HostRestoreFormat, HostRestoreWord, HostSettles, HostAcksRefusal
  <2>2. IsBus' /\ bus'.first = TRUE /\ bus'.op # "none"
    BY <2>1
  <2>3. BeginsTalk \/ BeginsSave \/ BeginsRestore
    <3> USE DEF Shows, Talking, ReadPhases, OpwordTypes
    <3>1. CASE HostGeneral \/ HostConditional \/ HostUndefined \/ HostSecondWrite
      BY <3>1 DEF HostGeneral, HostConditional, HostUndefined, HostSecondWrite, Issues, BeginsTalk
    <3>2. CASE HostPoll \/ HostOperand \/ HostFetch \/ HostAck
      BY <3>2 DEF HostPoll, HostOperand, HostFetch, HostAck, BeginsTalk
    <3>3. CASE HostSave \/ HostSaveFormat \/ HostSaveWord
      BY <3>3 DEF HostSave, HostSaveFormat, HostSaveWord, BeginsSave
    <3>4. CASE HostRestore \/ HostRestoreFormat \/ HostRestoreWord \/ HostAcksRefusal
      BY <3>4 DEF HostRestore, HostRestoreFormat, HostRestoreWord, HostAcksRefusal, BeginsRestore
    <3>5. CASE HostSettles
      BY <3>5 DEF HostSettles, BeginsRestore, BeginsSave
    <3> QED
      BY <1>4, <3>1, <3>2, <3>3, <3>4, <3>5 DEF HostStarts
  <2>4. IsFrame'
    <3>1. frame' = frame
      BY <2>3 DEF BeginsTalk, BeginsSave, BeginsRestore
    <3> QED
      BY <1>0, <3>1 DEF IsFrame
  <2> QED
    BY <2>1, <2>2, <2>3, <2>4 DEF CycleBegins
<1> QED
  BY <1>1, <1>2, <1>3, <1>4 DEF Host

-----------------------------------------------------------------------------
(* What a step of the unit does to the registers a frame goes through *)

\* A flag outlives its write only in IDLE, and each word of an operand or a
\* frame is counted on the first clock it shows.
LEMMA FrameRegisters ==
    ASSUME FpuClock, PrevOK
    PROVE  /\ opword_written' = (bus_write("OPWORD") \/ Cleared(opword_written))
           /\ command_written' = (bus_write("COMMAND") \/ Cleared(command_written))
           /\ instr_type' = IF bus_write("OPWORD") THEN bus.data ELSE instr_type
           /\ control_ack' = bus_write("CONTROL")
           /\ write_prev' = bus_write("OPERAND") /\ read_prev' = bus_read("OPERAND")
           /\ save_prev' = bus_read("SAVE")
           /\ word_arrived' = /\ bus_write("OPERAND") /\ bus.first
                              /\ cir_state \in {"XFER_SRC", "PENDING_XFER_SRC", "RESTORE_FRAME"}
           /\ read_done' = /\ bus_read("OPERAND") /\ bus.first
                           /\ cir_state \in {"XFER_DST", "SAVE_FRAME"}
           /\ save_read_done' = (bus_read("SAVE") /\ bus.first /\ cir_state = "SAVE_FORMAT")
           /\ restore_trigger' = bus_write("RESTORE")
           /\ restore_kind' = IF bus_write("RESTORE") THEN bus.data ELSE restore_kind
           /\ ReadPath
BY DEF FpuClock, cir_write_proc, WrittenFlags, OperandAccess, alu_control_proc, FrameState,
       PrevOK, wrote

\* Which states lead to those of a save and a restore.
LEMMA FrameStatesGo ==
    ASSUME cir_dialog_proc
    PROVE  /\ cir_state' = "SAVE_WAIT" =>
                 opword_written /\ instr_type = "cpSAVE" /\ cir_state \in {"IDLE", "EXECUTE"}
           /\ cir_state' = "SAVE_FORMAT" => cir_state \in {"SAVE_WAIT", "SAVE_FORMAT"}
           /\ cir_state' = "SAVE_FRAME" => cir_state \in {"SAVE_FORMAT", "SAVE_FRAME"}
           /\ cir_state' = "RESTORE_FORMAT" =>
                 \/ cir_state = "RESTORE_FORMAT"
                 \/ opword_written /\ instr_type = "cpRESTORE" /\ cir_state = "IDLE"
           /\ cir_state' = "RESTORE_FRAME" => cir_state \in {"RESTORE_FORMAT", "RESTORE_FRAME"}
           /\ frame_kind' = frame_kind \/ frame_kind' \in {"null", "idle", "busy"}
<1> USE DEF Goto, SameXfer, SameFrame, StartXfer, Launched, frameVars
<1>1. CASE Idle
  BY <1>1 DEF Idle
<1>2. CASE Decode
  BY <1>2 DEF Decode
<1>3. CASE XferSrc \/ XferSrcWait \/ XferSrcWait2
  BY <1>3 DEF XferSrc, XferSrcWait, XferSrcWait2
<1>4. CASE Execute
  BY <1>4 DEF Execute
<1>5. CASE ExecuteDone
  BY <1>5 DEF ExecuteDone, PendingLaunched
<1>6. CASE XferDst \/ XferDstWait \/ Except
  BY <1>6 DEF XferDst, XferDstWait, Except
<1>7. CASE CondEval \/ CondWait \/ CondCheck
  BY <1>7 DEF CondEval, CondWait, CondCheck
<1>8. CASE SaveWait \/ SaveFormat \/ SaveFrame
  BY <1>8 DEF SaveWait, SaveFormat, SaveFrame
<1>9. CASE RestoreFormat
  BY <1>9 DEF RestoreFormat
<1>10. CASE RestoreFrame
  BY <1>10 DEF RestoreFrame
<1>11. CASE PendingDecode \/ PendingXferSrcWait \/ PendingXferSrcWait3
  BY <1>11 DEF PendingDecode, PendingXferSrcWait, PendingXferSrcWait3
<1>12. CASE PendingXferSrc
  BY <1>12 DEF PendingXferSrc
<1> QED
  BY <1>1, <1>2, <1>3, <1>4, <1>5, <1>6, <1>7, <1>8, <1>9, <1>10, <1>11, <1>12
     DEF cir_dialog_proc

\* In each state the frame goes through, the dialog takes that state's step.
LEMMA FrameStateStep ==
    ASSUME cir_dialog_proc
    PROVE  /\ cir_state = "IDLE" => Idle
           /\ cir_state = "XFER_DST_WAIT" => XferDstWait
           /\ cir_state = "EXCEPT_PRE" => Except
           /\ cir_state = "SAVE_WAIT" => SaveWait
           /\ cir_state = "SAVE_FORMAT" => SaveFormat
           /\ cir_state = "SAVE_FRAME" => SaveFrame
           /\ cir_state = "RESTORE_FORMAT" => RestoreFormat
           /\ cir_state = "RESTORE_FRAME" => RestoreFrame
<1>1. /\ Idle => cir_state = "IDLE"
      /\ XferDstWait => cir_state = "XFER_DST_WAIT"
      /\ Except => cir_state \in {"EXCEPT_PRE", "EXCEPT_POST"}
      /\ SaveWait => cir_state = "SAVE_WAIT"
      /\ SaveFormat => cir_state = "SAVE_FORMAT"
      /\ SaveFrame => cir_state = "SAVE_FRAME"
      /\ RestoreFormat => cir_state = "RESTORE_FORMAT"
      /\ RestoreFrame => cir_state = "RESTORE_FRAME"
  BY DEF Idle, XferDstWait, Except, SaveWait, SaveFormat, SaveFrame, RestoreFormat, RestoreFrame
<1>2. /\ Decode => cir_state = "DECODE"
      /\ XferSrc => cir_state = "XFER_SRC"
      /\ XferSrcWait => cir_state = "XFER_SRC_WAIT"
      /\ XferSrcWait2 => cir_state = "XFER_SRC_WAIT2"
      /\ Execute => cir_state = "EXECUTE"
      /\ ExecuteDone => cir_state = "EXECUTE_DONE"
      /\ XferDst => cir_state = "XFER_DST"
      /\ CondEval => cir_state = "COND_EVAL"
      /\ CondWait => cir_state = "COND_WAIT"
      /\ CondCheck => cir_state = "COND_CHECK"
      /\ PendingDecode => cir_state = "PENDING_DECODE"
      /\ PendingXferSrc => cir_state = "PENDING_XFER_SRC"
      /\ PendingXferSrcWait => cir_state \in {"PENDING_XFER_SRC_WAIT", "PENDING_XFER_SRC_WAIT2"}
      /\ PendingXferSrcWait3 => cir_state = "PENDING_XFER_SRC_WAIT3"
  BY DEF Decode, XferSrc, XferSrcWait, XferSrcWait2, Execute, ExecuteDone, XferDst,
         CondEval, CondWait, CondCheck, PendingDecode, PendingXferSrc, PendingXferSrcWait,
         PendingXferSrcWait3
<1> QED
  BY <1>1, <1>2 DEF cir_dialog_proc

-----------------------------------------------------------------------------
(* Each part of the invariant is kept *)

LEMMA KeepsFrameCycle ==
    ASSUME Bridged, FrameInv, Host
    PROVE  CycleOK'
<1>0. CycleOK /\ FrameCounts
  BY DEF FrameInv
<1>1. /\ CycleHolds \/ CyclePauses \/ CycleEnds \/ CycleBegins
      /\ IsBus' /\ (bus'.first <=> NoBus /\ bus'.op # "none")
  BY <1>0, FrameHost
<1> USE DEF CycleOK, NoBus, ReadPhases, RestPhases
<1>2. CASE CycleHolds
  BY <1>0, <1>1, <1>2 DEF CycleHolds, SameFrameHost, IsBus
<1>3. CASE CyclePauses
  BY <1>0, <1>1, <1>3 DEF CyclePauses, SameFrameHost
<1>4. CASE CycleEnds
  BY <1>0, <1>1, <1>4 DEF CycleEnds, FrameCounts, Talking
<1>5. CASE CycleBegins
  <2>1. CASE BeginsTalk
    BY <1>0, <1>1, <1>5, <2>1 DEF CycleBegins, BeginsTalk, Shows, Talking
  <2>2. CASE BeginsSave
    BY <1>0, <1>1, <1>5, <2>2 DEF CycleBegins, BeginsSave, Shows
  <2>3. CASE BeginsRestore
    BY <1>0, <1>1, <1>5, <2>3 DEF CycleBegins, BeginsRestore, Shows
  <2> QED
    BY <1>5, <2>1, <2>2, <2>3 DEF CycleBegins
<1> QED
  BY <1>1, <1>2, <1>3, <1>4, <1>5

\* On a new cycle the detectors may still show the last one, but they are not
\* asked for: a cycle that goes on has the same register as on the clock before.
LEMMA KeepsFramePrev ==
    ASSUME Bridged, FrameInv, FpuClock, Host
    PROVE  PrevOK'
<1>0. CycleOK /\ FrameCounts /\ PrevOK
  BY DEF FrameInv
<1>1. /\ CycleHolds \/ CyclePauses \/ CycleEnds \/ CycleBegins
      /\ bus'.first <=> NoBus /\ bus'.op # "none"
  BY <1>0, FrameHost
<1>2. /\ write_prev' = bus_write("OPERAND") /\ read_prev' = bus_read("OPERAND")
      /\ save_prev' = bus_read("SAVE")
  BY <1>0, FrameRegisters
<1>3. CASE CycleHolds
  BY <1>1, <1>2, <1>3 DEF CycleHolds, PrevOK, NoBus, bus_write, bus_read
<1>4. CASE CyclePauses \/ CycleEnds
  BY <1>4 DEF CyclePauses, CycleEnds, PrevOK, bus_write, bus_read
<1>5. CASE CycleBegins
  BY <1>1, <1>2, <1>5 DEF CycleBegins, PrevOK, NoBus, bus_write, bus_read
<1> QED
  BY <1>1, <1>3, <1>4, <1>5

LEMMA KeepsFrameWrites ==
    ASSUME Bridged, FrameInv, Host
    PROVE  FrameWrites'
<1>0. CycleOK /\ FrameCounts /\ FrameWrites
  BY DEF FrameInv
<1>1. CycleHolds \/ CyclePauses \/ CycleEnds \/ CycleBegins
  BY <1>0, FrameHost
<1> USE DEF FrameWrites, bus_write, Talking
<1>2. CASE CycleHolds
  BY <1>0, <1>2 DEF CycleHolds, SameFrameHost
<1>3. CASE CyclePauses \/ CycleEnds
  BY <1>3 DEF CyclePauses, CycleEnds
<1>4. CASE BeginsTalk
  BY <1>4 DEF BeginsTalk, Shows, ReadPhases
<1>5. CASE BeginsSave
  BY <1>5 DEF BeginsSave, Shows
<1>6. CASE BeginsRestore
  BY <1>0, <1>6, DialogAssumption DEF BeginsRestore, Shows, FrameCounts
<1> QED
  BY <1>1, <1>2, <1>3, <1>4, <1>5, <1>6 DEF CycleBegins

\* The data of a read is that of the register it names.
LEMMA ReadsFormat ==
    ASSUME CycleOK, ReadPath, bus.op = "read"
    PROVE  /\ ~bus.first => d_out' = d_out
           /\ bus.first /\ phase = "saved" => d_out' = <<"SAVE", frame_kind>>
           /\ bus.first /\ phase = "save_word" /\ cir_state = "SAVE_FRAME" => d_out' = frameWord
           /\ bus.first /\ phase = "save_word" /\ cir_state # "SAVE_FRAME" =>
                d_out'[1] # "PENDING"
BY DEF CycleOK, ReadPath, operandRead, bus_read

LEMMA PendingWord ==
    /\ frameWord[1] = "PENDING" =>
         Is68882 /\ frameWord[2] = Slot /\ frame_idx # 0 /\ frame_idx + 1 = FrameWords
    /\ ReadPath => \/ d_out' = d_out \/ d_out' = frameWord
                   \/ d_out'[1] # "PENDING"
<1>1. frameWord[1] = "PENDING" =>
         Is68882 /\ frameWord[2] = Slot /\ frame_idx # 0 /\ frame_idx + 1 = FrameWords
  BY DEF frameWord, Slot
<1>2. ReadPath => \/ d_out' = d_out \/ d_out' = frameWord
                   \/ d_out'[1] # "PENDING"
  BY DEF ReadPath, operandRead
<1> QED
  BY <1>1, <1>2

LEMMA KeepsFrameCounts ==
    ASSUME Bridged, FrameInv, FpuClock, Host
    PROVE  FrameCounts'
<1>0. CycleOK /\ FrameCounts /\ PrevOK
  BY DEF FrameInv
<1>1. (CycleHolds \/ CyclePauses \/ CycleEnds \/ CycleBegins) /\ IsFrame'
  BY <1>0, FrameHost
<1>2. ReadPath /\ (frame_kind' = frame_kind \/ frame_kind' \in {"null", "idle", "busy"})
  BY <1>0, FrameRegisters, FrameStatesGo DEF FpuClock
<1>3. d_out'[1] = "PENDING" => Is68882
  BY <1>0, <1>2, PendingWord DEF FrameCounts
<1>4. frame_kind' \in {"null", "idle", "busy"}
  BY <1>0, <1>2 DEF FrameCounts
<1>5. CASE CycleHolds
  <2>1. SameFrameHost /\ bus'.left = bus.left - 1 /\ bus'.op = bus.op /\ bus.op # "none"
    BY <1>5 DEF CycleHolds, NoBus
  <2>2. phase = "saved" => d_out' \in {<<"SAVE", "null">>, <<"SAVE", "idle">>, <<"SAVE", "busy">>}
    <3>1. phase = "saved" => bus.op = "read"
      BY <1>0 DEF CycleOK, RestPhases
    <3>2. phase = "saved" => bus.left \in 1..4 /\ (bus.first <=> bus.left = 4)
      BY <1>0, <3>1 DEF CycleOK
    <3> QED
      BY <1>0, <1>2, <3>1, <3>2, ReadsFormat DEF FrameCounts
  <2> QED
    BY <1>0, <1>1, <1>3, <1>4, <2>1, <2>2 DEF FrameCounts, SameFrameHost, IsFrame, Framed, ReadOut
<1>6. CASE CyclePauses
  <2>1. phase # "saved" /\ SameFrameHost
    BY <1>0, <1>6 DEF CyclePauses, CycleOK, RestPhases, NoBus
  <2> QED
    BY <1>0, <1>1, <1>3, <1>4, <2>1 DEF FrameCounts, SameFrameHost, IsFrame, Framed, ReadOut
<1>7. CASE CycleEnds
  <2>0. resume' = resume /\ bus.left = 1
    BY <1>7 DEF CycleEnds
  <2>1. CASE phase = "saved"
    <3>1. /\ sent' = 0 /\ frame'.kind = d_out[2] /\ frame'.words = <<>>
          /\ phase' = IF d_out[2] = "null" THEN "save_done" ELSE "save_words"
      BY <1>0, <1>7, <2>1 DEF CycleEnds, CycleOK, RestPhases
    <3>2. d_out \in {<<"SAVE", "null">>, <<"SAVE", "idle">>, <<"SAVE", "busy">>}
      BY <1>0, <2>0, <2>1 DEF FrameCounts
    <3>3. Len(<<>>) = 0 /\ <<>> \in Seq({0})
      BY EmptySeq
    <3>4. ~ReadOut' /\ 0 \in 0..FrameWords-1
      BY <3>1, <3>3, DialogAssumption DEF ReadOut
    <3> QED
      BY <1>0, <1>1, <1>3, <1>4, <2>0, <3>1, <3>2, <3>3, <3>4 DEF FrameCounts, Framed
  <2>2. CASE phase = "save_word"
    <3>1. /\ sent' = sent + 1 /\ frame'.kind = frame.kind
          /\ frame'.words = Append(frame.words, d_out)
          /\ phase' = IF sent + 1 = FrameWords THEN "save_done" ELSE "save_words"
      BY <1>0, <1>7, <2>2 DEF CycleEnds, CycleOK, RestPhases
    <3>2. PICK S : frame.words \in Seq(S)
      BY <1>0 DEF FrameCounts, Framed
    <3>3. frame.words \in Seq(S \cup {d_out})
      BY <3>2, SeqMonotonic
    <3>4. /\ Len(frame'.words) = Len(frame.words) + 1 /\ frame'.words \in Seq(S \cup {d_out})
          /\ frame'.words[Len(frame.words) + 1] = d_out
      BY <3>1, <3>3, AppendProperties
    <3>5. Len(frame.words) = sent /\ sent \in 0..FrameWords-1 /\ frame.kind # "null"
      BY <1>0, <2>2 DEF FrameCounts
    <3>6. ReadOut' => d_out[1] = "PENDING"
      BY <3>4 DEF ReadOut
    <3>7. phase' = "save_words" => sent' \in 0..FrameWords-1
      BY <3>1, <3>5, DialogAssumption
    <3> QED
      BY <1>0, <1>1, <1>3, <1>4, <2>0, <3>1, <3>4, <3>5, <3>6, <3>7 DEF FrameCounts, Framed
  <2>3. CASE phase \notin {"saved", "save_word"}
    <3>1. /\ frame' = frame /\ phase' # "saved"
          /\ phase' \in {"save_words", "save_word", "restore_words"} => UNCHANGED <<phase, sent>>
      BY <1>0, <1>7, <2>3 DEF CycleEnds, Talking, FrameCounts
    <3> QED
      BY <1>0, <1>1, <1>3, <1>4, <2>0, <3>1 DEF FrameCounts, Framed, ReadOut
  <2> QED
    BY <2>1, <2>2, <2>3
<1>8. CASE CycleBegins
  <2>1. frame' = frame /\ resume' \in {"free", "busy"}
    BY <1>0, <1>8 DEF CycleBegins, BeginsTalk, BeginsSave, BeginsRestore, FrameCounts
  <2>2. phase' = "saved" => bus'.left = 4
    BY <1>8 DEF CycleBegins, BeginsTalk, BeginsSave, BeginsRestore, Shows, Talking
  <2>3. phase' \in {"save_words", "save_word"} => phase = "save_words" /\ sent' = sent
    BY <1>8 DEF CycleBegins, BeginsTalk, BeginsSave, BeginsRestore, Talking
  <2>4. phase' = "restore_words" =>
          \/ sent' = 0 /\ frame.kind # "null"
          \/ phase = "restore_words" /\ sent' = sent + 1 /\ sent + 1 # FrameWords
    BY <1>8 DEF CycleBegins, BeginsTalk, BeginsSave, BeginsRestore, Talking
  <2>5. phase' = "restore_words" => sent' \in 0..FrameWords-1 /\ frame.kind # "null"
    BY <1>0, <2>4, DialogAssumption DEF FrameCounts
  <2> QED
    BY <1>0, <1>1, <1>3, <1>4, <2>1, <2>2, <2>3, <2>5 DEF FrameCounts, Framed, ReadOut
<1> QED
  BY <1>1, <1>5, <1>6, <1>7, <1>8

\* The facts about a step the remaining lemmas start from.
LEMMA FrameStep ==
    ASSUME Bridged, FrameInv, Next
    PROVE  /\ CycleOK /\ PrevOK /\ FrameWrites /\ FrameCounts /\ Host /\ FpuClock /\ cir_dialog_proc
           /\ Gap \in Nat \ {0} /\ FrameWords \in Nat \ {0, 1}
           /\ CycleHolds \/ CyclePauses \/ CycleEnds \/ CycleBegins
           /\ CycleOK' /\ FrameCounts'
<1>1. CycleOK /\ PrevOK /\ FrameWrites /\ FrameCounts /\ Host /\ FpuClock /\ cir_dialog_proc
  BY DEF FrameInv, Next, FpuClock
<1>2. Gap \in Nat \ {0} /\ FrameWords \in Nat \ {0, 1}
  BY HostAssumption, DialogAssumption DEF Bridged
<1> QED
  BY <1>1, <1>2, FrameHost, KeepsFrameCycle, KeepsFrameCounts

LEMMA KeepsOpened ==
    ASSUME Bridged, FrameInv, Next
    PROVE  Opened'
<1>0. CycleOK /\ FrameWrites /\ Opened /\ PrevOK /\ FpuClock
  BY FrameStep DEF FrameInv
<1>1. CycleHolds \/ CyclePauses \/ CycleEnds \/ CycleBegins
  BY FrameStep
<1>2. /\ opword_written' = (bus_write("OPWORD") \/ Cleared(opword_written))
      /\ instr_type' = IF bus_write("OPWORD") THEN bus.data ELSE instr_type
  BY <1>0, FrameRegisters
<1> SUFFICES ASSUME opword_written', instr_type' \in {"cpSAVE", "cpRESTORE"},
                    cir_state' \in {"IDLE", "EXECUTE"}
             PROVE  /\ phase' = IF instr_type' = "cpSAVE" THEN "save" ELSE "restore"
                    /\ \/ bus_write("OPWORD")' /\ bus'.left <= 2
                       \/ NoBus' /\ bus'.left = Gap
  BY DEF Opened
\* A word that waits in IDLE is acted on at once.
<1>3. bus_write("OPWORD")
  <2> SUFFICES ASSUME ~bus_write("OPWORD") PROVE FALSE
    OBVIOUS
  <2>1. opword_written /\ cir_state = "IDLE" /\ instr_type \in {"cpSAVE", "cpRESTORE"}
    BY <1>2 DEF Cleared
  <2>2. Idle
    BY <2>1, FrameStep, FrameStateStep
  <2> QED
    BY <2>1, <2>2 DEF Idle, Goto
<1>4. /\ bus.op = "write" /\ bus.addr = "OPWORD" /\ bus.left \in 1..3 /\ instr_type' = bus.data
      /\ phase = IF bus.data = "cpSAVE" THEN "save" ELSE "restore"
  BY <1>0, <1>2, <1>3 DEF CycleOK, FrameWrites, OpwordTypes, bus_write
<1>5. CASE CycleHolds
  BY <1>4, <1>5 DEF CycleHolds, SameFrameHost, bus_write
<1>6. CASE CycleEnds
  BY <1>4, <1>6 DEF CycleEnds, Talking, NoBus
<1> QED
  BY <1>1, <1>4, <1>5, <1>6 DEF CyclePauses, CycleBegins, NoBus

LEMMA KeepsSaving ==
    ASSUME Bridged, FrameInv, Next
    PROVE  Saving'
<1>0. /\ CycleOK /\ PrevOK /\ FrameWrites /\ FrameCounts /\ Opened /\ Saving /\ cir_dialog_proc
      /\ Gap \in Nat \ {0} /\ FrameWords \in Nat \ {0, 1}
  BY FrameStep DEF FrameInv
<1>1. CycleHolds \/ CyclePauses \/ CycleEnds \/ CycleBegins
  BY FrameStep
<1>2. /\ opword_written' = (bus_write("OPWORD") \/ Cleared(opword_written))
      /\ command_written' = (bus_write("COMMAND") \/ Cleared(command_written))
      /\ read_done' = /\ bus_read("OPERAND") /\ bus.first
                      /\ cir_state \in {"XFER_DST", "SAVE_FRAME"}
      /\ save_read_done' = (bus_read("SAVE") /\ bus.first /\ cir_state = "SAVE_FORMAT")
      /\ ReadPath
  BY FrameStep, FrameRegisters
\* The operation word takes the unit to SAVE_WAIT before the host may read.
<1>3. ASSUME cir_state' = "SAVE_WAIT"
      PROVE  phase' = "save" /\ (NoBus' \/ bus'.left = 1)
  <2>1. opword_written /\ instr_type = "cpSAVE" /\ cir_state \in {"IDLE", "EXECUTE"}
    BY <1>0, <1>3, FrameStatesGo
  <2>2. /\ phase = "save"
        /\ (bus_write("OPWORD") /\ bus.left <= 2) \/ (NoBus /\ bus.left = Gap)
    BY <1>0, <2>1 DEF Opened
  <2>3. CASE bus_write("OPWORD") /\ bus.left <= 2
    <3>1. bus.op = "write" /\ bus.left \in 1..2
      BY <1>0, <2>3 DEF CycleOK, bus_write
    <3> QED
      BY <1>1, <2>2, <3>1 DEF CycleHolds, CyclePauses, CycleEnds, CycleBegins, NoBus, SameFrameHost,
         Talking
  <2>4. CASE NoBus /\ bus.left = Gap
    BY <1>0, <1>1, <2>2, <2>4 DEF CycleHolds, CyclePauses, CycleEnds, CycleBegins, NoBus, SameFrameHost
  <2> QED
    BY <2>2, <2>3, <2>4
<1>4. ASSUME cir_state' = "SAVE_FORMAT"
      PROVE  /\ \/ phase' = "save" /\ (NoBus' \/ bus'.left = 1)
                \/ phase' = "saved" /\ bus'.left >= 3
             /\ frame_idx' = 0
             /\ word_count' = IF frame_kind' = "null" THEN 0 ELSE FrameWords
             /\ save_read_done' <=> phase' = "saved" /\ bus'.left = 3
             /\ save_read_done' => NoFlags' /\ d_out' = <<"SAVE", frame_kind'>>
  <2>1. /\ cir_state \in {"SAVE_WAIT", "SAVE_FORMAT"}
        /\ cir_state = "SAVE_WAIT" => SaveWait
        /\ cir_state = "SAVE_FORMAT" => SaveFormat /\ ~save_read_done
    BY <1>0, <1>4, FrameStatesGo, FrameStateStep DEF SaveFormat, Goto
  <2>2. /\ frame_idx' = 0
        /\ word_count' = IF frame_kind' = "null" THEN 0 ELSE FrameWords
        /\ cir_state = "SAVE_FORMAT" => frame_kind' = frame_kind
    BY <1>0, <2>1 DEF SaveWait, SaveFormat, SameXfer, frameVars, Saving
  <2>3. CASE phase = "save" /\ (NoBus \/ bus.left = 1)
    <3>1. bus.op # "read"
      BY <1>0, <2>3 DEF CycleOK, ReadPhases
    <3>2. ~save_read_done'
      BY <1>2, <3>1 DEF bus_read
    <3>3. \/ phase' = "save" /\ NoBus'
          \/ phase' = "saved" /\ bus'.left = 4
      BY <1>0, <1>1, <2>3, <3>1 DEF CycleHolds, CyclePauses, CycleEnds, CycleBegins, BeginsTalk,
         BeginsSave, BeginsRestore, Shows, NoBus, SameFrameHost, Talking
    <3> QED
      BY <2>2, <3>2, <3>3
  <2>4. CASE cir_state = "SAVE_FORMAT" /\ phase = "saved" /\ bus.left >= 3
    <3>1. bus.op = "read" /\ bus.addr = "SAVE" /\ bus.left = 4 /\ bus.first
      BY <1>0, <2>1, <2>4 DEF CycleOK, RestPhases, Saving
    <3>2. phase' = "saved" /\ bus'.left = 3
      BY <1>1, <2>4, <3>1 DEF CycleHolds, CyclePauses, CycleEnds, CycleBegins, NoBus, SameFrameHost
    <3>3. save_read_done' /\ NoFlags' /\ d_out' = <<"SAVE", frame_kind'>>
      BY <1>0, <1>2, <2>2, <2>4, <3>1, ReadsFormat DEF NoFlags, Cleared, bus_write, bus_read
    <3> QED
      BY <2>2, <3>2, <3>3
  <2> QED
    BY <1>0, <2>1, <2>3, <2>4 DEF Saving
<1>5. ASSUME cir_state' = "SAVE_FRAME"
      PROVE  /\ NoFlags' /\ word_count' = FrameWords
             /\ \/ /\ phase' = "saved" /\ bus'.left <= 2
                   /\ d_out' = <<"SAVE", frame_kind'>> /\ frame_kind' # "null"
                \/ phase' \in {"save_words", "save_word"}
             /\ read_done' <=> phase' = "save_word" /\ bus'.left = 3
             /\ frame_idx' = IF phase' = "saved" THEN 0
                             ELSE IF phase' = "save_words" \/ bus'.left >= 3 THEN sent'
                             ELSE sent' + 1
             /\ frame_idx' < FrameWords
  <2>1. /\ cir_state \in {"SAVE_FORMAT", "SAVE_FRAME"}
        /\ cir_state = "SAVE_FORMAT" => SaveFormat /\ save_read_done /\ word_count # 0
        /\ cir_state = "SAVE_FRAME" => SaveFrame /\ ~(read_done /\ frame_idx + 1 >= word_count)
    BY <1>0, <1>5, FrameStatesGo, FrameStateStep DEF SaveFormat, SaveFrame, Goto
  <2>2. CASE cir_state = "SAVE_FORMAT"
    <3>1. /\ phase = "saved" /\ bus.left = 3 /\ d_out = <<"SAVE", frame_kind>>
          /\ word_count = FrameWords /\ frame_kind # "null" /\ frame_idx = 0
      BY <1>0, <2>1, <2>2 DEF Saving
    <3>2. bus.op = "read" /\ bus.addr = "SAVE" /\ ~bus.first
      BY <1>0, <3>1 DEF CycleOK, RestPhases
    <3>3. phase' = "saved" /\ bus'.left = 2
      BY <1>1, <3>1, <3>2 DEF CycleHolds, CyclePauses, CycleEnds, CycleBegins, NoBus, SameFrameHost
    <3>4. UNCHANGED <<frame_idx, frame_kind, word_count>>
      BY <2>1, <2>2 DEF SaveFormat, SameXfer, frameVars
    <3>5. ~read_done' /\ NoFlags' /\ d_out' = d_out
      BY <1>0, <1>2, <2>2, <3>2, ReadsFormat DEF NoFlags, Cleared, bus_write, bus_read
    <3> QED
      BY <1>0, <3>1, <3>3, <3>4, <3>5
  <2>3. CASE cir_state = "SAVE_FRAME"
    <3>0. /\ NoFlags /\ word_count = FrameWords
          /\ \/ /\ phase = "saved" /\ bus.left <= 2
                /\ d_out = <<"SAVE", frame_kind>> /\ frame_kind # "null"
             \/ phase \in {"save_words", "save_word"}
          /\ read_done <=> phase = "save_word" /\ bus.left = 3
          /\ frame_idx = IF phase = "saved" THEN 0
                         ELSE IF phase = "save_words" \/ bus.left >= 3 THEN sent ELSE sent + 1
          /\ frame_idx < FrameWords
      BY <1>0, <2>3 DEF Saving
    <3>1. /\ UNCHANGED <<frame_kind, word_count>>
          /\ frame_idx' = IF read_done THEN frame_idx + 1 ELSE frame_idx
          /\ read_done => frame_idx + 1 < FrameWords
      <4>1. frame_idx + 1 \in Nat
        BY <1>0, <3>0 DEF FrameCounts
      <4> QED
        BY <1>0, <2>1, <2>3, <3>0, <4>1 DEF SaveFrame
    <3>2. CASE phase = "saved"
      <4>1. bus.op = "read" /\ bus.addr = "SAVE" /\ bus.left \in 1..2 /\ ~bus.first
        BY <1>0, <3>0, <3>2 DEF CycleOK, RestPhases
      <4>2. ~read_done' /\ NoFlags' /\ d_out' = d_out /\ ~read_done
        BY <1>0, <1>2, <2>3, <3>0, <3>2, <4>1, ReadsFormat DEF NoFlags, Cleared, bus_write, bus_read
      <4>3. \/ phase' = "saved" /\ bus'.left = 1
            \/ phase' = "save_words" /\ sent' = 0
        BY <1>1, <3>0, <3>2, <4>1 DEF CycleHolds, CyclePauses, CycleEnds, CycleBegins, NoBus,
           SameFrameHost, Talking
      <4> QED
        BY <1>0, <3>0, <3>1, <3>2, <4>2, <4>3
    <3>3. CASE phase = "save_words"
      <4>1. NoBus
        BY <1>0, <3>3 DEF CycleOK, FrameWrites, ReadPhases, Talking, IsBus, bus_write, NoBus
      <4>2. ~read_done' /\ NoFlags' /\ ~read_done
        BY <1>2, <2>3, <3>0, <3>3, <4>1 DEF NoFlags, Cleared, bus_write, bus_read, NoBus
      <4>3. /\ sent' = sent
            /\ phase' = "save_words" \/ (phase' = "save_word" /\ bus'.left = 4)
        BY <1>1, <3>3, <4>1 DEF CycleHolds, CyclePauses, CycleEnds, CycleBegins, BeginsTalk,
           BeginsSave, BeginsRestore, Shows, SameFrameHost, Talking
      <4> QED
        BY <3>0, <3>1, <3>3, <4>2, <4>3
    <3>4. CASE phase = "save_word"
      <4>1. bus.op = "read" /\ bus.addr = "OPERAND" /\ bus.left \in 1..4 /\ (bus.first <=> bus.left = 4)
        BY <1>0, <3>4 DEF CycleOK, RestPhases
      <4>2. NoFlags' /\ (read_done' <=> bus.left = 4)
        BY <1>2, <2>3, <4>1 DEF NoFlags, Cleared, bus_write, bus_read
      <4>3. sent \in 0..FrameWords-1
        BY <1>0, <3>4 DEF FrameCounts
      <4>4. CASE bus.left > 1
        <5>1. phase' = "save_word" /\ sent' = sent /\ bus'.left = bus.left - 1
          BY <1>1, <3>4, <4>1, <4>4 DEF CycleHolds, CyclePauses, CycleEnds, CycleBegins, NoBus,
             SameFrameHost
        <5> QED
          BY <1>0, <3>0, <3>1, <3>4, <4>1, <4>2, <4>3, <4>4, <5>1
      <4>5. CASE bus.left = 1
        <5>1. sent' = sent + 1 /\ phase' = IF sent + 1 = FrameWords THEN "save_done" ELSE "save_words"
          BY <1>1, <3>4, <4>1, <4>5 DEF CycleHolds, CyclePauses, CycleEnds, CycleBegins, NoBus,
             Talking
        <5>2. sent + 1 < FrameWords /\ ~read_done /\ frame_idx = sent + 1
          BY <3>0, <3>4, <4>5
        <5> QED
          BY <1>0, <3>0, <3>1, <4>2, <4>3, <4>5, <5>1, <5>2
      <4> QED
        BY <4>1, <4>4, <4>5
    <3> QED
      BY <3>0, <3>2, <3>3, <3>4
  <2> QED
    BY <2>1, <2>2, <2>3
<1> QED
  BY <1>3, <1>4, <1>5 DEF Saving

LEMMA KeepsRestoring ==
    ASSUME Bridged, FrameInv, Next
    PROVE  Restoring'
<1>0. /\ CycleOK /\ PrevOK /\ FrameWrites /\ FrameCounts /\ Opened /\ Restoring /\ cir_dialog_proc
      /\ Gap \in Nat \ {0} /\ FrameWords \in Nat \ {0, 1}
  BY FrameStep DEF FrameInv
<1>1. CycleHolds \/ CyclePauses \/ CycleEnds \/ CycleBegins
  BY FrameStep
<1>2. /\ opword_written' = (bus_write("OPWORD") \/ Cleared(opword_written))
      /\ command_written' = (bus_write("COMMAND") \/ Cleared(command_written))
      /\ word_arrived' = /\ bus_write("OPERAND") /\ bus.first
                         /\ cir_state \in {"XFER_SRC", "PENDING_XFER_SRC", "RESTORE_FRAME"}
      /\ restore_trigger' = bus_write("RESTORE")
      /\ restore_kind' = IF bus_write("RESTORE") THEN bus.data ELSE restore_kind
  BY FrameStep, FrameRegisters
<1>3. ASSUME cir_state' = "RESTORE_FORMAT"
      PROVE  /\ \/ phase' = "restore" /\ (NoBus' \/ bus'.left = 1)
                \/ bus_write("RESTORE")' /\ bus'.left >= 2
             /\ restore_trigger' <=> bus_write("RESTORE")' /\ bus'.left = 2
             /\ restore_trigger' => NoFlags' /\ restore_kind' = bus'.data
  <2>1. \/ cir_state = "RESTORE_FORMAT" /\ ~restore_trigger
        \/ opword_written /\ instr_type = "cpRESTORE" /\ cir_state = "IDLE"
    BY <1>0, <1>3, FrameStatesGo, FrameStateStep DEF RestoreFormat, Goto
  <2>2. CASE bus_write("RESTORE") /\ bus.left >= 2 /\ cir_state = "RESTORE_FORMAT"
    <3>1. bus.op = "write" /\ bus.addr = "RESTORE" /\ bus.left = 3
      BY <1>0, <2>1, <2>2 DEF CycleOK, Restoring, bus_write
    <3>2. bus_write("RESTORE")' /\ bus'.left = 2 /\ bus'.data = bus.data
      BY <1>1, <3>1 DEF CycleHolds, CyclePauses, CycleEnds, CycleBegins, NoBus, bus_write
    <3>3. NoFlags' /\ restore_kind' = bus.data /\ restore_trigger'
      BY <1>2, <2>2, <3>1 DEF NoFlags, Cleared, bus_write
    <3> QED
      BY <3>2, <3>3
  <2>3. CASE /\ phase = "restore"
             /\ NoBus \/ bus.left = 1 \/ (bus_write("OPWORD") /\ bus.left <= 2)
             /\ NoBus => cir_state = "RESTORE_FORMAT" \/ bus.left # 0
    <3>1. ~bus_write("RESTORE") /\ ~restore_trigger'
      BY <1>0, <1>2, <2>3 DEF FrameWrites
    <3>2. NoBus \/ (bus.op = "write" /\ bus.left \in 1..2)
      BY <1>0, <2>3 DEF CycleOK, ReadPhases, IsBus, NoBus
    <3>3. \/ phase' = "restore" /\ (NoBus' \/ (bus'.left = 1 /\ bus'.addr = bus.addr /\ bus'.op = "write"))
          \/ bus_write("RESTORE")' /\ bus'.left = 3
      BY <1>1, <2>3, <3>2 DEF CycleHolds, CyclePauses, CycleEnds, CycleBegins, BeginsTalk,
         BeginsSave, BeginsRestore, Shows, SameFrameHost, Talking, NoBus, bus_write
    <3> QED
      BY <3>1, <3>3 DEF NoBus, bus_write
  <2> QED
    BY <1>0, <2>1, <2>2, <2>3 DEF Restoring, Opened, NoBus, bus_write
<1>4. ASSUME cir_state' = "RESTORE_FRAME"
      PROVE  /\ NoFlags' /\ word_count' = FrameWords
             /\ \/ phase' = "restore_words" /\ (bus_write("RESTORE")' => bus'.left = 1)
                \/ phase' = "restored" /\ bus_write("OPERAND")' /\ bus'.left >= 2
             /\ word_arrived' <=> bus_write("OPERAND")' /\ bus'.left = 2
             /\ frame_idx' = IF bus_write("OPERAND")' /\ bus'.left >= 2 THEN sent' - 1 ELSE sent'
  <2>1. /\ cir_state \in {"RESTORE_FORMAT", "RESTORE_FRAME"}
        /\ cir_state = "RESTORE_FORMAT" =>
             restore_trigger /\ restore_kind \in {"idle", "busy"} /\ frame_idx' = 0 /\ word_count' = FrameWords
        /\ cir_state = "RESTORE_FRAME" => RestoreFrame /\ ~(word_arrived /\ frame_idx + 1 >= word_count)
    BY <1>0, <1>4, FrameStatesGo, FrameStateStep DEF RestoreFormat, RestoreFrame, Goto
  <2>2. CASE cir_state = "RESTORE_FORMAT"
    <3>1. bus.op = "write" /\ bus.addr = "RESTORE" /\ bus.left = 2 /\ phase = "restore_words" /\ sent = 0
      BY <1>0, <2>1, <2>2 DEF Restoring, FrameWrites, bus_write
    <3>2. /\ phase' = "restore_words" /\ bus'.op = "write" /\ bus'.addr = "RESTORE"
          /\ bus'.left = 1 /\ sent' = 0
      BY <1>1, <3>1 DEF CycleHolds, CyclePauses, CycleEnds, CycleBegins, NoBus, SameFrameHost
    <3> QED
      BY <1>2, <2>1, <2>2, <3>1, <3>2 DEF NoFlags, Cleared, bus_write
  <2>3. CASE cir_state = "RESTORE_FRAME"
    <3>0. /\ NoFlags /\ word_count = FrameWords
          /\ \/ phase = "restore_words" /\ (bus_write("RESTORE") => bus.left = 1)
             \/ phase = "restored" /\ bus_write("OPERAND") /\ bus.left >= 2
          /\ word_arrived <=> bus_write("OPERAND") /\ bus.left = 2
          /\ frame_idx = IF bus_write("OPERAND") /\ bus.left >= 2 THEN sent - 1 ELSE sent
      BY <1>0, <2>3 DEF Restoring
    <3>1. /\ word_count' = FrameWords
          /\ frame_idx' = IF word_arrived THEN frame_idx + 1 ELSE frame_idx
          /\ word_arrived => ~(frame_idx + 1 >= FrameWords)
      BY <2>1, <2>3, <3>0 DEF RestoreFrame
    <3>2. ~bus_write("OPWORD") /\ ~bus_write("COMMAND") /\ NoFlags'
      BY <1>0, <1>2, <2>3, <3>0 DEF FrameWrites, Talking, NoFlags, Cleared
    <3>3. CASE bus_write("OPERAND") /\ bus.left >= 2
      <4>1. /\ bus.op = "write" /\ bus.addr = "OPERAND" /\ bus.left \in 2..3
            /\ (bus.first <=> bus.left = 3)
            /\ sent \in 1..FrameWords /\ (phase = "restored" <=> sent = FrameWords)
        BY <1>0, <3>0, <3>3 DEF CycleOK, FrameWrites, Talking, bus_write
      <4>2. /\ phase' = phase /\ bus'.op = "write" /\ bus'.addr = "OPERAND"
            /\ bus'.left = bus.left - 1 /\ sent' = sent
        BY <1>1, <4>1 DEF CycleHolds, CyclePauses, CycleEnds, CycleBegins, NoBus, SameFrameHost
      <4>3. CASE bus.left = 3
        BY <1>2, <2>3, <3>0, <3>1, <3>2, <3>3, <4>1, <4>2, <4>3 DEF bus_write
      <4>4. CASE bus.left = 2
        <5>1. sent < FrameWords /\ phase = "restore_words" /\ frame_idx' = sent
          BY <1>0, <3>0, <3>1, <3>3, <4>1, <4>4
        <5> QED
          BY <1>2, <3>1, <3>2, <4>1, <4>2, <4>4, <5>1 DEF bus_write
      <4> QED
        BY <4>1, <4>3, <4>4
    <3>4. CASE ~(bus_write("OPERAND") /\ bus.left >= 2)
      <4>1. phase = "restore_words" /\ frame_idx' = sent
        BY <3>0, <3>1, <3>4
      <4>2. NoBus \/ (bus.op = "write" /\ bus.left = 1)
        BY <1>0, <3>0, <3>4, <4>1 DEF CycleOK, FrameWrites, ReadPhases, Talking, IsBus, bus_write, NoBus
      <4>3. ~word_arrived'
        BY <1>0, <1>2, <4>2 DEF CycleOK, bus_write, NoBus
      <4>4. \/ phase' = "restore_words" /\ NoBus' /\ sent' = sent
            \/ /\ phase' \in {"restore_words", "restored"} /\ bus_write("OPERAND")' /\ bus'.left = 3
               /\ sent' = sent + 1
        BY <1>1, <4>1, <4>2 DEF CycleHolds, CyclePauses, CycleEnds, CycleBegins, BeginsTalk,
           BeginsSave, BeginsRestore, Shows, SameFrameHost, Talking, NoBus, bus_write
      <4>5. sent \in 0..FrameWords-1
        BY <1>0, <4>1 DEF FrameCounts
      <4> QED
        BY <3>1, <3>2, <4>1, <4>3, <4>4, <4>5 DEF NoBus, bus_write
    <3> QED
      BY <3>3, <3>4
  <2> QED
    BY <2>1, <2>2, <2>3
<1> QED
  BY <1>3, <1>4 DEF Restoring

\* The last word the host reads is the slot as it stays until the unit is back
\* in IDLE, which it is when the host takes the word.
LEMMA KeepsLastRead ==
    ASSUME Bridged, FrameInv, Next
    PROVE  LastRead'
<1>0. /\ CycleOK /\ PrevOK /\ FrameCounts /\ Saving /\ LastRead /\ cir_dialog_proc /\ CycleOK'
      /\ FrameWords \in Nat \ {0, 1}
  BY FrameStep DEF FrameInv
<1>1. CycleHolds \/ CyclePauses \/ CycleEnds \/ CycleBegins
  BY FrameStep
<1>2. /\ opword_written' = (bus_write("OPWORD") \/ Cleared(opword_written))
      /\ command_written' = (bus_write("COMMAND") \/ Cleared(command_written))
      /\ ReadPath
  BY FrameStep, FrameRegisters
<1> SUFFICES ASSUME phase' = "save_word", bus'.left < 4, d_out'[1] = "PENDING"
             PROVE  /\ d_out'[2] = Slot' /\ sent' + 1 = FrameWords /\ NoFlags'
                    /\ cir_state' = IF bus'.left = 3 THEN "SAVE_FRAME"
                                    ELSE IF bus'.left = 2 THEN "XFER_DST_WAIT" ELSE "IDLE"
  BY DEF LastRead
<1>3. /\ phase = "save_word" /\ sent' = sent /\ bus.left > 1 /\ bus'.left = bus.left - 1
      /\ bus.op # "none"
  BY <1>0, <1>1 DEF CycleHolds, CyclePauses, CycleEnds, CycleBegins, BeginsTalk, BeginsSave,
     BeginsRestore, Shows, SameFrameHost, Talking, NoBus, CycleOK, RestPhases, ReadPhases
<1>4. bus.op = "read" /\ bus.addr = "OPERAND" /\ bus.left \in 2..4 /\ (bus.first <=> bus.left = 4)
  BY <1>0, <1>3 DEF CycleOK, RestPhases
<1>5. cir_state # "IDLE" => NoFlags'
  BY <1>2, <1>4 DEF NoFlags, Cleared, bus_write
<1>6. CASE bus.left = 4
  <2>1. cir_state = "SAVE_FRAME" /\ d_out' = frameWord
    BY <1>0, <1>2, <1>3, <1>4, <1>6, ReadsFormat
  <2>2. d_out'[2] = Slot /\ frame_idx + 1 = FrameWords /\ frame_idx = sent /\ ~read_done
    BY <1>0, <1>3, <1>6, <2>1, PendingWord DEF Saving
  <2>3. SaveFrame
    BY <1>0, <2>1, FrameStateStep
  <2>4. Slot' = Slot /\ cir_state' = "SAVE_FRAME"
    BY <2>2, <2>3 DEF SaveFrame, Goto, pendingVars, Slot
  <2> QED
    BY <1>3, <1>5, <1>6, <2>1, <2>2, <2>4
<1>7. CASE bus.left \in 2..3
  <2>1. d_out' = d_out
    BY <1>0, <1>2, <1>4, <1>7, ReadsFormat
  <2>2. /\ d_out[2] = Slot /\ sent + 1 = FrameWords
        /\ cir_state = IF bus.left = 3 THEN "SAVE_FRAME" ELSE "XFER_DST_WAIT"
    BY <1>0, <1>3, <1>7, <2>1 DEF LastRead
  <2>3. CASE bus.left = 3
    <3>1. SaveFrame /\ read_done /\ frame_idx = sent /\ word_count = FrameWords
      BY <1>0, <1>3, <2>2, <2>3, FrameStateStep DEF Saving
    <3>2. frame_idx + 1 >= word_count
      BY <1>0, <2>2, <3>1
    <3>3. Slot' = Slot /\ cir_state' = "XFER_DST_WAIT"
      BY <3>1, <3>2 DEF SaveFrame, Goto, pendingVars, Slot
    <3> QED
      BY <1>3, <1>5, <2>1, <2>2, <2>3, <3>3
  <2>4. CASE bus.left = 2
    <3>1. XferDstWait
      BY <1>0, <2>2, <2>4, FrameStateStep
    <3>2. Slot' = Slot /\ cir_state' = "IDLE"
      BY <3>1 DEF XferDstWait, Goto, pendingVars, Slot
    <3> QED
      BY <1>3, <1>5, <2>1, <2>2, <2>4, <3>2
  <2> QED
    BY <1>7, <2>3, <2>4
<1> QED
  BY <1>4, <1>6, <1>7

\* How the host comes to hold a frame with a slot in it, or goes on holding it.
LEMMA HoldsOn ==
    ASSUME Bridged, FrameInv, Next, ReadOut', phase' \in Away
    PROVE  \/ phase \in Away /\ ReadOut /\ frame' = frame
           \/ /\ phase = "save_word" /\ bus.left = 1 /\ phase' = "save_done" /\ NoBus'
              /\ d_out[1] = "PENDING" /\ LastWord' = d_out[2]
<1>0. /\ CycleOK /\ FrameCounts /\ FrameWords \in Nat \ {0, 1}
      /\ CycleHolds \/ CyclePauses \/ CycleEnds \/ CycleBegins
  BY FrameStep
<1>1. CASE CycleHolds \/ CyclePauses
  BY <1>1 DEF CycleHolds, CyclePauses, SameFrameHost, ReadOut
<1>2. CASE CycleEnds
  <2>1. CASE phase = "save_word"
    <3>1. /\ sent' = sent + 1 /\ frame'.words = Append(frame.words, d_out)
          /\ phase' = "save_done" /\ sent + 1 = FrameWords /\ bus.left = 1 /\ NoBus'
      BY <1>0, <1>2, <2>1 DEF CycleEnds, CycleOK, RestPhases, NoBus, Away
    <3>2. PICK S : frame.words \in Seq(S)
      BY <1>0 DEF FrameCounts, Framed
    <3>3. frame.words \in Seq(S \cup {d_out})
      BY <3>2, SeqMonotonic
    <3>4. frame'.words[Len(frame.words) + 1] = d_out
      BY <3>1, <3>3, AppendProperties
    <3>5. frame'.words[FrameWords] = d_out
      BY <1>0, <2>1, <3>1, <3>4 DEF FrameCounts
    <3> QED
      BY <2>1, <3>1, <3>5 DEF ReadOut, LastWord
  <2>2. CASE phase = "saved"
    <3>1. frame'.words = <<>>
      BY <1>0, <1>2, <2>2 DEF CycleEnds, CycleOK, RestPhases
    <3> QED
      BY <1>0, <3>1, EmptySeq DEF ReadOut
  <2>3. CASE phase \notin {"save_word", "saved"}
    BY <1>0, <1>2, <2>3 DEF CycleEnds, Talking, Away, ReadOut, CycleOK, FrameCounts, RestPhases
  <2> QED
    BY <2>1, <2>2, <2>3
<1>3. CASE CycleBegins
  BY <1>3 DEF CycleBegins, BeginsTalk, BeginsSave, BeginsRestore, Talking, Away, ReadOut
<1> QED
  BY <1>0, <1>1, <1>2, <1>3

LEMMA KeepsHeld ==
    ASSUME Bridged, FrameInv, Next
    PROVE  Held'
<1> SUFFICES ASSUME ReadOut', phase' \in Away
             PROVE  /\ IsSlot(LastWord)' /\ ~command_written'
                    /\ cir_state' \in {"IDLE", "EXCEPT_PRE", "RESTORE_FORMAT", "RESTORE_FRAME"}
                    /\ cir_state' # "RESTORE_FRAME" => LastWord' = Slot'
                    /\ cir_state' = "IDLE" =>
                         /\ phase' # "restore_words" /\ ~bus_write("RESTORE")'
                         /\ bus_write("OPERAND")' => bus'.left = 1
                         /\ IF phase' = "restore"
                            THEN /\ bus_write("OPWORD")' /\ bus'.left >= 2
                                 /\ opword_written' <=> bus'.left = 2
                                 /\ opword_written' => instr_type' = "cpRESTORE"
                            ELSE ~opword_written'
                    /\ cir_state' = "EXCEPT_PRE" =>
                         /\ ~opword_written'
                         /\ phase' \in {"refused", "refused?", "ack_refusal", "away"}
                         /\ phase' = "away" =>
                              bus_write("CONTROL")' /\ bus'.left >= 2 /\ (control_ack' <=> bus'.left = 2)
                         /\ bus_write("RESTORE")' => bus'.left = 1
  BY DEF Held
<1>0. /\ CycleOK /\ FrameWrites /\ FrameCounts /\ Restoring /\ LastRead /\ Held /\ cir_dialog_proc
      /\ FrameWords \in Nat \ {0, 1}
  BY FrameStep DEF FrameInv
<1>1. CycleHolds \/ CyclePauses \/ CycleEnds \/ CycleBegins
  BY FrameStep
<1>2. /\ opword_written' = (bus_write("OPWORD") \/ Cleared(opword_written))
      /\ command_written' = (bus_write("COMMAND") \/ Cleared(command_written))
      /\ instr_type' = IF bus_write("OPWORD") THEN bus.data ELSE instr_type
      /\ control_ack' = bus_write("CONTROL")
  BY FrameStep, FrameRegisters
\* The frame has just been read out: the unit is in IDLE and nothing is asked of it.
<1>3. CASE /\ phase = "save_word" /\ bus.left = 1 /\ phase' = "save_done" /\ NoBus'
           /\ d_out[1] = "PENDING" /\ LastWord' = d_out[2]
  <2>1. d_out[2] = Slot /\ NoFlags /\ cir_state = "IDLE"
    BY <1>0, <1>3 DEF LastRead
  <2>2. bus.op = "read"
    BY <1>0, <1>3 DEF CycleOK, RestPhases
  <2>3. NoFlags'
    BY <1>2, <2>1, <2>2 DEF NoFlags, Cleared, bus_write
  <2>4. Idle
    BY <1>0, <2>1, FrameStateStep
  <2>5. cir_state' = "IDLE" /\ Slot' = Slot
    BY <2>1, <2>4 DEF Idle, Goto, NoFlags, pendingVars, Slot
  <2>6. IsSlot(LastWord)'
    BY <1>3, <2>1 DEF IsSlot, Slot
  <2> QED
    BY <1>3, <2>1, <2>3, <2>5, <2>6 DEF NoFlags, NoBus, bus_write
<1>4. CASE phase \in Away /\ ReadOut /\ frame' = frame
  <2>0. /\ IsSlot(LastWord) /\ ~command_written /\ LastWord' = LastWord
        /\ cir_state \in {"IDLE", "EXCEPT_PRE", "RESTORE_FORMAT", "RESTORE_FRAME"}
        /\ cir_state # "RESTORE_FRAME" => LastWord = Slot
        /\ frame.kind # "null" /\ Is68882
    BY <1>0, <1>4 DEF Held, LastWord, FrameCounts
  <2>1. IsSlot(LastWord)' /\ ~command_written'
    BY <1>0, <1>2, <1>4, <2>0 DEF IsSlot, FrameWrites, Talking, Away, Cleared
  \* The host's next cycle, in the phases of a frame that is away.
  <2>2. \/ phase' = phase /\ sent' = sent /\ ~NoBus /\ bus.left > 1 /\ bus'.op = bus.op
           /\ bus'.addr = bus.addr /\ bus'.data = bus.data /\ bus'.left = bus.left - 1
        \/ phase' = phase /\ NoBus' /\ (NoBus \/ bus.left = 1)
        \/ /\ NoBus' /\ bus.op = "read"
           /\ \/ phase = "save_done?" /\ phase' \in {"save_done", "away"}
              \/ phase = "restored?" /\ phase' = "restored"
              \/ phase = "refused?" /\ phase' \in {"refused", "ack_refusal"}
        \/ /\ NoBus /\ bus'.op = "read"
           /\ \/ phase = "save_done" /\ phase' = "save_done?"
              \/ phase = "restored" /\ phase' = "restored?"
              \/ phase = "refused" /\ phase' = "refused?"
        \/ /\ NoBus /\ bus'.op = "write" /\ bus'.left = 3
           /\ \/ phase = "away" /\ phase' = "restore" /\ bus'.addr = "OPWORD"
              \/ phase = "restore" /\ phase' \in {"refused", "restore_words"} /\ bus'.addr = "RESTORE"
              \/ phase = "ack_refusal" /\ phase' = "away" /\ bus'.addr = "CONTROL"
              \/ phase = "restore_words" /\ bus'.addr = "OPERAND"
    <3>1. CASE CycleHolds
      BY <3>1 DEF CycleHolds, SameFrameHost
    <3>2. CASE CyclePauses
      BY <3>2 DEF CyclePauses, SameFrameHost, NoBus
    <3>3. CASE CycleEnds
      BY <1>0, <1>4, <3>3 DEF CycleEnds, CycleOK, FrameCounts, RestPhases, Away, NoBus
    <3>4. CASE CycleBegins
      BY <1>4, <2>0, <3>4 DEF CycleBegins, BeginsTalk, BeginsSave, BeginsRestore, Shows, Talking,
         Away, NoBus
    <3> QED
      BY <1>1, <3>1, <3>2, <3>3, <3>4
  <2>3. CASE cir_state = "IDLE"
    <3>0. /\ phase # "restore_words" /\ ~bus_write("RESTORE")
          /\ bus_write("OPERAND") => bus.left = 1
          /\ IF phase = "restore"
             THEN /\ bus_write("OPWORD") /\ bus.left >= 2
                  /\ opword_written <=> bus.left = 2
                  /\ opword_written => instr_type = "cpRESTORE"
             ELSE ~opword_written
      BY <1>0, <1>4, <2>3 DEF Held
    <3>1. Idle /\ Slot' = Slot
      BY <1>0, <2>3, FrameStateStep DEF Idle, pendingVars, Slot
    <3>2. CASE phase = "restore"
      <4>1. bus.op = "write" /\ bus.addr = "OPWORD" /\ bus.left \in 2..3 /\ bus.data = "cpRESTORE"
        BY <1>0, <3>0, <3>2 DEF CycleOK, FrameWrites, Talking, bus_write
      <4>2. phase' = "restore" /\ bus'.op = "write" /\ bus'.addr = "OPWORD" /\ bus'.left = bus.left - 1
        BY <2>2, <3>2, <4>1 DEF NoBus
      <4>3. opword_written' /\ instr_type' = "cpRESTORE"
        BY <1>2, <4>1 DEF bus_write
      <4>4. CASE bus.left = 3
        <5>1. cir_state' = "IDLE"
          BY <2>0, <3>0, <3>1, <3>2, <4>4 DEF Idle, Goto
        <5> QED
          BY <2>0, <2>1, <2>3, <3>1, <4>1, <4>2, <4>3, <4>4, <5>1 DEF bus_write
      <4>5. CASE bus.left = 2
        <5>1. cir_state' = "RESTORE_FORMAT"
          BY <3>0, <3>1, <3>2, <4>5 DEF Idle, Goto
        <5> QED
          BY <2>0, <2>1, <2>3, <3>1, <5>1
      <4> QED
        BY <4>1, <4>4, <4>5
    <3>3. CASE phase # "restore"
      <4>1. ~opword_written /\ ~bus_write("OPWORD")
        BY <1>0, <1>4, <3>0, <3>3 DEF FrameWrites, Talking, Away
      <4>2. cir_state' = "IDLE" /\ ~opword_written'
        BY <1>2, <2>0, <3>1, <4>1 DEF Idle, Goto, Cleared
      <4>3. /\ phase' # "restore_words" /\ ~bus_write("RESTORE")'
            /\ bus_write("OPERAND")' => bus'.left = 1
            /\ phase' = "restore" => bus_write("OPWORD")' /\ bus'.left = 3
        BY <1>0, <2>2, <3>0, <3>3 DEF NoBus, bus_write, CycleOK
      <4> QED
        BY <2>0, <2>1, <2>3, <3>1, <4>2, <4>3
    <3> QED
      BY <3>2, <3>3
  <2>4. CASE cir_state = "EXCEPT_PRE"
    <3>0. /\ ~opword_written /\ phase \in {"refused", "refused?", "ack_refusal", "away"}
          /\ phase = "away" =>
               bus_write("CONTROL") /\ bus.left >= 2 /\ (control_ack <=> bus.left = 2)
          /\ bus_write("RESTORE") => bus.left = 1
      BY <1>0, <1>4, <2>4 DEF Held
    <3>1. /\ Slot' = Slot /\ cir_state' = IF control_ack THEN "IDLE" ELSE "EXCEPT_PRE"
      BY <1>0, <2>4, FrameStateStep DEF Except, Goto, pendingVars, Slot
    <3>2. ~opword_written'
      BY <1>0, <1>2, <3>0 DEF FrameWrites, Talking, Cleared
    <3>3. CASE phase = "away"
      <4>1. bus.op = "write" /\ bus.addr = "CONTROL" /\ bus.left \in 2..3 /\ (control_ack <=> bus.left = 2)
        BY <1>0, <3>0, <3>3 DEF CycleOK, bus_write
      <4>2. phase' = "away" /\ bus'.op = "write" /\ bus'.addr = "CONTROL" /\ bus'.left = bus.left - 1
        BY <2>2, <3>3, <4>1 DEF NoBus
      <4>3. control_ack'
        BY <1>2, <4>1 DEF bus_write
      <4> QED
        BY <2>0, <2>1, <2>4, <3>1, <3>2, <4>1, <4>2, <4>3 DEF bus_write
    <3>4. CASE phase # "away"
      <4>1. /\ ~bus_write("RESTORE")' /\ ~bus_write("OPERAND")'
            /\ phase' \in {"refused", "refused?", "ack_refusal", "away"}
            /\ phase' = "away" => NoBus /\ bus_write("CONTROL")' /\ bus'.left = 3
        BY <1>0, <2>2, <3>0, <3>4 DEF NoBus, bus_write, CycleOK, FrameWrites, Talking, RestPhases
      <4>2. phase' = "away" => ~control_ack'
        BY <1>2, <4>1 DEF bus_write, NoBus
      <4> QED
        BY <2>0, <2>1, <2>4, <3>1, <3>2, <4>1, <4>2
    <3> QED
      BY <3>3, <3>4
  <2>5. CASE cir_state = "RESTORE_FORMAT"
    <3>0. /\ RestoreFormat
          /\ restore_trigger =>
               NoFlags /\ restore_kind = bus.data /\ bus_write("RESTORE") /\ bus.left = 2
      BY <1>0, <2>5, FrameStateStep DEF Restoring
    <3>1. CASE ~restore_trigger
      <4>1. cir_state' = "RESTORE_FORMAT" /\ Slot' = Slot
        BY <3>0, <3>1 DEF RestoreFormat, Goto, Slot
      <4> QED
        BY <2>0, <2>1, <2>5, <4>1
    <3>2. CASE restore_trigger
      <4>1. /\ bus.op = "write" /\ bus.addr = "RESTORE" /\ bus.left = 2 /\ restore_kind = bus.data
            /\ \/ phase = "restore_words" /\ bus.data \in {"idle", "busy"}
               \/ phase = "refused" /\ bus.data = "invalid"
        BY <1>0, <2>0, <3>0, <3>2 DEF FrameWrites, bus_write
      <4>2. phase' = phase /\ bus'.op = "write" /\ bus'.addr = "RESTORE" /\ bus'.left = 1
        BY <2>2, <4>1 DEF NoBus
      <4>3. CASE phase = "restore_words"
        <5>1. cir_state' = "RESTORE_FRAME"
          BY <3>0, <3>2, <4>1, <4>3 DEF RestoreFormat, Goto
        <5> QED
          BY <2>1, <5>1
      <4>4. CASE phase = "refused"
        <5>1. cir_state' = "EXCEPT_PRE" /\ Slot' = Slot
          BY <3>0, <3>2, <4>1, <4>4 DEF RestoreFormat, Goto, Slot
        <5>2. ~opword_written'
          BY <1>2, <2>5, <4>1 DEF Cleared, bus_write
        <5> QED
          BY <2>0, <2>1, <2>5, <4>2, <4>4, <5>1, <5>2
      <4> QED
        BY <4>1, <4>3, <4>4
    <3> QED
      BY <3>1, <3>2
  <2>6. CASE cir_state = "RESTORE_FRAME"
    <3>0. /\ RestoreFrame /\ NoFlags /\ word_count = FrameWords
          /\ word_arrived <=> bus_write("OPERAND") /\ bus.left = 2
          /\ word_arrived => frame_idx = sent - 1
      BY <1>0, <2>6, FrameStateStep DEF Restoring
    <3>1. CASE cir_state' = "RESTORE_FRAME"
      BY <2>1, <3>1
    <3>2. CASE cir_state' # "RESTORE_FRAME"
      <4>1. word_arrived /\ frame_idx + 1 >= word_count /\ cir_state' = "IDLE"
        BY <3>0, <3>2 DEF RestoreFrame, Goto
      <4>2. bus.op = "write" /\ bus.addr = "OPERAND" /\ bus.left = 2 /\ sent = FrameWords
            /\ phase = "restored" /\ bus.data = LastWord
        <5>1. /\ bus_write("OPERAND") /\ bus.left = 2
              /\ sent \in 1..FrameWords /\ bus.data = frame.words[sent][2]
              /\ phase = "restored" <=> sent = FrameWords
          BY <1>0, <1>4, <3>0, <4>1 DEF FrameWrites, Talking, Away
        <5>2. sent = FrameWords
          BY <1>0, <3>0, <4>1, <5>1
        <5> QED
          BY <5>1, <5>2 DEF LastWord, bus_write
      <4>3. phase' = "restored" /\ bus'.op = "write" /\ bus'.addr = "OPERAND" /\ bus'.left = 1
        BY <2>2, <4>2 DEF NoBus
      <4>4. Slot' = LastWord
        <5>1. /\ pending_valid' = LastWord.valid /\ pending' = LastWord.instr
              /\ pending_idx' = LastWord.idx /\ pending_staging' = LastWord.staging
          BY <2>0, <3>0, <4>1, <4>2 DEF RestoreFrame
        <5> QED
          BY <2>0, <5>1 DEF IsSlot, Slot
      <4>5. ~opword_written'
        BY <1>2, <2>6, <4>2 DEF Cleared, bus_write
      <4> QED
        BY <2>0, <2>1, <4>1, <4>3, <4>4, <4>5 DEF bus_write
    <3> QED
      BY <3>1, <3>2
  <2> QED
    BY <2>0, <2>3, <2>4, <2>5, <2>6
<1> QED
  BY <1>3, <1>4, HoldsOn

LEMMA FrameInvInit ==
    ASSUME Init
    PROVE  FrameInv
<1>1. /\ bus = NoCycle /\ phase = "free" /\ sent = 0 /\ cir_state = "IDLE" /\ ~opword_written
      /\ frame = [kind |-> "null", words |-> <<>>] /\ resume = "free" /\ frame_kind = "null"
      /\ d_out = <<"RESPONSE", "NULL">>
  BY DEF Init, FpuInit
<1>2. Len(<<>>) = 0 /\ <<>> \in Seq({0}) /\ FrameWords # 0
  BY EmptySeq, DialogAssumption
<1>3. CycleOK /\ PrevOK /\ FrameWrites
  BY <1>1 DEF NoCycle, CycleOK, IsBus, PrevOK, FrameWrites, NoBus, ReadPhases, RestPhases,
     bus_write, bus_read
<1>4. FrameCounts
  BY <1>1, <1>2 DEF FrameCounts, IsFrame, Framed, ReadOut
<1>5. Opened /\ Saving /\ Restoring /\ LastRead /\ Held
  BY <1>1 DEF Opened, Saving, Restoring, LastRead, Held, Away
<1> QED
  BY <1>3, <1>4, <1>5 DEF FrameInv

LEMMA FrameInvariant ==
    ASSUME Bridged
    PROVE  Spec => []FrameInv
<1>1. Init => FrameInv
  BY FrameInvInit
<1>2. FrameInv /\ [Next]_vars => FrameInv'
  <2>1. CASE Next
    <3>1. FrameInv => Host /\ FpuClock
      BY <2>1 DEF Next
    <3> QED
      BY <2>1, <3>1, KeepsFrameCycle, KeepsFramePrev, KeepsFrameWrites, KeepsFrameCounts,
         KeepsOpened, KeepsSaving, KeepsRestoring, KeepsLastRead, KeepsHeld DEF FrameInv
  <2>2. CASE UNCHANGED vars
    <3> USE <2>2 DEF vars, fpuVars, writeVars, dialogVars, pulseVars, frameVars, pendingVars,
                controlVars, aluVars, hostVars, historyVars, bus_write, bus_read, NoBus
    <3>1. UNCHANGED <<bus, phase, sent, frame, resume, d_out, cir_state, frame_kind>>
      OBVIOUS
    <3>2. FrameInv => CycleOK' /\ PrevOK' /\ FrameWrites'
      BY DEF FrameInv, CycleOK, IsBus, PrevOK, FrameWrites
    <3>3. FrameInv => FrameCounts' /\ Opened'
      BY DEF FrameInv, FrameCounts, IsFrame, Framed, ReadOut, Opened
    <3>4. FrameInv => Saving' /\ Restoring'
      BY DEF FrameInv, Saving, Restoring, NoFlags
    <3>5. FrameInv => LastRead' /\ Held'
      BY DEF FrameInv, LastRead, Held, NoFlags, Slot, LastWord, IsSlot, ReadOut
    <3> QED
      BY <3>2, <3>3, <3>4, <3>5 DEF FrameInv
  <2> QED
    BY <2>1, <2>2
<1> QED
  BY <1>1, <1>2, PTL DEF Spec

THEOREM FramesCarryTheSlot ==
    ASSUME Bridged
    PROVE  Spec => []FrameCarriesPending
<1>1. FrameInv => FrameCarriesPending
  <2> SUFFICES ASSUME FrameInv, phase \in {"away", "restored?"}, ReadOut
               PROVE  LastWord = Slot
    BY DEF FrameCarriesPending, LastWord, Slot
  <2>1. cir_state # "RESTORE_FRAME"
    BY DEF FrameInv, Restoring
  <2> QED
    BY <2>1 DEF FrameInv, Held, Away
<1> QED
  BY <1>1, FrameInvariant, PTL

=============================================================================
