------------------------------- MODULE CirHost -------------------------------
(***************************************************************************)
(* The main processor's side of a coprocessor dialog, as the drivers play  *)
(* it (validation/hello_world/src/cir_periph.c and the testbenches): write *)
(* the operation word and the command in either order, or the command      *)
(* alone, poll the response register, move the operand words it asks for,  *)
(* acknowledge an exception, and go on to the next instruction when the    *)
(* response is NULL.  Composed with CirDialog, one step is one clock edge. *)
(*                                                                         *)
(* A bus cycle shows its strobes for a fixed number of clocks (the bridge  *)
(* shows a write for WriteClocks = 3, a read for ReadClocks = 4) and is    *)
(* followed by at least Gap + 1 clocks without; the host may always wait   *)
(* longer.                                                                 *)
(***************************************************************************)
EXTENDS CirDialog

CONSTANTS
    MaxInstr,       \* instructions the host issues, at most
    Shapes,         \* shapes of the cpGEN instructions it issues
    Moves,          \* subset of BOOLEAN: which of FMOVE and arithmetic it issues
    WordCounts,     \* operand words its memory formats have
    Orders,         \* the orders it writes the command registers in
    CommandLeads,   \* TRUE: after a conditional, too, it may write the command
                    \* before the operation word, or alone
    Conditionals,   \* TRUE: it issues cpBcc/cpScc and undefined types too
    SavePhases,     \* where it may interrupt itself to save and restore the
                    \* unit: "free", between dialogs; "busy", told BUSY in one
    BadFrames,      \* TRUE: it may offer an invalid format word first
    WriteClocks, ReadClocks, Gap

ASSUME HostAssumption ==
    /\ MaxInstr \in Nat \ {0}
    /\ Shapes \subseteq {"reg", "load", "store"}
    /\ Moves \subseteq BOOLEAN
    /\ WordCounts \subseteq 1..3
    /\ Orders \subseteq {"opword_first", "command_first", "command_only"}
    /\ Conditionals \in BOOLEAN /\ BadFrames \in BOOLEAN
    /\ CommandLeads \in BOOLEAN
    /\ SavePhases \subseteq {"free", "busy"}
    /\ WriteClocks \in Nat \ {0} /\ ReadClocks \in Nat \ {0} /\ Gap \in Nat

VARIABLES
    phase,      \* what the host does next
    cur,        \* the instruction it is busy with
    order,      \* how it writes that instruction's registers
    sent,       \* operand or frame words moved
    frame,      \* the frame saved: its kind and words
    resume,     \* the phase a save interrupted
    program,    \* history: the instructions issued, in program order
    golden,     \* history: the registers as program order leaves them
    last_done   \* history: the instruction whose result was written last

hostVars == <<phase, cur, order, sent, frame, resume>>
historyVars == <<program, golden>>
vars == <<fpuVars, bus, hostVars, historyVars, last_done>>

NoCycle == [op |-> "none", addr |-> "OPWORD", data |-> "cpGEN", left |-> 0,
            first |-> FALSE]

Starts(op, addr, data) ==
    bus' = [op |-> op, addr |-> addr, data |-> data, first |-> TRUE,
            left |-> IF op = "write" THEN WriteClocks ELSE ReadClocks]
Writes(addr, data) == Starts("write", addr, data)
Reads(addr) == Starts("read", addr, bus.data)

BusFree == bus.op = "none" /\ bus.left = 0
SameSave == UNCHANGED <<frame, resume>>
SameHost == UNCHANGED <<cur, order, sent, frame, resume, historyVars>>

\* The next instruction, with the operands program order gives it.
Instructions ==
    {[n |-> Len(program) + 1, shape |-> s, move |-> (m \/ s = "store"),
      src |-> IF s = "reg" THEN r ELSE d, dst |-> d,
      words |-> IF s = "reg" THEN 1 ELSE w,
      want |-> <<golden[d], IF s = "load" THEN Len(program) + 1 ELSE golden[r]>>] :
        s \in Shapes, m \in Moves, r \in Regs, d \in Regs, w \in WordCounts}

\* What instruction i leaves in its destination.
Outcome(i) == IF i.move THEN i.want[2] ELSE i.n

Issues(i) ==
    /\ cur' = i /\ sent' = 0
    /\ program' = Append(program, i)
    /\ golden' = IF i.shape = "store" THEN golden
                 ELSE [golden EXCEPT ![i.dst] = Outcome(i)]
    /\ SameSave

HostGeneral ==
    /\ BusFree /\ phase = "free" /\ Len(program) < MaxInstr
    /\ \E i \in Instructions, o \in Orders :
         /\ o = "opword_first" \/ CommandLeads \/ instr_type # "cpCOND"
         /\ Issues(i) /\ order' = o
         /\ IF o = "opword_first" THEN Writes("OPWORD", "cpGEN") ELSE Writes("COMMAND", i)
         /\ phase' = IF o = "opword_first" THEN "command"
                     ELSE IF o = "command_first" THEN "opword" ELSE "poll"

HostConditional ==
    /\ BusFree /\ phase = "free" /\ Conditionals
    /\ Writes("OPWORD", "cpCOND") /\ phase' = "condition" /\ SameHost

HostUndefined ==
    /\ BusFree /\ phase = "free" /\ Conditionals
    /\ Writes("OPWORD", "undefined") /\ phase' = "free" /\ SameHost

HostSecondWrite ==
    /\ BusFree /\ phase \in {"command", "opword", "condition"}
    /\ \/ phase = "command" /\ Writes("COMMAND", cur)
       \/ phase = "opword" /\ Writes("OPWORD", "cpGEN")
       \/ phase = "condition" /\ Writes("CONDITION", "EQ")
    /\ phase' = "poll" /\ SameHost

HostPoll ==
    /\ BusFree /\ phase \in {"poll", "busy"}
    /\ Reads("RESPONSE") /\ phase' = "polled" /\ SameHost

HostOperand ==
    /\ BusFree /\ phase = "operand"
    /\ Writes("OPERAND", Word(cur.n, sent)) /\ sent' = sent + 1
    /\ phase' = IF sent + 1 = cur.words THEN "poll" ELSE "operand"
    /\ SameSave /\ UNCHANGED <<cur, order, historyVars>>

HostFetch ==
    /\ BusFree /\ phase = "fetch"
    /\ Reads("OPERAND") /\ phase' = "fetched" /\ SameHost

HostAck ==
    /\ BusFree /\ phase = "ack"
    /\ Writes("CONTROL", TRUE) /\ phase' = "poll" /\ SameHost

\* FSAVE: the operation word, the format word, the frame.
HostSave ==
    /\ BusFree /\ phase \in SavePhases
    /\ Writes("OPWORD", "cpSAVE") /\ phase' = "save" /\ resume' = phase
    /\ UNCHANGED <<cur, order, sent, frame, historyVars>>

HostSaveFormat ==
    /\ BusFree /\ phase = "save"
    /\ Reads("SAVE") /\ phase' = "saved" /\ SameHost

HostSaveWord ==
    /\ BusFree /\ phase = "save_words"
    /\ Reads("OPERAND") /\ phase' = "save_word" /\ SameHost

\* FRESTORE, at any later time: the same frame, or an invalid one first.
HostRestore ==
    /\ BusFree /\ phase = "away"
    /\ Writes("OPWORD", "cpRESTORE") /\ phase' = "restore" /\ SameHost

HostRestoreFormat ==
    /\ BusFree /\ phase = "restore"
    /\ \/ /\ Writes("RESTORE", frame.kind)
          /\ sent' = IF frame.kind = "null" THEN FrameWords ELSE 0
          /\ phase' = IF frame.kind = "null" THEN "restored" ELSE "restore_words"
       \/ /\ BadFrames /\ Writes("RESTORE", "invalid") /\ phase' = "refused"
          /\ UNCHANGED sent
    /\ SameSave /\ UNCHANGED <<cur, order, historyVars>>

HostRestoreWord ==
    /\ BusFree /\ phase = "restore_words"
    /\ Writes("OPERAND", frame.words[sent + 1][2]) /\ sent' = sent + 1
    /\ phase' = IF sent + 1 = FrameWords THEN "restored" ELSE "restore_words"
    /\ SameSave /\ UNCHANGED <<cur, order, historyVars>>

\* After a save or a restore the host polls until the unit is not busy.
HostSettles ==
    /\ BusFree /\ phase \in {"restored", "save_done", "refused"}
    /\ Reads("RESPONSE")
    /\ phase' = IF phase = "restored" THEN "restored?"
                ELSE IF phase = "refused" THEN "refused?" ELSE "save_done?"
    /\ SameHost

HostAcksRefusal ==
    /\ BusFree /\ phase = "ack_refusal"
    /\ Writes("CONTROL", TRUE) /\ phase' = "away" /\ SameHost

\* The strobes stay for the length of the cycle.
HostHolds ==
    /\ bus.op # "none" /\ bus.left > 1
    /\ bus' = [bus EXCEPT !.left = @ - 1, !.first = FALSE]
    /\ UNCHANGED <<hostVars, historyVars>>

\* The last clock of a cycle: a read's data is taken.
Got(ph, values) == phase = ph /\ d_out \in values
Responds(ph, prims) == Got(ph, {<<"RESPONSE", r>> : r \in prims})

HostEnds ==
    /\ bus.op # "none" /\ bus.left = 1
    /\ bus' = [bus EXCEPT !.op = "none", !.left = Gap, !.first = FALSE]
    /\ UNCHANGED <<cur, order, resume, historyVars>>
    /\ \/ /\ \/ Responds("polled", {"BUSY"}) /\ phase' = "busy"
             \/ Responds("polled", {"NULL", "COND"}) /\ phase' = "free"
             \/ Responds("polled", {"EXCEPT", "COND_TRAP"}) /\ phase' = "ack"
             \/ Responds("save_done?", {"BUSY"}) /\ phase' = "save_done"
             \/ phase = "save_done?" /\ d_out # <<"RESPONSE", "BUSY">> /\ phase' = "away"
             \/ Responds("restored?", {"BUSY"}) /\ phase' = "restored"
             \/ phase = "restored?" /\ d_out # <<"RESPONSE", "BUSY">> /\ phase' = resume
             \/ Responds("refused?", {"BUSY"}) /\ phase' = "refused"
             \/ Responds("refused?", {"EXCEPT"}) /\ phase' = "ack_refusal"
             \/ bus.op = "write" /\ UNCHANGED phase
          /\ UNCHANGED <<sent, frame>>
       \/ /\ sent' = 0 /\ UNCHANGED frame
          /\ \/ Responds("polled", {"TO_CP"}) /\ phase' = "operand"
             \/ Responds("polled", {"FROM_CP"}) /\ phase' = "fetch"
       \/ /\ phase = "fetched" /\ sent' = sent + 1
          /\ phase' = IF sent + 1 = cur.words THEN "poll" ELSE "fetch"
          /\ UNCHANGED frame
       \/ /\ phase = "saved" /\ sent' = 0
          /\ frame' = [kind |-> d_out[2], words |-> <<>>]
          /\ phase' = IF d_out[2] = "null" THEN "save_done" ELSE "save_words"
       \/ /\ phase = "save_word" /\ sent' = sent + 1
          /\ frame' = [frame EXCEPT !.words = Append(@, d_out)]
          /\ phase' = IF sent + 1 = FrameWords THEN "save_done" ELSE "save_words"

HostPauses ==
    /\ bus.op = "none"
    /\ bus' = [bus EXCEPT !.left = IF @ > 0 THEN @ - 1 ELSE 0]
    /\ UNCHANGED <<hostVars, historyVars>>

HostStarts ==
    \/ HostGeneral \/ HostConditional \/ HostUndefined \/ HostSecondWrite
    \/ HostPoll \/ HostOperand \/ HostFetch \/ HostAck
    \/ HostSave \/ HostSaveFormat \/ HostSaveWord
    \/ HostRestore \/ HostRestoreFormat \/ HostRestoreWord
    \/ HostSettles \/ HostAcksRefusal

Host == HostStarts \/ HostHolds \/ HostEnds \/ HostPauses

Init ==
    /\ FpuInit
    /\ bus = NoCycle
    /\ phase = "free" /\ cur = NoInstr /\ order = "opword_first" /\ sent = 0
    /\ program = <<>> /\ golden = [r \in Regs |-> r]
    /\ frame = [kind |-> "null", words |-> <<>>] /\ resume = "free"
    /\ last_done = 0

RecordDone ==
    last_done' = IF valid /\ arith_active THEN result.by ELSE last_done

Next == FpuClock /\ Host /\ RecordDone

\* The clock runs, an operation takes finitely many clocks, and a host in the
\* middle of a dialog goes on with it.
Spec == Init /\ [][Next]_vars
FairSpec ==
    /\ Spec /\ WF_vars(Next)
    /\ WF_vars(Next /\ AluDone)
    /\ WF_vars(Next /\ HostStarts /\ phase # "free")

-----------------------------------------------------------------------------
(* Properties *)

Values == Nat \cup Regs \cup {Garbage}
Instrs == [n : 0..MaxInstr, shape : {"reg", "load", "store"}, move : BOOLEAN,
           src : Regs, dst : Regs, words : 1..3, want : Values \X Values]
Words == [of : Values, at : WordIdx]
States == {"IDLE", "DECODE", "XFER_SRC", "XFER_SRC_WAIT", "XFER_SRC_WAIT2",
           "EXECUTE", "EXECUTE_DONE", "XFER_DST", "XFER_DST_WAIT", "COND_EVAL",
           "COND_WAIT", "COND_CHECK", "EXCEPT_PRE", "EXCEPT_POST", "SAVE_WAIT",
           "SAVE_FORMAT", "SAVE_FRAME", "RESTORE_FORMAT", "RESTORE_FRAME",
           "PENDING_DECODE", "PENDING_XFER_SRC", "PENDING_XFER_SRC_WAIT",
           "PENDING_XFER_SRC_WAIT2", "PENDING_XFER_SRC_WAIT3"}
Flags == <<opword_written, command_written, condition_written, control_ack,
           word_arrived, read_done, write_prev, read_prev, opword_seen, cmd_seen,
           save_read_done, save_prev, launch_alu, flags_consumed, pending_launch,
           null_req, commit_req, pending_valid, op_start, arith_active,
           move_pending, trap_pending, response_pending, exc_enabled,
           restore_trigger, fpu_initialized, alu_busy, valid>>

\* Every register keeps to its range: the word counters to the words there
\* are, though several states of the dialog share them.
TypeOK ==
    /\ \A k \in DOMAIN Flags : Flags[k] \in BOOLEAN
    /\ cir_state \in States
    /\ instr_type \in {"cpGEN", "cpCOND", "cpSAVE", "cpRESTORE", "undefined"}
    /\ {command, pending, op_sel, cur} \subseteq Instrs
    /\ staging \in [WordIdx -> Words] /\ pending_staging \in [WordIdx -> Words]
    /\ word_idx \in 0..3 /\ word_count \in 0..3 \cup {FrameWords}
    /\ frame_idx \in 0..FrameWords-1 /\ pending_idx \in WordIdx
    /\ pending_skip \in 0..2
    /\ fp_reg \in [Regs -> Values] /\ golden \in [Regs -> Values]
    /\ launch_dst \in Regs /\ operand \in Values \X Values
    /\ {alu_job, result} \subseteq [by : 0..MaxInstr, val : Values]
    /\ sent \in 0..3 \cup 0..FrameWords
    /\ Len(frame.words) <= FrameWords

\* Nothing of an issued instruction is left under way.
Settled ==
    /\ phase = "free" /\ bus.op = "none" /\ cir_state = "IDLE"
    /\ ~command_written /\ ~launch_alu /\ ~pending_launch /\ ~op_start
    /\ ~alu_busy /\ ~valid /\ ~arith_active /\ ~move_pending

\* Once a dialog is over the registers hold what the instructions issued so
\* far leave in them in program order: none lost, done twice, done out of
\* order, on the wrong operands or into the wrong register.
InOrderResults == Settled => fp_reg = golden

\* A store hands the host, word by word, the value its register has in
\* program order.
StoreDelivers ==
    phase = "fetched" /\ bus.left = 1 => d_out = <<"OPERAND", Word(cur.want[1], sent)>>

\* A result goes to the destination of the instruction that computed it, also
\* when the next command is already in the command register (launch_dst is
\* captured at launch; the write-back comes any number of clocks later).
WriteBackToOwnRegister ==
    valid /\ arith_active => launch_dst = program[result.by].dst

\* Operations finish in program order, each at most once, though the one that
\* waits in the pending slot is launched by the one before it.
NoReordering == valid /\ arith_active => result.by > last_done

\* The ALU ignores a start while it is busy, so none may be given then.
NoStartWhileBusy == op_start => ~alu_busy

\* The host of a 68881, told NULL, goes on to the next instruction: the last
\* one must have left the ALU by then.
NullMeansDone ==
    phase = "free" => ~launch_alu /\ ~op_start /\ ~alu_busy /\ ~arith_active

\* The host holds a frame that a 68882 that was saving has given it, to the end.
ReadOut == Len(frame.words) = FrameWords /\ frame.words[FrameWords][1] = "PENDING"

\* A state frame carries the pending slot over a save and a restore: the slot
\* is in the frame the host holds, and is back when the restore is over.
FrameCarriesPending ==
    phase \in {"away", "restored?"} /\ ReadOut =>
        frame.words[FrameWords][2] = [valid |-> pending_valid, instr |-> pending,
                                      idx |-> pending_idx, staging |-> pending_staging]

\* The host reads a frame out of a unit that is saving, never out of one that
\* has not seen the operation word.
SavesAreTaken == phase = "save_words" => cir_state = "SAVE_FRAME"

\* A launched FMOVE never waits in EXECUTE for an ALU it did not start.
MovesBypassExecute == move_pending => cir_state # "EXECUTE"

\* While a frame is read out the computation it describes stands still.
SaveSuspends == cir_state = "SAVE_FRAME" => ~valid

\* The host is never left polling.
HostReturns == phase # "free" ~> phase = "free"

=============================================================================
