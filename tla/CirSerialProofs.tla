--------------------------- MODULE CirSerialProofs ---------------------------
(***************************************************************************)
(* A 68881 computes what program order says: proofs about CirHost for      *)
(* programs that mix cpGEN instructions with conditionals, operation words *)
(* of no known type, exceptions, and saves and restores between dialogs,   *)
(* refused frames included.                                                *)
(***************************************************************************)
EXTENDS CirPipelineProofs

\* The part: one instruction at a time, saved only between dialogs, by a host
\* that does not write the command before the operation word after a
\* conditional, through the bridge.  The first three are needed: on a 68882
\* stores and results are wrong (CirHost_68882_store, CirHost_68882_drop), with
\* CommandLeads results are (CirHost_68881_stale), and after a save of an
\* executing instruction the host goes on before it is done (NullMeansDone on
\* the instance of CirHost_68881_preempt).
Serial == /\ ~Is68882 /\ SavePhases \subseteq {"free"} /\ ~CommandLeads
          /\ WriteClocks = 3 /\ ReadClocks = 4

-----------------------------------------------------------------------------
(* What the host writes in each phase *)

\* The operation word a host writes in a phase, and the format of a frame it
\* hands back.
Opword == IF phase = "free" THEN "undefined" ELSE IF phase = "condition" THEN "cpCOND"
          ELSE IF phase = "save" THEN "cpSAVE" ELSE IF phase = "restore" THEN "cpRESTORE"
          ELSE "cpGEN"
Format == IF phase = "restore_words" THEN "idle" ELSE IF phase = "restored" THEN "null"
          ELSE "invalid"

\* Which register the host writes in which phase, and what.
WritesOK ==
    /\ bus_write("OPWORD") =>
         /\ phase \in {"free", "command", "condition", "save", "restore", "poll"}
         /\ bus.data = Opword
    /\ bus_write("COMMAND") => phase \in {"opword", "poll"} /\ bus.data = cur
    /\ bus_write("CONDITION") => phase = "poll"
    /\ bus_write("CONTROL") => phase \in {"poll", "away"}
    /\ bus_write("RESTORE") =>
         phase \in {"restore_words", "restored", "refused"} /\ bus.data = Format
    /\ bus_write("OPERAND") => phase \in {"poll", "operand", "restored", "restore_words"}
    /\ bus_write("OPERAND") /\ phase \in {"poll", "operand"} =>
         /\ bus.data = Word(cur.n, sent - 1) /\ sent \in 1..cur.words
         /\ phase = "poll" <=> sent = cur.words

\* How far the host is with operands and frames.
CountsOK ==
    /\ phase = "operand" => sent \in 0..cur.words-1
    /\ phase \in {"fetch", "fetched"} => sent \in 0..cur.words-1
    /\ phase \in {"save_words", "save_word"} =>
         sent \in 0..FrameWords-1 /\ Len(frame.words) = sent
    /\ phase = "restore_words" => sent \in 0..FrameWords-1
    /\ phase \in {"restored", "restored?"} => sent = FrameWords
    /\ resume = "free" /\ frame.kind \in {"null", "idle"}

HostOK == CycleOK /\ WritesOK /\ CountsOK /\ PrevOK /\ IsFrame

-----------------------------------------------------------------------------
(* The values *)

\* The registers lack the outcome of the current instruction, nothing else.
Owed == golden = IF cur.shape = "store" THEN fp_reg
                 ELSE [fp_reg EXCEPT ![cur.dst] = Outcome(cur)]

\* They lack it, and its operands are still those program order gives it.
Fresh ==
    /\ Owed /\ cur.n # 0 /\ fp_reg[cur.dst] = cur.want[1]
    /\ cur.shape = "reg" => fp_reg[cur.src] = cur.want[2]
    /\ cur.shape = "load" => cur.want[2] = cur.n

\* All the words of v are staged.
Staged(v) == \A k \in 0..cur.words-1 : staging[k] = Word(v, k)

\* Nothing of an instruction is under way.
Still == ~launch_alu /\ ~op_start /\ ~alu_busy /\ ~valid /\ ~arith_active /\ ~move_pending
Finished == Still /\ fp_reg = golden

-----------------------------------------------------------------------------
(* The states of the dialog *)

\* The states a 68881 is ever in.
SerialStates == {"IDLE", "DECODE", "XFER_SRC", "XFER_SRC_WAIT", "XFER_SRC_WAIT2",
                 "EXECUTE", "EXECUTE_DONE", "XFER_DST", "XFER_DST_WAIT", "COND_EVAL",
                 "COND_WAIT", "COND_CHECK", "EXCEPT_PRE", "EXCEPT_POST", "SAVE_WAIT",
                 "SAVE_FORMAT", "SAVE_FRAME", "RESTORE_FORMAT", "RESTORE_FRAME"}

\* Polling, or writing the operation word after the command.
Waiting ==
    \/ phase \in {"opword", "busy"} /\ NoBus
    \/ phase = "poll" /\ (NoBus \/ bus_write("OPWORD"))
    \/ phase = "polled"

\* The moves still under way in IDLE.
Moving ==
    /\ ~op_start /\ ~alu_busy /\ ~valid /\ ~arith_active
    /\ Waiting /\ command = cur /\ cur.move /\ cur.n # 0 /\ Owed
    /\ cur.shape = "reg" \/ cur.shape = "load"
    /\ cur.shape = "reg" => fp_reg[cur.src] = cur.want[2]
    /\ cur.shape = "load" => cur.want[2] = cur.n
    /\ launch_alu => ~move_pending /\ instr_type # "cpCOND"
    /\ move_pending => operand[2] = cur.want[2]

\* Where the host may be while the dialog is in IDLE: between dialogs, about to
\* be decoded, polling a move still under way, or at the end of a save,
\* a restore, a store or an acknowledgement.
IdleWhere ==
    \/ phase \in {"free", "command", "condition", "busy", "save_done", "save_done?",
                  "restored?", "polled"}
    \/ phase = "opword" /\ (NoBus \/ bus.left >= 2)
    \/ phase = "poll" /\ \/ NoBus \/ bus_write("OPWORD")
                         \/ (bus_write("COMMAND") \/ bus_write("CONDITION")) /\ bus.left >= 2
                         \/ bus_write("CONTROL") /\ bus.left = 1
    \/ phase = "away" /\ (NoBus \/ bus.left = 1)
    \/ phase \in {"save", "restore"} /\ bus.op = "write" /\ bus.left >= 2
    \/ phase = "saved" /\ bus.left <= 2 /\ d_out = <<"SAVE", "null">>
    \/ phase = "fetched" /\ bus.left = 1 /\ sent + 1 = cur.words
    \/ phase = "save_word" /\ bus.left = 1 /\ sent + 1 = FrameWords
    \/ phase = "restored" /\ (NoBus \/ bus.left = 1)

\* In IDLE a written flag is up only for the write that shows or, if it was not
\* consumed, for an operation word of the same type.
IdleFlags ==
    /\ bus_write("COMMAND") => (command_written <=> bus.left = 2)
    /\ command_written =>
         \/ bus_write("COMMAND")
         \/ launch_alu /\ cur.shape = "reg" /\ NoBus /\ phase \in {"opword", "poll"}
    /\ condition_written <=> bus_write("CONDITION") /\ bus.left = 2
    /\ opword_written =>
         \/ instr_type = "cpGEN"
         \/ instr_type = "cpCOND" /\ (phase = "condition" \/ bus_write("CONDITION"))
         \/ /\ instr_type = "undefined" /\ phase = "free"
            /\ (bus_write("OPWORD") /\ bus.left <= 2) \/ (NoBus /\ flags_consumed)
         \/ instr_type = "cpSAVE" /\ phase = "save" /\ bus.left = 2
         \/ instr_type = "cpRESTORE" /\ phase = "restore" /\ bus.left = 2
    /\ bus_write("OPWORD") /\ bus.left <= 2 => opword_written /\ instr_type = Opword
    /\ (phase = "condition" /\ NoBus) \/ bus_write("CONDITION") =>
         opword_written /\ instr_type = "cpCOND"
    /\ (phase = "condition" /\ (NoBus \/ bus.left <= 2)) \/ bus_write("CONDITION") =>
         ~flags_consumed
    /\ phase = "command" /\ NoBus => instr_type = "cpGEN"

\* In IDLE the registers are what program order says, except for a move under
\* way and for the instruction about to be decoded.
IdleOK ==
    /\ IdleWhere /\ IdleFlags
    /\ bus_write("COMMAND") => instr_type # "cpCOND"
    /\ IF launch_alu \/ move_pending
       THEN /\ Moving
            /\ launch_alu /\ cur.shape = "load" => Staged(cur.n)
            /\ phase = "polled" => bus.left >= IF launch_alu THEN 3 ELSE 2
       ELSE /\ Still
            /\ IF phase = "command" \/ bus_write("COMMAND") THEN Fresh ELSE fp_reg = golden
            /\ bus_write("COMMAND") /\ ~bus.first => command = cur

\* A command is decoded on the last clock of its own write, or again, harmlessly,
\* while the move it asked for is carried out.
DecodeOK ==
    /\ ~launch_alu /\ instr_type # "cpCOND" /\ command = cur
    /\ opword_written => instr_type = "cpGEN"
    /\ IF move_pending
       THEN /\ Moving /\ cur.shape = "reg" /\ cur.n # 0
            /\ (NoBus /\ phase \in {"opword", "poll"}) \/ (bus.first /\ Waiting)
       ELSE Still /\ Fresh /\ bus_write("COMMAND") /\ bus.left = 1

\* Operand words arrive in order, one for each write of the host.
Received == IF word_arrived THEN word_idx + 1 ELSE word_idx
XferSrcOK ==
    /\ Still /\ Fresh /\ command = cur /\ cur.shape = "load" /\ instr_type # "cpCOND"
    /\ word_count = cur.words
    /\ Waiting \/ phase = "operand" \/ (phase = "poll" /\ bus_write("OPERAND") /\ bus.left >= 2)
    /\ word_arrived <=> bus_write("OPERAND") /\ bus.left = 2
    /\ word_idx = IF bus_write("OPERAND") THEN (IF bus.left = 1 THEN sent ELSE sent - 1)
                  ELSE IF phase = "operand" THEN sent ELSE 0
    /\ \A k \in 0..Received-1 : staging[k] = Word(cur.n, k)

\* All words are staged two clocks before the launch.
XferSrcWaitOK ==
    /\ Still /\ Fresh /\ command = cur /\ cur.shape = "load" /\ instr_type # "cpCOND"
    /\ Staged(cur.n) /\ phase = "poll"
    /\ IF cir_state = "XFER_SRC_WAIT" THEN bus_write("OPERAND") /\ bus.left = 1 ELSE NoBus

\* In EXECUTE the ALU has the job of the current instruction, with its operands,
\* and nobody else's.
ExecuteOK ==
    /\ Waiting /\ Owed /\ ~cur.move /\ cur.shape # "store" /\ cur.n # 0 /\ instr_type # "cpCOND"
    /\ opword_written => instr_type = "cpGEN"
    /\ ~move_pending
    /\ \/ /\ launch_alu /\ ~op_start /\ ~alu_busy /\ ~valid /\ ~arith_active
          /\ command = cur /\ Fresh /\ (cur.shape = "load" => Staged(cur.n))
       \/ /\ ~launch_alu /\ arith_active /\ launch_dst = cur.dst
          /\ \/ op_start /\ ~alu_busy /\ ~valid /\ op_sel = cur /\ operand = cur.want
             \/ ~op_start /\ alu_busy /\ ~valid /\ alu_job = [by |-> cur.n, val |-> cur.n]
             \/ ~op_start /\ ~alu_busy /\ valid /\ result = [by |-> cur.n, val |-> cur.n]

\* Afterwards everything is written back.
ExecuteDoneOK == Waiting /\ Finished

\* An exception is acknowledged by the CONTROL write that shows, and by no other.
ExceptOK ==
    /\ Finished
    /\ \/ Waiting \/ phase \in {"ack", "refused?", "ack_refusal"}
       \/ bus_write("CONTROL") /\ bus.left >= 2
       \/ phase = "refused" /\ (NoBus \/ bus.left = 1)
    /\ control_ack <=> bus_write("CONTROL") /\ bus.left = 2

\* A store hands out the staged words of its register, one for each read.
XferDstOK ==
    /\ Finished /\ command = cur /\ cur.shape = "store" /\ cur.n # 0
    /\ fp_reg[cur.dst] = cur.want[1] /\ word_count = cur.words
    /\ Waiting \/ phase \in {"fetch", "fetched"}
    /\ read_done <=> phase = "fetched" /\ bus.left = 3
    /\ word_idx = IF phase = "fetch" THEN sent
                  ELSE IF phase = "fetched" THEN (IF bus.left >= 3 THEN sent ELSE sent + 1)
                  ELSE 0
    /\ word_idx < cur.words
    /\ phase \in {"fetch", "fetched"} => Staged(cur.want[1])
XferDstWaitOK ==
    /\ Finished /\ bus.left = 2
    /\ \/ phase = "fetched" /\ sent + 1 = cur.words
       \/ phase = "save_word" /\ sent + 1 = FrameWords

\* A condition is evaluated with nothing under way and answered once.
CondOK ==
    /\ ~op_start /\ ~alu_busy /\ ~valid /\ ~arith_active /\ ~move_pending /\ fp_reg = golden
    /\ instr_type = "cpCOND" /\ (launch_alu <=> cir_state = "COND_WAIT")
    /\ IF cir_state = "COND_EVAL" THEN bus_write("CONDITION") /\ bus.left = 1
       ELSE IF cir_state = "COND_WAIT" THEN NoBus /\ phase = "poll"
       ELSE \/ NoBus /\ phase = "poll" /\ response_pending
            \/ phase = "polled" /\ bus.left = 4 /\ response_pending
    /\ cir_state = "COND_CHECK" => (response = "COND_TRAP" <=> trap_pending)

\* Saving: the format read is the format that will be read out.
SaveOK ==
    /\ Finished
    /\ IF cir_state = "SAVE_WAIT" THEN phase = "save" /\ bus.op = "write" /\ bus.left = 1
       ELSE IF cir_state = "SAVE_FORMAT"
       THEN /\ (phase = "save" /\ NoBus) \/ (phase = "saved" /\ bus.left >= 3)
            /\ frame_kind \in {"null", "idle"} /\ frame_idx = 0
            /\ word_count = IF frame_kind = "null" THEN 0 ELSE FrameWords
            /\ save_read_done <=> phase = "saved" /\ bus.left = 3
            /\ save_read_done => d_out = <<"SAVE", frame_kind>>
       ELSE /\ \/ phase = "saved" /\ bus.left <= 2 /\ d_out = <<"SAVE", "idle">>
               \/ phase = "save_words" \/ phase = "save_word"
            /\ word_count = FrameWords
            /\ read_done <=> phase = "save_word" /\ bus.left = 3
            /\ frame_idx = IF phase = "saved" THEN 0
                           ELSE IF phase = "save_words" \/ bus.left >= 3 THEN sent ELSE sent + 1
            /\ frame_idx < FrameWords

\* Restoring: dialog and host count the same words.
RestoreOK ==
    /\ Finished
    /\ IF cir_state = "RESTORE_FORMAT"
       THEN /\ \/ phase = "restore" /\ (NoBus \/ bus.left = 1)
               \/ bus_write("RESTORE") /\ bus.left >= 2
            /\ restore_trigger <=> bus_write("RESTORE") /\ bus.left = 2
            /\ restore_trigger => restore_kind = Format
            /\ bus_write("RESTORE") /\ phase = "restore_words" => sent = 0
       ELSE /\ \/ phase = "restore_words" /\ (bus_write("RESTORE") => bus.left = 1)
               \/ phase = "restored" /\ bus_write("OPERAND") /\ bus.left >= 2
            /\ word_count = FrameWords
            /\ word_arrived <=> bus_write("OPERAND") /\ bus.left = 2
            /\ frame_idx = IF bus_write("OPERAND") /\ bus.left >= 2 THEN sent - 1 ELSE sent
            /\ bus_write("RESTORE") => sent = 0

\* Each state of the dialog with what holds in it.
StateOK ==
    /\ cir_state \in SerialStates
    /\ cir_state = "IDLE" => IdleOK
    /\ cir_state = "DECODE" => DecodeOK
    /\ cir_state = "XFER_SRC" => XferSrcOK
    /\ cir_state \in {"XFER_SRC_WAIT", "XFER_SRC_WAIT2"} => XferSrcWaitOK
    /\ cir_state = "EXECUTE" => ExecuteOK
    /\ cir_state = "EXECUTE_DONE" => ExecuteDoneOK
    /\ cir_state \in {"EXCEPT_PRE", "EXCEPT_POST"} => ExceptOK
    /\ cir_state = "XFER_DST" => XferDstOK
    /\ cir_state = "XFER_DST_WAIT" => XferDstWaitOK
    /\ cir_state \in {"COND_EVAL", "COND_WAIT", "COND_CHECK"} => CondOK
    /\ cir_state \in {"SAVE_WAIT", "SAVE_FORMAT", "SAVE_FRAME"} => SaveOK
    /\ cir_state \in {"RESTORE_FORMAT", "RESTORE_FRAME"} => RestoreOK

-----------------------------------------------------------------------------
(* What the host is told *)

\* What an answer promises the host about the dialog.
Truth(r) ==
    /\ r = "NULL" => cir_state = "IDLE" \/ (cir_state = "DECODE" /\ move_pending)
    /\ r = "TO_CP" => cir_state = "XFER_SRC"
    /\ r = "FROM_CP" => cir_state = "XFER_DST" /\ Staged(cur.want[1])
    /\ r = "EXCEPT" => cir_state \in {"EXCEPT_PRE", "EXCEPT_POST"}
    /\ r = "COND" => cir_state = "IDLE" \/ (cir_state = "COND_CHECK" /\ ~trap_pending)
    /\ r = "COND_TRAP" => cir_state = "EXCEPT_PRE" \/ (cir_state = "COND_CHECK" /\ trap_pending)

\* An answer, from the clock on which it is latched until the host has acted on
\* it, is still true, although the dialog goes on meanwhile.
AnswersOK ==
    /\ phase = "polled" /\ bus.left = 4 => Truth(response)
    /\ phase = "polled" /\ bus.left < 4 =>
         \A r \in {"NULL", "TO_CP", "FROM_CP", "EXCEPT", "COND", "COND_TRAP"} :
           d_out = <<"RESPONSE", r>> => Truth(r)
    /\ phase = "saved" /\ bus.left <= 2 => d_out \in {<<"SAVE", "null">>, <<"SAVE", "idle">>}
    /\ phase = "refused?" => cir_state \in {"EXCEPT_PRE", "EXCEPT_POST"}
    /\ phase = "ack" => cir_state \in {"EXCEPT_PRE", "EXCEPT_POST"}
    /\ phase = "operand" => cir_state = "XFER_SRC"
    /\ phase = "fetch" => cir_state = "XFER_DST"
    /\ phase = "fetched" /\ bus.left < 4 => d_out = <<"OPERAND", Word(cur.want[1], sent)>>
    /\ phase = "fetched" /\ bus.left >= 3 => cir_state = "XFER_DST"
    /\ response_pending =>
         /\ (phase = "poll" /\ NoBus) \/ (phase = "polled" /\ bus.left = 4)
         /\ response \in {"COND", "COND_TRAP"} /\ Truth(response) /\ ~launch_alu

\* Registers only a 68882 uses.
Unused == /\ pending_valid = FALSE /\ pending_launch = FALSE /\ pending_skip = 0
          /\ restore_kind # "busy"

\* The ranges the argument needs.
Typed ==
    /\ golden \in [Regs -> Values] /\ fp_reg \in [Regs -> Values]
    /\ program \in Seq(Instrs) /\ staging \in [WordIdx -> Words]
    /\ {cur, command, op_sel, pending} \subseteq Instrs
    /\ cur.shape = "store" => cur.move

\* The inductive invariant.
SerialInv == Typed /\ HostOK /\ Unused /\ StateOK /\ AnswersOK

-----------------------------------------------------------------------------
(* What a step of the host may do, field by field *)

\* Nothing is issued.
SameIssue == UNCHANGED <<cur, program, golden, resume>>

\* A bus cycle goes on.
Holds ==
    /\ ~NoBus /\ bus.left > 1 /\ bus'.op = bus.op /\ bus'.addr = bus.addr
    /\ bus'.data = bus.data /\ bus'.left = bus.left - 1
    /\ SameIssue /\ UNCHANGED <<phase, sent, frame>>

\* The bus stays free.
Pauses == NoBus /\ bus'.op = "none" /\ SameIssue /\ UNCHANGED <<phase, sent, frame>>

\* The answer a poll ends with.
Told(r) == phase = "polled" /\ d_out = <<"RESPONSE", r>> /\ UNCHANGED frame

\* A bus cycle ends, and the host acts on what it has read.
Ends ==
    /\ ~NoBus /\ bus.left = 1 /\ bus'.op = "none" /\ SameIssue
    /\ \/ bus.op = "write" /\ UNCHANGED <<phase, sent, frame>>
       \/ Told("BUSY") /\ phase' = "busy" /\ sent' = sent
       \/ (Told("NULL") \/ Told("COND")) /\ phase' = "free" /\ sent' = sent
       \/ (Told("EXCEPT") \/ Told("COND_TRAP")) /\ phase' = "ack" /\ sent' = sent
       \/ Told("TO_CP") /\ phase' = "operand" /\ sent' = 0
       \/ Told("FROM_CP") /\ phase' = "fetch" /\ sent' = 0
       \/ /\ phase = "fetched" /\ sent' = sent + 1 /\ UNCHANGED frame
          /\ phase' = IF sent + 1 = cur.words THEN "poll" ELSE "fetch"
       \/ /\ phase = "saved" /\ sent' = 0 /\ frame'.words = <<>> /\ frame'.kind = d_out[2]
          /\ phase' = IF d_out[2] = "null" THEN "save_done" ELSE "save_words"
       \/ /\ phase = "save_word" /\ sent' = sent + 1 /\ frame'.kind = frame.kind
          /\ \E w : frame'.words = Append(frame.words, w)
          /\ phase' = IF sent + 1 = FrameWords THEN "save_done" ELSE "save_words"
       \/ /\ UNCHANGED <<sent, frame>>
          /\ \/ phase = "save_done?" /\ phase' \in {"save_done", "away"}
             \/ phase = "restored?" /\ phase' \in {"restored", resume}
             \/ phase = "refused?" /\ phase' \in {"refused", "ack_refusal"}

\* A bus cycle begins: an instruction, another control write, an operand or
\* frame word, or a read.
Opens(op, addr) ==
    /\ NoBus /\ bus'.op = op /\ bus'.addr = addr /\ bus'.left = IF op = "write" THEN 3 ELSE 4
BeginsIssue ==
    /\ phase = "free" /\ sent' = 0 /\ UNCHANGED <<frame, resume>>
    /\ \E i \in Instructions :
         /\ cur' = i /\ program' = Append(program, i) /\ Len(program) < MaxInstr
         /\ golden' = IF i.shape = "store" THEN golden
                      ELSE [golden EXCEPT ![i.dst] = Outcome(i)]
         /\ \/ Opens("write", "OPWORD") /\ bus'.data = "cpGEN" /\ phase' = "command"
            \/ /\ Opens("write", "COMMAND") /\ bus'.data = i /\ phase' \in {"opword", "poll"}
               /\ instr_type # "cpCOND"
BeginsWrite ==
    /\ SameIssue /\ UNCHANGED <<sent, frame>>
    /\ \/ /\ Opens("write", "OPWORD")
          /\ \/ phase = "free" /\ phase' = "condition" /\ bus'.data = "cpCOND"
             \/ phase = "free" /\ phase' = "free" /\ bus'.data = "undefined"
             \/ phase = "opword" /\ phase' = "poll" /\ bus'.data = "cpGEN"
             \/ phase = "free" /\ phase' = "save" /\ bus'.data = "cpSAVE"
             \/ phase = "away" /\ phase' = "restore" /\ bus'.data = "cpRESTORE"
       \/ Opens("write", "COMMAND") /\ phase = "command" /\ phase' = "poll" /\ bus'.data = cur
       \/ Opens("write", "CONDITION") /\ phase = "condition" /\ phase' = "poll"
       \/ Opens("write", "CONTROL") /\ phase = "ack" /\ phase' = "poll"
       \/ Opens("write", "CONTROL") /\ phase = "ack_refusal" /\ phase' = "away"
       \/ /\ Opens("write", "RESTORE") /\ phase = "restore" /\ phase' = "refused"
          /\ bus'.data = "invalid"
BeginsWord ==
    /\ SameIssue /\ UNCHANGED frame
    /\ \/ /\ Opens("write", "OPERAND") /\ phase = "operand" /\ sent' = sent + 1
          /\ bus'.data = Word(cur.n, sent)
          /\ phase' = IF sent + 1 = cur.words THEN "poll" ELSE "operand"
       \/ /\ Opens("write", "RESTORE") /\ phase = "restore" /\ bus'.data = frame.kind
          /\ sent' = IF frame.kind = "null" THEN FrameWords ELSE 0
          /\ phase' = IF frame.kind = "null" THEN "restored" ELSE "restore_words"
       \/ /\ Opens("write", "OPERAND") /\ phase = "restore_words" /\ sent' = sent + 1
          /\ phase' = IF sent + 1 = FrameWords THEN "restored" ELSE "restore_words"
BeginsRead ==
    /\ SameIssue /\ UNCHANGED <<sent, frame>>
    /\ \/ /\ Opens("read", "RESPONSE")
          /\ \/ phase \in {"poll", "busy"} /\ phase' = "polled"
             \/ phase = "restored" /\ phase' = "restored?"
             \/ phase = "refused" /\ phase' = "refused?"
             \/ phase = "save_done" /\ phase' = "save_done?"
       \/ /\ Opens("read", "OPERAND")
          /\ \/ phase = "fetch" /\ phase' = "fetched"
             \/ phase = "save_words" /\ phase' = "save_word"
       \/ Opens("read", "SAVE") /\ phase = "save" /\ phase' = "saved"
Begins == BeginsIssue \/ BeginsWrite \/ BeginsWord \/ BeginsRead

\* A host on a 68881 that is saved only between dialogs does no more than that.
LEMMA HostSteps ==
    ASSUME Serial, CycleOK, IsFrame, resume = "free", Host
    PROVE  /\ Holds \/ Pauses \/ Ends \/ Begins
           /\ IsBus' /\ IsFrame' /\ (bus'.first <=> NoBus /\ bus'.op # "none")
<1> USE HostAssumption DEF Serial, CycleOK, IsBus, NoBus, SameIssue, Starts, Writes, Reads,
        BusFree, SameHost, SameSave, historyVars, hostVars
<1>1. CASE HostHolds
  <2>1. /\ bus.op # "none" /\ bus.left > 1 /\ bus'.left = bus.left - 1 /\ bus'.first = FALSE
        /\ bus'.op = bus.op /\ bus'.addr = bus.addr /\ bus'.data = bus.data
    BY <1>1 DEF HostHolds
  <2>2. bus'.left \in Nat BY <2>1
  <2>3. IsBus' BY <1>1, <2>1, <2>2 DEF HostHolds
  <2>4. Holds /\ IsFrame' BY <1>1, <2>1 DEF HostHolds, Holds, IsFrame
  <2> QED BY <2>1, <2>3, <2>4
<1>2. CASE HostPauses
  <2>1. /\ bus.op = "none" /\ bus'.op = "none" /\ bus'.first = bus.first /\ bus'.left \in Nat
    BY <1>2 DEF HostPauses
  <2>2. IsBus' BY <1>2, <2>1 DEF HostPauses
  <2>3. Pauses /\ IsFrame' BY <1>2, <2>1 DEF HostPauses, Pauses, IsFrame
  <2> QED BY <2>1, <2>2, <2>3
<1>3. CASE HostEnds
  <2>1. bus.op # "none" /\ bus.left = 1 /\ bus'.op = "none" /\ bus'.first = FALSE /\ bus'.left = Gap
    BY <1>3 DEF HostEnds
  <2>2. IsBus' BY <1>3, <2>1 DEF HostEnds
  <2>3. Ends /\ IsFrame'
    <3>0. ~NoBus /\ bus.left = 1 /\ bus'.op = "none" /\ SameIssue
      BY <1>3, <2>1 DEF HostEnds
    <3>1. CASE phase = "saved" /\ frame' = [kind |-> d_out[2], words |-> <<>>]
               /\ sent' = 0 /\ phase' = IF d_out[2] = "null" THEN "save_done" ELSE "save_words"
      BY <3>0, <3>1 DEF Ends, IsFrame
    <3>2. CASE /\ phase = "save_word" /\ sent' = sent + 1
               /\ \E w : frame' = [frame EXCEPT !.words = Append(frame.words, w)]
               /\ phase' = IF sent + 1 = FrameWords THEN "save_done" ELSE "save_words"
      <4>1. PICK w : frame' = [frame EXCEPT !.words = Append(frame.words, w)]
        BY <3>2
      <4>2. frame'.words = Append(frame.words, w) /\ frame'.kind = frame.kind
        BY <4>1 DEF IsFrame
      <4>3. IsFrame'
        BY <4>1, <4>2 DEF IsFrame
      <4> QED BY <3>0, <3>2, <4>2, <4>3 DEF Ends
    <3>3. CASE /\ phase = "fetched" /\ sent' = sent + 1 /\ UNCHANGED frame
               /\ phase' = IF sent + 1 = cur.words THEN "poll" ELSE "fetch"
      BY <3>0, <3>3 DEF Ends, IsFrame
    <3>4. CASE /\ sent' = 0 /\ UNCHANGED frame
               /\ \/ Responds("polled", {"TO_CP"}) /\ phase' = "operand"
                  \/ Responds("polled", {"FROM_CP"}) /\ phase' = "fetch"
      BY <3>0, <3>4 DEF Ends, IsFrame, Told, Responds, Got
    <3>5. CASE /\ UNCHANGED <<sent, frame>>
               /\ \/ Responds("polled", {"BUSY"}) /\ phase' = "busy"
                  \/ Responds("polled", {"NULL", "COND"}) /\ phase' = "free"
                  \/ Responds("polled", {"EXCEPT", "COND_TRAP"}) /\ phase' = "ack"
                  \/ bus.op = "write" /\ UNCHANGED phase
      BY <3>0, <3>5 DEF Ends, IsFrame, Told, Responds, Got
    <3>6. CASE /\ UNCHANGED <<sent, frame>>
               /\ \/ phase = "save_done?" /\ phase' \in {"save_done", "away"}
                  \/ phase = "restored?" /\ phase' \in {"restored", resume}
                  \/ phase = "refused?" /\ phase' \in {"refused", "ack_refusal"}
      BY <3>0, <3>6 DEF Ends, IsFrame
    <3> QED BY <1>3, <3>1, <3>2, <3>3, <3>4, <3>5, <3>6 DEF HostEnds, Responds, Got
  <2> QED BY <2>1, <2>2, <2>3
<1>4. CASE HostStarts
  <2>1. /\ \E op \in {"read", "write"} : \E addr, data : Starts(op, addr, data)
        /\ bus.op = "none"
    BY <1>4 DEF HostStarts, HostGeneral, HostConditional, HostUndefined, HostSecondWrite,
       HostPoll, HostOperand, HostFetch, HostAck, HostSave, HostSaveFormat, HostSaveWord,
       HostRestore, HostRestoreFormat, HostRestoreWord, HostSettles, HostAcksRefusal
  <2>2. IsBus' /\ bus'.first = TRUE /\ bus'.op # "none"
    BY <2>1
  <2>3. Begins
    <3> USE DEF Begins, Opens
    <3>1. CASE HostGeneral
      <4>1. PICK i \in Instructions, o \in Orders :
              /\ o = "opword_first" \/ instr_type # "cpCOND"
              /\ Issues(i) /\ Len(program) < MaxInstr /\ bus.op = "none" /\ phase = "free"
              /\ IF o = "opword_first" THEN Writes("OPWORD", "cpGEN") ELSE Writes("COMMAND", i)
              /\ phase' = IF o = "opword_first" THEN "command"
                          ELSE IF o = "command_first" THEN "opword" ELSE "poll"
        BY <3>1 DEF HostGeneral
      <4>2. \/ Opens("write", "OPWORD") /\ bus'.data = "cpGEN" /\ phase' = "command"
            \/ /\ Opens("write", "COMMAND") /\ bus'.data = i /\ phase' \in {"opword", "poll"}
               /\ instr_type # "cpCOND"
        BY <4>1
      <4> QED BY <4>1, <4>2 DEF BeginsIssue, Issues
    <3>2. CASE HostConditional \/ HostUndefined \/ HostRestore
      BY <3>2 DEF HostConditional, HostUndefined, HostRestore, BeginsWrite
    <3>8. CASE HostSave
      <4>1. phase = "free" /\ resume' = resume
        BY <3>8 DEF HostSave
      <4> QED BY <3>8, <4>1 DEF HostSave, BeginsWrite
    <3>3. CASE HostSecondWrite
      BY <3>3 DEF HostSecondWrite, BeginsWrite
    <3>4. CASE HostAck \/ HostAcksRefusal
      BY <3>4 DEF HostAck, HostAcksRefusal, BeginsWrite
    <3>5. CASE HostOperand \/ HostRestoreWord
      BY <3>5 DEF HostOperand, HostRestoreWord, BeginsWord
    <3>6. CASE HostRestoreFormat
      BY <3>6 DEF HostRestoreFormat, BeginsWord, BeginsWrite
    <3>7. CASE HostPoll \/ HostFetch \/ HostSaveFormat \/ HostSaveWord \/ HostSettles
      BY <3>7 DEF HostPoll, HostFetch, HostSaveFormat, HostSaveWord, HostSettles, BeginsRead
    <3> QED BY <1>4, <3>1, <3>2, <3>3, <3>4, <3>5, <3>6, <3>7, <3>8 DEF HostStarts
  <2>4. IsFrame'
    <3>1. frame' = frame BY <2>3 DEF Begins, BeginsIssue, BeginsWrite, BeginsWord, BeginsRead
    <3> QED BY <3>1 DEF IsFrame
  <2> QED BY <2>1, <2>2, <2>3, <2>4
<1> QED BY <1>1, <1>2, <1>3, <1>4 DEF Host


\* A bus cycle begins only on a free bus.
LEMMA Opening ==
    ASSUME Begins
    PROVE  /\ NoBus
           /\ (bus'.op = "write" /\ bus'.left = 3) \/ (bus'.op = "read" /\ bus'.left = 4)
<1>1. BeginsIssue => /\ NoBus /\ bus'.op = "write" /\ bus'.left = 3
  BY DEF BeginsIssue, Opens
<1>2. BeginsWrite => /\ NoBus /\ bus'.op = "write" /\ bus'.left = 3
  BY DEF BeginsWrite, Opens
<1>3. BeginsWord => /\ NoBus /\ bus'.op = "write" /\ bus'.left = 3
  BY DEF BeginsWord, Opens
<1>4. BeginsRead => /\ NoBus /\ bus'.op = "read" /\ bus'.left = 4
  BY DEF BeginsRead, Opens
<1> QED
  BY <1>1, <1>2, <1>3, <1>4 DEF Begins

\* The same, under the invariant.
LEMMA HostMoves ==
    ASSUME Serial, SerialInv, Host
    PROVE  /\ Holds \/ Pauses \/ Ends \/ Begins
           /\ IsBus' /\ IsFrame' /\ (bus'.first <=> NoBus /\ bus'.op # "none")
           /\ IsBus /\ cur \in Instrs /\ cur.words \in 1..3
<1>1. CycleOK /\ IsFrame /\ resume = "free" /\ IsBus
  BY DEF SerialInv, HostOK, CountsOK, CycleOK
<1>2. cur \in Instrs /\ cur.words \in 1..3
  BY DEF SerialInv, Typed, Instrs
<1> QED
  BY <1>1, <1>2, HostSteps

\* The host's part of the invariant: its cycle, its writes and its counts.
LEMMA KeepsCycle ==
    ASSUME Serial, SerialInv, Host
    PROVE  CycleOK'
<1>0. /\ Holds \/ Pauses \/ Ends \/ Begins
      /\ IsBus' /\ IsFrame' /\ (bus'.first <=> NoBus /\ bus'.op # "none") /\ IsBus
  BY HostMoves
<1>1. CycleOK /\ resume = "free" BY DEF SerialInv, HostOK, CountsOK
<1> USE DEF CycleOK, NoBus, ReadPhases, RestPhases
<1>2. CASE Holds
  BY <1>0, <1>1, <1>2 DEF Holds, IsBus
<1>3. CASE Pauses
  BY <1>0, <1>1, <1>3 DEF Pauses
<1>4. CASE Ends
  BY <1>0, <1>1, <1>4 DEF Ends, Told
<1>5. CASE Begins
  <2>1. CASE BeginsIssue
    BY <1>0, <1>1, <2>1 DEF BeginsIssue, Opens
  <2>2. CASE BeginsWrite
    BY <1>0, <1>1, <2>2 DEF BeginsWrite, Opens
  <2>3. CASE BeginsWord
    BY <1>0, <1>1, <2>3 DEF BeginsWord, Opens
  <2>4. CASE BeginsRead
    BY <1>0, <1>1, <2>4 DEF BeginsRead, Opens
  <2> QED BY <1>5, <2>1, <2>2, <2>3, <2>4 DEF Begins
<1> QED
  BY <1>0, <1>2, <1>3, <1>4, <1>5

LEMMA KeepsWrites ==
    ASSUME Serial, SerialInv, Host
    PROVE  WritesOK'
<1>0. /\ Holds \/ Pauses \/ Ends \/ Begins
      /\ cur \in Instrs /\ cur.words \in 1..3
  BY HostMoves
<1>1. WritesOK /\ CountsOK BY DEF SerialInv, HostOK
<1> USE DEF WritesOK, NoBus, Opword, Format, bus_write, SameIssue
<1>2. CASE Holds
  BY <1>0, <1>1, <1>2 DEF Holds
<1>3. CASE Pauses
  BY <1>3 DEF Pauses
<1>4. CASE Ends
  BY <1>4 DEF Ends
<1>5. CASE Begins
  <2>1. CASE BeginsIssue
    BY <2>1 DEF BeginsIssue, Opens
  <2>2. CASE BeginsWrite
    BY <2>2 DEF BeginsWrite, Opens
  <2>3. CASE BeginsWord
    <3>1. CASE phase = "operand"
      <4>1. /\ bus'.op = "write" /\ bus'.addr = "OPERAND" /\ sent' = sent + 1
            /\ bus'.data = Word(cur.n, sent) /\ UNCHANGED cur
            /\ phase' = IF sent + 1 = cur.words THEN "poll" ELSE "operand"
        BY <2>3, <3>1 DEF BeginsWord, Opens
      <4>2. sent' - 1 = sent /\ sent' \in 1..cur.words
        BY <1>0, <1>1, <3>1, <4>1 DEF CountsOK
      <4> QED BY <4>1, <4>2
    <3>2. CASE phase # "operand"
      BY <1>1, <2>3, <3>2 DEF BeginsWord, Opens, CountsOK
    <3> QED BY <3>1, <3>2
  <2>4. CASE BeginsRead
    BY <2>4 DEF BeginsRead, Opens
  <2> QED BY <1>5, <2>1, <2>2, <2>3, <2>4 DEF Begins
<1> QED
  BY <1>0, <1>2, <1>3, <1>4, <1>5

LEMMA KeepsCounts ==
    ASSUME Serial, SerialInv, Framed, Host
    PROVE  CountsOK' /\ Framed'
<1>0. /\ Holds \/ Pauses \/ Ends \/ Begins
      /\ cur \in Instrs /\ cur.words \in 1..3
  BY HostMoves
<1>1. CountsOK /\ CycleOK /\ WritesOK BY DEF SerialInv, HostOK
<1>2. phase = "saved" /\ bus.left <= 2 => d_out \in {<<"SAVE", "null">>, <<"SAVE", "idle">>}
  BY DEF SerialInv, AnswersOK
<1> USE HostAssumption, DialogAssumption DEF CountsOK, NoBus, SameIssue, Framed
<1>3. CASE Holds
  BY <1>0, <1>1, <1>3 DEF Holds
<1>4. CASE Pauses
  BY <1>1, <1>4 DEF Pauses
<1>5. CASE Ends
  <2>1. CASE phase = "saved"
    <3>1. sent' = 0 /\ frame'.words = <<>> /\ frame'.kind = d_out[2] /\ UNCHANGED resume
          /\ phase' = IF d_out[2] = "null" THEN "save_done" ELSE "save_words"
      BY <1>1, <1>5, <2>1 DEF Ends, Told, CycleOK, RestPhases
    <3>2. frame'.kind \in {"null", "idle"}
      BY <1>2, <1>5, <2>1, <3>1 DEF Ends
    <3>3. Len(<<>>) = 0 /\ <<>> \in Seq({0})
      BY EmptySeq
    <3> QED BY <1>1, <3>1, <3>2, <3>3
  <2>2. CASE phase = "save_word"
    <3>1. /\ sent' = sent + 1 /\ frame'.kind = frame.kind /\ UNCHANGED resume
          /\ \E w : frame'.words = Append(frame.words, w)
          /\ phase' = IF sent + 1 = FrameWords THEN "save_done" ELSE "save_words"
      BY <1>1, <1>5, <2>2 DEF Ends, Told, CycleOK, RestPhases
    <3>2. PICK w, S : frame'.words = Append(frame.words, w) /\ frame.words \in Seq(S)
      BY <3>1
    <3>3. frame.words \in Seq(S \cup {w})
      BY <3>2, SeqMonotonic
    <3>4. Len(frame'.words) = Len(frame.words) + 1 /\ frame'.words \in Seq(S \cup {w})
      BY <3>2, <3>3, AppendProperties
    <3> QED BY <1>1, <2>2, <3>1, <3>4
  <2>3. CASE phase \notin {"saved", "save_word"}
    <3>1. UNCHANGED <<frame, cur, resume>>
      BY <1>5, <2>3 DEF Ends, Told
    <3>2. phase' \in {"operand", "fetch", "fetched", "save_words", "save_word", "restore_words",
                      "restored"} =>
            \/ UNCHANGED <<phase, sent>> /\ bus.op = "write"
            \/ phase' \in {"operand", "fetch"} /\ sent' = 0
            \/ phase' = "fetch" /\ phase = "fetched" /\ sent' = sent + 1 /\ sent + 1 # cur.words
            \/ phase' = "restored" /\ phase = "restored?" /\ sent' = sent
      BY <1>1, <1>5, <2>3 DEF Ends, Told
    <3>3. Framed' BY <1>1, <3>1
    <3>4. CASE UNCHANGED <<phase, sent>>
      BY <1>1, <3>1, <3>3, <3>4
    <3>5. CASE phase' \in {"operand", "fetch"} /\ sent' = 0
      BY <1>0, <1>1, <3>1, <3>3, <3>5
    <3>6. CASE phase' = "fetch" /\ phase = "fetched" /\ sent' = sent + 1 /\ sent + 1 # cur.words
      BY <1>0, <1>1, <3>1, <3>3, <3>6
    <3>7. CASE phase' = "restored" /\ phase = "restored?" /\ sent' = sent
      BY <1>1, <3>1, <3>3, <3>7
    <3>8. CASE phase' \notin {"operand", "fetch", "fetched", "save_words", "save_word",
                               "restore_words", "restored", "restored?"}
      BY <1>1, <3>1, <3>3, <3>8
    <3>9. phase' = "restored?" => UNCHANGED <<phase, sent>>
      BY <1>1, <1>5, <2>3 DEF Ends, Told, CycleOK
    <3> QED BY <3>2, <3>4, <3>5, <3>6, <3>7, <3>8, <3>9
  <2> QED BY <2>1, <2>2, <2>3
<1>6. CASE Begins
  <2>1. CASE BeginsIssue
    BY <1>1, <2>1 DEF BeginsIssue
  <2>2. CASE BeginsWrite
    BY <1>1, <2>2 DEF BeginsWrite
  <2>3. CASE BeginsWord
    BY <1>0, <1>1, <2>3 DEF BeginsWord
  <2>4. CASE BeginsRead
    BY <1>1, <2>4 DEF BeginsRead
  <2> QED BY <1>6, <2>1, <2>2, <2>3, <2>4 DEF Begins
<1> QED
  BY <1>0, <1>3, <1>4, <1>5, <1>6

-----------------------------------------------------------------------------
(* What one clock loads into the registers of the interface *)

\* The flags of cir_write_proc.
LEMMA WriteRegisters ==
    ASSUME cir_write_proc
    PROVE  /\ opword_written' = (bus_write("OPWORD") \/ Cleared(opword_written))
           /\ command_written' = (bus_write("COMMAND") \/ Cleared(command_written))
           /\ condition_written' = (bus_write("CONDITION") \/ Cleared(condition_written))
           /\ instr_type' = IF bus_write("OPWORD") THEN bus.data ELSE instr_type
           /\ command' = IF bus_write("COMMAND") THEN bus.data ELSE command
           /\ control_ack' = bus_write("CONTROL")
           /\ write_prev' = bus_write("OPERAND") /\ read_prev' = bus_read("OPERAND")
           /\ save_prev' = bus_read("SAVE")
           /\ word_arrived' = (wrote /\ cir_state \in {"XFER_SRC", "PENDING_XFER_SRC",
                                                "RESTORE_FRAME"})
           /\ read_done' = /\ bus_read("OPERAND") /\ ~read_prev
                           /\ cir_state \in {"XFER_DST", "SAVE_FRAME"}
           /\ save_read_done' = (bus_read("SAVE") /\ ~save_prev /\ cir_state = "SAVE_FORMAT")
           /\ staging' =
                IF wrote /\ cir_state = "XFER_SRC" THEN [staging EXCEPT ![word_idx] = bus.data]
                ELSE IF cir_state = "XFER_DST" /\ word_idx = 0 /\ ~read_done
                THEN [k \in WordIdx |-> IF k < command.words THEN Word(fp_reg[command.dst], k)
                                        ELSE staging[k]]
                ELSE staging
BY DEF cir_write_proc, WrittenFlags, OperandAccess

\* The operands, the launch and the write-back of alu_control_proc.
LEMMA ControlRegisters ==
    ASSUME alu_control_proc, ~pending_launch
    PROVE  /\ operand' = IF launch_alu /\ instr_type # "cpCOND"
                         THEN <<fp_reg[command.dst],
                                IF command.shape = "reg" THEN fp_reg[command.src]
                                ELSE Converted(staging, command.words)>>
                         ELSE IF commit_req /\ restore_kind = "busy" THEN frame_header
                         ELSE operand
           /\ op_sel' = IF launch_alu /\ instr_type # "cpCOND" THEN command ELSE op_sel
           /\ op_start' <=> launch_alu /\ instr_type # "cpCOND" /\ ~command.move
           /\ launch_dst' = IF launch_alu THEN command.dst ELSE launch_dst
           /\ arith_active' <=> /\ ~(valid /\ arith_active)
                                /\ \/ arith_active
                                   \/ launch_alu /\ instr_type # "cpCOND" /\ ~command.move
           /\ move_pending' <=> /\ launch_alu /\ instr_type # "cpCOND"
                                /\ command.move /\ ~move_pending
           /\ ~(valid /\ arith_active) /\ ~move_pending => fp_reg' = fp_reg
           /\ valid /\ arith_active /\ ~move_pending =>
                fp_reg' = [fp_reg EXCEPT ![launch_dst] = result.val]
           /\ ~(valid /\ arith_active) /\ move_pending =>
                fp_reg' = [fp_reg EXCEPT ![command.dst] = operand[2]]
           /\ restore_trigger' = bus_write("RESTORE")
           /\ restore_kind' = IF bus_write("RESTORE") THEN bus.data ELSE restore_kind
<1> USE DEF alu_control_proc, general, issued
<1>1. /\ operand' = IF launch_alu /\ instr_type # "cpCOND"
                         THEN <<fp_reg[command.dst],
                                IF command.shape = "reg" THEN fp_reg[command.src]
                                ELSE Converted(staging, command.words)>>
                         ELSE IF commit_req /\ restore_kind = "busy" THEN frame_header
                         ELSE operand
      /\ op_sel' = IF launch_alu /\ instr_type # "cpCOND" THEN command ELSE op_sel
  BY DEF OperandLoad
<1>2. /\ op_start' <=> launch_alu /\ instr_type # "cpCOND" /\ ~command.move
      /\ launch_dst' = IF launch_alu THEN command.dst ELSE launch_dst
      /\ arith_active' <=> /\ ~(valid /\ arith_active)
                           /\ \/ arith_active
                              \/ launch_alu /\ instr_type # "cpCOND" /\ ~command.move
      /\ move_pending' <=> /\ launch_alu /\ instr_type # "cpCOND"
                           /\ command.move /\ ~move_pending
  BY DEF Issue
<1>3. /\ ~(valid /\ arith_active) /\ ~move_pending => fp_reg' = fp_reg
      /\ valid /\ arith_active /\ ~move_pending =>
                fp_reg' = [fp_reg EXCEPT ![launch_dst] = result.val]
      /\ ~(valid /\ arith_active) /\ move_pending =>
                fp_reg' = [fp_reg EXCEPT ![command.dst] = operand[2]]
  BY DEF WriteBack
<1>4. /\ restore_trigger' = bus_write("RESTORE")
      /\ restore_kind' = IF bus_write("RESTORE") THEN bus.data ELSE restore_kind
  BY DEF FrameState
<1> QED
  BY <1>1, <1>2, <1>3, <1>4

\* The handshake of the ALU.
LEMMA AluRegisters ==
    ASSUME mc68881_alu
    PROVE  /\ ~alu_busy /\ ~op_start => ~alu_busy' /\ ~valid' /\ UNCHANGED <<alu_job, result>>
           /\ ~alu_busy /\ op_start =>
                alu_busy' /\ ~valid' /\ alu_job' = Compute(op_sel, operand)
           /\ alu_busy => /\ alu_job' = alu_job
                          /\ \/ alu_busy' /\ ~valid'
                             \/ ~alu_busy' /\ valid' /\ result' = alu_job
BY DEF mc68881_alu, AluIdle, AluStart, AluWork, AluDone

\* What the host reads: the data of the first clock of its access.
LEMMA ReadRegisters ==
    ASSUME alu_control_proc
    PROVE  /\ ~bus.first => d_out' = d_out
           /\ bus.first /\ bus_read("RESPONSE") => d_out' = <<"RESPONSE", response>>
           /\ bus.first /\ bus_read("SAVE") => d_out' = <<"SAVE", frame_kind>>
           /\ bus.first /\ bus_read("OPERAND") /\ cir_state \in {"XFER_DST", "XFER_DST_WAIT"} =>
                d_out' = <<"OPERAND", staging[word_idx]>>
           /\ launch_alu /\ instr_type = "cpCOND" =>
                /\ response' \in {"COND", "COND_TRAP"} /\ response_pending'
                /\ trap_pending' <=> response' = "COND_TRAP"
           /\ ~(launch_alu /\ instr_type = "cpCOND") =>
                /\ response' = IF response_pending THEN response ELSE cir_response_prim
                /\ response_pending' <=> response_pending /\ ~bus_read("RESPONSE")
                /\ trap_pending' <=> trap_pending /\ ~(/\ bus_read("RESPONSE")
                                        /\ cir_state \notin {"COND_WAIT", "COND_CHECK"})
<1>1. ReadPath /\ Respond BY DEF alu_control_proc
<1>2. /\ ~bus.first => d_out' = d_out
      /\ bus.first /\ bus_read("RESPONSE") => d_out' = <<"RESPONSE", response>>
      /\ bus.first /\ bus_read("SAVE") => d_out' = <<"SAVE", frame_kind>>
      /\ bus.first /\ bus_read("OPERAND") /\ cir_state \in {"XFER_DST", "XFER_DST_WAIT"} =>
                d_out' = <<"OPERAND", staging[word_idx]>>
  BY <1>1 DEF ReadPath, operandRead, bus_read
<1> QED
  BY <1>1, <1>2 DEF Respond, conditionalLaunch

\* Each state has its action.
LEMMA StateStep ==
    ASSUME cir_dialog_proc
    PROVE  /\ cir_state = "IDLE" => Idle
           /\ cir_state = "DECODE" => Decode
           /\ cir_state = "XFER_SRC" => XferSrc
           /\ cir_state = "XFER_SRC_WAIT" => XferSrcWait
           /\ cir_state = "XFER_SRC_WAIT2" => XferSrcWait2
           /\ cir_state = "EXECUTE" => Execute
           /\ cir_state = "EXECUTE_DONE" => ExecuteDone
           /\ cir_state = "XFER_DST" => XferDst
           /\ cir_state = "XFER_DST_WAIT" => XferDstWait
           /\ cir_state = "COND_EVAL" => CondEval
           /\ cir_state = "COND_WAIT" => CondWait
           /\ cir_state = "COND_CHECK" => CondCheck
           /\ cir_state \in {"EXCEPT_PRE", "EXCEPT_POST"} => Except
           /\ cir_state = "SAVE_WAIT" => SaveWait
           /\ cir_state = "SAVE_FORMAT" => SaveFormat
           /\ cir_state = "SAVE_FRAME" => SaveFrame
           /\ cir_state = "RESTORE_FORMAT" => RestoreFormat
           /\ cir_state = "RESTORE_FRAME" => RestoreFrame
<1>1. /\ Idle => cir_state = "IDLE"
      /\ Decode => cir_state = "DECODE"
      /\ XferSrc => cir_state = "XFER_SRC"
      /\ XferSrcWait => cir_state = "XFER_SRC_WAIT"
      /\ XferSrcWait2 => cir_state = "XFER_SRC_WAIT2"
      /\ Execute => cir_state = "EXECUTE"
      /\ ExecuteDone => cir_state = "EXECUTE_DONE"
      /\ XferDst => cir_state = "XFER_DST"
      /\ XferDstWait => cir_state = "XFER_DST_WAIT"
      /\ CondEval => cir_state = "COND_EVAL"
      /\ CondWait => cir_state = "COND_WAIT"
      /\ CondCheck => cir_state = "COND_CHECK"
      /\ Except => cir_state \in {"EXCEPT_PRE", "EXCEPT_POST"}
      /\ SaveWait => cir_state = "SAVE_WAIT"
      /\ SaveFormat => cir_state = "SAVE_FORMAT"
      /\ SaveFrame => cir_state = "SAVE_FRAME"
      /\ RestoreFormat => cir_state = "RESTORE_FORMAT"
      /\ RestoreFrame => cir_state = "RESTORE_FRAME"
      /\ PendingDecode => cir_state = "PENDING_DECODE"
      /\ PendingXferSrc => cir_state = "PENDING_XFER_SRC"
      /\ PendingXferSrcWait => cir_state \in {"PENDING_XFER_SRC_WAIT", "PENDING_XFER_SRC_WAIT2"}
      /\ PendingXferSrcWait3 => cir_state = "PENDING_XFER_SRC_WAIT3"
  BY DEF Idle, Decode, XferSrc, XferSrcWait, XferSrcWait2, Execute, ExecuteDone, XferDst,
     XferDstWait, CondEval, CondWait, CondCheck, Except, SaveWait, SaveFormat, SaveFrame,
     RestoreFormat, RestoreFrame, PendingDecode, PendingXferSrc, PendingXferSrcWait,
     PendingXferSrcWait3
<1> QED
  BY <1>1 DEF cir_dialog_proc

\* A 68881 never uses the pending slot.
LEMMA KeepsUnused ==
    ASSUME Serial, SerialInv, Next
    PROVE  Unused'
<1>0. /\ Unused /\ WritesOK /\ StateOK /\ ~Is68882 /\ cir_dialog_proc /\ alu_control_proc
  BY DEF SerialInv, HostOK, Next, FpuClock, Serial
<1>1. restore_kind' # "busy"
  BY <1>0, ControlRegisters DEF Unused, WritesOK, Format
<1>2. pending_valid' = FALSE /\ pending_launch' = FALSE /\ pending_skip' = 0
  <2> DEFINE Good == pending_valid' = FALSE /\ pending_launch' = FALSE /\ pending_skip' = 0
  <2>0. pending_valid = FALSE /\ pending_skip = 0 /\ cir_state \in SerialStates /\ ~Is68882
    BY <1>0 DEF Unused, StateOK
  <2> USE DEF pendingVars, Pulse, NoPulse
  <2>1. Idle \/ Decode \/ XferSrc \/ XferSrcWait \/ XferSrcWait2 => Good
    BY <2>0 DEF Idle, Decode, XferSrc, XferSrcWait, XferSrcWait2
  <2>2. ExecuteDone \/ XferDst \/ XferDstWait => Good
    BY <2>0 DEF ExecuteDone, XferDst, XferDstWait
  <2>6. Execute => Good
    <3>1. Execute => pending_valid' = FALSE BY <2>0 DEF Execute
    <3>2. Execute => pending_launch' = FALSE BY <2>0 DEF Execute
    <3>3. Execute => pending_skip' = 0 BY <2>0 DEF Execute
    <3> QED BY <3>1, <3>2, <3>3
  <2>3. CondEval \/ CondWait \/ CondCheck \/ Except => Good
    BY <2>0 DEF CondEval, CondWait, CondCheck, Except
  <2>4. SaveWait \/ SaveFormat \/ SaveFrame => Good
    BY <2>0 DEF SaveWait, SaveFormat, SaveFrame
  <2>5. RestoreFormat \/ RestoreFrame => Good
    BY <2>0 DEF RestoreFormat, RestoreFrame
  <2> QED BY <1>0, <2>0, <2>1, <2>2, <2>3, <2>4, <2>5, <2>6, StateStep DEF SerialStates
<1> QED
  BY <1>1, <1>2 DEF Unused

LEMMA KeepsPrev ==
    ASSUME Serial, SerialInv, Next
    PROVE  PrevOK'
<1>1. /\ Holds \/ Pauses \/ Ends \/ Begins
      /\ bus'.first <=> NoBus /\ bus'.op # "none"
  BY HostMoves DEF Next
<1>2. /\ write_prev' = bus_write("OPERAND") /\ read_prev' = bus_read("OPERAND")
      /\ save_prev' = bus_read("SAVE")
  BY WriteRegisters DEF Next, FpuClock
<1>3. bus'.op # "none" /\ ~NoBus => bus'.op = bus.op /\ bus'.addr = bus.addr
  BY <1>1 DEF Holds, Pauses, Ends, Begins, BeginsIssue, BeginsWrite, BeginsWord, BeginsRead,
     Opens
<1> QED
  BY <1>1, <1>2, <1>3 DEF PrevOK, bus_write, bus_read, NoBus

\* With nothing under way the ALU and the registers stay as they are.
LEMMA StillStays ==
    ASSUME FpuClock, Unused, Still
    PROVE  /\ fp_reg' = fp_reg /\ op_start' = FALSE /\ alu_busy' = FALSE /\ valid' = FALSE
           /\ arith_active' = FALSE /\ move_pending' = FALSE
BY ControlRegisters, AluRegisters DEF FpuClock, Unused, Still

\* Only the issue of an instruction changes what is owed.
LEMMA IssueOnly ==
    ASSUME Serial, SerialInv, Host
    PROVE  /\ BeginsIssue \/ SameIssue
           /\ BeginsIssue => phase = "free" /\ NoBus
           /\ phase # "free" \/ ~NoBus => cur' = cur /\ golden' = golden
BY HostMoves DEF Holds, Pauses, Ends, Begins, BeginsWrite, BeginsWord, BeginsRead, BeginsIssue,
   Opens, NoBus, SameIssue

-----------------------------------------------------------------------------
(* Steps from IDLE *)

\* What a step from IDLE can see.
LEMMA IdleFacts ==
    ASSUME Serial, SerialInv, Next, cir_state = "IDLE"
    PROVE  /\ cir_state' = IF opword_written /\ instr_type = "cpRESTORE" THEN "RESTORE_FORMAT"
                           ELSE IF opword_written /\ instr_type = "cpSAVE" THEN "SAVE_WAIT"
                           ELSE IF opword_written /\ condition_written /\ instr_type = "cpCOND"
                           THEN "COND_EVAL"
                           ELSE IF command_written /\ (~opword_written \/ instr_type = "cpGEN")
                           THEN "DECODE" ELSE "IDLE"
           /\ launch_alu' = FALSE
           /\ flags_consumed' <=> opword_written /\ instr_type = "undefined"
           /\ IdleOK /\ IdleWhere /\ IdleFlags /\ CycleOK /\ WritesOK /\ CountsOK /\ Unused
           /\ Holds \/ Pauses \/ Ends \/ Begins
           /\ bus'.first <=> NoBus /\ bus'.op # "none"
           /\ opword_written' <=> bus_write("OPWORD") \/ (opword_written /\ ~flags_consumed)
           /\ command_written' <=> bus_write("COMMAND") \/ (command_written /\ ~flags_consumed)
           /\ condition_written' <=>
                bus_write("CONDITION") \/ (condition_written /\ ~flags_consumed)
           /\ instr_type' = IF bus_write("OPWORD") THEN bus.data ELSE instr_type
           /\ command' = IF bus_write("COMMAND") THEN bus.data ELSE command
<1>1. Idle /\ cir_write_proc
  BY StateStep DEF Next, FpuClock
<1>2. /\ opword_written' <=> bus_write("OPWORD") \/ (opword_written /\ ~flags_consumed)
      /\ command_written' <=> bus_write("COMMAND") \/ (command_written /\ ~flags_consumed)
      /\ condition_written' <=>
                bus_write("CONDITION") \/ (condition_written /\ ~flags_consumed)
      /\ instr_type' = IF bus_write("OPWORD") THEN bus.data ELSE instr_type
      /\ command' = IF bus_write("COMMAND") THEN bus.data ELSE command
  BY <1>1, WriteRegisters DEF Cleared
<1>3. /\ IdleOK /\ IdleWhere /\ IdleFlags /\ CycleOK /\ WritesOK /\ CountsOK /\ Unused
      /\ Holds \/ Pauses \/ Ends \/ Begins
      /\ bus'.first <=> NoBus /\ bus'.op # "none"
  BY HostMoves DEF SerialInv, HostOK, StateOK, IdleOK, Next
<1>4. /\ launch_alu' = FALSE
      /\ flags_consumed' <=> opword_written /\ instr_type = "undefined"
  BY <1>1 DEF Idle, Pulse
<1>5. cir_state' = IF opword_written /\ instr_type = "cpRESTORE" THEN "RESTORE_FORMAT"
                           ELSE IF opword_written /\ instr_type = "cpSAVE" THEN "SAVE_WAIT"
                           ELSE IF opword_written /\ condition_written /\ instr_type = "cpCOND"
                           THEN "COND_EVAL"
                           ELSE IF command_written /\ (~opword_written \/ instr_type = "cpGEN")
                           THEN "DECODE" ELSE "IDLE"
  BY <1>1 DEF Idle, Goto
<1> QED
  BY <1>2, <1>3, <1>4, <1>5

\* A step that stays in IDLE finds the host in a place that belongs there: the
\* host has not begun what takes the dialog out of IDLE.
LEMMA IdleWhereStays ==
    ASSUME Serial, SerialInv, Next, cir_state = "IDLE", cir_state' = "IDLE"
    PROVE  IdleWhere'
<1>0. /\ IdleOK /\ IdleWhere /\ IdleFlags /\ CycleOK /\ WritesOK /\ CountsOK
      /\ Holds \/ Pauses \/ Ends \/ Begins
      /\ ~(opword_written /\ instr_type \in {"cpRESTORE", "cpSAVE"})
      /\ ~(opword_written /\ condition_written /\ instr_type = "cpCOND")
      /\ ~(command_written /\ (~opword_written \/ instr_type = "cpGEN"))
  BY IdleFacts
<1>1. /\ AnswersOK /\ cur.words \in 1..3
      /\ ~bus.first => d_out' = d_out
  BY HostMoves, ReadRegisters DEF SerialInv, Next, FpuClock
<1> USE DEF IdleWhere, NoBus, bus_write
<1>2. CASE Holds
  <2>1. bus_write("COMMAND") \/ bus_write("CONDITION") => bus.left # 2
    <3>1. bus_write("COMMAND") => (command_written <=> bus.left = 2) /\ instr_type # "cpCOND"
      BY <1>0 DEF IdleFlags, IdleOK
    <3>2. bus_write("CONDITION") => (condition_written <=> bus.left = 2) /\ opword_written
                                   /\ instr_type = "cpCOND"
      BY <1>0 DEF IdleFlags
    <3>3. bus_write("COMMAND") /\ opword_written => instr_type = "cpGEN"
      BY <1>0, <3>1 DEF IdleFlags, WritesOK
    <3> QED BY <1>0, <3>1, <3>2, <3>3
  <2>2. phase \in {"save", "restore"} /\ bus.op = "write" => bus.left # 2
    BY <1>0 DEF CycleOK, IdleFlags, WritesOK, Opword
  <2>3. phase = "opword" /\ bus.op = "write" => bus_write("COMMAND")
    BY <1>0 DEF CycleOK, WritesOK
  <2>4. phase' = phase /\ sent' = sent /\ cur' = cur /\ bus'.op = bus.op /\ bus'.addr = bus.addr
        /\ bus.left > 1 /\ bus'.left = bus.left - 1 /\ bus.op \in {"read", "write"}
    BY <1>0, <1>2 DEF Holds, SameIssue, CycleOK, IsBus
  <2>5. bus.op = "write" => bus.left \in 2..3
    BY <1>0, <2>4 DEF CycleOK
  <2>6. bus.op = "read" => bus.left \in 2..4 /\ (bus.left # 4 => d_out' = d_out)
    BY <1>0, <1>1, <2>4 DEF CycleOK
  <2> HIDE DEF bus_write
  <2>7. CASE bus.op = "write"
    BY <1>0, <2>1, <2>2, <2>3, <2>4, <2>5, <2>7 DEF bus_write, CycleOK, RestPhases
  <2>8. CASE bus.op = "read"
    BY <1>0, <2>4, <2>6, <2>8 DEF bus_write, CycleOK, ReadPhases
  <2> QED BY <2>4, <2>7, <2>8
<1>3. CASE Pauses
  BY <1>0, <1>3 DEF Pauses, CycleOK, RestPhases
<1>4. CASE Ends
  <2>1. phase = "polled" => ~Told("EXCEPT") /\ ~Told("COND_TRAP") /\ ~Told("TO_CP") /\ ~Told("FROM_CP")
    BY <1>1, <1>4 DEF AnswersOK, Truth, Ends, Told
  <2>2. phase # "refused?"
    BY <1>1 DEF AnswersOK
  <2>3. bus.op = "write" => phase \in RestPhases
    BY <1>0 DEF CycleOK
  <2>4. bus.op = "none" \/ bus.op = "read" \/ bus.op = "write"
    BY <1>0 DEF CycleOK, IsBus
  <2>5. bus'.op = "none" /\ bus.left = 1 /\ bus.op # "none"
    BY <1>4 DEF Ends
  <2>6. CASE bus.op = "write" /\ UNCHANGED <<phase, sent, frame>>
    BY <1>0, <2>3, <2>5, <2>6 DEF RestPhases
  <2>7. CASE phase' \in {"busy", "free", "save_done", "away", "restored"}
    BY <2>5, <2>7
  <2>8. phase \in {"fetched", "saved", "save_word"} => phase' \in {"poll", "save_done"}
    BY <1>0, <1>4, <2>5 DEF Ends, Told, CycleOK, RestPhases
  <2> QED BY <1>4, <2>1, <2>2, <2>5, <2>6, <2>7, <2>8, <1>0 DEF Ends, Told, CountsOK
<1>5. CASE Begins
  <2>1. CASE BeginsIssue
    BY <2>1 DEF BeginsIssue, Opens
  <2>2. CASE BeginsWrite
    BY <1>0, <2>2 DEF BeginsWrite, Opens
  <2>3. CASE BeginsWord
    BY <1>0, <2>3 DEF BeginsWord, Opens
  <2>4. CASE BeginsRead
    BY <1>0, <2>4 DEF BeginsRead, Opens
  <2> QED BY <1>5, <2>1, <2>2, <2>3, <2>4 DEF Begins
<1> QED
  BY <1>0, <1>2, <1>3, <1>4, <1>5

\* What the clock leaves of the flags, and what it must not have seen.
LEMMA IdleFlagsStay ==
    ASSUME Serial, SerialInv, Next, cir_state = "IDLE", cir_state' = "IDLE"
    PROVE  IdleFlags'
<1>0. /\ IdleOK /\ IdleWhere /\ IdleFlags /\ CycleOK /\ WritesOK /\ CountsOK
      /\ Holds \/ Pauses \/ Ends \/ Begins
      /\ ~(opword_written /\ instr_type \in {"cpRESTORE", "cpSAVE"})
      /\ ~(opword_written /\ condition_written /\ instr_type = "cpCOND")
      /\ ~(command_written /\ (~opword_written \/ instr_type = "cpGEN"))
  BY IdleFacts
<1>1. /\ flags_consumed' <=> opword_written /\ instr_type = "undefined"
      /\ opword_written' <=> bus_write("OPWORD") \/ (opword_written /\ ~flags_consumed)
      /\ command_written' <=> bus_write("COMMAND") \/ (command_written /\ ~flags_consumed)
      /\ condition_written' <=>
                bus_write("CONDITION") \/ (condition_written /\ ~flags_consumed)
      /\ instr_type' = IF bus_write("OPWORD") THEN bus.data ELSE instr_type
  BY IdleFacts
<1>2. ~command_written
  BY <1>0 DEF IdleFlags, CycleOK, WritesOK, bus_write, NoBus
<1>3. ~condition_written
  BY <1>0 DEF IdleFlags
<1>4. bus_write("COMMAND") => bus.left = 3
  BY <1>0, <1>2 DEF IdleFlags, IdleWhere, CycleOK, WritesOK, bus_write, NoBus
<1>5. bus_write("CONDITION") => bus.left = 3
  BY <1>0, <1>3 DEF IdleFlags, IdleWhere, CycleOK, WritesOK, bus_write, NoBus
<1>6. bus_write("OPWORD") => bus.data = Opword /\ (phase \in {"save", "restore"} => bus.left = 3)
  BY <1>0 DEF IdleFlags, IdleWhere, CycleOK, WritesOK, bus_write, NoBus, Opword
<1>7. /\ bus_write("OPWORD") => phase \in {"free", "command", "condition", "save", "restore", "poll"}
      /\ bus_write("CONDITION") => phase = "poll"
      /\ phase = "condition" /\ bus.op = "write" => bus.addr = "OPWORD"
      /\ phase = "command" /\ bus.op = "write" => bus.addr = "OPWORD"
      /\ phase \in {"condition", "command"} => bus.op # "read"
  BY <1>0 DEF CycleOK, WritesOK, bus_write, ReadPhases
<1> USE DEF IdleFlags, NoBus, bus_write, Opword
<1>8. CASE Holds
  <2>1. phase' = phase /\ bus'.op = bus.op /\ bus'.addr = bus.addr
        /\ bus.op # "none" /\ bus.left > 1 /\ bus'.left = bus.left - 1 /\ bus.left \in Nat
    BY <1>0, <1>8 DEF Holds, SameIssue, CycleOK, IsBus
  <2>2. bus.op = "write" => bus.left \in 2..3
    BY <1>0, <2>1 DEF CycleOK
  <2>3. /\ bus_write("COMMAND")' => (command_written' <=> bus'.left = 2)
        /\ command_written' => bus_write("COMMAND")'
        /\ condition_written' <=> bus_write("CONDITION")' /\ bus'.left = 2
    BY <1>1, <1>2, <1>3, <1>4, <1>5, <2>1
  <2>4. /\ bus_write("OPWORD")' /\ bus'.left <= 2 => opword_written' /\ instr_type' = Opword'
        /\ phase' = "command" /\ NoBus' => instr_type' = "cpGEN"
    BY <1>1, <1>6, <2>1
  <2>5. /\ (phase' = "condition" /\ NoBus') \/ bus_write("CONDITION")' =>
             opword_written' /\ instr_type' = "cpCOND"
        /\ (phase' = "condition" /\ (NoBus' \/ bus'.left <= 2)) \/ bus_write("CONDITION")' =>
             ~flags_consumed'
    BY <1>0, <1>1, <1>7, <2>1, <2>2
  <2>6. opword_written' =>
         \/ instr_type' = "cpGEN"
         \/ instr_type' = "cpCOND" /\ (phase' = "condition" \/ bus_write("CONDITION")')
         \/ /\ instr_type' = "undefined" /\ phase' = "free"
            /\ (bus_write("OPWORD")' /\ bus'.left <= 2) \/ (NoBus' /\ flags_consumed')
         \/ instr_type' = "cpSAVE" /\ phase' = "save" /\ bus'.left = 2
         \/ instr_type' = "cpRESTORE" /\ phase' = "restore" /\ bus'.left = 2
    BY <1>0, <1>1, <1>6, <1>7, <2>1, <2>2
  <2> QED BY <2>3, <2>4, <2>5, <2>6
<1>9. CASE Pauses
  <2>1. phase' = phase /\ bus'.op = "none" /\ bus.op = "none"
    BY <1>9 DEF Pauses
  <2> QED BY <1>0, <1>1, <1>2, <1>3, <2>1
<1>10. CASE Ends
  <2>1. bus.op # "none" /\ bus.left = 1 /\ bus'.op = "none"
        /\ (phase' = phase \/ (bus.op = "read" /\ phase' \notin {"free", "condition", "command"})
             \/ (bus.op = "read" /\ phase' = "free"))
    BY <1>0, <1>10, <1>7 DEF Ends, Told, CycleOK, RestPhases, CountsOK
  <2>2. CASE bus.op = "read"
    BY <1>0, <1>1, <1>2, <1>3, <1>7, <2>1, <2>2
  <2>3. CASE bus.op = "write"
    BY <1>0, <1>1, <1>2, <1>3, <1>4, <1>5, <1>6, <1>7, <2>1, <2>3
  <2>4. bus.op \in {"none", "read", "write"}
    BY <1>0 DEF CycleOK, IsBus
  <2> QED BY <2>1, <2>2, <2>3, <2>4
<1>11. CASE Begins
  <2>1. bus.op = "none"
    BY <1>11 DEF Begins, BeginsIssue, BeginsWrite, BeginsWord, BeginsRead, Opens
  <2>2. (bus'.op = "write" /\ bus'.left = 3) \/ (bus'.op = "read" /\ bus'.left = 4)
    BY <1>11, Opening
  <2>3. bus_write("CONDITION")' => phase = "condition"
    BY <1>11 DEF Begins, BeginsIssue, BeginsWrite, BeginsWord, BeginsRead, Opens
  <2>4. phase = "condition" => bus_write("CONDITION")'
    BY <1>11 DEF Begins, BeginsIssue, BeginsWrite, BeginsWord, BeginsRead, Opens
  <2> QED BY <1>0, <1>1, <1>2, <1>3, <2>1, <2>2, <2>3, <2>4
<1> QED
  BY <1>0, <1>8, <1>9, <1>10, <1>11

\* A host that waits goes on waiting until an answer is in.
LEMMA WaitingGoes ==
    ASSUME Serial, SerialInv, Host, Waiting
    PROVE  /\ SameIssue /\ (phase # "polled" \/ bus.left # 1 => sent' = sent /\ frame' = frame)
           /\ bus.op = "write" => bus.addr = "OPWORD" /\ phase = "poll"
           /\ bus'.op = "write" => bus'.addr = "OPWORD"
           /\ NoBus /\ NoBus' => phase' = phase
           /\ cur' = cur /\ golden' = golden
           /\ Waiting' \/ (phase = "polled" /\ bus.left = 1)
           /\ phase = "polled" /\ bus.left # 1 => phase' = "polled" /\ bus'.left = bus.left - 1
                                                 /\ bus.left \in 2..4 /\ ~bus'.first
           /\ phase' = "polled" /\ phase # "polled" => bus'.left = 4 /\ bus.op = "none"
           /\ NoBus => NoBus' \/ bus'.first
           /\ phase' = "polled" /\ phase = "polled" => bus'.left = bus.left - 1 /\ bus.left > 1
<1>0. /\ CycleOK /\ WritesOK
      /\ Holds \/ Pauses \/ Ends \/ Begins
      /\ bus'.first <=> NoBus /\ bus'.op # "none"
  BY HostMoves DEF SerialInv, HostOK
<1>1. phase = "polled" => bus.op = "read" /\ bus.left \in 1..4
  BY <1>0 DEF CycleOK, RestPhases, NoBus, IsBus
<1>2. phase \in {"opword", "busy", "poll", "polled"}
  BY DEF Waiting
<1> USE DEF NoBus, SameIssue, Waiting, bus_write
<1>3. CASE Holds
  BY <1>0, <1>1, <1>3 DEF Holds
<1>4. CASE Pauses
  BY <1>0, <1>1, <1>4 DEF Pauses
<1>5. CASE Ends
  BY <1>0, <1>1, <1>5 DEF Ends, Told, CycleOK, RestPhases, WritesOK
<1>6. CASE Begins
  <2>1. CASE BeginsIssue
    BY <1>2, <2>1 DEF BeginsIssue
  <2>2. CASE BeginsWrite
    BY <1>0, <1>1, <1>2, <2>2 DEF BeginsWrite, Opens
  <2>3. CASE BeginsWord
    BY <1>2, <2>3 DEF BeginsWord
  <2>4. CASE BeginsRead
    BY <1>0, <1>1, <1>2, <2>4 DEF BeginsRead, Opens
  <2> QED BY <1>6, <2>1, <2>2, <2>3, <2>4 DEF Begins
<1> QED
  BY <1>0, <1>3, <1>4, <1>5, <1>6

\* The words of a value convert to it.
LEMMA WordsConvert ==
    ASSUME NEW words, NEW w \in 1..3, NEW v, \A k \in 0..w-1 : words[k] = Word(v, k)
    PROVE  Converted(words, w) = v
<1>1. 0 \in 0..w-1 /\ words[0] = Word(v, 0) /\ words[0].of = v
  BY DEF Word
<1> QED
  BY <1>1 DEF Converted

\* A move under way is written to its register, or decoded a second time.
LEMMA FromIdleMoving ==
    ASSUME Serial, SerialInv, Next, cir_state = "IDLE", launch_alu \/ move_pending
    PROVE  StateOK'
<1>0. /\ IdleOK /\ IdleFlags /\ CycleOK /\ WritesOK /\ CountsOK /\ Unused /\ Moving
      /\ FpuClock /\ Host /\ cir_write_proc /\ alu_control_proc /\ mc68881_alu
  BY IdleFacts DEF IdleOK, Next, FpuClock
<1>1. /\ ~op_start /\ ~alu_busy /\ ~valid /\ ~arith_active /\ Waiting /\ command = cur
      /\ cur.move /\ cur.n # 0 /\ Owed /\ cur.shape \in {"reg", "load"}
      /\ phase = "polled" => bus.left >= IF launch_alu THEN 3 ELSE 2
  BY <1>0 DEF Moving, IdleOK
<1>2. /\ cur' = cur /\ golden' = golden /\ Waiting'
      /\ phase = "polled" => phase' = "polled" /\ bus'.left = bus.left - 1
      /\ phase' = "polled" /\ phase # "polled" => bus'.left = 4
      /\ NoBus => (NoBus' /\ phase' = phase) \/ bus'.first
  BY <1>0, <1>1, WaitingGoes
<1>3. ~bus_write("COMMAND") /\ ~bus_write("CONDITION") /\ ~bus_write("COMMAND")' /\ command' = command
  BY <1>0, <1>1, WaitingGoes, IdleFacts DEF bus_write
<1>4. ~condition_written /\ (opword_written => instr_type = "cpGEN")
      /\ (command_written => launch_alu /\ cur.shape = "reg" /\ NoBus /\ phase \in {"opword", "poll"})
  BY <1>0, <1>1, <1>3 DEF IdleFlags, Waiting
<1>5. cir_state' = IF command_written THEN "DECODE" ELSE "IDLE"
  BY <1>4, IdleFacts
<1>6. launch_alu' = FALSE /\ alu_busy' = FALSE /\ valid' = FALSE
  BY <1>0, <1>1, IdleFacts, AluRegisters
<1>7. CASE launch_alu
  <2>1. ~move_pending /\ instr_type # "cpCOND" /\ ~pending_launch
    BY <1>0, <1>7 DEF Moving, Unused
  <2>2. /\ fp_reg' = fp_reg /\ ~op_start' /\ ~arith_active' /\ move_pending'
        /\ operand'[2] = IF command.shape = "reg" THEN fp_reg[command.src]
                         ELSE Converted(staging, command.words)
    <3>1. /\ fp_reg' = fp_reg /\ ~op_start' /\ ~arith_active' /\ move_pending'
      BY <1>0, <1>1, <1>7, <2>1, ControlRegisters
    <3>2. operand' = <<fp_reg[command.dst], IF command.shape = "reg" THEN fp_reg[command.src]
                         ELSE Converted(staging, command.words)>>
      BY <1>0, <1>1, <1>7, <2>1, ControlRegisters
    <3> QED BY <3>1, <3>2
  <2>3. operand'[2] = cur.want[2]
    <3>1. CASE cur.shape = "reg"
      BY <1>0, <1>1, <2>2, <3>1 DEF Moving
    <3>2. CASE cur.shape = "load"
      <4>1. Staged(cur.n) /\ cur.want[2] = cur.n /\ cur.words \in 1..3
        BY <1>0, <1>7, <3>2, HostMoves DEF Moving, IdleOK
      <4> QED BY <1>1, <2>2, <3>2, <4>1, WordsConvert DEF Staged
    <3> QED BY <1>1, <3>1, <3>2
  <2>4. Owed' /\ cur'.move /\ cur'.n # 0 /\ command' = cur' /\ Waiting'
        /\ (cur'.shape = "reg" \/ cur'.shape = "load")
        /\ (cur'.shape = "reg" => fp_reg'[cur'.src] = cur'.want[2])
        /\ (cur'.shape = "load" => cur'.want[2] = cur'.n)
    BY <1>0, <1>1, <1>2, <1>3, <2>2 DEF Owed, Moving, Outcome
  <2>5. Moving'
    BY <1>2, <1>6, <2>2, <2>3, <2>4 DEF Moving
  <2>6. CASE command_written
    <3>1. cir_state' = "DECODE" /\ NoBus /\ phase \in {"opword", "poll"} /\ cur.shape = "reg"
      BY <1>4, <1>5, <2>6
    <3>2. instr_type' = instr_type /\ (opword_written' => instr_type' = "cpGEN")
      BY <1>4, <3>1, IdleFacts DEF bus_write, NoBus
    <3>3. (NoBus' /\ phase' \in {"opword", "poll"}) \/ (bus'.first /\ Waiting')
      BY <1>2, <3>1 DEF NoBus, Waiting
    <3>4. DecodeOK'
      BY <1>2, <1>6, <2>1, <2>2, <2>4, <2>5, <3>1, <3>2, <3>3 DEF DecodeOK
    <3> QED BY <3>1, <3>4 DEF StateOK, SerialStates
  <2>7. CASE ~command_written
    <3>1. cir_state' = "IDLE" /\ IdleWhere' /\ IdleFlags'
      BY <1>5, <2>7, IdleWhereStays, IdleFlagsStay
    <3>2. phase' = "polled" => bus'.left >= 2
      BY <1>1, <1>2, <1>7, IdleFacts DEF CycleOK, RestPhases, NoBus, IsBus
    <3>3. IdleOK'
      BY <1>3, <1>6, <2>2, <2>5, <3>1, <3>2 DEF IdleOK
    <3> QED BY <3>1, <3>3 DEF StateOK, SerialStates
  <2> QED BY <2>6, <2>7
<1>8. CASE ~launch_alu
  <2>1. move_pending /\ ~command_written /\ cir_state' = "IDLE" /\ operand[2] = cur.want[2]
    BY <1>0, <1>4, <1>5, <1>8 DEF Moving
  <2>2. /\ op_start' = FALSE /\ arith_active' = FALSE /\ move_pending' = FALSE
        /\ fp_reg' = [fp_reg EXCEPT ![command.dst] = operand[2]]
    BY <1>0, <1>1, <1>8, <2>1, ControlRegisters DEF Unused
  <2>3. fp_reg' = golden'
    BY <1>1, <1>2, <2>1, <2>2 DEF Owed, Outcome
  <2>4. IdleWhere' /\ IdleFlags'
    BY <2>1, IdleWhereStays, IdleFlagsStay
  <2>5. ~(phase' = "command")
    BY <1>2 DEF Waiting
  <2>6. IdleOK'
    BY <1>3, <1>6, <2>2, <2>3, <2>4, <2>5 DEF IdleOK, Still
  <2> QED BY <2>1, <2>6 DEF StateOK, SerialStates
<1> QED
  BY <1>7, <1>8

\* An instruction just issued has the operands that program order gives it.
LEMMA IssuedFresh ==
    ASSUME BeginsIssue, golden \in [Regs -> Values], program \in Seq(Instrs), fp_reg = golden,
           fp_reg' = fp_reg
    PROVE  Fresh'
<1>1. PICK i \in Instructions : /\ cur' = i /\ Len(program) < MaxInstr
                                /\ golden' = IF i.shape = "store" THEN golden
                                             ELSE [golden EXCEPT ![i.dst] = Outcome(i)]
  BY DEF BeginsIssue
<1>2. PICK s \in Shapes, m \in Moves, r \in Regs, d \in Regs, w \in WordCounts :
        i = [n |-> Len(program) + 1, shape |-> s, move |-> (m \/ s = "store"),
             src |-> IF s = "reg" THEN r ELSE d, dst |-> d,
             words |-> IF s = "reg" THEN 1 ELSE w,
             want |-> <<golden[d], IF s = "load" THEN Len(program) + 1 ELSE golden[r]>>]
  BY DEF Instructions
<1>3. i.n = Len(program) + 1 /\ i.n # 0
  BY <1>2, LenProperties
<1>4. i.dst = d /\ i.shape = s /\ (s = "reg" => i.src = r)
  BY <1>2
<1>5. i.want[1] = golden[d] /\ i.want[2] = IF s = "load" THEN Len(program) + 1 ELSE golden[r]
  BY <1>2
<1>6. Owed'
  BY <1>1 DEF Owed, Outcome
<1> QED
  BY <1>1, <1>3, <1>4, <1>5, <1>6 DEF Fresh

\* Nothing is under way: the host issues, a command is decoded, a condition
\* evaluated, a save or a restore begins.
LEMMA FromIdleStill ==
    ASSUME Serial, SerialInv, Next, cir_state = "IDLE", ~launch_alu, ~move_pending
    PROVE  StateOK'
<1>0. /\ IdleOK /\ IdleFlags /\ IdleWhere /\ CycleOK /\ WritesOK /\ Unused /\ Typed
      /\ FpuClock /\ Host /\ cir_write_proc /\ alu_control_proc
      /\ Holds \/ Pauses \/ Ends \/ Begins
  BY IdleFacts DEF IdleOK, Next, FpuClock, SerialInv
<1>1. /\ Still
      /\ IF phase = "command" \/ bus_write("COMMAND") THEN Fresh ELSE fp_reg = golden
      /\ bus_write("COMMAND") /\ ~bus.first => command = cur
      /\ bus_write("COMMAND") => instr_type # "cpCOND"
  BY <1>0 DEF IdleOK
<1>2. Still' /\ fp_reg' = fp_reg /\ ~launch_alu'
  BY <1>0, <1>1, IdleFacts, StillStays DEF Still
<1>3. SameIssue => /\ cur' = cur /\ golden' = golden
                   /\ (Fresh => Fresh')
  BY <1>2 DEF SameIssue, Fresh, Owed, Outcome
<1>4. /\ instr_type' = IF bus_write("OPWORD") THEN bus.data ELSE instr_type
      /\ command' = IF bus_write("COMMAND") THEN bus.data ELSE command
      /\ opword_written' <=> bus_write("OPWORD") \/ (opword_written /\ ~flags_consumed)
      /\ bus'.first <=> NoBus /\ bus'.op # "none"
  BY IdleFacts
<1>5. BeginsIssue \/ SameIssue
  BY <1>0, IssueOnly
<1>6. bus.left = 2 /\ bus.op = "write" => /\ Holds /\ bus'.left = 1 /\ bus'.op = "write"
                                          /\ bus'.addr = bus.addr /\ phase' = phase
  BY <1>0, Opening DEF Holds, Pauses, Ends, NoBus
<1>7. Holds => SameIssue
  BY DEF Holds
<1>8. CASE cir_state' = "IDLE"
  <2>1. IdleWhere' /\ IdleFlags'
    BY <1>8, IdleWhereStays, IdleFlagsStay
  <2>2. ~command_written
    <3>1. ~(command_written /\ (~opword_written \/ instr_type = "cpGEN"))
      BY <1>8, IdleFacts
    <3> QED BY <1>0, <1>1, <3>1 DEF IdleFlags, CycleOK, WritesOK, bus_write, NoBus, Still
  <2>3. bus_write("COMMAND") => bus.left = 3 /\ bus.op # "none"
    BY <1>0, <2>2 DEF IdleFlags, IdleWhere, CycleOK, WritesOK, bus_write, NoBus
  <2>4. bus_write("COMMAND")' =>
          \/ Holds /\ bus_write("COMMAND") /\ ~bus'.first
          \/ bus'.first /\ NoBus /\ (phase = "command" \/ BeginsIssue)
    BY <1>0, <1>4 DEF Holds, Pauses, Ends, Begins, BeginsIssue, BeginsWrite, BeginsWord,
       BeginsRead,
       Opens, bus_write, NoBus
  <2>5. bus_write("COMMAND")' => instr_type' # "cpCOND"
    <3>1. CASE Holds /\ bus_write("COMMAND")
      BY <1>1, <1>4, <3>1 DEF bus_write
    <3>2. CASE NoBus /\ phase = "command"
      BY <1>0, <1>4, <3>2 DEF bus_write, NoBus, IdleFlags
    <3>3. CASE NoBus /\ BeginsIssue
      BY <1>4, <3>3 DEF bus_write, NoBus, BeginsIssue, Opens
    <3> QED BY <2>4, <3>1, <3>2, <3>3
  <2>6. CASE BeginsIssue
    <3>1. phase' = "command" \/ bus_write("COMMAND")'
      BY <2>6 DEF BeginsIssue, Opens, bus_write
    <3>2. phase = "free" /\ NoBus
      BY <1>0, <2>6, IssueOnly
    <3>3. fp_reg = golden
      BY <1>1, <3>2 DEF NoBus, bus_write
    <3>4. Fresh'
      BY <1>0, <1>2, <2>6, <3>3, IssuedFresh DEF Typed
    <3>5. bus_write("COMMAND")' => bus'.first
      BY <1>4, <2>6, <3>2 DEF bus_write
    <3> QED BY <1>2, <1>8, <2>1, <2>5, <3>1, <3>4, <3>5 DEF IdleOK, Still, StateOK, SerialStates
  <2>7. CASE SameIssue /\ ~BeginsIssue
    <3>1. phase' = "command" => phase = "command"
      BY <1>0, <2>7 DEF Holds, Pauses, Ends, Told, Begins, BeginsWrite, BeginsWord, BeginsRead,
         SameIssue, CountsOK, HostOK, SerialInv
    <3>2. phase = "command" => phase' = "command" \/ bus_write("COMMAND")'
      <4>1. phase = "command" => bus.op # "read"
        BY <1>0 DEF CycleOK, ReadPhases
      <4> QED BY <1>0, <2>7, <4>1 DEF Holds, Pauses, Ends, Told, Begins, BeginsWrite,
              BeginsWord, BeginsRead, Opens, bus_write, CycleOK, IsBus, NoBus
    <3>3. bus_write("COMMAND") => bus_write("COMMAND")'
      BY <1>0, <2>3, Opening DEF Holds, Pauses, Ends, bus_write, NoBus
    <3>4. IF phase' = "command" \/ bus_write("COMMAND")' THEN Fresh' ELSE fp_reg' = golden'
      BY <1>1, <1>2, <1>3, <2>4, <2>7, <3>1, <3>2, <3>3
    <3>5. bus_write("COMMAND")' /\ ~bus'.first => command' = cur'
      <4>1. bus_write("COMMAND") => bus.data = cur
        BY <1>0 DEF WritesOK
      <4> QED BY <1>3, <1>4, <2>4, <2>7, <4>1
    <3> QED BY <1>2, <1>8, <2>1, <2>5, <3>4, <3>5 DEF IdleOK, Still, StateOK, SerialStates
  <2> QED BY <1>5, <2>6, <2>7
<1>9. CASE cir_state' = "DECODE"
  <2>1. command_written /\ (~opword_written \/ instr_type = "cpGEN")
    BY <1>9, IdleFacts
  <2>2. bus_write("COMMAND") /\ bus.left = 2
    BY <1>0, <1>1, <2>1 DEF IdleFlags, Still
  <2>3. SameIssue /\ bus'.left = 1 /\ bus_write("COMMAND")' /\ bus.data = cur
    BY <1>0, <1>6, <1>7, <2>2 DEF bus_write, WritesOK
  <2>4. Fresh' /\ command' = cur' /\ instr_type' # "cpCOND"
    BY <1>1, <1>3, <1>4, <2>2, <2>3 DEF bus_write
  <2>5. opword_written' => instr_type' = "cpGEN"
    BY <1>4, <2>1, <2>2 DEF bus_write
  <2>6. DecodeOK'
    BY <1>2, <2>3, <2>4, <2>5 DEF DecodeOK, Still
  <2> QED BY <1>9, <2>6 DEF StateOK, SerialStates
<1>10. CASE cir_state' = "COND_EVAL"
  <2>1. opword_written /\ condition_written /\ instr_type = "cpCOND"
    BY <1>10, IdleFacts
  <2>2. bus_write("CONDITION") /\ bus.left = 2 /\ phase = "poll"
    BY <1>0, <2>1 DEF IdleFlags, WritesOK
  <2>3. SameIssue /\ bus'.left = 1 /\ bus_write("CONDITION")'
    BY <1>6, <1>7, <2>2 DEF bus_write
  <2>4. fp_reg' = golden' /\ instr_type' = "cpCOND"
    BY <1>1, <1>2, <1>3, <1>4, <2>1, <2>2, <2>3 DEF bus_write
  <2>5. CondOK'
    BY <1>2, <1>10, <2>3, <2>4 DEF CondOK, Still
  <2> QED BY <1>10, <2>5 DEF StateOK, SerialStates
<1>11. CASE cir_state' = "SAVE_WAIT"
  <2>1. opword_written /\ instr_type = "cpSAVE"
    BY <1>11, IdleFacts
  <2>2. phase = "save" /\ bus.left = 2 /\ bus.op = "write"
    BY <1>0, <2>1 DEF IdleFlags, IdleWhere
  <2>3. SameIssue /\ bus'.left = 1 /\ bus'.op = "write" /\ phase' = "save"
    BY <1>6, <1>7, <2>2
  <2>4. fp_reg' = golden'
    BY <1>0, <1>1, <1>2, <1>3, <2>2, <2>3 DEF WritesOK
  <2>5. SaveOK'
    BY <1>2, <1>11, <2>3, <2>4 DEF SaveOK, Still, Finished
  <2> QED BY <1>11, <2>5 DEF StateOK, SerialStates
<1>12. CASE cir_state' = "RESTORE_FORMAT"
  <2>1. opword_written /\ instr_type = "cpRESTORE"
    BY <1>12, IdleFacts
  <2>2. phase = "restore" /\ bus.left = 2 /\ bus.op = "write"
    BY <1>0, <2>1 DEF IdleFlags, IdleWhere
  <2>3. SameIssue /\ bus'.left = 1 /\ bus'.op = "write" /\ phase' = "restore"
    BY <1>6, <1>7, <2>2
  <2>4. fp_reg' = golden'
    BY <1>0, <1>1, <1>2, <1>3, <2>2, <2>3 DEF WritesOK
  <2>5. ~restore_trigger'
    BY <1>0, <2>2, ControlRegisters DEF WritesOK, Unused
  <2>6. RestoreOK'
    BY <1>2, <1>12, <2>3, <2>4, <2>5 DEF RestoreOK, Still, Finished, bus_write
  <2> QED BY <1>12, <2>6 DEF StateOK, SerialStates
<1> QED
  BY <1>8, <1>9, <1>10, <1>11, <1>12, IdleFacts

-----------------------------------------------------------------------------
(* Steps from the other states *)

\* A bus cycle that is not at its last clock goes on, and a write then ends.
LEMMA Holding ==
    ASSUME Serial, SerialInv, Host, bus.op # "none", bus.left # 1
    PROVE  /\ Holds /\ bus'.op = bus.op /\ bus'.addr = bus.addr /\ bus'.left = bus.left - 1
           /\ bus.left > 1 /\ ~bus'.first
           /\ SameIssue /\ phase' = phase /\ sent' = sent /\ frame' = frame
<1>1. (Holds \/ Pauses \/ Ends \/ Begins) /\ (bus'.first <=> NoBus /\ bus'.op # "none")
  BY HostMoves
<1>2. Holds
  BY <1>1, Opening DEF Pauses, Ends, NoBus
<1> QED
  BY <1>1, <1>2 DEF Holds, NoBus

LEMMA Ending ==
    ASSUME Serial, SerialInv, Host, bus.op = "write", bus.left = 1
    PROVE  /\ bus'.op = "none" /\ SameIssue /\ phase' = phase /\ sent' = sent /\ frame' = frame
<1>1. (Holds \/ Pauses \/ Ends \/ Begins) /\ CycleOK
  BY HostMoves DEF SerialInv, HostOK
<1>2. Ends /\ phase \in RestPhases
  BY <1>1, Opening DEF Holds, Pauses, NoBus, CycleOK
<1> QED
  BY <1>2 DEF Ends, NoBus, Told, RestPhases

\* What the end of a poll means.
LEMMA Answered ==
    ASSUME Serial, SerialInv, Host, phase = "polled", bus.left = 1
    PROVE  /\ NoBus' /\ SameIssue /\ frame' = frame
           /\ \/ phase' = "busy" /\ sent' = sent
              \/ (Truth("NULL") \/ Truth("COND")) /\ phase' = "free" /\ sent' = sent
              \/ (Truth("EXCEPT") \/ Truth("COND_TRAP")) /\ phase' = "ack" /\ sent' = sent
              \/ Truth("TO_CP") /\ phase' = "operand" /\ sent' = 0
              \/ Truth("FROM_CP") /\ phase' = "fetch" /\ sent' = 0
<1>1. AnswersOK /\ CycleOK /\ (Holds \/ Pauses \/ Ends \/ Begins)
  BY HostMoves DEF SerialInv, HostOK
<1>2. bus.op = "read"
  BY <1>1 DEF CycleOK, RestPhases
<1>3. Ends
  BY <1>1, <1>2, Opening DEF Holds, Pauses, NoBus
<1>4. \A r \in {"NULL", "TO_CP", "FROM_CP", "EXCEPT", "COND", "COND_TRAP"} : Told(r) => Truth(r)
  BY <1>1 DEF AnswersOK, Told
<1> HIDE DEF Truth
<1> QED
  BY <1>2, <1>3, <1>4 DEF Ends, Told, NoBus

\* What the interface registers hold after a clock in another state.
LEMMA OtherFacts ==
    ASSUME Serial, SerialInv, Next, cir_state # "IDLE"
    PROVE  /\ opword_written' <=> bus_write("OPWORD")
           /\ command_written' <=> bus_write("COMMAND")
           /\ condition_written' <=> bus_write("CONDITION")
           /\ instr_type' = IF bus_write("OPWORD") THEN bus.data ELSE instr_type
           /\ command' = IF bus_write("COMMAND") THEN bus.data ELSE command
           /\ bus_write("OPWORD") => bus.data = Opword
           /\ bus_write("COMMAND") => bus.data = cur
           /\ Holds \/ Pauses \/ Ends \/ Begins
           /\ bus'.first <=> NoBus /\ bus'.op # "none"
           /\ cir_write_proc /\ alu_control_proc /\ mc68881_alu /\ cir_dialog_proc /\ Host
           /\ FpuClock /\ Unused /\ CycleOK /\ WritesOK /\ CountsOK /\ PrevOK /\ StateOK /\ AnswersOK
           /\ CycleOK' /\ cur \in Instrs /\ cur.words \in 1..3
<1>1. cir_write_proc /\ alu_control_proc /\ mc68881_alu /\ cir_dialog_proc /\ Host /\ FpuClock
  BY DEF Next, FpuClock
<1>2. Unused /\ CycleOK /\ WritesOK /\ CountsOK /\ PrevOK /\ StateOK /\ AnswersOK
  BY DEF SerialInv, HostOK
<1>3. /\ Holds \/ Pauses \/ Ends \/ Begins
      /\ bus'.first <=> NoBus /\ bus'.op # "none"
      /\ CycleOK' /\ cur \in Instrs /\ cur.words \in 1..3
  BY <1>1, HostMoves, KeepsCycle
<1>4. bus_write("OPWORD") => bus.data = Opword
  BY <1>2 DEF WritesOK
<1>5. bus_write("COMMAND") => bus.data = cur
  BY <1>2 DEF WritesOK
<1>6. /\ opword_written' <=> bus_write("OPWORD")
      /\ command_written' <=> bus_write("COMMAND")
      /\ condition_written' <=> bus_write("CONDITION")
      /\ instr_type' = IF bus_write("OPWORD") THEN bus.data ELSE instr_type
      /\ command' = IF bus_write("COMMAND") THEN bus.data ELSE command
  BY <1>1, WriteRegisters DEF Cleared
<1> QED
  BY <1>1, <1>2, <1>3, <1>4, <1>5, <1>6

\* Back in IDLE, the flags are those of the write that shows.
LEMMA EnteredFlags ==
    ASSUME Serial, SerialInv, Next, cir_state # "IDLE",
           bus_write("OPWORD") => phase = "poll",
           bus_write("COMMAND") => launch_alu' /\ cur'.shape = "reg" /\ NoBus'
                                   /\ phase' \in {"opword", "poll"},
           bus'.op = "write" => bus'.addr = "OPWORD" \/ bus'.addr \in {"CONTROL", "OPERAND", "RESTORE"},
           ~bus_write("CONDITION"), phase' \notin {"condition", "command"}
    PROVE  IdleFlags'
<1>1. /\ opword_written' => instr_type' = "cpGEN"
      /\ command_written' => launch_alu' /\ cur'.shape = "reg" /\ NoBus' /\ phase' \in {"opword", "poll"}
      /\ ~condition_written'
  BY OtherFacts DEF Opword
<1>2. bus_write("OPWORD")' /\ bus'.left <= 2 => opword_written' /\ instr_type' = Opword'
  <2>1. bus_write("OPWORD")' /\ bus'.left <= 2 => bus_write("OPWORD") /\ phase' = phase
    BY OtherFacts, Opening DEF Holds, Pauses, Ends, bus_write, NoBus
  <2>2. bus_write("OPWORD") => instr_type' = "cpGEN" /\ opword_written'
    BY OtherFacts DEF Opword
  <2> QED BY <2>1, <2>2 DEF Opword
<1> QED
  BY <1>1, <1>2 DEF IdleFlags, bus_write

\* From the decoding, to the launch or the transfer the instruction asks for.
LEMMA FromDecode ==
    ASSUME Serial, SerialInv, Next, cir_state = "DECODE"
    PROVE  StateOK'
<1>0. /\ Decode /\ ~launch_alu /\ instr_type # "cpCOND" /\ command = cur /\ DecodeOK
      /\ opword_written => instr_type = "cpGEN"
      /\ Unused /\ FpuClock /\ Host /\ cir_write_proc /\ alu_control_proc /\ mc68881_alu
  BY OtherFacts, StateStep DEF StateOK, DecodeOK
<1>1. CASE move_pending
  <2>1. /\ Moving /\ cur.shape = "reg" /\ cur.n # 0 /\ cur.move /\ Owed /\ Waiting
        /\ ~op_start /\ ~alu_busy /\ ~valid /\ ~arith_active /\ operand[2] = cur.want[2]
        /\ fp_reg[cur.src] = cur.want[2]
        /\ (NoBus /\ phase \in {"opword", "poll"}) \/ (bus.first /\ Waiting)
    BY <1>0, <1>1 DEF DecodeOK, Moving
  <2>2. cir_state' = "IDLE" /\ launch_alu'
    BY <1>0, <2>1 DEF Decode, Launched, Goto, Pulse
  <2>3. phase = "polled" => bus.left = 4
    BY <2>1, OtherFacts DEF CycleOK, RestPhases, NoBus
  <2>4. /\ cur' = cur /\ golden' = golden /\ Waiting'
        /\ bus.op = "write" => bus.addr = "OPWORD" /\ phase = "poll"
        /\ bus'.op = "write" => bus'.addr = "OPWORD"
        /\ phase' = "polled" => bus'.left >= 3
    BY <1>0, <2>1, <2>3, WaitingGoes
  <2>5. /\ ~op_start' /\ ~arith_active' /\ ~move_pending' /\ ~alu_busy' /\ ~valid'
        /\ fp_reg' = [fp_reg EXCEPT ![cur.dst] = cur.want[2]]
    BY <1>0, <1>1, <2>1, ControlRegisters, AluRegisters DEF Unused
  <2>6. fp_reg'[cur.src] = cur.want[2] /\ Owed'
    <3>1. fp_reg \in [Regs -> Values] /\ cur.src \in Regs /\ cur.dst \in Regs
      BY DEF SerialInv, Typed, Instrs
    <3> QED BY <2>1, <2>4, <2>5, <3>1 DEF Owed, Outcome
  <2>7. command' = cur' /\ instr_type' # "cpCOND"
    BY <1>0, <2>4, OtherFacts DEF bus_write, Opword, WritesOK
  <2>8. Moving'
    BY <2>1, <2>2, <2>4, <2>5, <2>6, <2>7 DEF Moving
  <2>9. IdleFlags'
    <3>1. bus_write("OPWORD") => phase = "poll"
      BY <2>4 DEF bus_write
    <3>2. phase' \notin {"condition", "command"}
      BY <2>4 DEF Waiting
    <3> QED BY <2>4, <3>1, <3>2, EnteredFlags DEF bus_write
  <2>10. IdleWhere'
    <3>1. phase' = "opword" => NoBus'
      BY <2>4 DEF Waiting
    <3> QED BY <2>4, <3>1 DEF Waiting, IdleWhere
  <2>11. IdleOK'
    BY <2>1, <2>2, <2>4, <2>8, <2>9, <2>10 DEF IdleOK, bus_write
  <2> QED BY <2>2, <2>11 DEF StateOK, SerialStates
<1>2. CASE ~move_pending
  <2>1. Still /\ Fresh /\ bus_write("COMMAND") /\ bus.left = 1 /\ cur.n # 0
    BY <1>0, <1>2 DEF DecodeOK, Fresh
  <2>2. /\ bus'.op = "none" /\ phase' = phase /\ SameIssue /\ phase' \in {"opword", "poll"}
        /\ cur' = cur /\ golden' = golden
    BY <2>1, OtherFacts, Opening DEF Holds, Pauses, Ends, Told, bus_write, NoBus, CycleOK,
       RestPhases, WritesOK, SameIssue
  <2>3. command' = cur' /\ instr_type' # "cpCOND" /\ ~opword_written' /\ Waiting' /\ NoBus'
    BY <1>0, <2>1, <2>2, OtherFacts DEF bus_write, Waiting, NoBus
  <2>4. /\ fp_reg' = fp_reg /\ ~op_start' /\ ~alu_busy' /\ ~valid' /\ ~arith_active' /\ ~move_pending'
        /\ Fresh' /\ Owed'
    <3>1. /\ fp_reg' = fp_reg /\ ~op_start' /\ ~alu_busy' /\ ~valid' /\ ~arith_active' /\ ~move_pending'
      BY <1>0, <2>1, StillStays
    <3> QED BY <2>1, <2>2, <3>1 DEF Fresh, Owed, Outcome
  <2>5. CASE command.shape = "reg" /\ command.move
    <3>1. cir_state' = "IDLE" /\ launch_alu'
      BY <1>0, <2>5 DEF Decode, Launched, Goto, Pulse
    <3>2. Moving'
      BY <1>0, <2>2, <2>3, <2>4, <2>5, <3>1, <2>1 DEF Moving, Fresh
    <3>3. IdleFlags'
      BY <1>0, <2>1, <2>2, <2>3, <2>5, <3>1, EnteredFlags DEF bus_write, NoBus
    <3>4. IdleOK'
      BY <1>0, <2>2, <2>3, <2>5, <3>1, <3>2, <3>3 DEF IdleOK, IdleWhere, bus_write
    <3> QED BY <3>1, <3>4 DEF StateOK, SerialStates
  <2>6. CASE command.shape = "reg" /\ ~command.move
    <3>1. cir_state' = "EXECUTE" /\ launch_alu'
      BY <1>0, <2>6 DEF Decode, Launched, Goto, Pulse
    <3>2. ExecuteOK'
      BY <1>0, <2>1, <2>2, <2>3, <2>4, <2>6, <3>1 DEF ExecuteOK
    <3> QED BY <3>1, <3>2 DEF StateOK, SerialStates
  <2>7. CASE command.shape = "store"
    <3>1. cir_state' = "XFER_DST" /\ ~launch_alu' /\ word_idx' = 0 /\ word_count' = cur.words
      BY <1>0, <2>7 DEF Decode, Goto, Pulse, NoPulse, StartXfer
    <3>2. ~read_done'
      BY <1>0, <2>1, WriteRegisters DEF bus_read, bus_write
    <3>3. Finished'
      BY <1>0, <2>1, <2>2, <2>4, <2>7, <3>1 DEF Finished, Still, Fresh, Owed
    <3>4. XferDstOK'
      BY <1>0, <2>1, <2>2, <2>3, <2>4, <2>7, <3>1, <3>2, <3>3, OtherFacts DEF XferDstOK, Fresh
    <3> QED BY <3>1, <3>4 DEF StateOK, SerialStates
  <2>8. CASE command.shape = "load"
    <3>1. cir_state' = "XFER_SRC" /\ ~launch_alu' /\ word_idx' = 0 /\ word_count' = cur.words
      BY <1>0, <2>8 DEF Decode, Goto, Pulse, NoPulse, StartXfer
    <3>2. ~word_arrived'
      BY <1>0, <2>1, WriteRegisters DEF wrote, bus_write
    <3>3. Still'
      BY <2>4, <3>1 DEF Still
    <3>4. Received' = 0
      BY <3>1, <3>2 DEF Received
    <3>5. XferSrcOK'
      BY <1>0, <2>1, <2>2, <2>3, <2>4, <2>8, <3>1, <3>2, <3>3, <3>4 DEF XferSrcOK, bus_write
    <3> QED BY <3>1, <3>5 DEF StateOK, SerialStates
  <2>9. command.shape \in {"reg", "store", "load"}
    BY <1>0 DEF Decode
  <2> QED BY <2>5, <2>6, <2>7, <2>8, <2>9
<1> QED
  BY <1>1, <1>2

\* Fresh operands stay fresh while nothing is done.
LEMMA FreshStays ==
    ASSUME Fresh, cur' = cur, golden' = golden, fp_reg' = fp_reg
    PROVE  Fresh' /\ Owed' /\ cur'.n # 0
BY DEF Fresh, Owed, Outcome

\* Operand words are staged where they belong until the last is in.
LEMMA FromXferSrc ==
    ASSUME Serial, SerialInv, Next, cir_state = "XFER_SRC"
    PROVE  StateOK'
<1>0. /\ XferSrcOK /\ XferSrc /\ Still /\ Fresh /\ command = cur /\ cur.shape = "load"
      /\ instr_type # "cpCOND" /\ word_count = cur.words /\ cur.words \in 1..3
      /\ Waiting \/ phase = "operand" \/ (phase = "poll" /\ bus_write("OPERAND") /\ bus.left >= 2)
      /\ word_arrived <=> bus_write("OPERAND") /\ bus.left = 2
      /\ word_idx = IF bus_write("OPERAND") THEN (IF bus.left = 1 THEN sent ELSE sent - 1)
                    ELSE IF phase = "operand" THEN sent ELSE 0
      /\ \A k \in 0..Received-1 : staging[k] = Word(cur.n, k)
      /\ FpuClock /\ Host /\ Unused /\ CycleOK
  BY OtherFacts, StateStep DEF StateOK, XferSrcOK
<1>1. /\ cir_state' = IF word_arrived /\ word_idx + 1 >= word_count
                      THEN "XFER_SRC_WAIT" ELSE "XFER_SRC"
      /\ word_idx' = IF word_arrived THEN word_idx + 1 ELSE word_idx
      /\ ~launch_alu' /\ word_count' = word_count
  BY <1>0 DEF XferSrc, Goto, Pulse, NoPulse
<1>2. /\ fp_reg' = fp_reg /\ Still'
  BY <1>0, <1>1, StillStays DEF Still
<1>3. /\ phase # "free" /\ ~bus_write("COMMAND") /\ ~(bus_write("OPWORD") /\ bus.data # "cpGEN")
  <2>1. Waiting => phase # "free" /\ (bus.op = "write" => bus.addr = "OPWORD" /\ phase = "poll")
    BY <1>0, WaitingGoes DEF Waiting
  <2>2. phase = "operand" /\ bus.op = "write" => bus.addr = "OPERAND"
    BY OtherFacts DEF WritesOK, CycleOK, bus_write
  <2>3. bus_write("OPERAND") => phase # "free"
    BY OtherFacts DEF WritesOK
  <2> QED BY <1>0, <2>1, <2>2, <2>3, OtherFacts DEF bus_write, Opword
<1>4. /\ cur' = cur /\ golden' = golden /\ Fresh' /\ command' = cur' /\ instr_type' # "cpCOND"
  BY <1>0, <1>2, <1>3, IssueOnly, FreshStays, OtherFacts
<1>5. /\ word_arrived' <=> bus_write("OPERAND") /\ bus.first
      /\ staging' = IF bus_write("OPERAND") /\ bus.first THEN [staging EXCEPT ![word_idx] = bus.data]
                    ELSE staging
  BY OtherFacts, WriteRegisters DEF wrote, PrevOK
<1>6. CASE bus_write("OPERAND")
  <2>1. /\ phase \in {"poll", "operand"} /\ bus.data = Word(cur.n, sent - 1)
        /\ sent \in 1..cur.words /\ (phase = "poll" <=> sent = cur.words)
        /\ bus.left \in 1..3 /\ (bus.first <=> bus.left = 3) /\ (phase = "poll" => bus.left # 1)
        /\ bus.op = "write"
    BY <1>0, <1>6, OtherFacts DEF WritesOK, CycleOK, Waiting, bus_write, NoBus
  <2>2. CASE bus.left = 1
    <3>1. /\ ~NoBus' => FALSE
          /\ phase' = "operand" /\ sent' = sent
      BY <2>1, <2>2, OtherFacts, Opening DEF Holds, Pauses, Ends, Told, NoBus, CycleOK,
         RestPhases
    <3>2. ~word_arrived' /\ staging' = staging /\ word_idx' = sent /\ cir_state' = "XFER_SRC"
      BY <1>0, <1>1, <1>5, <1>6, <2>1, <2>2
    <3>3. Received' = Received
      BY <1>0, <1>1, <2>2, <3>2 DEF Received
    <3>4. XferSrcOK'
      BY <1>0, <1>1, <1>2, <1>4, <3>1, <3>2, <3>3 DEF XferSrcOK, bus_write, NoBus
    <3> QED BY <3>2, <3>4 DEF StateOK, SerialStates
  <2>3. CASE bus.left # 1
    <3>1. /\ Holds /\ bus'.left = bus.left - 1 /\ bus_write("OPERAND")' /\ phase' = phase /\ sent' = sent
      <4>1. Host /\ bus.op # "none" BY <2>1 DEF Next
      <4> QED BY <1>6, <2>3, <4>1, Holding DEF bus_write
    <3>2. CASE bus.left = 3
      <4>1. word_arrived' /\ ~word_arrived /\ word_idx' = word_idx /\ word_idx = sent - 1
            /\ cir_state' = "XFER_SRC" /\ Received = word_idx /\ Received' = word_idx + 1
        BY <1>0, <1>1, <1>5, <1>6, <2>1, <3>2 DEF Received
      <4>2. \A k \in 0..Received'-1 : staging'[k] = Word(cur'.n, k)
        <5>1. staging \in [WordIdx -> Words] /\ word_idx \in WordIdx
          BY <1>0, <2>1, <4>1 DEF SerialInv, Typed, WordIdx
        <5>2. staging' = [staging EXCEPT ![word_idx] = Word(cur.n, word_idx)]
          BY <1>5, <1>6, <2>1, <3>2, <4>1
        <5>3. 0..Received'-1 \subseteq WordIdx
          BY <5>1, <4>1 DEF WordIdx
        <5> QED BY <1>0, <1>4, <4>1, <5>1, <5>2, <5>3 DEF WordIdx
      <4>3. XferSrcOK'
        BY <1>0, <1>1, <1>2, <1>4, <2>1, <3>1, <3>2, <4>1, <4>2 DEF XferSrcOK
      <4> QED BY <4>1, <4>3 DEF StateOK, SerialStates
    <3>3. CASE bus.left = 2
      <4>1. ~word_arrived' /\ word_arrived /\ word_idx = sent - 1 /\ word_idx' = sent /\ staging' = staging
            /\ Received = sent /\ Received' = sent /\ bus'.left = 1
        BY <1>0, <1>1, <1>5, <1>6, <2>1, <3>1, <3>3 DEF Received
      <4>2. CASE phase = "operand"
        <5>1. cir_state' = "XFER_SRC"
          BY <1>0, <1>1, <2>1, <4>1, <4>2
        <5>2. XferSrcOK'
          BY <1>0, <1>1, <1>2, <1>4, <2>1, <3>1, <4>1, <4>2 DEF XferSrcOK
        <5> QED BY <5>1, <5>2 DEF StateOK, SerialStates
      <4>3. CASE phase = "poll"
        <5>1. cir_state' = "XFER_SRC_WAIT"
          BY <1>0, <1>1, <2>1, <4>1, <4>3
        <5>2. Staged(cur.n)'
          BY <1>0, <1>4, <2>1, <4>1, <4>3 DEF Staged
        <5>3. XferSrcWaitOK'
          BY <1>0, <1>2, <1>4, <3>1, <4>1, <4>3, <5>1, <5>2 DEF XferSrcWaitOK
        <5> QED BY <5>1, <5>3 DEF StateOK, SerialStates
      <4> QED BY <2>1, <4>2, <4>3
    <3> QED BY <2>1, <2>3, <3>2, <3>3
  <2> QED BY <2>2, <2>3
<1>7. CASE ~bus_write("OPERAND")
  <2>1. /\ ~word_arrived /\ ~word_arrived' /\ staging' = staging /\ cir_state' = "XFER_SRC"
        /\ word_idx' = word_idx /\ Received' = Received
    BY <1>0, <1>1, <1>5, <1>7 DEF Received
  <2>2. CASE phase = "operand"
    <3>1. NoBus /\ word_idx = sent
      BY <1>0, <1>7, <2>2, OtherFacts DEF CycleOK, WritesOK, ReadPhases, NoBus, IsBus, bus_write
    <3>2. \/ NoBus' /\ phase' = "operand" /\ sent' = sent
          \/ bus_write("OPERAND")' /\ bus'.left = 3 /\ sent' = sent + 1 /\ phase' \in {"operand", "poll"}
      BY <2>2, <3>1, OtherFacts DEF Holds, Pauses, Ends, Begins, BeginsIssue, BeginsWrite,
         BeginsWord, BeginsRead, Opens, NoBus, bus_write
    <3>3. XferSrcOK'
      BY <1>0, <1>1, <1>2, <1>4, <2>1, <3>1, <3>2, OtherFacts DEF XferSrcOK, bus_write, NoBus,
         CountsOK
    <3> QED BY <2>1, <3>3 DEF StateOK, SerialStates
  <2>3. CASE phase # "operand"
    <3>1. Waiting /\ word_idx = 0
      BY <1>0, <1>7, <2>3
    <3>2. (Waiting' \/ (phase' = "operand" /\ sent' = 0)) /\ ~bus_write("OPERAND")'
          /\ (Waiting' => phase' # "operand")
      <4>1. CASE phase = "polled" /\ bus.left = 1
        BY <1>0, <4>1, Answered DEF Truth, NoBus, bus_write, Waiting
      <4>2. CASE ~(phase = "polled" /\ bus.left = 1)
        BY <1>0, <3>1, <4>2, WaitingGoes DEF Waiting, bus_write
      <4> QED BY <4>1, <4>2
    <3>3. XferSrcOK'
      BY <1>0, <1>1, <1>2, <1>4, <2>1, <3>1, <3>2 DEF XferSrcOK
    <3> QED BY <2>1, <3>3 DEF StateOK, SerialStates
  <2> QED BY <2>2, <2>3
<1> QED
  BY <1>6, <1>7

\* The launch follows the last word.
LEMMA FromXferSrcWait ==
    ASSUME Serial, SerialInv, Next, cir_state \in {"XFER_SRC_WAIT", "XFER_SRC_WAIT2"}
    PROVE  StateOK'
<1>0. /\ XferSrcWaitOK /\ Still /\ Fresh /\ command = cur /\ cur.shape = "load"
      /\ instr_type # "cpCOND" /\ Staged(cur.n) /\ phase = "poll" /\ cur.n # 0
      /\ FpuClock /\ Host /\ Unused /\ CycleOK /\ cir_dialog_proc
  BY OtherFacts DEF StateOK, XferSrcWaitOK, Fresh
<1>1. ~bus_write("COMMAND") /\ ~bus_write("OPWORD") /\ ~bus_write("CONDITION")
  BY <1>0 DEF XferSrcWaitOK, bus_write, NoBus
<1>2. /\ fp_reg' = fp_reg /\ ~op_start' /\ ~alu_busy' /\ ~valid' /\ ~arith_active' /\ ~move_pending'
  BY <1>0, StillStays
<1>3. /\ cur' = cur /\ golden' = golden /\ Fresh' /\ Owed' /\ command' = cur' /\ instr_type' # "cpCOND"
      /\ ~opword_written'
  BY <1>0, <1>1, <1>2, IssueOnly, FreshStays, OtherFacts
<1>4. Staged(cur.n)'
  BY <1>0, <1>3, WriteRegisters, OtherFacts DEF Staged
<1>5. CASE cir_state = "XFER_SRC_WAIT"
  <2>1. bus_write("OPERAND") /\ bus.left = 1
    BY <1>0, <1>5 DEF XferSrcWaitOK
  <2>2. bus'.op = "none" /\ phase' = "poll"
    BY <1>0, <2>1, OtherFacts, Opening DEF Holds, Pauses, Ends, Told, bus_write, NoBus,
       CycleOK, RestPhases
  <2>3. cir_state' = "XFER_SRC_WAIT2" /\ ~launch_alu'
    BY <1>0, <1>5, StateStep DEF XferSrcWait, Goto, Pulse, NoPulse
  <2>4. XferSrcWaitOK'
    BY <1>0, <1>2, <1>3, <1>4, <2>2, <2>3 DEF XferSrcWaitOK, Still, NoBus
  <2> QED BY <2>3, <2>4 DEF StateOK, SerialStates
<1>6. CASE cir_state = "XFER_SRC_WAIT2"
  <2>1. NoBus /\ Waiting /\ cir_state' = (IF cur.move THEN "IDLE" ELSE "EXECUTE") /\ launch_alu'
    BY <1>0, <1>6, StateStep DEF XferSrcWaitOK, XferSrcWait2, Launched, Goto, Pulse, Waiting
  <2>2. Waiting' /\ (phase' = "polled" => bus'.left = 4) /\ (bus'.op = "write" => bus'.addr = "OPWORD")
    BY <1>0, <2>1, WaitingGoes
  <2>3. CASE cur.move
    <3>1. Moving'
      BY <1>0, <1>2, <1>3, <2>1, <2>2, <2>3 DEF Moving, Fresh
    <3>2. IdleFlags'
      BY <1>1, <2>2, EnteredFlags DEF Waiting
    <3>3. IdleWhere'
      BY <2>2, OtherFacts DEF Waiting, IdleWhere
    <3>4. IdleOK'
      BY <1>3, <1>4, <2>1, <2>2, <3>1, <3>2, <3>3 DEF IdleOK, bus_write
    <3> QED BY <2>1, <2>3, <3>4 DEF StateOK, SerialStates
  <2>4. CASE ~cur.move
    <3>1. ExecuteOK'
      BY <1>0, <1>2, <1>3, <1>4, <2>1, <2>2, <2>4 DEF ExecuteOK
    <3> QED BY <2>1, <2>4, <3>1 DEF StateOK, SerialStates
  <2> QED BY <2>3, <2>4
<1> QED
  BY <1>5, <1>6

\* While nothing is launched, what is finished stays so.
LEMMA FinishedStays ==
    ASSUME FpuClock, Unused, Finished, ~launch_alu', cur' = cur, golden' = golden
    PROVE  Finished' /\ fp_reg' = fp_reg /\ Still'
BY StillStays DEF Finished, Still

\* Back in IDLE with everything done.
LEMMA ToIdle ==
    ASSUME Serial, SerialInv, Next, cir_state # "IDLE", cir_state' = "IDLE",
           Finished', IdleWhere', phase' \notin {"condition", "command"},
           bus_write("OPWORD") => phase = "poll",
           ~bus_write("COMMAND"), ~bus_write("CONDITION"),
           bus'.op = "write" => bus'.addr \in {"OPWORD", "CONTROL", "OPERAND", "RESTORE"}
    PROVE  StateOK'
<1>1. IdleFlags'
  BY EnteredFlags
<1>2. IdleOK'
  BY <1>1 DEF IdleOK, Finished, Still, bus_write
<1> QED
  BY <1>2 DEF StateOK, SerialStates

\* A host told nothing yet but BUSY goes on waiting.
LEMMA BusyWaits ==
    ASSUME Serial, SerialInv, Next, Waiting, cir_state \in {"EXECUTE", "EXECUTE_DONE"}
    PROVE  /\ Waiting' /\ SameIssue /\ cur' = cur /\ golden' = golden
           /\ bus.op = "write" => bus.addr = "OPWORD" /\ phase = "poll"
           /\ bus'.op = "write" => bus'.addr = "OPWORD"
           /\ IdleWhere' /\ phase' \notin {"condition", "command"}
<1>1. /\ SameIssue /\ cur' = cur /\ golden' = golden
      /\ bus.op = "write" => bus.addr = "OPWORD" /\ phase = "poll"
      /\ bus'.op = "write" => bus'.addr = "OPWORD"
      /\ Waiting' \/ (phase = "polled" /\ bus.left = 1)
  BY WaitingGoes DEF Next
<1>2. phase = "polled" /\ bus.left = 1 => NoBus' /\ phase' = "busy"
  BY Answered DEF Truth, Next
<1>3. Waiting'
  BY <1>1, <1>2 DEF Waiting
<1>4. IdleWhere' /\ phase' \notin {"condition", "command"}
  BY <1>3 DEF Waiting, IdleWhere
<1> QED
  BY <1>1, <1>3, <1>4

\* The operation runs with the operands staged, and its result is written to the
\* destination program order names.
LEMMA FromExecute ==
    ASSUME Serial, SerialInv, Next, cir_state = "EXECUTE"
    PROVE  StateOK'
<1>0. /\ ExecuteOK /\ Execute /\ Waiting /\ Owed /\ ~cur.move /\ cur.shape # "store"
      /\ cur.n # 0 /\ instr_type # "cpCOND" /\ ~move_pending
      /\ opword_written => instr_type = "cpGEN"
      /\ Unused /\ cur \in Instrs
      /\ cir_write_proc /\ alu_control_proc /\ mc68881_alu
  BY OtherFacts, StateStep DEF StateOK, ExecuteOK
<1>1. /\ Waiting' /\ cur' = cur /\ golden' = golden
      /\ bus.op = "write" => bus.addr = "OPWORD" /\ phase = "poll"
  BY <1>0, BusyWaits
<1>2. /\ cir_state' = IF valid THEN "EXECUTE_DONE" ELSE "EXECUTE"
      /\ ~launch_alu'
  <2>1. ~AcceptsPending BY DEF AcceptsPending, Serial
  <2>2. pending_skip = 0 BY <1>0 DEF Unused
  <2> QED BY <1>0, <2>1, <2>2 DEF Execute, Goto, Pulse, NoPulse
<1>3. /\ instr_type' # "cpCOND" /\ command' = command
      /\ opword_written' => instr_type' = "cpGEN"
  BY <1>0, <1>1, OtherFacts DEF bus_write, Opword
<1>5. CASE launch_alu
  <2>1. /\ ~op_start /\ ~alu_busy /\ ~valid /\ ~arith_active /\ command = cur
        /\ Fresh /\ (cur.shape = "load" => Staged(cur.n))
    BY <1>0, <1>5 DEF ExecuteOK
  <2>2. /\ op_start' /\ launch_dst' = cur.dst /\ arith_active' /\ ~move_pending'
        /\ fp_reg' = fp_reg /\ op_sel' = cur
        /\ operand' = <<fp_reg[cur.dst], IF cur.shape = "reg" THEN fp_reg[cur.src]
                                         ELSE Converted(staging, cur.words)>>
    BY <1>0, <1>5, <2>1, ControlRegisters DEF Unused
  <2>3. ~alu_busy' /\ ~valid'
    BY <1>0, <2>1, AluRegisters
  <2>4. operand' = cur.want
    <3>1. cur.want = <<cur.want[1], cur.want[2]>> /\ cur.shape \in {"reg", "load"}
          /\ cur.words \in 1..3
      BY <1>0 DEF Instrs
    <3>2. fp_reg[cur.dst] = cur.want[1]
      BY <2>1 DEF Fresh
    <3>3. cur.shape = "load" => Converted(staging, cur.words) = cur.want[2]
      BY <2>1, <3>1, WordsConvert DEF Fresh, Staged
    <3>4. cur.shape = "reg" => fp_reg[cur.src] = cur.want[2]
      BY <2>1 DEF Fresh
    <3> QED BY <2>2, <3>1, <3>2, <3>3, <3>4
  <2>5. Owed'
    BY <1>0, <1>1, <2>2 DEF Owed, Outcome
  <2>6. ExecuteOK'
    BY <1>0, <1>1, <1>2, <1>3, <2>2, <2>3, <2>4, <2>5 DEF ExecuteOK
  <2> QED BY <1>2, <2>1, <2>6 DEF StateOK, SerialStates
<1>6. CASE ~launch_alu
  <2>1. /\ arith_active /\ launch_dst = cur.dst
        /\ \/ op_start /\ ~alu_busy /\ ~valid /\ op_sel = cur /\ operand = cur.want
           \/ ~op_start /\ alu_busy /\ ~valid /\ alu_job = [by |-> cur.n, val |-> cur.n]
           \/ ~op_start /\ ~alu_busy /\ valid /\ result = [by |-> cur.n, val |-> cur.n]
    BY <1>0, <1>6 DEF ExecuteOK
  <2>2. /\ ~op_start' /\ launch_dst' = launch_dst /\ ~move_pending'
        /\ arith_active' <=> ~valid
        /\ ~valid => fp_reg' = fp_reg
        /\ valid => fp_reg' = [fp_reg EXCEPT ![launch_dst] = result.val]
    BY <1>0, <1>6, <2>1, ControlRegisters DEF Unused
  <2>3. CASE ~valid
    <3>1. Owed'
      BY <1>0, <1>1, <2>2, <2>3 DEF Owed, Outcome
    <3>2. \/ ~op_start' /\ alu_busy' /\ ~valid' /\ alu_job' = [by |-> cur.n, val |-> cur.n]
          \/ ~op_start' /\ ~alu_busy' /\ valid' /\ result' = [by |-> cur.n, val |-> cur.n]
      <4>1. op_start => alu_job' = Compute(cur, cur.want) /\ alu_busy' /\ ~valid'
        BY <1>0, <2>1, AluRegisters
      <4>2. ~op_start => /\ alu_job' = alu_job
                         /\ \/ alu_busy' /\ ~valid'
                            \/ ~alu_busy' /\ valid' /\ result' = alu_job
        BY <1>0, <2>1, <2>3, AluRegisters
      <4> QED BY <2>1, <2>2, <2>3, <4>1, <4>2 DEF Compute
    <3>3. ExecuteOK'
      BY <1>0, <1>1, <1>2, <1>3, <2>1, <2>2, <2>3, <3>1, <3>2 DEF ExecuteOK
    <3> QED BY <1>2, <2>3, <3>3 DEF StateOK, SerialStates
  <2>4. CASE valid
    <3>1. fp_reg' = golden'
      BY <1>0, <1>1, <2>1, <2>2, <2>4 DEF Owed, Outcome
    <3>2. ~alu_busy' /\ ~valid'
      BY <1>0, <2>1, <2>4, AluRegisters
    <3>3. ExecuteDoneOK'
      BY <1>1, <1>2, <2>2, <2>4, <3>1, <3>2 DEF ExecuteDoneOK, Finished, Still
    <3> QED BY <1>2, <2>4, <3>3 DEF StateOK, SerialStates
  <2> QED BY <2>3, <2>4
<1> QED
  BY <1>5, <1>6

\* The host is answered after the write-back.
LEMMA FromExecuteDone ==
    ASSUME Serial, SerialInv, Next, cir_state = "EXECUTE_DONE"
    PROVE  StateOK'
<1>0. Waiting /\ Finished /\ ExecuteDone /\ Unused /\ FpuClock /\ cir_write_proc
  BY OtherFacts, StateStep DEF StateOK, ExecuteDoneOK
<1>1. /\ Waiting' /\ cur' = cur /\ golden' = golden
      /\ bus.op = "write" => bus.addr = "OPWORD" /\ phase = "poll"
      /\ bus'.op = "write" => bus'.addr = "OPWORD"
      /\ IdleWhere' /\ phase' \notin {"condition", "command"}
  BY <1>0, BusyWaits
<1>2. /\ cir_state' = IF exc_enabled THEN "EXCEPT_POST" ELSE "IDLE"
      /\ ~launch_alu'
  BY <1>0 DEF ExecuteDone, Goto, Pulse, NoPulse, Serial
<1>3. Finished'
  BY <1>0, <1>1, <1>2, FinishedStays
<1>4. CASE exc_enabled
  <2>1. control_ack' = FALSE
    BY <1>0, <1>1, WriteRegisters DEF bus_write
  <2>2. ExceptOK'
    BY <1>1, <1>3, <2>1 DEF ExceptOK, bus_write
  <2> QED BY <1>2, <1>4, <2>2 DEF StateOK, SerialStates
<1>5. CASE ~exc_enabled
  <2>1. ~bus_write("COMMAND") /\ ~bus_write("CONDITION") /\ (bus_write("OPWORD") => phase = "poll")
    BY <1>1 DEF bus_write
  <2> QED BY <1>1, <1>2, <1>3, <1>5, <2>1, ToIdle
<1> QED
  BY <1>4, <1>5

\* An exception lasts until the host acknowledges it.
LEMMA FromExcept ==
    ASSUME Serial, SerialInv, Next, cir_state \in {"EXCEPT_PRE", "EXCEPT_POST"}
    PROVE  StateOK'
<1>0. /\ Finished /\ Except /\ Unused /\ FpuClock /\ CycleOK /\ WritesOK /\ CycleOK'
      /\ \/ Waiting \/ phase \in {"ack", "refused?", "ack_refusal"}
         \/ bus_write("CONTROL") /\ bus.left >= 2
         \/ phase = "refused" /\ (NoBus \/ bus.left = 1)
      /\ control_ack <=> bus_write("CONTROL") /\ bus.left = 2
      /\ control_ack' = bus_write("CONTROL")
  BY OtherFacts, StateStep, WriteRegisters DEF StateOK, ExceptOK
<1>1. /\ cir_state' = IF control_ack THEN "IDLE" ELSE cir_state
      /\ ~launch_alu'
  BY <1>0 DEF Except, Goto, Pulse, NoPulse
<1>2. phase # "free"
  BY <1>0 DEF WritesOK, Waiting
<1>3. cur' = cur /\ golden' = golden
  BY <1>0, <1>2, IssueOnly, OtherFacts
<1>4. Finished'
  BY <1>0, <1>1, <1>3, FinishedStays
<1>5. CASE control_ack
  <2>1. bus_write("CONTROL") /\ bus.left = 2 /\ phase \in {"poll", "away"} /\ bus.op = "write"
    BY <1>0, <1>5 DEF WritesOK, bus_write
  <2>2. bus_write("CONTROL")' /\ bus'.left = 1 /\ phase' = phase
    BY <2>1, Holding DEF Next, bus_write
  <2>3. IdleWhere'
    BY <2>1, <2>2 DEF IdleWhere
  <2>4. ~bus_write("COMMAND") /\ ~bus_write("CONDITION") /\ ~bus_write("OPWORD")
    BY <2>1 DEF bus_write
  <2> QED BY <1>1, <1>4, <1>5, <2>1, <2>2, <2>3, <2>4, ToIdle DEF bus_write
<1>6. CASE ~control_ack
  <2> DEFINE Where == \/ Waiting \/ phase \in {"ack", "refused?", "ack_refusal"}
                      \/ bus_write("CONTROL") /\ bus.left >= 2
                      \/ phase = "refused" /\ (NoBus \/ bus.left = 1)
             Acked == control_ack <=> bus_write("CONTROL") /\ bus.left = 2
  <2>1. SUFFICES Where' /\ Acked'
    BY <1>0, <1>1, <1>4, <1>6 DEF StateOK, SerialStates, ExceptOK
  <2>2. CASE Waiting
    <3>1. ~bus_write("CONTROL")
      BY <2>2, WaitingGoes, OtherFacts DEF bus_write
    <3>2. CASE phase = "polled" /\ bus.left = 1
      <4>1. NoBus' /\ phase' \in {"busy", "ack"}
        BY <1>0, <3>2, Answered, OtherFacts DEF Truth
      <4> QED BY <1>0, <3>1, <4>1 DEF Waiting, bus_write, NoBus
    <3>3. CASE ~(phase = "polled" /\ bus.left = 1)
      <4>1. Waiting' /\ ~bus_write("CONTROL")'
        BY <2>2, <3>3, WaitingGoes, OtherFacts DEF bus_write
      <4> QED BY <1>0, <3>1, <4>1
    <3> QED BY <3>2, <3>3
  <2>3. CASE phase \in {"ack", "ack_refusal"}
    <3>1. NoBus
      BY <1>0, <2>3 DEF CycleOK, WritesOK, ReadPhases, NoBus, IsBus, bus_write
    <3>2. \/ NoBus' /\ phase' = phase
          \/ bus_write("CONTROL")' /\ bus'.left = 3
      BY <2>3, <3>1, OtherFacts DEF Holds, Pauses, Ends, Begins, BeginsIssue, BeginsWrite,
         BeginsWord, BeginsRead, Opens, NoBus, bus_write
    <3>3. ~control_ack' /\ ~bus_write("CONTROL")
      BY <1>0, <3>1 DEF bus_write, NoBus
    <3>4. CASE NoBus' /\ phase' = phase
      BY <2>3, <3>3, <3>4 DEF bus_write, NoBus
    <3>5. CASE bus_write("CONTROL")' /\ bus'.left = 3
      BY <3>3, <3>5
    <3> QED BY <3>2, <3>4, <3>5
  <2>4. CASE phase \in {"refused?", "refused"} /\ ~bus_write("CONTROL")
    <3>1. /\ phase' \in {"refused?", "ack_refusal"} \/ (phase' = "refused" /\ NoBus')
          /\ ~bus_write("CONTROL")'
      BY <1>0, <2>4, OtherFacts DEF Holds, Pauses, Ends, Told, Begins, BeginsIssue, BeginsWrite,
         BeginsWord, BeginsRead, Opens, NoBus, bus_write, CycleOK, RestPhases, Waiting
    <3> QED BY <1>0, <2>4, <3>1
  <2>5. CASE bus_write("CONTROL")
    <3>1. bus.left = 3 /\ bus.op = "write"
      BY <1>0, <1>6, <2>5 DEF CycleOK, WritesOK, bus_write, NoBus, Waiting
    <3>2. bus_write("CONTROL")' /\ bus'.left = 2
      BY <2>5, <3>1, Holding DEF Next, bus_write
    <3> QED BY <1>0, <2>5, <3>2
  <2> QED BY <1>0, <2>2, <2>3, <2>4, <2>5
<1> QED
  BY <1>5, <1>6

\* A store ends with its last word read.
LEMMA FromXferDst ==
    ASSUME Serial, SerialInv, Next, cir_state = "XFER_DST"
    PROVE  StateOK'
<1>0. /\ Finished /\ command = cur /\ cur.shape = "store" /\ cur.n # 0
      /\ fp_reg[cur.dst] = cur.want[1] /\ word_count = cur.words /\ cur.words \in 1..3
      /\ Waiting \/ phase \in {"fetch", "fetched"}
      /\ read_done <=> phase = "fetched" /\ bus.left = 3
      /\ word_idx = IF phase = "fetch" THEN sent
                    ELSE IF phase = "fetched" THEN (IF bus.left >= 3 THEN sent ELSE sent + 1)
                    ELSE 0
      /\ word_idx < cur.words
      /\ phase \in {"fetch", "fetched"} => Staged(cur.want[1])
      /\ XferDst /\ Unused /\ FpuClock /\ CycleOK /\ WritesOK /\ CycleOK'
  BY OtherFacts, StateStep DEF StateOK, XferDstOK
<1>1. /\ cir_state' = IF read_done /\ word_idx + 1 >= word_count THEN "XFER_DST_WAIT" ELSE "XFER_DST"
      /\ word_idx' = IF read_done /\ ~(word_idx + 1 >= word_count) THEN word_idx + 1 ELSE word_idx
      /\ ~launch_alu' /\ word_count' = word_count
  BY <1>0 DEF XferDst, Goto, Pulse, NoPulse
<1>2. phase # "free" /\ ~bus_write("COMMAND")
  BY <1>0, WaitingGoes, OtherFacts DEF WritesOK, Waiting, bus_write
<1>3. cur' = cur /\ golden' = golden /\ command' = cur'
  BY <1>0, <1>2, IssueOnly, OtherFacts
<1>4. Finished' /\ fp_reg' = fp_reg
  BY <1>0, <1>1, <1>3, FinishedStays
<1>5. read_done' <=> bus_read("OPERAND") /\ bus.first
  BY <1>0, OtherFacts, WriteRegisters DEF PrevOK
<1>6. Staged(cur.want[1]) => Staged(cur.want[1])'
  BY <1>0, <1>3, WriteRegisters, OtherFacts DEF Staged, WordIdx
<1> DEFINE Goal ==
      /\ Waiting \/ phase \in {"fetch", "fetched"}
      /\ read_done <=> phase = "fetched" /\ bus.left = 3
      /\ word_idx = IF phase = "fetch" THEN sent
                    ELSE IF phase = "fetched" THEN (IF bus.left >= 3 THEN sent ELSE sent + 1)
                    ELSE 0
      /\ word_idx < cur.words
      /\ phase \in {"fetch", "fetched"} => Staged(cur.want[1])
<1>7. cir_state' = "XFER_DST" /\ Goal' => StateOK'
  BY <1>0, <1>1, <1>3, <1>4 DEF StateOK, SerialStates, XferDstOK
<1>8. CASE Waiting
  <2>1. ~read_done /\ word_idx = 0 /\ cir_state' = "XFER_DST" /\ word_idx' = 0
    BY <1>0, <1>1, <1>8 DEF Waiting
  <2>2. ~read_done'
    BY <1>0, <1>5, <1>8 DEF Waiting, bus_read, NoBus, CycleOK, RestPhases
  <2>3. CASE phase = "polled" /\ bus.left = 1
    <3>1. NoBus' /\ \/ phase' = "busy"
                    \/ phase' = "fetch" /\ sent' = 0 /\ Staged(cur.want[1])
      BY <1>0, <2>3, Answered, OtherFacts DEF Truth
    <3>2. CASE phase' = "busy"
      BY <1>0, <1>3, <1>7, <2>1, <2>2, <3>1, <3>2 DEF Waiting, NoBus
    <3>3. CASE phase' = "fetch" /\ sent' = 0 /\ Staged(cur.want[1])
      BY <1>0, <1>3, <1>6, <1>7, <2>1, <2>2, <3>1, <3>3
    <3> QED BY <3>1, <3>2, <3>3
  <2>4. CASE ~(phase = "polled" /\ bus.left = 1)
    <3>1. Waiting' /\ phase' \notin {"fetch", "fetched"}
      BY <1>8, <2>4, WaitingGoes, OtherFacts DEF Waiting
    <3> QED BY <1>0, <1>3, <1>7, <2>1, <2>2, <3>1
  <2> QED BY <2>3, <2>4
<1>9. CASE phase = "fetch"
  <2>1. NoBus /\ ~read_done /\ word_idx = sent
    BY <1>0, <1>9 DEF CycleOK, WritesOK, ReadPhases, NoBus, IsBus, bus_write
  <2>2. /\ sent' = sent /\ \/ NoBus' /\ phase' = "fetch"
                           \/ phase' = "fetched" /\ bus'.left = 4
    BY <1>9, <2>1, OtherFacts DEF Holds, Pauses, Ends, Begins, BeginsIssue, BeginsWrite,
         BeginsWord, BeginsRead, Opens, NoBus
  <2>3. ~read_done' /\ cir_state' = "XFER_DST" /\ word_idx' = word_idx
    BY <1>1, <1>5, <2>1 DEF bus_read, NoBus
  <2> QED BY <1>0, <1>3, <1>6, <1>7, <1>9, <2>1, <2>2, <2>3
<1>10. CASE phase = "fetched"
  <2>1. bus.op = "read" /\ bus.addr = "OPERAND" /\ bus.left \in 1..4 /\ (bus.first <=> bus.left = 4)
        /\ sent \in 0..cur.words-1
    BY <1>0, <1>10, OtherFacts DEF CycleOK, RestPhases, NoBus, IsBus, CountsOK
  <2>2. bus_read("OPERAND")
    BY <2>1 DEF bus_read
  <2>3. CASE bus.left = 1
    <3>1. Ends
      BY <2>1, <2>3, OtherFacts, Opening DEF Holds, Pauses, NoBus
    <3>2. NoBus' /\ sent' = sent + 1 /\ phase' = IF sent + 1 = cur.words THEN "poll" ELSE "fetch"
      BY <1>10, <2>1, <3>1 DEF Ends, Told, NoBus
    <3>3. word_idx = sent + 1 /\ word_idx' = word_idx /\ cir_state' = "XFER_DST" /\ ~read_done'
          /\ phase' = "fetch"
      BY <1>0, <1>1, <1>5, <1>10, <2>1, <2>3, <3>2
    <3> QED BY <1>0, <1>3, <1>6, <1>7, <1>10, <3>2, <3>3
  <2>4. CASE bus.left # 1
    <3>1. phase' = "fetched" /\ sent' = sent /\ bus'.left = bus.left - 1
      BY <1>10, <2>1, <2>4, Holding DEF Next
    <3>2. CASE bus.left = 3
      <4>1. read_done /\ ~read_done' /\ word_idx = sent /\ bus'.left = 2
        BY <1>0, <1>5, <1>10, <2>1, <3>1, <3>2
      <4>2. CASE sent + 1 = cur.words
        <5>1. cir_state' = "XFER_DST_WAIT"
          BY <1>0, <1>1, <4>1, <4>2
        <5>2. XferDstWaitOK'
          BY <1>3, <1>4, <3>1, <4>1, <4>2 DEF XferDstWaitOK
        <5> QED BY <5>1, <5>2 DEF StateOK, SerialStates
      <4>3. CASE sent + 1 # cur.words
        <5>1. cir_state' = "XFER_DST" /\ word_idx' = sent + 1 /\ sent + 1 < cur.words
          BY <1>0, <1>1, <2>1, <4>1, <4>3
        <5> QED BY <1>0, <1>3, <1>6, <1>7, <1>10, <3>1, <4>1, <5>1
      <4> QED BY <4>2, <4>3
    <3>3. CASE bus.left # 3
      <4>1. ~read_done /\ word_idx' = word_idx /\ cir_state' = "XFER_DST"
        BY <1>0, <1>1, <3>3
      <4>2. (read_done' <=> bus'.left = 3) /\ (bus.left >= 3 <=> bus'.left >= 3)
        BY <1>5, <2>1, <2>2, <2>4, <3>1, <3>3
      <4> QED BY <1>0, <1>3, <1>6, <1>7, <1>10, <3>1, <4>1, <4>2
    <3> QED BY <3>2, <3>3
  <2> QED BY <2>3, <2>4
<1> QED
  BY <1>0, <1>8, <1>9, <1>10

\* The clock after the last word of a store or a frame.
LEMMA FromXferDstWait ==
    ASSUME Serial, SerialInv, Next, cir_state = "XFER_DST_WAIT"
    PROVE  StateOK'
<1>0. /\ Finished /\ bus.left = 2 /\ XferDstWait /\ Unused /\ FpuClock /\ CycleOK
      /\ \/ phase = "fetched" /\ sent + 1 = cur.words
         \/ phase = "save_word" /\ sent + 1 = FrameWords
  BY OtherFacts, StateStep DEF StateOK, XferDstWaitOK
<1>1. bus.op = "read"
  BY <1>0 DEF CycleOK, RestPhases
<1>2. phase' = phase /\ sent' = sent /\ bus'.left = 1 /\ bus'.op = "read"
  BY <1>0, <1>1, Holding DEF Next
<1>3. cur' = cur /\ golden' = golden
  BY <1>0, IssueOnly, OtherFacts
<1>4. cir_state' = "IDLE" /\ ~launch_alu'
  BY <1>0 DEF XferDstWait, Goto, Pulse, NoPulse
<1>5. Finished'
  BY <1>0, <1>3, <1>4, FinishedStays
<1>6. IdleWhere'
  BY <1>0, <1>2, <1>3 DEF IdleWhere
<1> QED
  BY <1>0, <1>1, <1>2, <1>4, <1>5, <1>6, ToIdle DEF bus_write

\* A condition goes from its write to the answer and back.
LEMMA FromCond ==
    ASSUME Serial, SerialInv, Next, cir_state \in {"COND_EVAL", "COND_WAIT", "COND_CHECK"}
    PROVE  StateOK'
<1>0. /\ CondOK /\ ~op_start /\ ~alu_busy /\ ~valid /\ ~arith_active /\ ~move_pending
      /\ fp_reg = golden /\ instr_type = "cpCOND" /\ (launch_alu <=> cir_state = "COND_WAIT")
      /\ Unused /\ FpuClock /\ CycleOK /\ CycleOK' /\ cir_dialog_proc /\ alu_control_proc /\ mc68881_alu
  BY OtherFacts DEF StateOK, CondOK
<1>1. /\ fp_reg' = fp_reg /\ ~op_start' /\ ~alu_busy' /\ ~valid' /\ ~arith_active' /\ ~move_pending'
  BY <1>0, ControlRegisters, AluRegisters DEF Unused
<1>2. /\ phase \in {"poll", "polled"} /\ ~bus_write("COMMAND") /\ ~bus_write("OPWORD")
      /\ cir_state = "COND_EVAL" => bus_write("CONDITION") /\ bus.left = 1 /\ bus.op = "write"
      /\ cir_state # "COND_EVAL" => (NoBus /\ phase = "poll") \/ (phase = "polled" /\ bus.left = 4)
      /\ phase = "polled" => bus.op = "read"
  BY <1>0, OtherFacts DEF CondOK, WritesOK, CycleOK, RestPhases, bus_write, NoBus
<1>3. cur' = cur /\ golden' = golden /\ instr_type' = "cpCOND"
  BY <1>0, <1>2, IssueOnly, OtherFacts
<1>4. cir_state # "COND_EVAL" => Waiting' /\ (phase' = "poll" \/ phase' = "polled")
  <2>1. CASE NoBus /\ phase = "poll"
    <3>1. \/ NoBus' /\ phase' = "poll"
          \/ phase' = "polled"
      BY <2>1, OtherFacts DEF Holds, Pauses, Ends, Begins, BeginsIssue, BeginsWrite,
         BeginsWord, BeginsRead, Opens, NoBus
    <3> QED BY <3>1 DEF Waiting
  <2>2. CASE phase = "polled" /\ bus.left = 4
    BY <1>2, <2>2, Holding DEF Waiting, Next
  <2> QED BY <1>2, <2>1, <2>2
<1>5. CASE cir_state = "COND_EVAL"
  <2>1. NoBus' /\ phase' = "poll"
    BY <1>2, <1>5, Ending, OtherFacts DEF WritesOK, NoBus
  <2>2. cir_state' = "COND_WAIT" /\ launch_alu'
    BY <1>0, <1>5, StateStep DEF CondEval, Goto, Pulse
  <2>3. CondOK'
    BY <1>0, <1>1, <1>3, <2>1, <2>2 DEF CondOK
  <2> QED BY <2>2, <2>3 DEF StateOK, SerialStates
<1>6. CASE cir_state = "COND_WAIT"
  <2>1. cir_state' = "COND_CHECK" /\ ~launch_alu'
    BY <1>0, <1>6, StateStep DEF CondWait, Goto, Pulse, NoPulse
  <2>2. response_pending' /\ (response' = "COND_TRAP" <=> trap_pending')
    BY <1>0, <1>6, ReadRegisters
  <2>3. NoBus /\ phase = "poll"
    BY <1>0, <1>6 DEF CondOK
  <2>4. (NoBus' /\ phase' = "poll") \/ (phase' = "polled" /\ bus'.left = 4)
    BY <2>3, OtherFacts DEF Holds, Pauses, Ends, Begins, BeginsIssue, BeginsWrite,
         BeginsWord, BeginsRead, Opens, NoBus
  <2>5. CondOK'
    BY <1>0, <1>1, <1>3, <2>1, <2>2, <2>4 DEF CondOK
  <2> QED BY <2>1, <2>5 DEF StateOK, SerialStates
<1>7. CASE cir_state = "COND_CHECK"
  <2>1. cir_state' = (IF trap_pending THEN "EXCEPT_PRE" ELSE "IDLE") /\ ~launch_alu'
    BY <1>0, <1>7, StateStep DEF CondCheck, Goto, Pulse, NoPulse
  <2>2. Finished' /\ Waiting'
    BY <1>0, <1>1, <1>3, <1>4, <1>7, <2>1 DEF Finished, Still
  <2>3. ~bus_write("CONDITION") /\ ~bus_write("CONTROL")
    BY <1>2, <1>7 DEF bus_write, NoBus
  <2>4. ~bus_write("CONTROL")' /\ (bus'.op = "write" => bus'.addr = "OPWORD")
    BY <2>2, <1>0 DEF Waiting, bus_write, CycleOK, RestPhases, NoBus
  <2>5. CASE trap_pending
    <3>1. ~control_ack'
      BY <2>3, WriteRegisters, OtherFacts
    <3>2. ExceptOK'
      BY <2>2, <2>4, <3>1 DEF ExceptOK
    <3> QED BY <2>1, <2>5, <3>2 DEF StateOK, SerialStates
  <2>6. CASE ~trap_pending
    <3>1. IdleWhere' /\ phase' \notin {"condition", "command"}
      BY <2>2 DEF IdleWhere, Waiting
    <3> QED BY <1>2, <1>7, <2>1, <2>2, <2>3, <2>4, <2>6, <3>1, ToIdle
  <2> QED BY <2>5, <2>6
<1> QED
  BY <1>5, <1>6, <1>7

\* In a save or a restore nothing is launched and the host issues nothing.
LEMMA FrameStates ==
    ASSUME Serial, SerialInv, Next,
           cir_state \in {"SAVE_WAIT", "SAVE_FORMAT", "SAVE_FRAME", "RESTORE_FORMAT", "RESTORE_FRAME"}
    PROVE  /\ Finished' /\ ~bus_write("COMMAND") /\ ~bus_write("CONDITION")
           /\ bus_write("OPWORD") => phase \in {"save", "restore"}
           /\ ~launch_alu'
<1>0. /\ Finished /\ Unused /\ FpuClock /\ cir_dialog_proc
      /\ cir_state \in {"SAVE_WAIT", "SAVE_FORMAT", "SAVE_FRAME"} => SaveOK
      /\ cir_state \in {"RESTORE_FORMAT", "RESTORE_FRAME"} => RestoreOK
  BY OtherFacts DEF StateOK, SaveOK, RestoreOK
<1>1. ~launch_alu'
  BY <1>0, StateStep DEF SaveWait, SaveFormat, SaveFrame, RestoreFormat, RestoreFrame, Pulse,
     NoPulse
<1>2. phase \in {"save", "saved", "save_words", "save_word"}
      \/ phase \in {"restore", "restored", "refused", "restore_words"}
  <2>1. cir_state \in {"SAVE_WAIT", "SAVE_FORMAT", "SAVE_FRAME"} =>
           phase \in {"save", "saved", "save_words", "save_word"}
    BY <1>0 DEF SaveOK
  <2>2. cir_state \in {"RESTORE_FORMAT", "RESTORE_FRAME"} =>
           phase \in {"restore", "restored", "refused", "restore_words"}
    BY <1>0, OtherFacts DEF RestoreOK, WritesOK
  <2> QED BY <2>1, <2>2
<1>3. ~bus_write("COMMAND") /\ ~bus_write("CONDITION")
      /\ (bus_write("OPWORD") => phase \in {"save", "restore"})
  BY <1>2, OtherFacts DEF WritesOK
<1>4. cur' = cur /\ golden' = golden
  BY <1>2, IssueOnly, OtherFacts
<1>5. Finished'
  BY <1>0, <1>1, <1>4, FinishedStays
<1> QED
  BY <1>1, <1>3, <1>5

\* A save goes from the format to the last word of the frame.
LEMMA FromSave ==
    ASSUME Serial, SerialInv, Next, cir_state \in {"SAVE_WAIT", "SAVE_FORMAT", "SAVE_FRAME"}
    PROVE  StateOK'
<1>0. /\ SaveOK /\ CycleOK /\ WritesOK /\ CycleOK' /\ CountsOK /\ cir_dialog_proc /\ Host
      /\ cir_write_proc /\ alu_control_proc /\ Finished
  BY OtherFacts DEF StateOK, SaveOK
<1>1. Finished' /\ ~launch_alu' /\ ~bus_write("COMMAND") /\ ~bus_write("CONDITION")
      /\ (bus_write("OPWORD") => phase \in {"save", "restore"})
  BY FrameStates
<1>2. /\ save_read_done' <=> bus_read("SAVE") /\ bus.first /\ cir_state = "SAVE_FORMAT"
      /\ read_done' <=> bus_read("OPERAND") /\ bus.first /\ cir_state = "SAVE_FRAME"
  BY <1>0, OtherFacts, WriteRegisters DEF PrevOK
<1>3. FrameWords \in Nat \ {0, 1}
  BY DialogAssumption
<1>4. CASE cir_state = "SAVE_WAIT"
  <2>1. phase = "save" /\ bus.op = "write" /\ bus.left = 1
    BY <1>0, <1>4 DEF SaveOK
  <2>2. NoBus' /\ phase' = "save"
    BY <1>0, <2>1, Ending DEF NoBus
  <2>3. /\ cir_state' = "SAVE_FORMAT" /\ frame_idx' = 0 /\ frame_kind' \in {"null", "idle"}
        /\ word_count' = IF frame_kind' = "null" THEN 0 ELSE FrameWords
    BY <1>0, <1>4, StateStep DEF SaveWait, Goto, Finished, Still
  <2>4. ~save_read_done'
    BY <1>2, <2>1 DEF bus_read
  <2>5. SaveOK'
    BY <1>1, <2>2, <2>3, <2>4 DEF SaveOK
  <2> QED BY <2>3, <2>5 DEF StateOK, SerialStates
<1>5. CASE cir_state = "SAVE_FORMAT"
  <2>1. /\ (phase = "save" /\ NoBus) \/ (phase = "saved" /\ bus.left >= 3)
        /\ frame_kind \in {"null", "idle"} /\ frame_idx = 0
        /\ word_count = IF frame_kind = "null" THEN 0 ELSE FrameWords
        /\ save_read_done <=> phase = "saved" /\ bus.left = 3
        /\ save_read_done => d_out = <<"SAVE", frame_kind>>
    BY <1>0, <1>5 DEF SaveOK
  <2>2. /\ cir_state' = IF ~save_read_done THEN "SAVE_FORMAT"
                        ELSE IF word_count = 0 THEN "IDLE" ELSE "SAVE_FRAME"
        /\ UNCHANGED <<frame_kind, frame_idx, word_count>>
    BY <1>0, <1>5, StateStep DEF SaveFormat, Goto, SameXfer, frameVars
  <2>3. CASE phase = "save" /\ NoBus
    <3>1. (NoBus' /\ phase' = "save") \/ (phase' = "saved" /\ bus'.left = 4)
      BY <2>3, OtherFacts DEF Holds, Pauses, Ends, Begins, BeginsIssue, BeginsWrite,
         BeginsWord, BeginsRead, Opens, NoBus
    <3>2. cir_state' = "SAVE_FORMAT" /\ ~save_read_done'
      BY <1>2, <2>1, <2>2, <2>3 DEF bus_read, NoBus
    <3>3. SaveOK'
      BY <1>1, <2>1, <2>2, <3>1, <3>2 DEF SaveOK
    <3> QED BY <3>2, <3>3 DEF StateOK, SerialStates
  <2>4. CASE phase = "saved" /\ bus.left >= 3
    <3>1. bus.op = "read" /\ bus.addr = "SAVE" /\ bus_read("SAVE") /\ bus.left \in 3..4
          /\ (bus.first <=> bus.left = 4)
      BY <1>0, <2>4 DEF CycleOK, RestPhases, bus_read, NoBus, IsBus
    <3>2. phase' = "saved" /\ bus'.left = bus.left - 1 /\ bus'.op = "read"
      BY <1>0, <2>4, <3>1, Holding
    <3>3. CASE bus.left = 4
      <4>1. cir_state' = "SAVE_FORMAT" /\ save_read_done' /\ bus'.left = 3
        BY <1>2, <1>5, <2>1, <2>2, <3>1, <3>2, <3>3
      <4>2. d_out' = <<"SAVE", frame_kind'>>
        BY <1>0, <2>2, <3>1, <3>3, ReadRegisters
      <4>3. /\ frame_kind' \in {"null", "idle"} /\ frame_idx' = 0
            /\ word_count' = IF frame_kind' = "null" THEN 0 ELSE FrameWords
        BY <2>1, <2>2
      <4>4. phase' = "saved" /\ bus'.left >= 3
        BY <3>2, <4>1
      <4>5. SaveOK'
        BY <1>1, <4>1, <4>2, <4>3, <4>4 DEF SaveOK
      <4> QED BY <4>1, <4>5 DEF StateOK, SerialStates
    <3>4. CASE bus.left = 3
      <4>1. save_read_done /\ bus'.left = 2 /\ d_out' = <<"SAVE", frame_kind>>
        BY <1>0, <2>1, <2>4, <3>1, <3>2, <3>4, ReadRegisters
      <4>2. CASE frame_kind = "null"
        <5>1. cir_state' = "IDLE"
          BY <2>1, <2>2, <4>1, <4>2
        <5>2. IdleWhere'
          BY <3>2, <4>1, <4>2 DEF IdleWhere
        <5> QED BY <1>1, <1>5, <3>1, <3>2, <5>1, <5>2, ToIdle DEF bus_write
      <4>3. CASE frame_kind = "idle"
        <5>1. cir_state' = "SAVE_FRAME" /\ ~read_done' /\ word_count' = FrameWords /\ frame_idx' = 0
          BY <1>2, <1>3, <1>5, <2>1, <2>2, <4>1, <4>3
        <5>2. SaveOK'
          BY <1>1, <1>3, <3>2, <4>1, <4>3, <5>1 DEF SaveOK
        <5> QED BY <5>1, <5>2 DEF StateOK, SerialStates
      <4> QED BY <2>1, <4>2, <4>3
    <3> QED BY <3>1, <3>3, <3>4
  <2> QED BY <2>1, <2>3, <2>4
<1>6. CASE cir_state = "SAVE_FRAME"
  <2>1. /\ \/ phase = "saved" /\ bus.left <= 2 /\ d_out = <<"SAVE", "idle">>
           \/ phase = "save_words" \/ phase = "save_word"
        /\ word_count = FrameWords
        /\ read_done <=> phase = "save_word" /\ bus.left = 3
        /\ frame_idx = IF phase = "saved" THEN 0
                       ELSE IF phase = "save_words" \/ bus.left >= 3 THEN sent ELSE sent + 1
        /\ frame_idx < FrameWords
    BY <1>0, <1>6 DEF SaveOK
  <2>2. /\ cir_state' = IF read_done /\ frame_idx + 1 >= word_count THEN "XFER_DST_WAIT" ELSE "SAVE_FRAME"
        /\ frame_idx' = IF read_done /\ ~(frame_idx + 1 >= word_count) THEN frame_idx + 1 ELSE frame_idx
        /\ word_count' = FrameWords
    BY <1>0, <1>6, <2>1, StateStep DEF SaveFrame, Goto
  <2>3. CASE phase = "saved"
    <3>1. bus.op = "read" /\ bus.addr = "SAVE" /\ bus.left \in 1..2 /\ ~bus.first
      BY <1>0, <2>1, <2>3 DEF CycleOK, RestPhases, NoBus, IsBus
    <3>2. ~read_done /\ ~read_done' /\ cir_state' = "SAVE_FRAME" /\ frame_idx = 0 /\ frame_idx' = 0
          /\ d_out' = <<"SAVE", "idle">>
      BY <1>0, <1>2, <2>1, <2>2, <2>3, <3>1, ReadRegisters DEF bus_read
    <3>3. CASE bus.left = 2
      <4>1. phase' = "saved" /\ bus'.left = 1
        BY <1>0, <2>3, <3>1, <3>3, Holding
      <4>2. SaveOK'
        BY <1>1, <1>3, <2>2, <3>2, <4>1 DEF SaveOK
      <4> QED BY <3>2, <4>2 DEF StateOK, SerialStates
    <3>4. CASE bus.left = 1
      <4>1. Ends
        BY <3>1, <3>4, OtherFacts, Opening DEF Holds, Pauses, NoBus
      <4>2. sent' = 0 /\ phase' = "save_words"
        BY <1>0, <2>1, <2>3, <3>1, <4>1 DEF Ends, Told
      <4>3. SaveOK'
        BY <1>1, <1>3, <2>2, <3>2, <4>2 DEF SaveOK
      <4> QED BY <3>2, <4>3 DEF StateOK, SerialStates
    <3> QED BY <3>1, <3>3, <3>4
  <2>4. CASE phase = "save_words"
    <3>1. NoBus
      BY <1>0, <2>4 DEF CycleOK, WritesOK, ReadPhases, NoBus, IsBus, bus_write
    <3>2. sent' = sent /\ \/ NoBus' /\ phase' = "save_words"
                          \/ phase' = "save_word" /\ bus'.left = 4
      BY <2>4, <3>1, OtherFacts DEF Holds, Pauses, Ends, Begins, BeginsIssue, BeginsWrite,
         BeginsWord, BeginsRead, Opens, NoBus
    <3>3. ~read_done /\ ~read_done' /\ cir_state' = "SAVE_FRAME" /\ frame_idx' = sent /\ sent < FrameWords
      BY <1>2, <2>1, <2>2, <2>4, <3>1 DEF bus_read, NoBus
    <3>4. SaveOK'
      BY <1>1, <2>2, <3>2, <3>3 DEF SaveOK
    <3> QED BY <3>3, <3>4 DEF StateOK, SerialStates
  <2>5. CASE phase = "save_word"
    <3>1. bus.op = "read" /\ bus.addr = "OPERAND" /\ bus.left \in 1..4 /\ (bus.first <=> bus.left = 4)
          /\ sent \in 0..FrameWords-1
      BY <1>0, <2>5 DEF CycleOK, RestPhases, NoBus, IsBus, CountsOK
    <3>2. bus_read("OPERAND")
      BY <3>1 DEF bus_read
    <3>3. CASE bus.left = 1
      <4>1. Ends
        BY <3>1, <3>3, OtherFacts, Opening DEF Holds, Pauses, NoBus
      <4>2. sent' = sent + 1 /\ phase' = IF sent + 1 = FrameWords THEN "save_done" ELSE "save_words"
        BY <2>5, <3>1, <4>1 DEF Ends, Told
      <4>3. frame_idx = sent + 1 /\ frame_idx' = frame_idx /\ cir_state' = "SAVE_FRAME" /\ ~read_done'
            /\ phase' = "save_words" /\ sent + 1 < FrameWords
        BY <1>2, <1>3, <2>1, <2>2, <2>5, <3>1, <3>3, <4>2
      <4>4. SaveOK'
        BY <1>1, <2>2, <4>2, <4>3 DEF SaveOK
      <4> QED BY <4>3, <4>4 DEF StateOK, SerialStates
    <3>4. CASE bus.left # 1
      <4>1. phase' = "save_word" /\ sent' = sent /\ bus'.left = bus.left - 1
        BY <1>0, <2>5, <3>1, <3>4, Holding
      <4>2. CASE bus.left = 3
        <5>1. read_done /\ ~read_done' /\ frame_idx = sent /\ bus'.left = 2
          BY <1>2, <2>1, <2>5, <3>1, <4>1, <4>2
        <5>2. CASE sent + 1 = FrameWords
          <6>1. cir_state' = "XFER_DST_WAIT"
            BY <1>3, <2>1, <2>2, <5>1, <5>2
          <6>2. XferDstWaitOK'
            BY <1>1, <4>1, <5>1, <5>2 DEF XferDstWaitOK
          <6> QED BY <6>1, <6>2 DEF StateOK, SerialStates
        <5>3. CASE sent + 1 # FrameWords
          <6>1. cir_state' = "SAVE_FRAME" /\ frame_idx' = sent + 1 /\ sent + 1 < FrameWords
            BY <1>3, <2>1, <2>2, <3>1, <5>1, <5>3
          <6>2. SaveOK'
            BY <1>1, <2>2, <4>1, <5>1, <6>1 DEF SaveOK
          <6> QED BY <6>1, <6>2 DEF StateOK, SerialStates
        <5> QED BY <5>2, <5>3
      <4>3. CASE bus.left # 3
        <5>1. ~read_done /\ frame_idx' = frame_idx /\ cir_state' = "SAVE_FRAME"
          BY <2>1, <2>2, <4>3
        <5>2. (read_done' <=> bus'.left = 3) /\ (bus.left >= 3 <=> bus'.left >= 3)
          BY <1>2, <1>6, <3>1, <3>2, <3>4, <4>1, <4>3
        <5>3. SaveOK'
          BY <1>1, <2>1, <2>2, <2>5, <4>1, <5>1, <5>2 DEF SaveOK
        <5> QED BY <5>1, <5>3 DEF StateOK, SerialStates
      <4> QED BY <4>2, <4>3
    <3> QED BY <3>3, <3>4
  <2> QED BY <2>1, <2>3, <2>4, <2>5
<1> QED
  BY <1>4, <1>5, <1>6

\* A restore goes from the format to the last word, or is refused.
LEMMA FromRestore ==
    ASSUME Serial, SerialInv, Next, cir_state \in {"RESTORE_FORMAT", "RESTORE_FRAME"}
    PROVE  StateOK'
<1>0. /\ RestoreOK /\ CycleOK /\ WritesOK /\ CycleOK' /\ CountsOK /\ cir_dialog_proc /\ Host
      /\ cir_write_proc /\ alu_control_proc /\ Unused
  BY OtherFacts DEF StateOK
<1>1. Finished' /\ ~launch_alu' /\ ~bus_write("COMMAND") /\ ~bus_write("CONDITION")
      /\ (bus_write("OPWORD") => phase \in {"save", "restore"})
  BY FrameStates
<1>2. /\ restore_trigger' = bus_write("RESTORE")
      /\ restore_kind' = IF bus_write("RESTORE") THEN bus.data ELSE restore_kind
      /\ word_arrived' <=> bus_write("OPERAND") /\ bus.first /\ cir_state \in {"RESTORE_FRAME"}
      /\ control_ack' = bus_write("CONTROL")
  BY <1>0, OtherFacts, WriteRegisters, ControlRegisters DEF wrote, PrevOK, Unused
<1>3. FrameWords \in Nat \ {0, 1}
  BY DialogAssumption
<1>4. CASE cir_state = "RESTORE_FORMAT"
  <2>1. /\ \/ phase = "restore" /\ (NoBus \/ bus.left = 1)
           \/ bus_write("RESTORE") /\ bus.left >= 2
        /\ restore_trigger <=> bus_write("RESTORE") /\ bus.left = 2
        /\ restore_trigger => restore_kind = Format
        /\ bus_write("RESTORE") /\ phase = "restore_words" => sent = 0
    BY <1>0, <1>4 DEF RestoreOK
  <2>2. LET frame0 == restore_trigger /\ restore_kind \in {"idle", "busy"}
            null == restore_trigger /\ restore_kind = "null"
        IN  /\ cir_state' = IF ~restore_trigger THEN "RESTORE_FORMAT"
                   ELSE IF null THEN "IDLE"
                   ELSE IF frame0 THEN "RESTORE_FRAME" ELSE "EXCEPT_PRE"
            /\ frame_idx' = IF frame0 THEN 0 ELSE frame_idx
            /\ word_count' = IF frame0 THEN FrameWords ELSE word_count
    BY <1>0, <1>4, StateStep DEF RestoreFormat, Goto
  <2>3. CASE phase = "restore"
    <3>1. ~bus_write("RESTORE") /\ ~restore_trigger /\ ~restore_trigger' /\ cir_state' = "RESTORE_FORMAT"
      BY <1>0, <1>2, <2>1, <2>2, <2>3 DEF WritesOK
    <3>2. \/ phase' = "restore" /\ NoBus'
          \/ /\ bus_write("RESTORE")' /\ bus'.left = 3
             /\ phase' = "restore_words" => sent' = 0
      <4>1. CASE NoBus
        <5>1. frame.kind \in {"null", "idle"}
          BY <1>0 DEF CountsOK
        <5> QED BY <2>3, <4>1, <5>1, OtherFacts DEF Holds, Pauses, Ends, Begins, BeginsIssue,
                   BeginsWrite,
         BeginsWord, BeginsRead, Opens, NoBus, bus_write
      <4>2. CASE bus.op = "write" /\ bus.left = 1
        BY <1>0, <2>3, <4>2, Ending DEF NoBus
      <4> QED BY <1>0, <2>1, <2>3, <3>1, <4>1, <4>2 DEF CycleOK, IsBus, NoBus, ReadPhases
    <3>3. RestoreOK'
      BY <1>1, <3>1, <3>2 DEF RestoreOK, bus_write, NoBus
    <3> QED BY <3>1, <3>3 DEF StateOK, SerialStates
  <2>4. CASE bus_write("RESTORE") /\ bus.left >= 2
    <3>1. /\ bus.op = "write" /\ bus.left \in 2..3 /\ phase \in {"restore_words", "restored", "refused"}
          /\ bus.data = Format
      BY <1>0, <2>4 DEF CycleOK, WritesOK, bus_write, NoBus
    <3>2. bus_write("RESTORE")' /\ bus'.left = bus.left - 1 /\ phase' = phase /\ sent' = sent /\ bus'.op = "write"
          /\ bus'.addr = "RESTORE"
      BY <1>0, <2>4, <3>1, Holding DEF bus_write
    <3>3. restore_trigger' /\ restore_kind' = Format'
      BY <1>2, <2>4, <3>1, <3>2 DEF Format
    <3>4. CASE bus.left = 3
      <4>1. ~restore_trigger /\ cir_state' = "RESTORE_FORMAT"
        BY <2>1, <2>2, <3>4
      <4>2. RestoreOK'
        BY <1>1, <2>1, <3>1, <3>2, <3>3, <3>4, <4>1 DEF RestoreOK
      <4> QED BY <4>1, <4>2 DEF StateOK, SerialStates
    <3>5. CASE bus.left = 2
      <4>1. restore_trigger /\ restore_kind = Format /\ bus'.left = 1
        BY <2>1, <2>4, <3>2, <3>5
      <4>2. CASE phase = "restore_words"
        <5>1. cir_state' = "RESTORE_FRAME" /\ frame_idx' = 0 /\ word_count' = FrameWords
          BY <2>2, <4>1, <4>2 DEF Format
        <5>2. ~word_arrived' /\ ~bus_write("OPERAND")' /\ sent' = 0
          BY <1>2, <1>4, <2>1, <2>4, <3>2, <4>2 DEF bus_write
        <5>3. RestoreOK'
          BY <1>1, <3>2, <4>1, <4>2, <5>1, <5>2 DEF RestoreOK
        <5> QED BY <5>1, <5>3 DEF StateOK, SerialStates
      <4>3. CASE phase = "restored"
        <5>1. cir_state' = "IDLE"
          BY <2>2, <4>1, <4>3 DEF Format
        <5>2. IdleWhere'
          BY <3>2, <4>1, <4>3 DEF IdleWhere
        <5> QED BY <1>1, <1>4, <3>1, <3>2, <4>3, <5>1, <5>2, ToIdle
      <4>4. CASE phase = "refused"
        <5>1. cir_state' = "EXCEPT_PRE"
          BY <2>2, <4>1, <4>4 DEF Format
        <5>2. ~control_ack' /\ ~bus_write("CONTROL")'
          BY <1>2, <2>4, <3>2 DEF bus_write
        <5>3. ExceptOK'
          BY <1>1, <3>2, <4>1, <4>4, <5>2 DEF ExceptOK
        <5> QED BY <5>1, <5>3 DEF StateOK, SerialStates
      <4> QED BY <3>1, <4>2, <4>3, <4>4
    <3> QED BY <3>1, <3>4, <3>5
  <2> QED BY <2>1, <2>3, <2>4
<1>5. CASE cir_state = "RESTORE_FRAME"
  <2>1. /\ \/ phase = "restore_words" /\ (bus_write("RESTORE") => bus.left = 1)
           \/ phase = "restored" /\ bus_write("OPERAND") /\ bus.left >= 2
        /\ word_count = FrameWords
        /\ word_arrived <=> bus_write("OPERAND") /\ bus.left = 2
        /\ frame_idx = IF bus_write("OPERAND") /\ bus.left >= 2 THEN sent - 1 ELSE sent
        /\ bus_write("RESTORE") => sent = 0
    BY <1>0, <1>5 DEF RestoreOK
  <2>2. LET last == frame_idx + 1 >= word_count
        IN /\ cir_state' = IF word_arrived /\ last THEN "IDLE" ELSE "RESTORE_FRAME"
           /\ frame_idx' = IF word_arrived /\ ~last THEN frame_idx + 1 ELSE frame_idx
           /\ word_count' = word_count
    BY <1>0, <1>5, StateStep DEF RestoreFrame, Goto
  <2>3. /\ phase = "restore_words" => sent \in 0..FrameWords-1
        /\ phase = "restored" => sent = FrameWords
    BY <1>0 DEF CountsOK
  <2>4. CASE bus_write("OPERAND") /\ bus.left # 1
    <3>1. bus.op = "write" /\ bus.left \in 2..3 /\ (bus.first <=> bus.left = 3)
      BY <1>0, <2>4 DEF CycleOK, bus_write
    <3>2. bus_write("OPERAND")' /\ bus'.left = bus.left - 1 /\ phase' = phase /\ sent' = sent
          /\ bus'.op = "write" /\ bus'.addr = "OPERAND" /\ ~bus_write("RESTORE")'
      BY <1>0, <2>4, <3>1, Holding DEF bus_write
    <3>3. frame_idx = sent - 1
      BY <2>1, <2>4, <3>1
    <3>4. CASE bus.left = 3
      <4>1. word_arrived' /\ ~word_arrived /\ cir_state' = "RESTORE_FRAME" /\ frame_idx' = frame_idx
            /\ bus'.left = 2
        BY <1>2, <1>5, <2>1, <2>2, <2>4, <3>1, <3>2, <3>4
      <4>2. /\ phase' = "restore_words" \/ phase' = "restored"
            /\ word_count' = FrameWords /\ frame_idx' = sent' - 1
            /\ bus'.left >= 2
        BY <2>1, <2>2, <3>2, <3>3, <4>1
      <4>3. RestoreOK'
        BY <1>1, <3>2, <4>1, <4>2 DEF RestoreOK
      <4> QED BY <4>1, <4>3 DEF StateOK, SerialStates
    <3>5. CASE bus.left = 2
      <4>1. ~word_arrived' /\ word_arrived /\ bus'.left = 1
        BY <1>2, <2>1, <2>4, <3>1, <3>2, <3>5
      <4>2. CASE phase = "restore_words"
        <5>1. cir_state' = "RESTORE_FRAME" /\ frame_idx' = sent
          BY <1>3, <2>1, <2>2, <2>3, <3>3, <4>1, <4>2
        <5>2. RestoreOK'
          BY <1>1, <2>1, <2>2, <3>2, <4>1, <4>2, <5>1 DEF RestoreOK
        <5> QED BY <5>1, <5>2 DEF StateOK, SerialStates
      <4>3. CASE phase = "restored"
        <5>1. cir_state' = "IDLE"
          BY <1>3, <2>1, <2>2, <2>3, <3>3, <4>1, <4>3
        <5>2. IdleWhere'
          BY <3>2, <4>1, <4>3 DEF IdleWhere
        <5> QED BY <1>1, <1>5, <3>2, <4>3, <5>1, <5>2, ToIdle
      <4> QED BY <2>1, <4>2, <4>3
    <3> QED BY <3>1, <3>4, <3>5
  <2>5. CASE ~(bus_write("OPERAND") /\ bus.left # 1)
    <3>1. phase = "restore_words" /\ frame_idx = sent /\ ~word_arrived
      BY <1>0, <2>1, <2>5 DEF CycleOK, bus_write
    <3>2. NoBus \/ (bus.op = "write" /\ bus.left = 1)
      BY <1>0, <2>1, <2>5, <3>1 DEF CycleOK, WritesOK, IsBus, NoBus, ReadPhases, bus_write
    <3>3. ~word_arrived' /\ cir_state' = "RESTORE_FRAME" /\ frame_idx' = sent
      BY <1>0, <1>2, <2>2, <3>1, <3>2 DEF CycleOK, bus_write, NoBus
    <3>4. \/ NoBus' /\ phase' = "restore_words" /\ sent' = sent
          \/ /\ bus_write("OPERAND")' /\ bus'.left = 3 /\ sent' = sent + 1
             /\ phase' \in {"restored", "restore_words"}
      <4>1. CASE NoBus
        BY <3>1, <4>1, OtherFacts DEF Holds, Pauses, Ends, Begins, BeginsIssue, BeginsWrite,
         BeginsWord, BeginsRead, Opens, NoBus, bus_write
      <4>2. CASE bus.op = "write" /\ bus.left = 1
        BY <1>0, <3>1, <4>2, Ending DEF NoBus
      <4> QED BY <3>2, <4>1, <4>2
    <3>5. RestoreOK'
      BY <1>1, <2>1, <2>2, <2>3, <3>3, <3>4 DEF RestoreOK, bus_write, NoBus
    <3> QED BY <3>3, <3>5 DEF StateOK, SerialStates
  <2> QED BY <2>4, <2>5
<1> QED
  BY <1>4, <1>5

-----------------------------------------------------------------------------
(* What the host is told is still true when it is read *)

\* Each state of the dialog is kept to, whatever the host and the ALU do.
LEMMA KeepsState ==
    ASSUME Serial, SerialInv, Next
    PROVE  StateOK'
<1>1. cir_state \in SerialStates
  BY DEF SerialInv, StateOK
<1> QED
  BY <1>1, FromIdleMoving, FromIdleStill, FromDecode, FromXferSrc, FromXferSrcWait, FromExecute,
     FromExecuteDone, FromExcept, FromXferDst, FromXferDstWait, FromCond, FromSave, FromRestore
  DEF SerialStates

\* A phase that only one state of the dialog has.
LEMMA PhaseStates ==
    ASSUME CycleOK', WritesOK', StateOK'
    PROVE  /\ phase' = "saved" /\ bus'.left <= 2 => d_out' \in {<<"SAVE", "null">>, <<"SAVE", "idle">>}
           /\ phase' \in {"refused?", "ack"} => cir_state' \in {"EXCEPT_PRE", "EXCEPT_POST"}
           /\ phase' = "operand" => cir_state' = "XFER_SRC"
           /\ phase' = "fetch" => cir_state' = "XFER_DST"
           /\ phase' = "fetched" /\ bus'.left >= 3 => cir_state' = "XFER_DST"
<1> DEFINE Goal == /\ phase = "saved" /\ bus.left <= 2 => d_out \in {<<"SAVE", "null">>, <<"SAVE", "idle">>}
                   /\ phase \in {"refused?", "ack"} => cir_state \in {"EXCEPT_PRE", "EXCEPT_POST"}
                   /\ phase = "operand" => cir_state = "XFER_SRC"
                   /\ phase = "fetch" => cir_state = "XFER_DST"
                   /\ phase = "fetched" /\ bus.left >= 3 => cir_state = "XFER_DST"
<1>1. /\ bus'.op = "read" => bus'.left \in 1..4 /\ phase' \in ReadPhases
      /\ bus'.op = "write" => bus'.left \in 1..3 /\ phase' \in RestPhases
      /\ bus'.op \notin {"read", "write"} => NoBus' /\ phase' \in RestPhases
  BY DEF CycleOK, IsBus, NoBus
<1>2. /\ bus_write("COMMAND")' => phase' \in {"opword", "poll"}
      /\ bus_write("CONDITION")' => phase' = "poll"
      /\ bus_write("CONTROL")' => phase' \in {"poll", "away"}
      /\ bus_write("RESTORE")' => phase' \in {"restore_words", "restored", "refused"}
      /\ bus_write("OPERAND")' => phase' \in {"poll", "operand", "restored", "restore_words"}
  BY DEF WritesOK
<1>3. Waiting' => phase' \in {"opword", "busy", "poll", "polled"}
  BY DEF Waiting
<1>4. CASE cir_state' = "IDLE"
  <2>1. IdleWhere' BY <1>4 DEF StateOK, IdleOK
  <2> QED BY <1>1, <1>2, <1>3, <2>1 DEF IdleWhere, ReadPhases, RestPhases
<1>5. CASE cir_state' \in {"DECODE", "XFER_SRC", "XFER_SRC_WAIT", "XFER_SRC_WAIT2"}
  <2>1. phase' \in {"opword", "busy", "poll", "polled"} \/ (cir_state' = "XFER_SRC" /\ phase' = "operand")
    BY <1>2, <1>3, <1>5 DEF StateOK, DecodeOK, Moving, XferSrcOK, XferSrcWaitOK
  <2> QED BY <1>5, <2>1
<1>6. CASE cir_state' \in {"EXECUTE", "EXECUTE_DONE", "COND_EVAL", "COND_WAIT", "COND_CHECK"}
  <2>1. phase' \in {"opword", "busy", "poll", "polled"}
    BY <1>2, <1>3, <1>6 DEF StateOK, ExecuteOK, ExecuteDoneOK, CondOK
  <2> QED BY <2>1
<1>7. CASE cir_state' \in {"EXCEPT_PRE", "EXCEPT_POST"}
  <2>1. phase' \in {"opword", "busy", "poll", "polled", "ack", "refused?", "ack_refusal", "away", "refused"}
    BY <1>2, <1>3, <1>7 DEF StateOK, ExceptOK
  <2> QED BY <1>7, <2>1
<1>8. CASE cir_state' \in {"XFER_DST", "XFER_DST_WAIT"}
  <2>1. cir_state' = "XFER_DST" => phase' \in {"opword", "busy", "poll", "polled", "fetch", "fetched"}
    BY <1>3 DEF StateOK, XferDstOK
  <2>2. cir_state' = "XFER_DST_WAIT" => phase' \in {"fetched", "save_word"} /\ bus'.left = 2
    BY DEF StateOK, XferDstWaitOK
  <2> QED BY <1>8, <2>1, <2>2
<1>9. CASE cir_state' \in {"SAVE_WAIT", "SAVE_FORMAT", "SAVE_FRAME"}
  <2>1. SaveOK' BY <1>9 DEF StateOK
  <2>2. cir_state' = "SAVE_FORMAT" => phase' = "save" \/ (phase' = "saved" /\ bus'.left >= 3)
    BY <2>1 DEF SaveOK
  <2>3. cir_state' = "SAVE_FRAME" => \/ phase' = "saved" /\ d_out' = <<"SAVE", "idle">>
                                     \/ phase' \in {"save_words", "save_word"}
    BY <2>1 DEF SaveOK
  <2>4. cir_state' = "SAVE_WAIT" => phase' = "save"
    BY <2>1 DEF SaveOK
  <2> QED BY <1>1, <1>9, <2>2, <2>3, <2>4 DEF ReadPhases, RestPhases
<1>10. CASE cir_state' \in {"RESTORE_FORMAT", "RESTORE_FRAME"}
  <2>1. phase' \in {"restore", "restored", "refused", "restore_words"}
    BY <1>2, <1>10 DEF StateOK, RestoreOK
  <2> QED BY <2>1
<1>11. cir_state' \in SerialStates
  BY DEF StateOK
<1> QED
  BY <1>4, <1>5, <1>6, <1>7, <1>8, <1>9, <1>10, <1>11 DEF SerialStates

\* While the host reads the response, and as it begins to, nothing it may be
\* told becomes false.
LEMMA TruthStays ==
    ASSUME Serial, SerialInv, Next,
           (NoBus /\ phase \in {"poll", "busy"}) \/ (phase = "polled" /\ bus.left # 1)
    PROVE  \A r : /\ Truth(r) \/ r = cir_response_prim
                  /\ NoBus /\ launch_alu => r # "COND"
                  => Truth(r)'
<1>0. StateOK /\ CycleOK /\ cir_dialog_proc /\ cir_write_proc /\ Host /\ Unused /\ alu_control_proc
  BY DEF SerialInv, HostOK, Next, FpuClock
<1>1. bus.op # "write" /\ phase \in {"poll", "busy", "polled"}
  BY <1>0 DEF CycleOK, RestPhases, NoBus
<1>2. CASE cir_state = "IDLE"
  <2>1. IdleOK /\ IdleFlags
    BY <1>2, IdleFacts
  <2>2. /\ ~condition_written
        /\ command_written => launch_alu /\ NoBus
        /\ opword_written => instr_type \in {"cpGEN", "cpCOND"}
    BY <1>1, <2>1 DEF IdleFlags, bus_write
  <2>3. launch_alu => ~move_pending /\ instr_type # "cpCOND" /\ command.move
    BY <2>1 DEF IdleOK, Moving
  <2>4. launch_alu => move_pending'
    BY <1>0, <2>3, ControlRegisters DEF Unused
  <2>5. cir_state' = "IDLE" \/ (cir_state' = "DECODE" /\ launch_alu /\ NoBus)
    BY <1>2, <2>2, IdleFacts
  <2>6. cir_response_prim = "NULL"
    BY <1>2 DEF cir_response_prim
  <2> QED BY <1>2, <2>4, <2>5, <2>6 DEF Truth
<1>3. CASE cir_state = "DECODE"
  <2>1. DecodeOK /\ Decode
    BY <1>0, <1>3, StateStep DEF StateOK
  <2>2. move_pending /\ command.move /\ command.shape = "reg"
    BY <1>1, <2>1 DEF DecodeOK, Moving, bus_write
  <2>3. cir_state' = "IDLE"
    BY <2>1, <2>2 DEF Decode, Launched, Goto
  <2>4. cir_response_prim = "BUSY"
    BY <1>3 DEF cir_response_prim
  <2> QED BY <1>3, <2>3, <2>4 DEF Truth
<1>4. CASE cir_state = "XFER_SRC"
  <2>1. XferSrcOK /\ XferSrc
    BY <1>0, <1>4, StateStep DEF StateOK
  <2>2. cir_state' = "XFER_SRC"
    BY <1>1, <2>1 DEF XferSrcOK, XferSrc, Goto, bus_write
  <2>3. cir_response_prim = "TO_CP"
    BY <1>4 DEF cir_response_prim
  <2> QED BY <1>4, <2>2, <2>3 DEF Truth
<1>5. CASE cir_state = "XFER_DST"
  <2>1. XferDstOK /\ XferDst
    BY <1>0, <1>5, StateStep DEF StateOK
  <2>2. cir_state' = "XFER_DST" /\ word_idx = 0 /\ ~read_done
    BY <1>1, <2>1 DEF XferDstOK, XferDst, Goto
  <2>3. cur' = cur
    BY <1>1, IssueOnly DEF Next
  <2>4. command = cur /\ fp_reg[cur.dst] = cur.want[1] /\ cur.words \in 1..3
    BY <1>0, <2>1, HostMoves DEF XferDstOK
  <2>5. Staged(cur.want[1])'
    BY <1>0, <1>5, <2>2, <2>3, <2>4, WriteRegisters DEF Staged, WordIdx
  <2>6. cir_response_prim = "FROM_CP"
    BY <1>5 DEF cir_response_prim
  <2> QED BY <1>5, <2>2, <2>3, <2>5, <2>6 DEF Truth
<1>6. CASE cir_state \in {"EXCEPT_PRE", "EXCEPT_POST"}
  <2>1. ExceptOK /\ Except
    BY <1>0, <1>6, StateStep DEF StateOK
  <2>2. cir_state' = cir_state
    BY <1>1, <2>1 DEF ExceptOK, Except, Goto, bus_write
  <2>3. cir_response_prim = "EXCEPT"
    BY <1>6 DEF cir_response_prim
  <2> QED BY <1>6, <2>2, <2>3 DEF Truth
<1>7. CASE cir_state = "COND_CHECK"
  <2>1. cir_state' = IF trap_pending THEN "EXCEPT_PRE" ELSE "IDLE"
    BY <1>0, <1>7, StateStep DEF CondCheck, Goto
  <2>2. cir_response_prim = "BUSY"
    BY <1>7 DEF cir_response_prim
  <2> QED BY <1>7, <2>1, <2>2 DEF Truth
<1>8. CASE cir_state \notin {"IDLE", "DECODE", "XFER_SRC", "XFER_DST", "EXCEPT_PRE", "EXCEPT_POST",
                             "COND_CHECK"}
  <2>1. cir_response_prim = "BUSY"
    BY <1>0, <1>8 DEF cir_response_prim, StateOK, SerialStates, Serial
  <2> QED BY <1>8, <2>1 DEF Truth
<1> QED
  BY <1>2, <1>3, <1>4, <1>5, <1>6, <1>7, <1>8

\* A poll that begins and a poll that goes on.
LEMMA Polling ==
    ASSUME Serial, SerialInv, Next, phase' = "polled"
    PROVE  /\ bus'.left = 4 \/ bus'.left < 4
           /\ bus'.left = 4 => NoBus /\ phase \in {"poll", "busy"}
           /\ bus'.left < 4 => phase = "polled" /\ bus.left # 1 /\ bus.op = "read"
                               /\ bus.left \in 2..4 /\ bus'.left = bus.left - 1
                               /\ (bus.first <=> bus.left = 4) /\ bus_read("RESPONSE")
<1>1. (Holds \/ Pauses \/ Ends \/ Begins) /\ CycleOK /\ CycleOK' /\ Host /\ resume = "free"
  BY HostMoves, KeepsCycle DEF SerialInv, HostOK, Next, CountsOK
<1>2. bus'.op = "read" /\ bus'.left \in 1..4
  BY <1>1 DEF CycleOK, RestPhases, IsBus, NoBus
<1>3. CASE phase = "polled"
  <2>1. bus.op = "read" /\ bus.left \in 1..4 /\ bus.addr = "RESPONSE" /\ (bus.first <=> bus.left = 4)
    BY <1>1, <1>3 DEF CycleOK, RestPhases, IsBus, NoBus
  <2>2. bus.left # 1
    BY <1>1, <1>2, <1>3, Answered DEF NoBus
  <2>3. bus'.left = bus.left - 1
    BY <1>1, <2>1, <2>2, Holding
  <2> QED BY <1>3, <2>1, <2>2, <2>3 DEF bus_read
<1>4. CASE phase # "polled"
  <2>1. Begins
    BY <1>1, <1>2, <1>4 DEF Holds, Pauses, Ends, NoBus
  <2>2. NoBus /\ bus'.left = 4
    BY <1>2, <2>1, Opening
  <2>3. phase \in {"poll", "busy"}
    BY <1>4, <2>1 DEF Begins, BeginsIssue, BeginsWrite, BeginsWord, BeginsRead
  <2> QED BY <2>2, <2>3
<1> QED
  BY <1>3, <1>4

\* The response register as the host begins to read it.
LEMMA ResponseTrue ==
    ASSUME Serial, SerialInv, Next, phase' = "polled", bus'.left = 4
    PROVE  Truth(response)'
<1>0. NoBus /\ phase \in {"poll", "busy"}
  BY Polling
<1>1. /\ \A r : (Truth(r) \/ r = cir_response_prim) /\ (NoBus /\ launch_alu => r # "COND") => Truth(r)'
      /\ AnswersOK /\ StateOK /\ cir_dialog_proc /\ alu_control_proc
  BY <1>0, TruthStays DEF SerialInv, Next, FpuClock
<1>2. CASE launch_alu /\ instr_type = "cpCOND"
  <2>1. response' \in {"COND", "COND_TRAP"} /\ (trap_pending' <=> response' = "COND_TRAP")
    BY <1>1, <1>2, ReadRegisters
  <2>2. cir_state = "COND_WAIT"
    BY <1>0, <1>1, <1>2 DEF StateOK, SerialStates, IdleOK, Moving, DecodeOK, XferSrcOK,
       XferSrcWaitOK,
       ExecuteOK, ExecuteDoneOK, ExceptOK, XferDstOK, XferDstWaitOK, CondOK, SaveOK, RestoreOK,
       Finished, Still
  <2>3. cir_state' = "COND_CHECK"
    BY <1>1, <2>2, StateStep DEF CondWait, Goto
  <2> QED BY <2>1, <2>3 DEF Truth
<1>3. CASE ~(launch_alu /\ instr_type = "cpCOND")
  <2>1. response' = IF response_pending THEN response ELSE cir_response_prim
    BY <1>1, <1>3, ReadRegisters
  <2>2. CASE response_pending
    <3>1. Truth(response) /\ ~launch_alu
      BY <1>1, <2>2 DEF AnswersOK
    <3>2. \A r : Truth(r) => Truth(r)'
      BY <1>1, <3>1
    <3>3. response' = response
      BY <2>1, <2>2
    <3>4. Truth(response) => \A r : r = response => Truth(r)
      OBVIOUS
    <3>5. \A r : r = response' => Truth(r)'
      BY <3>1, <3>2, <3>3, <3>4
    <3> QED BY <3>5 DEF Truth
  <2>3. CASE ~response_pending
    <3>1. response' = cir_response_prim /\ cir_response_prim # "COND"
      BY <2>1, <2>3 DEF cir_response_prim
    <3>2. \A r : r = response' => Truth(r)'
      BY <1>1, <3>1
    <3> QED BY <3>2 DEF Truth
  <2> QED BY <2>2, <2>3
<1> QED
  BY <1>2, <1>3

\* What the host has been told stays true while it reads.
LEMMA AnswerTrue ==
    ASSUME Serial, SerialInv, Next, phase' = "polled", bus'.left < 4,
           NEW r \in {"NULL", "TO_CP", "FROM_CP", "EXCEPT", "COND", "COND_TRAP"},
           d_out' = <<"RESPONSE", r>>
    PROVE  Truth(r)'
<1>0. /\ phase = "polled" /\ bus.left # 1 /\ bus.left \in 2..4 /\ (bus.first <=> bus.left = 4)
      /\ bus_read("RESPONSE") /\ ~NoBus
  BY Polling DEF NoBus
<1>1. AnswersOK /\ alu_control_proc
  BY DEF SerialInv, Next, FpuClock
<1>2. Truth(r) => Truth(r)'
  BY <1>0, TruthStays
<1>3. CASE bus.left = 4
  <2>1. r = response
    BY <1>0, <1>1, <1>3, ReadRegisters
  <2> QED BY <1>0, <1>1, <1>2, <1>3, <2>1 DEF AnswersOK
<1>4. CASE bus.left # 4
  <2>1. d_out = <<"RESPONSE", r>>
    BY <1>0, <1>1, <1>4, ReadRegisters
  <2> QED BY <1>0, <1>1, <1>2, <1>4, <2>1 DEF AnswersOK
<1> QED
  BY <1>3, <1>4

\* A word fetched is the one asked for.
LEMMA FetchedTrue ==
    ASSUME Serial, SerialInv, Next, phase' = "fetched", bus'.left < 4
    PROVE  d_out' = <<"OPERAND", Word(cur.want[1], sent)>>'
<1>1. (Holds \/ Pauses \/ Ends \/ Begins) /\ CycleOK /\ CycleOK' /\ Host /\ AnswersOK /\ StateOK
      /\ CountsOK /\ alu_control_proc
  BY HostMoves, KeepsCycle DEF SerialInv, HostOK, Next, FpuClock
<1>2. bus'.op = "read" /\ bus'.left \in 1..4
  BY <1>1 DEF CycleOK, RestPhases, IsBus, NoBus
<1>3. ~NoBus
  BY <1>1, <1>2, Opening DEF Holds, Pauses, Ends, NoBus
<1>4. Holds
  BY <1>1, <1>2, <1>3, Opening DEF Pauses, Ends, NoBus
<1>5. /\ phase = "fetched" /\ sent' = sent /\ cur' = cur /\ bus.op = "read" /\ bus.addr = "OPERAND"
      /\ bus.left \in 2..4 /\ (bus.first <=> bus.left = 4)
  BY <1>1, <1>4 DEF Holds, CycleOK, RestPhases, NoBus, IsBus, SameIssue
<1>6. CASE bus.left = 4
  <2>1. cir_state = "XFER_DST"
    BY <1>1, <1>5, <1>6 DEF AnswersOK
  <2>2. word_idx = sent /\ Staged(cur.want[1]) /\ sent \in 0..cur.words-1
    BY <1>1, <1>5, <1>6, <2>1 DEF StateOK, XferDstOK, CountsOK
  <2>3. d_out' = <<"OPERAND", staging[word_idx]>>
    BY <1>1, <1>5, <1>6, <2>1, ReadRegisters DEF bus_read
  <2> QED BY <1>5, <2>2, <2>3 DEF Staged
<1>7. CASE bus.left # 4
  <2>1. d_out' = d_out /\ d_out = <<"OPERAND", Word(cur.want[1], sent)>>
    BY <1>1, <1>5, <1>7, ReadRegisters DEF AnswersOK
  <2> QED BY <1>5, <2>1
<1> QED
  BY <1>5, <1>6, <1>7

\* The answer of a conditional waits for the host's next poll.
LEMMA PendingTrue ==
    ASSUME Serial, SerialInv, Next, response_pending'
    PROVE  /\ (phase' = "poll" /\ NoBus') \/ (phase' = "polled" /\ bus'.left = 4)
           /\ response' \in {"COND", "COND_TRAP"} /\ Truth(response)' /\ ~launch_alu'
<1>0. AnswersOK /\ StateOK /\ cir_dialog_proc /\ alu_control_proc /\ CycleOK /\ Host
      /\ (Holds \/ Pauses \/ Ends \/ Begins)
  BY HostMoves DEF SerialInv, HostOK, Next, FpuClock
<1>1. CASE launch_alu /\ instr_type = "cpCOND"
  <2>1. response' \in {"COND", "COND_TRAP"} /\ (trap_pending' <=> response' = "COND_TRAP")
    BY <1>0, <1>1, ReadRegisters
  <2>2. cir_state = "COND_WAIT" /\ NoBus /\ phase = "poll"
    BY <1>0, <1>1 DEF StateOK, SerialStates, IdleOK, Moving, DecodeOK, XferSrcOK, XferSrcWaitOK,
       ExecuteOK, ExecuteDoneOK, ExceptOK, XferDstOK, XferDstWaitOK, CondOK, SaveOK, RestoreOK,
       Finished, Still
  <2>3. cir_state' = "COND_CHECK" /\ ~launch_alu'
    BY <1>0, <2>2, StateStep DEF CondWait, Goto, Pulse, NoPulse
  <2>4. (phase' = "poll" /\ NoBus') \/ (phase' = "polled" /\ bus'.left = 4)
    BY <1>0, <2>2 DEF Holds, Pauses, Ends, Begins, BeginsIssue, BeginsWrite,
         BeginsWord, BeginsRead, Opens, NoBus
  <2> QED BY <2>1, <2>3, <2>4 DEF Truth
<1>2. CASE ~(launch_alu /\ instr_type = "cpCOND")
  <2>1. response_pending /\ ~bus_read("RESPONSE") /\ response' = response
    BY <1>0, <1>2, ReadRegisters
  <2>2. /\ phase = "poll" /\ NoBus /\ response \in {"COND", "COND_TRAP"} /\ Truth(response) /\ ~launch_alu
    BY <1>0, <2>1 DEF AnswersOK, CycleOK, RestPhases, IsBus, NoBus, bus_read
  <2>3. (phase' = "poll" /\ NoBus') \/ (phase' = "polled" /\ bus'.left = 4)
    BY <1>0, <2>2 DEF Holds, Pauses, Ends, Begins, BeginsIssue, BeginsWrite,
         BeginsWord, BeginsRead, Opens, NoBus
  <2>4. \A r : Truth(r) => Truth(r)'
    BY <2>2, TruthStays
  <2>5. Truth(response) => \A r : r = response => Truth(r)
    OBVIOUS
  <2>6. \A r : r = response' => Truth(r)'
    BY <2>1, <2>2, <2>4, <2>5
  <2>7. Truth(response)'
    BY <2>6 DEF Truth
  <2>8. cir_state \in {"IDLE", "COND_CHECK", "EXCEPT_PRE"}
    BY <2>2 DEF Truth
  <2>9. ~launch_alu'
    BY <1>0, <2>8, StateStep DEF Idle, CondCheck, Except, Pulse, NoPulse
  <2> QED BY <2>1, <2>2, <2>3, <2>7, <2>9
<1> QED
  BY <1>1, <1>2

\* Answers stay true.
LEMMA KeepsAnswers ==
    ASSUME Serial, SerialInv, Next
    PROVE  AnswersOK'
<1>1. /\ phase' = "saved" /\ bus'.left <= 2 => d_out' \in {<<"SAVE", "null">>, <<"SAVE", "idle">>}
      /\ phase' \in {"refused?", "ack"} => cir_state' \in {"EXCEPT_PRE", "EXCEPT_POST"}
      /\ phase' = "operand" => cir_state' = "XFER_SRC"
      /\ phase' = "fetch" => cir_state' = "XFER_DST"
      /\ phase' = "fetched" /\ bus'.left >= 3 => cir_state' = "XFER_DST"
  BY KeepsCycle, KeepsWrites, KeepsState, PhaseStates DEF Next
<1>2. phase' = "polled" /\ bus'.left = 4 => Truth(response)'
  BY ResponseTrue
<1>3. phase' = "polled" /\ bus'.left < 4 =>
         \A r \in {"NULL", "TO_CP", "FROM_CP", "EXCEPT", "COND", "COND_TRAP"} :
           d_out' = <<"RESPONSE", r>> => Truth(r)'
  BY AnswerTrue
<1>4. phase' = "fetched" /\ bus'.left < 4 => d_out' = <<"OPERAND", Word(cur.want[1], sent)>>'
  BY FetchedTrue
<1>5. response_pending' =>
         /\ (phase' = "poll" /\ NoBus') \/ (phase' = "polled" /\ bus'.left = 4)
         /\ response' \in {"COND", "COND_TRAP"} /\ Truth(response)' /\ ~launch_alu'
  BY PendingTrue
<1> HIDE DEF Truth
<1> QED
  BY <1>1, <1>2, <1>3, <1>4, <1>5 DEF AnswersOK

-----------------------------------------------------------------------------
(* The ranges of the values *)

\* A register of the program is written with a value or left alone.
LEMMA WriteBackTyped ==
    ASSUME Serial, SerialInv, Next
    PROVE  fp_reg' \in [Regs -> Values]
<1>0. /\ StateOK /\ alu_control_proc /\ Unused /\ fp_reg \in [Regs -> Values] /\ cur \in Instrs
  BY DEF SerialInv, Typed, Next, FpuClock
<1>1. /\ cur.n \in Values /\ cur.want[2] \in Values
  BY <1>0 DEF Instrs, Values
<1>2. /\ move_pending => /\ ~valid /\ command = cur /\ operand[2] = cur.want[2]
      /\ valid /\ arith_active => result.val = cur.n
  BY <1>0 DEF StateOK, SerialStates, IdleOK, Moving, DecodeOK, XferSrcOK, XferSrcWaitOK,
       ExecuteOK, ExecuteDoneOK, ExceptOK, XferDstOK, XferDstWaitOK, CondOK, SaveOK, RestoreOK,
       Finished, Still
<1>3. \/ fp_reg' = fp_reg
      \/ fp_reg' = [fp_reg EXCEPT ![launch_dst] = cur.n]
      \/ fp_reg' = [fp_reg EXCEPT ![command.dst] = cur.want[2]]
  BY <1>0, <1>2, ControlRegisters DEF Unused
<1> QED
  BY <1>0, <1>1, <1>3

\* Words are staged as they were written.
LEMMA StagingTyped ==
    ASSUME Serial, SerialInv, Next
    PROVE  staging' \in [WordIdx -> Words]
<1>0. /\ cir_write_proc /\ staging \in [WordIdx -> Words] /\ cur \in Instrs /\ StateOK /\ WritesOK
      /\ fp_reg \in [Regs -> Values] /\ command \in Instrs /\ CycleOK
  BY DEF SerialInv, Typed, Next, FpuClock, HostOK
<1>1. CASE wrote /\ cir_state = "XFER_SRC"
  <2>1. staging' = [staging EXCEPT ![word_idx] = bus.data]
    BY <1>0, <1>1, WriteRegisters
  <2>2. phase \in {"poll", "operand"}
    BY <1>0, <1>1 DEF StateOK, XferSrcOK, wrote, bus_write, Waiting, NoBus, CycleOK, RestPhases
  <2>3. bus.data = Word(cur.n, sent - 1) /\ sent \in 1..cur.words /\ cur.words \in 1..3 /\ cur.n \in Nat
    BY <1>0, <1>1, <2>2 DEF WritesOK, wrote, Instrs
  <2>4. bus.data \in Words
    BY <2>3 DEF Word, Words, Values, WordIdx
  <2> QED BY <1>0, <2>1, <2>4
<1>2. CASE ~(wrote /\ cir_state = "XFER_SRC") /\ cir_state = "XFER_DST" /\ word_idx = 0 /\ ~read_done
  <2>1. staging' = [k \in WordIdx |-> IF k < command.words THEN Word(fp_reg[command.dst], k)
                                      ELSE staging[k]]
    BY <1>0, <1>2, WriteRegisters
  <2>2. \A k \in WordIdx : Word(fp_reg[command.dst], k) \in Words
    BY <1>0 DEF Word, Words, Instrs
  <2> QED BY <1>0, <2>1, <2>2
<1>3. CASE staging' = staging
  BY <1>0, <1>3
<1> QED
  BY <1>0, <1>1, <1>2, <1>3, WriteRegisters

\* The slot of a 68882 keeps what it was reset to.
LEMMA PendingStays ==
    ASSUME Serial, SerialInv, Next
    PROVE  UNCHANGED <<pending, pending_idx, pending_staging>>
<1>0. cir_dialog_proc /\ ~Is68882 /\ ~AcceptsPending /\ cir_state \in SerialStates
  BY DEF SerialInv, StateOK, Next, FpuClock, Serial, AcceptsPending
<1> DEFINE Same == UNCHANGED <<pending, pending_idx, pending_staging>>
<1>1. Idle \/ Decode \/ XferSrc \/ XferSrcWait \/ XferSrcWait2 => Same
  BY DEF Idle, Decode, XferSrc, XferSrcWait, XferSrcWait2, pendingVars
<1>2. ExecuteDone \/ XferDst \/ XferDstWait => Same
  BY DEF ExecuteDone, XferDst, XferDstWait, pendingVars
<1>3. Execute => Same
  BY <1>0 DEF Execute
<1>4. CondEval \/ CondWait \/ CondCheck \/ Except => Same
  BY DEF CondEval, CondWait, CondCheck, Except, pendingVars
<1>5. SaveWait \/ SaveFormat \/ SaveFrame \/ RestoreFormat => Same
  BY DEF SaveWait, SaveFormat, SaveFrame, RestoreFormat, pendingVars
<1>6. RestoreFrame => Same
  BY <1>0 DEF RestoreFrame
<1> QED
  BY <1>0, <1>1, <1>2, <1>3, <1>4, <1>5, <1>6, StateStep DEF SerialStates

\* The ranges are kept.
LEMMA KeepsTyped ==
    ASSUME Serial, SerialInv, Next
    PROVE  Typed'
<1>0. /\ Typed /\ WritesOK /\ Host /\ cir_write_proc /\ alu_control_proc /\ Unused
  BY DEF SerialInv, HostOK, Next, FpuClock
<1>1. /\ golden \in [Regs -> Values] /\ program \in Seq(Instrs)
      /\ cur \in Instrs /\ command \in Instrs /\ op_sel \in Instrs /\ pending \in Instrs
      /\ cur.shape = "store" => cur.move
  BY <1>0 DEF Typed
<1>2. /\ golden' \in [Regs -> Values] /\ program' \in Seq(Instrs) /\ cur' \in Instrs
      /\ cur'.shape = "store" => cur'.move
  <2>1. CASE BeginsIssue
    <3>1. PICK i \in Instructions :
            /\ cur' = i /\ program' = Append(program, i) /\ Len(program) < MaxInstr
            /\ golden' = IF i.shape = "store" THEN golden
                         ELSE [golden EXCEPT ![i.dst] = Outcome(i)]
      BY <2>1 DEF BeginsIssue
    <3>2. i \in Instrs /\ (i.shape = "store" => i.move)
      BY <1>1, <3>1, NextInstruction
    <3>3. Outcome(i) \in Values
      BY <3>2 DEF Outcome, Instrs, Values
    <3> QED BY <1>1, <3>1, <3>2, <3>3, AppendProperties
  <2>2. CASE SameIssue
    BY <1>1, <2>2 DEF SameIssue
  <2> QED BY <1>0, <2>1, <2>2, IssueOnly
<1>3. command' \in Instrs
  BY <1>0, <1>1, WriteRegisters DEF WritesOK
<1>4. op_sel' \in Instrs
  BY <1>0, <1>1, ControlRegisters DEF Unused
<1>5. pending' \in Instrs
  BY <1>1, PendingStays
<1> QED
  BY <1>2, <1>3, <1>4, <1>5, WriteBackTyped, StagingTyped DEF Typed

-----------------------------------------------------------------------------
(* The theorems *)

\* The invariant is inductive.
LEMMA SerialInvInit ==
    ASSUME Serial, Init
    PROVE  SerialInv /\ Framed
<1> USE DialogAssumption, HostAssumption
<1>1. NoInstr \in Instrs
  <2>1. \A r \in Regs : r \in Values
    BY DEF Values
  <2>2. (CHOOSE r \in Regs : TRUE) \in Regs
    OBVIOUS
  <2> QED BY <2>1, <2>2 DEF NoInstr, Instrs, Values
<1>2. Typed
  <2>1. fp_reg \in [Regs -> Values] /\ golden \in [Regs -> Values]
    BY DEF Init, FpuInit, Values
  <2>2. program \in Seq(Instrs)
    BY EmptySeq DEF Init
  <2>3. staging \in [WordIdx -> Words]
    BY DEF Init, FpuInit, Word, Words, Values, WordIdx
  <2>4. cur = NoInstr /\ command = NoInstr /\ op_sel = NoInstr /\ pending = NoInstr
    BY DEF Init, FpuInit
  <2> QED BY <1>1, <2>1, <2>2, <2>3, <2>4, NoInstrIsMove DEF Typed
<1>3. Unused
  BY DEF Init, FpuInit, Unused
<1>4. phase = "free" /\ NoBus /\ bus = NoCycle /\ frame = [kind |-> "null", words |-> <<>>] /\ resume = "free"
  BY DEF Init, NoCycle, NoBus
<1>5. HostOK
  <2>1. IsBus
    BY <1>4 DEF NoCycle, IsBus
  <2>2. bus.op = "none" /\ bus.first = FALSE
    BY <1>4 DEF NoCycle
  <2>3. frame.kind = "null" /\ frame.words = <<>>
    BY <1>4
  <2>4. CycleOK
    BY <1>4, <2>1, <2>2 DEF CycleOK, NoBus, RestPhases
  <2>5. WritesOK /\ PrevOK
    BY <2>2 DEF WritesOK, PrevOK, bus_write, bus_read
  <2>6. CountsOK
    BY <1>4, <2>3 DEF CountsOK
  <2>7. IsFrame
    BY <1>4, <2>3 DEF IsFrame
  <2> QED BY <2>4, <2>5, <2>6, <2>7 DEF HostOK
<1>6. AnswersOK
  BY <1>4 DEF AnswersOK, Init, FpuInit
<1>7. StateOK
  <2>1. IdleFlags
    BY <1>4 DEF IdleFlags, Init, FpuInit, bus_write, NoBus
  <2>2. Still /\ fp_reg = golden /\ cir_state = "IDLE"
    BY DEF Still, Init, FpuInit
  <2> QED BY <1>4, <2>1, <2>2 DEF StateOK, IdleOK, IdleWhere, bus_write, NoBus, SerialStates,
             Still
<1>8. Framed
  BY <1>4, EmptySeq DEF Framed
<1> QED
  BY <1>2, <1>3, <1>5, <1>6, <1>7, <1>8 DEF SerialInv

LEMMA SerialInvStep ==
    ASSUME Serial, SerialInv, Framed, Next
    PROVE  SerialInv' /\ Framed'
<1>1. Host BY DEF Next
<1> QED
  BY <1>1, KeepsCycle, KeepsWrites, KeepsCounts, KeepsPrev, HostMoves, KeepsTyped, KeepsUnused,
     KeepsState, KeepsAnswers DEF SerialInv, HostOK

LEMMA SerialInvStutters ==
    ASSUME SerialInv, Framed, UNCHANGED vars
    PROVE  SerialInv' /\ Framed'
<1> USE DEF vars, fpuVars, writeVars, dialogVars, pulseVars, frameVars, pendingVars, controlVars,
            aluVars, hostVars, historyVars
<1>1. Typed' /\ Unused' /\ Framed'
  BY DEF SerialInv, Typed, Unused, Framed
<1>2. HostOK'
  BY DEF SerialInv, HostOK, CycleOK, WritesOK, CountsOK, PrevOK, IsFrame, IsBus, NoBus, Opword,
         Format, bus_write, bus_read
<1>3. AnswersOK'
  BY DEF SerialInv, AnswersOK, Truth, Staged, NoBus
<1>4. StateOK'
  BY DEF SerialInv, StateOK, IdleOK, IdleWhere, IdleFlags, Opword, Moving, Waiting, Owed,
     Outcome,
         Staged, Still, Fresh, DecodeOK, XferSrcOK, Received, XferSrcWaitOK, ExecuteOK,
         ExecuteDoneOK, Finished, ExceptOK, XferDstOK, XferDstWaitOK, CondOK, SaveOK, RestoreOK,
         Format, NoBus, bus_write, bus_read
<1> QED
  BY <1>1, <1>2, <1>3, <1>4 DEF SerialInv

\* The host, the bus cycle and the state of the dialog stand to each other as
\* SerialInv says: no answer is false when it is read, no flag is left from an
\* earlier dialog, and values are where program order wants them.
THEOREM SerialInvariant ==
    ASSUME Serial
    PROVE  Spec => [](SerialInv /\ Framed)
<1>1. SerialInv /\ Framed /\ [Next]_vars => SerialInv' /\ Framed'
  BY SerialInvStep, SerialInvStutters
<1> QED
  BY <1>1, SerialInvInit, PTL DEF Spec

\* When the last poll has been answered NULL and the host is free to go on,
\* nothing of the instruction is launched, started, computing or waiting for its
\* write-back.
THEOREM HostGoesOnWhenDone ==
    ASSUME Serial
    PROVE  Spec => []NullMeansDone
<1>1. SerialInv => NullMeansDone
  <2>1. SUFFICES ASSUME SerialInv, phase = "free" PROVE Still
    BY DEF NullMeansDone, Still
  <2>2. StateOK /\ WritesOK
    BY <2>1 DEF SerialInv, HostOK
  <2> QED BY <2>1, <2>2 DEF StateOK, SerialStates, IdleOK, Moving, DecodeOK, XferSrcOK,
             XferSrcWaitOK,
       ExecuteOK, ExecuteDoneOK, ExceptOK, XferDstOK, XferDstWaitOK, CondOK, SaveOK, RestoreOK,
       Finished, Still, Waiting, WritesOK
<1> QED
  BY <1>1, SerialInvariant, PTL

\* Once a dialog has settled, every register holds what executing the program in
\* order gives, with conditionals, exceptions, saves and restores in between.
THEOREM ProgramOrderResults ==
    ASSUME Serial
    PROVE  Spec => []InOrderResults
<1>1. SerialInv => InOrderResults
  <2>1. SUFFICES ASSUME SerialInv, Settled PROVE fp_reg = golden
    BY DEF InOrderResults
  <2>2. IdleOK
    BY <2>1 DEF Settled, SerialInv, StateOK
  <2> QED BY <2>1, <2>2 DEF Settled, IdleOK, bus_write
<1> QED
  BY <1>1, SerialInvariant, PTL

\* A store hands the host, word by word, the value its register has in program
\* order.
THEOREM StoresDeliverTheirValue ==
    ASSUME Serial
    PROVE  Spec => []StoreDelivers
<1>1. SerialInv => StoreDelivers
  BY DEF SerialInv, AnswersOK, StoreDelivers
<1> QED
  BY <1>1, SerialInvariant, PTL

-----------------------------------------------------------------------------
(* Type correctness: the registers the rest of the argument does not need *)

\* The flags of TypeOK, one by one, the counters and the rest.
AllFlags ==
    /\ opword_written \in BOOLEAN /\ command_written \in BOOLEAN /\ condition_written \in BOOLEAN
    /\ control_ack \in BOOLEAN /\ word_arrived \in BOOLEAN /\ read_done \in BOOLEAN
    /\ write_prev \in BOOLEAN /\ read_prev \in BOOLEAN /\ opword_seen \in BOOLEAN
    /\ cmd_seen \in BOOLEAN /\ save_read_done \in BOOLEAN /\ save_prev \in BOOLEAN
    /\ launch_alu \in BOOLEAN /\ flags_consumed \in BOOLEAN /\ pending_launch \in BOOLEAN
    /\ null_req \in BOOLEAN /\ commit_req \in BOOLEAN /\ pending_valid \in BOOLEAN
    /\ op_start \in BOOLEAN /\ arith_active \in BOOLEAN /\ move_pending \in BOOLEAN
    /\ trap_pending \in BOOLEAN /\ response_pending \in BOOLEAN /\ exc_enabled \in BOOLEAN
    /\ restore_trigger \in BOOLEAN /\ fpu_initialized \in BOOLEAN
    /\ alu_busy \in BOOLEAN /\ valid \in BOOLEAN
Counters ==
    /\ word_idx \in 0..3 /\ word_count \in 0..3 \cup {FrameWords}
    /\ frame_idx \in 0..FrameWords-1
    /\ sent \in 0..3 \cup 0..FrameWords /\ Len(frame.words) <= FrameWords
Payloads ==
    /\ instr_type \in {"cpGEN", "cpCOND", "cpSAVE", "cpRESTORE", "undefined"}
    /\ pending_staging \in [WordIdx -> Words] /\ pending_idx \in WordIdx
    /\ launch_dst \in Regs /\ operand \in Values \X Values
    /\ alu_job \in [by : 0..MaxInstr, val : Values] /\ result \in [by : 0..MaxInstr, val : Values]
Ranges == AllFlags /\ Counters /\ Payloads

LEMMA FlagsCovered ==
    ASSUME AllFlags
    PROVE  \A k \in DOMAIN Flags : Flags[k] \in BOOLEAN
BY DEF AllFlags, Flags

\* Flags are driven with Booleans.
LEMMA KeepsFlags ==
    ASSUME Serial, SerialInv, AllFlags, Next
    PROVE  AllFlags'
<1>0. cir_write_proc /\ cir_dialog_proc /\ alu_control_proc /\ mc68881_alu /\ cir_state \in SerialStates
  BY DEF Next, FpuClock, SerialInv, StateOK
<1>1. /\ opword_written' \in BOOLEAN /\ command_written' \in BOOLEAN /\ condition_written' \in BOOLEAN
      /\ control_ack' \in BOOLEAN
  BY <1>0 DEF cir_write_proc, WrittenFlags, bus_write
<1>2. /\ word_arrived' \in BOOLEAN /\ read_done' \in BOOLEAN
      /\ write_prev' \in BOOLEAN /\ read_prev' \in BOOLEAN
      /\ save_read_done' \in BOOLEAN /\ save_prev' \in BOOLEAN
  BY <1>0 DEF cir_write_proc, OperandAccess, bus_write, bus_read
<1>3. opword_seen' \in BOOLEAN /\ cmd_seen' \in BOOLEAN
  BY <1>0 DEF cir_write_proc, SeenFlags
<1>4. /\ launch_alu' \in BOOLEAN /\ flags_consumed' \in BOOLEAN /\ pending_launch' \in BOOLEAN
      /\ null_req' \in BOOLEAN /\ commit_req' \in BOOLEAN
  <2>1. \E p : Pulse(p)
    BY <1>0, StateStep DEF Idle, Decode, XferSrc, XferSrcWait, XferSrcWait2, Execute,
       ExecuteDone,
       XferDst, XferDstWait, CondEval, CondWait, CondCheck, Except, SaveWait, SaveFormat,
       SaveFrame,
       RestoreFormat, RestoreFrame, NoPulse, SerialStates
  <2> QED BY <2>1 DEF Pulse
<1>5. pending_valid' \in BOOLEAN
  BY KeepsUnused DEF Unused
<1>6. op_start' \in BOOLEAN /\ arith_active' \in BOOLEAN /\ move_pending' \in BOOLEAN
  BY <1>0 DEF alu_control_proc, Issue, AllFlags
<1>7. trap_pending' \in BOOLEAN /\ response_pending' \in BOOLEAN
  BY <1>0 DEF alu_control_proc, Respond
<1>8. exc_enabled' \in BOOLEAN
  BY <1>0 DEF alu_control_proc, Classify, AllFlags
<1>9. restore_trigger' \in BOOLEAN /\ fpu_initialized' \in BOOLEAN
  BY <1>0 DEF alu_control_proc, FrameState, bus_write
<1>10. alu_busy' \in BOOLEAN /\ valid' \in BOOLEAN
  BY <1>0 DEF mc68881_alu, AluIdle, AluStart, AluWork, AluDone, AllFlags
<1> QED
  BY <1>1, <1>2, <1>3, <1>4, <1>5, <1>6, <1>7, <1>8, <1>9, <1>10 DEF AllFlags

\* Counters: each state that advances one knows how many words are left.
LEMMA KeepsCounters ==
    ASSUME Serial, SerialInv, Framed, Counters, Next
    PROVE  Counters'
<1>0. /\ StateOK /\ WritesOK /\ CountsOK /\ CycleOK /\ cir_dialog_proc /\ cir_state \in SerialStates
      /\ Holds \/ Pauses \/ Ends \/ Begins
      /\ cur.words \in 1..3 /\ FrameWords \in Nat \ {0, 1}
  BY HostMoves, DialogAssumption DEF Next, FpuClock, SerialInv, StateOK, HostOK
<1>1. sent' \in 0..3 \cup 0..FrameWords
  <2>1. \/ sent' \in {0, sent, FrameWords}
        \/ sent' = sent + 1 /\ phase \in {"fetched", "save_word", "operand", "restore_words"}
    BY <1>0 DEF Holds, Pauses, Ends, Told, Begins, BeginsIssue, BeginsWrite, BeginsWord,
       BeginsRead
  <2> QED BY <1>0, <2>1 DEF CountsOK, Counters
<1>2. Len(frame'.words) <= FrameWords
  <2>1. CASE frame'.words = <<>>
    BY <1>0, <2>1, EmptySeq
  <2>2. CASE frame' = frame
    BY <2>2 DEF Counters
  <2>3. CASE phase = "save_word" /\ \E w : frame'.words = Append(frame.words, w)
    <3>1. PICK w, S : frame'.words = Append(frame.words, w) /\ frame.words \in Seq(S)
      BY <2>3 DEF Framed
    <3>2. frame.words \in Seq(S \cup {w})
      BY <3>1, SeqMonotonic
    <3>3. Len(frame'.words) = Len(frame.words) + 1
      BY <3>1, <3>2, AppendProperties
    <3> QED BY <1>0, <2>3, <3>3 DEF CountsOK
  <2>4. frame'.words = <<>> \/ frame' = frame
          \/ (phase = "save_word" /\ \E w : frame'.words = Append(frame.words, w))
    BY <1>0 DEF Holds, Pauses, Ends, Told, Begins, BeginsIssue, BeginsWrite, BeginsWord,
       BeginsRead
  <2> QED BY <2>1, <2>2, <2>3, <2>4
<1>3. word_idx' \in 0..3 /\ word_count' \in 0..3 \cup {FrameWords} /\ frame_idx' \in 0..FrameWords-1
  <2> DEFINE Good == word_idx' \in 0..3 /\ word_count' \in 0..3 \cup {FrameWords}
                     /\ frame_idx' \in 0..FrameWords-1
  <2>0. word_idx \in 0..3 /\ word_count \in 0..3 \cup {FrameWords} /\ frame_idx \in 0..FrameWords-1
    BY DEF Counters
  <2> USE DEF SameXfer, SameFrame, StartXfer, frameVars
  <2>1. CASE cir_state \in {"XFER_SRC_WAIT", "XFER_SRC_WAIT2", "EXECUTE", "XFER_DST_WAIT", "COND_EVAL",
                            "COND_WAIT", "COND_CHECK", "EXCEPT_PRE", "EXCEPT_POST", "SAVE_FORMAT"}
    <3>1. SameXfer
      BY <1>0, <2>1, StateStep DEF XferSrcWait, XferSrcWait2, Execute, XferDstWait, CondEval,
         CondWait,
         CondCheck, Except, SaveFormat
    <3> QED BY <2>0, <3>1
  <2>2. CASE cir_state = "IDLE"
    <3>1. UNCHANGED <<word_idx, word_count>> /\ frame_idx' \in {0, frame_idx}
      BY <1>0, <2>2, StateStep DEF Idle
    <3> QED BY <1>0, <2>0, <3>1
  <2>3. CASE cir_state = "EXECUTE_DONE"
    <3>1. SameXfer
      BY <1>0, <2>3, StateStep DEF ExecuteDone, Serial
    <3> QED BY <2>0, <3>1
  <2>4. CASE cir_state = "DECODE"
    <3>1. command = cur
      BY <1>0, <2>4 DEF StateOK, DecodeOK
    <3>2. SameXfer \/ (word_idx' = 0 /\ word_count' = cur.words /\ frame_idx' = frame_idx)
      BY <1>0, <2>4, <3>1, StateStep DEF Decode
    <3> QED BY <1>0, <2>0, <3>2
  <2>5. CASE cir_state = "XFER_SRC"
    <3>1. XferSrcOK
      BY <1>0, <2>5 DEF StateOK
    <3>2. word_arrived => word_idx + 1 \in 0..3
      BY <1>0, <3>1 DEF XferSrcOK, WritesOK, bus_write, Waiting, NoBus, CycleOK, RestPhases
    <3>3. word_idx' = (IF word_arrived THEN word_idx + 1 ELSE word_idx)
          /\ UNCHANGED <<word_count, frame_idx>>
      BY <1>0, <2>5, StateStep DEF XferSrc
    <3> QED BY <2>0, <3>2, <3>3
  <2>6. CASE cir_state = "XFER_DST"
    <3>1. word_count \in 1..3
      BY <1>0, <2>6 DEF StateOK, XferDstOK
    <3>2. word_idx' = (IF read_done /\ ~(word_idx + 1 >= word_count) THEN word_idx + 1 ELSE word_idx)
          /\ UNCHANGED <<word_count, frame_idx>>
      BY <1>0, <2>6, StateStep DEF XferDst
    <3> QED BY <2>0, <3>1, <3>2
  <2>7. CASE cir_state = "SAVE_WAIT"
    <3>1. word_idx' = word_idx /\ word_count' \in {0, FrameWords} /\ frame_idx' = 0
      BY <1>0, <2>7, StateStep DEF SaveWait, pendingVars
    <3> QED BY <1>0, <2>0, <3>1
  <2>8. CASE cir_state = "SAVE_FRAME"
    <3>1. word_count = FrameWords
      BY <1>0, <2>8 DEF StateOK, SaveOK
    <3>2. UNCHANGED <<word_idx, word_count>>
          /\ frame_idx' = IF read_done /\ ~(frame_idx + 1 >= word_count) THEN frame_idx + 1 ELSE frame_idx
      BY <1>0, <2>8, StateStep DEF SaveFrame
    <3> QED BY <1>0, <2>0, <3>1, <3>2
  <2>9. CASE cir_state = "RESTORE_FORMAT"
    <3>1. word_idx' = word_idx /\ word_count' \in {word_count, FrameWords} /\ frame_idx' \in {0, frame_idx}
      BY <1>0, <2>9, StateStep DEF RestoreFormat
    <3> QED BY <1>0, <2>0, <3>1
  <2>10. CASE cir_state = "RESTORE_FRAME"
    <3>1. word_count = FrameWords
      BY <1>0, <2>10 DEF StateOK, RestoreOK
    <3>2. UNCHANGED <<word_idx, word_count>>
          /\ frame_idx' = IF word_arrived /\ ~(frame_idx + 1 >= word_count) THEN frame_idx + 1 ELSE frame_idx
      BY <1>0, <2>10, StateStep DEF RestoreFrame
    <3> QED BY <1>0, <2>0, <3>1, <3>2
  <2> QED BY <1>0, <2>1, <2>2, <2>3, <2>4, <2>5, <2>6, <2>7, <2>8, <2>9, <2>10 DEF SerialStates
<1> QED
  BY <1>1, <1>2, <1>3 DEF Counters

\* Operands, jobs and results are values.
LEMMA KeepsPayloads ==
    ASSUME Serial, SerialInv, Payloads, Next
    PROVE  Payloads'
<1>0. /\ Payloads /\ cir_write_proc /\ alu_control_proc /\ mc68881_alu /\ WritesOK /\ Unused
      /\ op_sel \in Instrs /\ command \in Instrs /\ fp_reg \in [Regs -> Values]
      /\ staging \in [WordIdx -> Words]
  BY DEF Next, FpuClock, SerialInv, HostOK, Typed
<1>1. instr_type' \in {"cpGEN", "cpCOND", "cpSAVE", "cpRESTORE", "undefined"}
  BY <1>0, WriteRegisters DEF Payloads, WritesOK, Opword
<1>2. pending_staging' \in [WordIdx -> Words] /\ pending_idx' \in WordIdx
  BY <1>0, PendingStays DEF Payloads
<1>3. launch_dst' \in Regs
  BY <1>0, ControlRegisters DEF Payloads, Unused, Instrs
<1>4. operand' \in Values \X Values
  <2>1. Converted(staging, command.words) \in Values
    <3>1. staging[0] \in Words /\ Garbage \in Values
      BY <1>0 DEF WordIdx, Values
    <3> QED BY <3>1 DEF Converted, Words
  <2>2. fp_reg[command.dst] \in Values /\ fp_reg[command.src] \in Values
    BY <1>0 DEF Instrs
  <2>3. \/ operand' = operand
        \/ operand' = <<fp_reg[command.dst], IF command.shape = "reg" THEN fp_reg[command.src]
                                             ELSE Converted(staging, command.words)>>
    BY <1>0, ControlRegisters DEF Unused
  <2> QED BY <1>0, <2>1, <2>2, <2>3 DEF Payloads
<1>5. Compute(op_sel, operand) \in [by : 0..MaxInstr, val : Values]
  <2>1. op_sel.n \in 0..MaxInstr /\ op_sel.n \in Values /\ Garbage \in Values
    BY <1>0 DEF Instrs, Values
  <2> QED BY <2>1 DEF Compute
<1>6. alu_job' \in {alu_job, Compute(op_sel, operand)} /\ result' \in {result, alu_job}
  BY <1>0 DEF mc68881_alu, AluIdle, AluStart, AluWork, AluDone
<1> QED
  BY <1>0, <1>1, <1>2, <1>3, <1>4, <1>5, <1>6 DEF Payloads

\* Every register of the interface keeps to its range: the word counters to
\* the words there are, though several states of the dialog share them.
THEOREM RegistersInRange ==
    ASSUME Serial
    PROVE  Spec => []TypeOK
<1>1. Init => Ranges
  <2>1. SUFFICES ASSUME Init PROVE Ranges
    OBVIOUS
  <2>2. AllFlags
    BY <2>1 DEF Init, FpuInit, AllFlags
  <2>3. Counters
    BY <2>1, DialogAssumption, EmptySeq DEF Init, FpuInit, Counters
  <2>4. Payloads
    BY <2>1, DialogAssumption, HostAssumption, NoInstrIsMove
    DEF Init, FpuInit, Payloads, Word, Words, Values, WordIdx
  <2> QED BY <2>2, <2>3, <2>4 DEF Ranges
<1>2. SerialInv /\ Framed /\ Ranges /\ [Next]_vars => Ranges'
  <2>1. CASE Next
    BY <2>1, KeepsFlags, KeepsCounters, KeepsPayloads DEF Ranges
  <2>2. CASE UNCHANGED vars
    BY <2>2 DEF Ranges, AllFlags, Counters, Payloads, vars, fpuVars, writeVars, dialogVars,
       pulseVars, frameVars, pendingVars, controlVars, aluVars, hostVars, historyVars
  <2> QED BY <2>1, <2>2
<1>3. SerialInv /\ Ranges => TypeOK
  <2>1. SUFFICES ASSUME SerialInv, Ranges PROVE TypeOK
    OBVIOUS
  <2>2. \A k \in DOMAIN Flags : Flags[k] \in BOOLEAN
    BY <2>1, FlagsCovered DEF Ranges
  <2>3. cir_state \in States /\ pending_skip \in 0..2
    BY <2>1 DEF SerialInv, StateOK, SerialStates, States, Unused
  <2>4. /\ {command, pending, op_sel, cur} \subseteq Instrs
        /\ staging \in [WordIdx -> Words]
        /\ fp_reg \in [Regs -> Values] /\ golden \in [Regs -> Values]
    BY <2>1 DEF SerialInv, Typed
  <2> QED BY <2>1, <2>2, <2>3, <2>4 DEF TypeOK, Ranges, Counters, Payloads
<1> QED
  BY <1>1, <1>2, <1>3, SerialInvariant, PTL DEF Spec

=============================================================================
