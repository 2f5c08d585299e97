----------------------------- MODULE FlineProofs -----------------------------
(***************************************************************************)
(* An F-line instruction returns its own result, and leaves the FPU out of *)
(* its dialog: proofs about FlineHandler.  The invariant CallInv says for  *)
(* every phase of a call which bus cycle may be running and what the FPU   *)
(* has seen of it, for every state of the dialog where the host is, and    *)
(* whose operands, operation, result and answer the registers hold.        *)
(***************************************************************************)
EXTENDS FlineHandler, TLAPS

\* The part: frames come from memory that does not fault and are of a format
\* the FPU knows, through the bridge.  Else a call leaves the dialog open and
\* the next one's operands are dropped.  Polls may run out.
Served ==
    /\ ~MayFault /\ Formats \subseteq {"null", "idle", "busy"}
    /\ WriteClocks = 3 /\ ReadClocks = 4

-----------------------------------------------------------------------------
(* The invariant *)

\* A call that computes, after its last write; a save or a restore.
Operating == {"wait", "result", "test"}
Framing == {"save", "save_words", "restore_words", "drain", "leave"}

\* The writes of the call that the FPU has seen for a clock at least.
Written ==
    IF phase = "send" THEN (IF bus.first THEN sent - 1 ELSE sent)
    ELSE IF phase \in Operating /\ bus.op = "write" /\ bus.first
         THEN Len(CallWrites(cur)) - 1 ELSE Len(CallWrites(cur))

\* A call that Calls makes, or fline_init.
IsCall(c) ==
    /\ c.n \in Nat /\ c.op.n = c.n
    /\ c.call \in {"init", "exec", "movecr", "ctrl", "fsave", "frestore"}
    /\ c.op.kind \in {"monadic", "dyadic", "const"}
    /\ c.tests \in BOOLEAN /\ c.format \in {"null", "idle", "busy"}
    /\ c.call = "exec" => c.op.kind # "const"
    /\ c.call = "movecr" => c.op.kind = "const"
    /\ c.tests => c.call = "exec"

\* The call of each phase, and the rounding mode it is to be carried out under.
CallOK ==
    /\ IsCall(cur) /\ fpcr_shadow \in Nat
    /\ cur.call \in {"exec", "movecr"} => cur.op.cr = fpcr_shadow
    /\ cur.call = "ctrl" => fpcr_shadow = cur.n
    /\ cur.call = "init" => fpcr_shadow = 0
    /\ phase \in {"free", "send"} \cup Operating \cup Framing
    /\ phase = "send" => sent \in 0..Len(CallWrites(cur)) - 1
    /\ phase \in Operating => cur.call \in {"exec", "movecr"}
    /\ phase \in Framing => cur.call \in {"fsave", "frestore"}
    /\ phase \in {"save", "save_words"} => cur.call = "fsave"
    /\ phase = "restore_words" => cur.call = "frestore"

\* The bus cycles of each phase.
IsWrite(w) == bus.op = "write" /\ bus.addr = w[1] /\ bus.data = w[2]
IsBus == bus \in [op : {"none", "read", "write"}, addr : {bus.addr}, data : {bus.data},
                  left : Nat, first : BOOLEAN]
BusOK ==
    /\ IsBus
    /\ BusFree => ~bus.first /\ bus.left = 0
    /\ bus.op = "write" => bus.left \in 1..3 /\ (bus.first <=> bus.left = 3)
    /\ bus.op = "read" => bus.left \in 1..4 /\ (bus.first <=> bus.left = 4)
    /\ ~BusFree =>
         /\ phase = "send" => sent > 0 /\ IsWrite(CallWrites(cur)[sent])
         /\ phase = "wait" => IsWrite(<<"OPSEL", cur.op>>) \/ bus_read("STATUS")
         /\ phase = "result" => bus_read("RES_L")
         /\ phase = "test" => bus_read("FPSR")
         /\ phase = "save" => IsWrite(<<OPWORD, "cpSAVE">>) \/ bus_read("SAVE")
         /\ phase = "save_words" => bus_read(OPERAND)
         /\ phase = "restore_words" =>
              IsWrite(<<"RESTORE", cur.format>>) \/ bus_write(OPERAND)
         /\ phase = "drain" => \/ IsWrite(<<"RESTORE", cur.format>>) \/ bus_write(OPERAND)
                               \/ bus_read(OPERAND) \/ bus_read("RESPONSE")
         /\ phase = "free" => IsWrite(<<"CIR_MODE", FALSE>>) \/ IsWrite(<<"FPCR", fpcr_shadow>>)
         /\ phase # "leave"

\* The FPU sees a cycle begin once.
EdgeOK ==
    ~BusFree =>
      /\ opsel_prev <=> bus_write("OPSEL") /\ ~bus.first
      /\ write_prev <=> bus_write(OPERAND) /\ ~bus.first
      /\ read_prev <=> bus_read(OPERAND) /\ ~bus.first
      /\ save_prev <=> bus_read("SAVE") /\ ~bus.first

\* The mode bit, and an operation word that waits for the dialog.
ModeOK ==
    /\ cir_mode \in BOOLEAN
    /\ phase = "free" => ~cir_mode \/ (bus_write("CIR_MODE") /\ bus.first)
    /\ phase \in Framing => cir_mode
    /\ phase \in Operating => ~cir_mode
    /\ phase = "send" /\ cur.call # "init" =>
         cir_mode <=> cur.call \in {"fsave", "frestore"} /\ Written >= 1
    /\ phase = "send" /\ cur.call = "init" => Written = 0 \/ ~cir_mode
    /\ opword_written =>
         /\ cur.call \in {"fsave", "frestore"}
         /\ phase = (IF cur.call = "fsave" THEN "save" ELSE "send")
         /\ BusFree => cir_state \in {"SAVE_FORMAT", "RESTORE_FORMAT"}
         /\ ~BusFree => bus_write(OPWORD)
         /\ instr_type = (IF cur.call = "fsave" THEN "cpSAVE" ELSE "cpRESTORE")

\* Where the host is in each state of the dialog.  The words left to the FPU
\* are those left to the host and the one that is moving.
AfterWord(moving) == word_count = word_idx + sent + moving

\* Asked to begin, it begins before the operation word's write is over.
AtIdle ==
    cir_state = "IDLE" /\ bus_write(OPWORD) /\ cir_mode =>
      bus.left \in {2, 3} /\ (opword_written <=> bus.left = 2)
AtSaveWait ==
    cir_state = "SAVE_WAIT" =>
      cur.call = "fsave" /\ phase = "save" /\ bus_write(OPWORD) /\ bus.left = 1
\* What the host is told of the frame is how many words there are.
AtSaveFormat ==
    cir_state = "SAVE_FORMAT" =>
      /\ cur.call = "fsave" /\ phase = "save"
      /\ BusFree \/ (bus_read("SAVE") /\ bus.left \in {3, 4})
      /\ save_read_done <=> bus.left = 3
      /\ word_count = FrameWords(frame_format) /\ word_idx = 0
      /\ bus.left = 3 => d_out[2] = frame_format
AtSaveFrame ==
    cir_state = "SAVE_FRAME" =>
      /\ cur.call = "fsave" /\ word_count \in Nat \ {0} /\ word_idx \in Nat
      /\ \/ /\ phase = "save" /\ bus_read("SAVE") /\ bus.left \in {1, 2}
            /\ d_out[2] = frame_format /\ word_count = FrameWords(frame_format) /\ word_idx = 0
         \/ /\ phase = "save_words" /\ sent \in Nat \ {0}
            /\ AfterWord(IF bus.left > 2 THEN 1 ELSE 0)
         \/ phase = "drain" /\ sent = 0 /\ bus_read(OPERAND) /\ bus.left > 2 /\ AfterWord(1)
      /\ read_done <=> bus_read(OPERAND) /\ bus.left = 3
AtXferDstWait ==
    cir_state = "XFER_DST_WAIT" =>
      cur.call = "fsave" /\ phase = "drain" /\ bus_read(OPERAND) /\ bus.left = 2
AtRestoreFormat ==
    cir_state = "RESTORE_FORMAT" =>
      /\ cur.call = "frestore"
      /\ \/ phase = "send" /\ sent = 2 /\ (BusFree \/ (bus_write(OPWORD) /\ bus.left = 1))
         \/ /\ phase = (IF cur.format = "null" THEN "drain" ELSE "restore_words")
            /\ bus_write("RESTORE") /\ bus.left > 1 /\ sent = FrameWords(cur.format)
      /\ restore_trigger <=> phase # "send" /\ bus.left = 2
      /\ restore_trigger => restore_kind = cur.format
AtRestoreFrame ==
    cir_state = "RESTORE_FRAME" =>
      /\ cur.call = "frestore" /\ word_idx \in Nat
      /\ \/ /\ phase = "restore_words" /\ sent \in Nat \ {0}
            /\ AfterWord(IF bus.left > 1 THEN 1 ELSE 0)
            /\ bus_write("RESTORE") => bus.left = 1
         \/ phase = "drain" /\ sent = 0 /\ bus_write(OPERAND) /\ bus.left > 1 /\ AfterWord(1)
      /\ word_arrived <=> bus_write(OPERAND) /\ bus.left = 2

DialogOK ==
    /\ cir_state \in {"IDLE", "SAVE_WAIT", "SAVE_FORMAT", "SAVE_FRAME", "XFER_DST_WAIT",
                      "RESTORE_FORMAT", "RESTORE_FRAME"}
    /\ AtIdle /\ AtSaveWait /\ AtSaveFormat /\ AtSaveFrame /\ AtXferDstWait
    /\ AtRestoreFormat /\ AtRestoreFrame
    /\ commit_req => phase = "drain"

\* The four operand registers.
AreOperands ==
    operand = [a_l |-> operand.a_l, a_he |-> operand.a_he,
               b_lh |-> operand.b_lh, b_e |-> operand.b_e]
\* The operands and the rounding mode of the call, as far as they are written.
LoadOK ==
    /\ AreOperands
    /\ fpcr = fpcr_shadow \/ (cur.call = "ctrl" /\ Written = 0 /\ phase = "send")
                          \/ (phase = "free" /\ bus_write("FPCR") /\ bus.first)
    /\ cur.call \in {"exec", "movecr"} /\ phase \in {"send"} \cup Operating =>
         /\ Written >= (IF cur.call = "exec" THEN 2 ELSE 3) => operand.a_l = cur.n
         /\ cur.call = "exec" /\ Written >= 3 => operand.a_he = cur.n
         /\ cur.op.kind = "dyadic" /\ Written >= 4 => operand.b_lh = cur.n
         /\ cur.op.kind = "dyadic" /\ Written >= 5 => operand.b_e = cur.n
         /\ cur.call = "movecr" /\ Written >= 2 => move_cfg = "fmovecr"

\* OPSEL is being written, and the FPU has not seen it.
Issuing == bus_write("OPSEL") /\ bus.first

\* The operation in the FPU, from its issue to its result.
ResultOK ==
    /\ last_op_sel.n \in Nat /\ last_op_sel.n <= cur.n
    /\ phase = "send" \/ Issuing => last_op_sel.n < cur.n \/ cur.call = "init"
    /\ phase \in Operating /\ ~Issuing /\ (~late \/ last_op_sel.n = cur.n) =>
         last_op_sel = cur.op
    /\ micro_active /\ ~late => phase = "wait" /\ ~Issuing
    /\ op_start \/ alu_busy \/ valid => micro_active /\ ~result_ready
    /\ ~(op_start /\ (alu_busy \/ valid)) /\ ~(alu_busy /\ valid)
    /\ op_start \/ exc_event.on =>
         /\ bus_write("OPSEL") /\ bus.left = 2 /\ op_sel = cur.op /\ last_op_sel = cur.op
         /\ phase = "wait"
         /\ exc_event.on <=> cur.op.kind = "const"
    /\ alu_busy => alu_job = last_op_sel.n
    /\ valid => result = last_op_sel.n
    /\ result_ready => result_reg = last_op_sel.n
    /\ status_valid => ~micro_active /\ result_ready
    /\ phase \in Operating /\ last_op_sel = cur.op /\ cur.call = "exec" /\ result_ready =>
         fpsr = cur.n

\* What the host has been told.
AnswerOK ==
    /\ bus_read("STATUS") /\ ~bus.first => (d_out[2] => status_valid)
    /\ bus_read("RES_L") /\ ~bus.first => d_out[2] = result_reg
    /\ bus_read("FPSR") /\ ~bus.first => d_out[2] = fpsr
    /\ phase \in {"result", "test"} => status_valid
    /\ answer \in [rc : {"none", "ok", "timeout"}, result : {answer.result}, fpsr : {answer.fpsr}]
    /\ phase = "test" => answer.result = last_op_sel.n
    /\ phase # "free" => answer.rc = "none"
    /\ phase = "free" /\ answer.rc = "ok" =>
         /\ answer.result = last_op_sel.n
         /\ ~late => last_op_sel.n = cur.n
         /\ cur.tests /\ last_op_sel.n = cur.n => answer.fpsr = cur.n

CallInv ==
    CallOK /\ BusOK /\ EdgeOK /\ ModeOK /\ DialogOK /\ LoadOK /\ ResultOK /\ AnswerOK

-----------------------------------------------------------------------------
(* The host's steps *)

\* What a concatenation holds, and where.
LEMMA Appended ==
    ASSUME NEW S, NEW s \in Seq(S), NEW t \in Seq(S)
    PROVE  /\ s \o t \in Seq(S) /\ Len(s \o t) = Len(s) + Len(t)
           /\ \A i \in 1..Len(s) : (s \o t)[i] = s[i]
           /\ \A i \in 1..Len(t) : (s \o t)[Len(s) + i] = t[i]
  OBVIOUS

\* The writes of each call, by their place.
LEMMA Sends ==
    ASSUME NEW c, IsCall(c)
    PROVE  /\ c.call = "init" =>
                /\ Len(CallWrites(c)) = 2
                /\ CallWrites(c)[1] = <<"CIR_MODE", FALSE>>
                /\ CallWrites(c)[2] = <<"FPCR", 0>>
           /\ c.call = "ctrl" =>
                Len(CallWrites(c)) = 1 /\ CallWrites(c)[1] = <<"FPCR", c.n>>
           /\ c.call = "movecr" =>
                /\ Len(CallWrites(c)) = 4 /\ CallWrites(c)[1] = <<"CIR_MODE", FALSE>>
                /\ CallWrites(c)[2] = <<"MOVE_CFG", "fmovecr">>
                /\ CallWrites(c)[3] = <<"OPA_L", c.n>>
                /\ CallWrites(c)[4] = <<"OPSEL", c.op>>
           /\ c.call = "exec" =>
                /\ CallWrites(c)[1] = <<"CIR_MODE", FALSE>>
                /\ CallWrites(c)[2] = <<"OPA_L", c.n>>
                /\ CallWrites(c)[3] = <<"OPA_HE", c.n>>
           /\ c.call = "exec" /\ c.op.kind = "monadic" =>
                Len(CallWrites(c)) = 4 /\ CallWrites(c)[4] = <<"OPSEL", c.op>>
           /\ c.call = "exec" /\ c.op.kind = "dyadic" =>
                /\ Len(CallWrites(c)) = 6 /\ CallWrites(c)[4] = <<"OPB_LH", c.n>>
                /\ CallWrites(c)[5] = <<"OPB_E", c.n>>
                /\ CallWrites(c)[6] = <<"OPSEL", c.op>>
           /\ c.call = "fsave" =>
                /\ Len(CallWrites(c)) = 2 /\ CallWrites(c)[1] = <<"CIR_MODE", TRUE>>
                /\ CallWrites(c)[2] = <<OPWORD, "cpSAVE">>
           /\ c.call = "frestore" =>
                /\ Len(CallWrites(c)) = 3 /\ CallWrites(c)[1] = <<"CIR_MODE", TRUE>>
                /\ CallWrites(c)[2] = <<OPWORD, "cpRESTORE">>
                /\ CallWrites(c)[3] = <<"RESTORE", c.format>>
<1>0. c.call \in {"init", "exec", "movecr", "ctrl", "fsave", "frestore"}
      /\ (c.call = "exec" => c.op.kind \in {"monadic", "dyadic"})
  BY DEF IsCall
<1>1. CASE c.call = "init" BY <1>1 DEF CallWrites
<1>2. CASE c.call = "ctrl" BY <1>2 DEF CallWrites
<1>3. CASE c.call = "movecr" BY <1>3 DEF CallWrites
<1> DEFINE before == << <<"CIR_MODE", FALSE>>, <<"OPA_L", c.n>>, <<"OPA_HE", c.n>> >>
           second == IF c.op.kind = "dyadic"
                     THEN << <<"OPB_LH", c.n>>, <<"OPB_E", c.n>> >> ELSE << >>
           after == << <<"OPSEL", c.op>> >>
           S == {<<"CIR_MODE", FALSE>>, <<"OPA_L", c.n>>, <<"OPA_HE", c.n>>,
                 <<"OPB_LH", c.n>>, <<"OPB_E", c.n>>, <<"OPSEL", c.op>>}
<1>4. CASE c.call = "exec"
  <2>1. CallWrites(c) = before \o second \o after
    BY <1>4 DEF CallWrites
  <2>2. before \in Seq(S) /\ second \in Seq(S) /\ after \in Seq(S)
    <3>1. before \in Seq(S) OBVIOUS
    <3>2. after \in Seq(S) OBVIOUS
    <3>3. CASE c.op.kind = "dyadic" BY <3>1, <3>2, <3>3
    <3>4. CASE c.op.kind # "dyadic" BY <3>1, <3>2, <3>4
    <3> QED BY <3>3, <3>4
  <2>3. Len(before) = 3 /\ Len(after) = 1
        /\ before[1] = <<"CIR_MODE", FALSE>> /\ before[2] = <<"OPA_L", c.n>>
        /\ before[3] = <<"OPA_HE", c.n>> /\ after[1] = <<"OPSEL", c.op>>
    OBVIOUS
  <2>4. IF c.op.kind = "dyadic"
        THEN Len(second) = 2 /\ second[1] = <<"OPB_LH", c.n>> /\ second[2] = <<"OPB_E", c.n>>
        ELSE Len(second) = 0
    OBVIOUS
  <2> HIDE DEF before, second, after, S
  <2>5. /\ before \o second \in Seq(S) /\ Len(before \o second) = Len(before) + Len(second)
        /\ \A i \in 1..Len(before) : (before \o second)[i] = before[i]
        /\ \A i \in 1..Len(second) : (before \o second)[Len(before) + i] = second[i]
    BY <2>2, Appended
  <2> DEFINE most == before \o second
  <2>6. /\ Len(CallWrites(c)) = Len(most) + Len(after)
        /\ \A i \in 1..Len(most) : CallWrites(c)[i] = most[i]
        /\ \A i \in 1..Len(after) : CallWrites(c)[Len(most) + i] = after[i]
    BY <2>1, <2>2, <2>5, Appended
  <2>5a. most = before \o second OBVIOUS
  <2> HIDE DEF most
  <2>7. most[1] = before[1] /\ most[2] = before[2] /\ most[3] = before[3]
        /\ (c.op.kind = "dyadic" => Len(most) = 5)
        /\ (c.op.kind # "dyadic" => Len(most) = 3)
    <3>1. 1 \in 1..Len(before) /\ 2 \in 1..Len(before) /\ 3 \in 1..Len(before)
      BY <2>3
    <3>2. most[1] = before[1] /\ most[2] = before[2] /\ most[3] = before[3]
      BY <2>5, <2>5a, <3>1
    <3>3. Len(most) = Len(before) + Len(second)
      BY <2>5, <2>5a
    <3>4. c.op.kind = "dyadic" => Len(most) = 5
      <4>1. c.op.kind = "dyadic" => Len(second) = 2 BY <2>4
      <4>2. Len(before) = 3 BY <2>3
      <4>3. Len(second) = 2 => Len(most) = 5 BY <3>3, <4>2
      <4> QED BY <4>1, <4>3
    <3>5. c.op.kind # "dyadic" => Len(most) = 3
      BY <2>3, <2>4, <3>3
    <3> QED BY <3>2, <3>4, <3>5
  <2>8. CallWrites(c)[1] = before[1] /\ CallWrites(c)[2] = before[2]
        /\ CallWrites(c)[3] = before[3]
    <3>1. 1 \in 1..Len(most) /\ 2 \in 1..Len(most) /\ 3 \in 1..Len(most)
      BY <2>7
    <3> QED BY <2>6, <2>7, <3>1
  <2>9. /\ CallWrites(c)[Len(most) + 1] = after[1]
        /\ Len(CallWrites(c)) = Len(most) + 1
    BY <2>3, <2>6
  <2>10. ASSUME c.op.kind = "dyadic"
         PROVE  /\ Len(CallWrites(c)) = 6 /\ CallWrites(c)[4] = <<"OPB_LH", c.n>>
                /\ CallWrites(c)[5] = <<"OPB_E", c.n>>
                /\ CallWrites(c)[6] = <<"OPSEL", c.op>>
    <3>0. Len(most) = 5 BY <2>7, <2>10
    <3>1. 1 \in 1..Len(second) /\ 2 \in 1..Len(second) /\ Len(most) = 5
      <4>1. Len(second) = 2 BY <2>4, <2>10
      <4> QED BY <3>0, <4>1
    <3>2. most[3 + 1] = second[1] /\ most[3 + 2] = second[2]
      BY <2>3, <2>5, <2>5a, <3>1
    <3>3. 4 \in 1..Len(most) /\ 5 \in 1..Len(most)
      BY <3>1
    <3>4. CallWrites(c)[4] = second[1] /\ CallWrites(c)[5] = second[2]
      BY <2>6, <3>2, <3>3
    <3>5. CallWrites(c)[6] = after[1] /\ Len(CallWrites(c)) = 6
      BY <2>9, <3>1
    <3> QED BY <2>3, <2>4, <2>10, <3>4, <3>5
  <2>11. ASSUME c.op.kind = "monadic"
         PROVE  Len(CallWrites(c)) = 4 /\ CallWrites(c)[4] = <<"OPSEL", c.op>>
    <3>1. CallWrites(c)[4] = after[1] /\ Len(CallWrites(c)) = 4
      <4>1. Len(most) = 3 BY <2>7, <2>11
      <4> QED BY <2>9, <4>1
    <3> QED BY <2>3, <3>1
  <2>12. /\ CallWrites(c)[1] = <<"CIR_MODE", FALSE>> /\ CallWrites(c)[2] = <<"OPA_L", c.n>>
         /\ CallWrites(c)[3] = <<"OPA_HE", c.n>>
    BY <2>3, <2>8
  <2> QED BY <1>4, <2>10, <2>11, <2>12
<1>6. CASE c.call = "fsave" BY <1>6 DEF CallWrites
<1>7. CASE c.call = "frestore" BY <1>7 DEF CallWrites
<1> QED BY <1>0, <1>1, <1>2, <1>3, <1>4, <1>6, <1>7

\* Every call begins with a write.
LEMMA SendsSome ==
    ASSUME NEW c, IsCall(c)
    PROVE  Len(CallWrites(c)) \in Nat \ {0}
<1>1. c.call \in {"init", "exec", "movecr", "ctrl", "fsave", "frestore"}
      /\ (c.call = "exec" => c.op.kind \in {"monadic", "dyadic"})
  BY DEF IsCall
<1>2. CASE c.call = "init"
  <2>1. Len(CallWrites(c)) = 2 BY <1>2, Sends
  <2> QED BY <2>1
<1>3. CASE c.call = "ctrl"
  <2>1. Len(CallWrites(c)) = 1 BY <1>3, Sends
  <2> QED BY <2>1
<1>4. CASE c.call = "movecr"
  <2>1. Len(CallWrites(c)) = 4 BY <1>4, Sends
  <2> QED BY <2>1
<1>5. CASE c.call = "exec" /\ c.op.kind = "monadic"
  <2>1. Len(CallWrites(c)) = 4 BY <1>5, Sends
  <2> QED BY <2>1
<1>6. CASE c.call = "exec" /\ c.op.kind = "dyadic"
  <2>1. Len(CallWrites(c)) = 6 BY <1>6, Sends
  <2> QED BY <2>1
<1>7. CASE c.call = "fsave"
  <2>1. Len(CallWrites(c)) = 2 BY <1>7, Sends
  <2> QED BY <2>1
<1>8. CASE c.call = "frestore"
  <2>1. Len(CallWrites(c)) = 3 BY <1>8, Sends
  <2> QED BY <2>1
<1> QED BY <1>1, <1>2, <1>3, <1>4, <1>5, <1>6, <1>7, <1>8

\* What is being written, before the last write of a call.
LEMMA Sending ==
    ASSUME CallOK, BusOK, phase = "send", ~BusFree
    PROVE  /\ bus.op = "write" /\ sent \in Nat
           /\ \/ /\ cur.call \in {"init", "movecr", "exec"} /\ sent = 1
                 /\ bus.addr = "CIR_MODE" /\ bus.data = FALSE
              \/ /\ cur.call = "movecr" /\ sent = 2
                 /\ bus.addr = "MOVE_CFG" /\ bus.data = "fmovecr"
              \/ /\ cur.call = "movecr" /\ sent = 3 /\ bus.addr = "OPA_L" /\ bus.data = cur.n
              \/ /\ cur.call = "exec" /\ sent = 2 /\ bus.addr = "OPA_L" /\ bus.data = cur.n
              \/ /\ cur.call = "exec" /\ sent = 3 /\ bus.addr = "OPA_HE" /\ bus.data = cur.n
              \/ /\ cur.call = "exec" /\ cur.op.kind = "dyadic" /\ sent = 4
                 /\ bus.addr = "OPB_LH" /\ bus.data = cur.n
              \/ /\ cur.call = "exec" /\ cur.op.kind = "dyadic" /\ sent = 5
                 /\ bus.addr = "OPB_E" /\ bus.data = cur.n
              \/ /\ cur.call \in {"fsave", "frestore"} /\ sent = 1
                 /\ bus.addr = "CIR_MODE" /\ bus.data = TRUE
              \/ /\ cur.call = "frestore" /\ sent = 2
                 /\ bus.addr = OPWORD /\ bus.data = "cpRESTORE"
<1>1. /\ IsCall(cur) /\ sent \in 1..Len(CallWrites(cur)) - 1 /\ bus.op = "write"
      /\ bus.addr = CallWrites(cur)[sent][1] /\ bus.data = CallWrites(cur)[sent][2]
  <2>1. sent > 0 /\ IsWrite(CallWrites(cur)[sent]) BY DEF BusOK
  <2>2. IsCall(cur) /\ sent \in 0..Len(CallWrites(cur)) - 1 BY DEF CallOK
  <2>3. Len(CallWrites(cur)) \in Nat BY <2>2, SendsSome
  <2> QED BY <2>1, <2>2, <2>3 DEF IsWrite
<1>2. CASE cur.call = "init"
  <2>1. Len(CallWrites(cur)) = 2 /\ CallWrites(cur)[1] = <<"CIR_MODE", FALSE>>
    BY <1>1, <1>2, Sends
  <2>2. sent = 1 BY <1>1, <2>1
  <2>3. bus.addr = "CIR_MODE" /\ bus.data = FALSE
    <3>1. CallWrites(cur)[sent] = <<"CIR_MODE", FALSE>> BY <2>1, <2>2
    <3>2. bus.addr = <<"CIR_MODE", FALSE>>[1] /\ bus.data = <<"CIR_MODE", FALSE>>[2]
      BY <1>1, <3>1, Zenon
    <3> QED BY <3>2
  <2> QED BY <1>1, <1>2, <2>2, <2>3
<1>3. CASE cur.call = "ctrl"
  <2>1. Len(CallWrites(cur)) = 1 BY <1>1, <1>3, Sends
  <2> QED BY <1>1, <2>1
<1>4. CASE cur.call = "movecr"
  <2>1. /\ Len(CallWrites(cur)) = 4 /\ CallWrites(cur)[1] = <<"CIR_MODE", FALSE>>
        /\ CallWrites(cur)[2] = <<"MOVE_CFG", "fmovecr">>
        /\ CallWrites(cur)[3] = <<"OPA_L", cur.n>>
    BY <1>1, <1>4, Sends
  <2>2. sent = 1 \/ sent = 2 \/ sent = 3 BY <1>1, <2>1
  <2>3. CASE sent = 1
    <3>1. bus.addr = "CIR_MODE" /\ bus.data = FALSE
      <4>1. CallWrites(cur)[sent] = <<"CIR_MODE", FALSE>> BY <2>1, <2>3
      <4>2. bus.addr = <<"CIR_MODE", FALSE>>[1] /\ bus.data = <<"CIR_MODE", FALSE>>[2]
        BY <1>1, <4>1, Zenon
      <4> QED BY <4>2
    <3> QED BY <1>1, <1>4, <2>1, <2>3, <3>1
  <2>4. CASE sent = 2 BY <1>1, <1>4, <2>1, <2>4
  <2>5. CASE sent = 3 BY <1>1, <1>4, <2>1, <2>5
  <2> QED BY <2>2, <2>3, <2>4, <2>5
<1>5. CASE cur.call = "exec"
  <2>1. /\ CallWrites(cur)[1] = <<"CIR_MODE", FALSE>>
        /\ CallWrites(cur)[2] = <<"OPA_L", cur.n>> /\ CallWrites(cur)[3] = <<"OPA_HE", cur.n>>
    BY <1>1, <1>5, Sends
  <2>2. cur.op.kind # "dyadic" => Len(CallWrites(cur)) = 4
    BY <1>1, <1>5, Sends DEF IsCall
  <2>3. cur.op.kind = "dyadic" =>
          /\ Len(CallWrites(cur)) = 6
          /\ CallWrites(cur)[4] = <<"OPB_LH", cur.n>> /\ CallWrites(cur)[5] = <<"OPB_E", cur.n>>
    BY <1>1, <1>5, Sends
  <2>4. \/ sent = 1 \/ sent = 2 \/ sent = 3
        \/ cur.op.kind = "dyadic" /\ (sent = 4 \/ sent = 5)
    <3>1. CASE cur.op.kind # "dyadic"
      <4>1. Len(CallWrites(cur)) = 4 BY <2>2, <3>1
      <4> QED BY <1>1, <4>1
    <3>2. CASE cur.op.kind = "dyadic"
      <4>1. Len(CallWrites(cur)) = 6 BY <2>3, <3>2
      <4> QED BY <1>1, <3>2, <4>1
    <3> QED BY <3>1, <3>2
  <2>5. CASE sent = 1
    <3>1. bus.addr = "CIR_MODE" /\ bus.data = FALSE
      <4>1. CallWrites(cur)[sent] = <<"CIR_MODE", FALSE>> BY <2>1, <2>5
      <4>2. bus.addr = <<"CIR_MODE", FALSE>>[1] /\ bus.data = <<"CIR_MODE", FALSE>>[2]
        BY <1>1, <4>1, Zenon
      <4> QED BY <4>2
    <3> QED BY <1>1, <1>5, <2>1, <2>5, <3>1
  <2>6. CASE sent = 2 BY <1>1, <1>5, <2>1, <2>6
  <2>7. CASE sent = 3 BY <1>1, <1>5, <2>1, <2>7
  <2>8. CASE cur.op.kind = "dyadic" /\ sent = 4 BY <1>1, <1>5, <2>3, <2>8
  <2>9. CASE cur.op.kind = "dyadic" /\ sent = 5 BY <1>1, <1>5, <2>3, <2>9
  <2> QED BY <2>4, <2>5, <2>6, <2>7, <2>8, <2>9
<1>6. CASE cur.call = "fsave"
  <2>1. Len(CallWrites(cur)) = 2 /\ CallWrites(cur)[1] = <<"CIR_MODE", TRUE>>
    BY <1>1, <1>6, Sends
  <2>2. sent = 1 BY <1>1, <2>1
  <2>3. bus.addr = "CIR_MODE" /\ bus.data = TRUE
    <3>1. CallWrites(cur)[sent] = <<"CIR_MODE", TRUE>> BY <2>1, <2>2
    <3>2. bus.addr = <<"CIR_MODE", TRUE>>[1] /\ bus.data = <<"CIR_MODE", TRUE>>[2]
      BY <1>1, <3>1, Zenon
    <3> QED BY <3>2
  <2> QED BY <1>1, <1>6, <2>2, <2>3
<1>7. CASE cur.call = "frestore"
  <2>1. /\ Len(CallWrites(cur)) = 3 /\ CallWrites(cur)[1] = <<"CIR_MODE", TRUE>>
        /\ CallWrites(cur)[2] = <<OPWORD, "cpRESTORE">>
    BY <1>1, <1>7, Sends
  <2>2. sent = 1 \/ sent = 2 BY <1>1, <2>1
  <2>3. CASE sent = 1
    <3>1. bus.addr = "CIR_MODE" /\ bus.data = TRUE
      <4>1. CallWrites(cur)[sent] = <<"CIR_MODE", TRUE>> BY <2>1, <2>3
      <4>2. bus.addr = <<"CIR_MODE", TRUE>>[1] /\ bus.data = <<"CIR_MODE", TRUE>>[2]
        BY <1>1, <4>1, Zenon
      <4> QED BY <4>2
    <3> QED BY <1>1, <1>7, <2>1, <2>3, <3>1
  <2>4. CASE sent = 2 BY <1>1, <1>7, <2>1, <2>4
  <2> QED BY <2>2, <2>3, <2>4
<1> QED BY <1>1, <1>2, <1>3, <1>4, <1>5, <1>6, <1>7 DEF IsCall

\* A write of a call is the next of its list, and the last one leads to the
\* phase that follows it.
LEMMA Opens ==
    ASSUME Served, CallOK, BusFree, fpu_wr
    PROVE  /\ bus'.op = "write" /\ bus'.left = 3 /\ bus'.first
           /\ bus' \in [op : {"write"}, addr : {bus'.addr}, data : {bus'.data}, left : {3},
                        first : {TRUE}]
           /\ cur' = cur /\ fpcr_shadow' = fpcr_shadow /\ answer' = answer /\ late' = late
           /\ phase = "send"
           /\ \/ /\ sent + 1 < Len(CallWrites(cur)) /\ phase' = "send" /\ sent' = sent + 1
                 /\ IsWrite(CallWrites(cur)[sent])'
              \/ /\ cur.call \in {"init", "ctrl"} /\ phase' = "free"
                 /\ bus'.addr = "FPCR" /\ bus'.data = fpcr_shadow
                 /\ sent = Len(CallWrites(cur)) - 1
              \/ /\ cur.call \in {"exec", "movecr"} /\ phase' = "wait"
                 /\ bus'.addr = "OPSEL" /\ bus'.data = cur.op
                 /\ sent = Len(CallWrites(cur)) - 1
              \/ /\ cur.call = "fsave" /\ phase' = "save"
                 /\ bus'.addr = OPWORD /\ bus'.data = "cpSAVE" /\ sent = 1
              \/ /\ cur.call = "frestore" /\ bus'.addr = "RESTORE" /\ bus'.data = cur.format
                 /\ phase' = (IF cur.format = "null" THEN "drain" ELSE "restore_words")
                 /\ sent' = FrameWords(cur.format) /\ sent = 2
<1>0. IsCall(cur) BY DEF CallOK
<1>1. /\ phase = "send" /\ sent \in 0..Len(CallWrites(cur)) - 1
      /\ bus' = [op |-> "write", addr |-> CallWrites(cur)[sent + 1][1],
                 data |-> CallWrites(cur)[sent + 1][2], first |-> TRUE, left |-> 3]
      /\ cur' = cur /\ fpcr_shadow' = fpcr_shadow /\ answer' = answer /\ late' = late
  BY DEF fpu_wr, CallOK, Served, SameCall, Writes, Starts
<1>2. CASE sent + 1 < Len(CallWrites(cur))
  <2>1. phase' = "send" /\ sent' = sent + 1
    BY <1>2 DEF fpu_wr
  <2>2. IsWrite(CallWrites(cur)[sent])'
    BY <1>1, <2>1 DEF IsWrite
  <2> QED BY <1>1, <1>2, <2>1, <2>2
<1>3. CASE ~(sent + 1 < Len(CallWrites(cur)))
  <2>1. /\ sent' = IF cur.call = "frestore" THEN FrameWords(cur.format) ELSE 0
        /\ phase' = CASE cur.call \in {"init", "ctrl"} -> "free"
                       [] cur.call \in {"exec", "movecr"} -> "wait"
                       [] cur.call = "fsave" -> "save"
                       [] cur.call = "frestore" ->
                             IF sent' = 0 THEN "drain" ELSE "restore_words"
    BY <1>3 DEF fpu_wr
  <2>2. CASE cur.call = "init"
    <3>1. Len(CallWrites(cur)) = 2 /\ CallWrites(cur)[2] = <<"FPCR", 0>>
      BY <1>0, <2>2, Sends
    <3>2. sent = 1 BY <1>1, <1>3, <3>1
    <3>3. bus'.addr = <<"FPCR", 0>>[1] /\ bus'.data = <<"FPCR", 0>>[2] BY <1>1, <3>1, <3>2
    <3>4. phase' = "free"
      BY <2>1, <2>2
    <3> QED BY <1>1, <2>2, <3>1, <3>2, <3>3, <3>4 DEF CallOK, IsCall
  <2>7. CASE cur.call = "ctrl"
    <3>1. Len(CallWrites(cur)) = 1 /\ CallWrites(cur)[1] = <<"FPCR", cur.n>>
      BY <1>0, <2>7, Sends
    <3>2. sent = 0 BY <1>1, <1>3, <3>1
    <3>3. bus'.addr = <<"FPCR", cur.n>>[1] /\ bus'.data = <<"FPCR", cur.n>>[2] BY <1>1, <3>1, <3>2
    <3>4. phase' = "free"
      BY <2>1, <2>7
    <3> QED BY <1>1, <2>7, <3>1, <3>2, <3>3, <3>4 DEF CallOK, IsCall
  <2>3. CASE cur.call = "movecr"
    <3>1. Len(CallWrites(cur)) = 4 /\ CallWrites(cur)[4] = <<"OPSEL", cur.op>>
      BY <1>0, <2>3, Sends
    <3>2. sent = 3 BY <1>1, <1>3, <3>1
    <3>3. bus'.addr = <<"OPSEL", cur.op>>[1] /\ bus'.data = <<"OPSEL", cur.op>>[2] BY <1>1, <3>1, <3>2
    <3>4. phase' = "wait"
      BY <2>1, <2>3
    <3> QED BY <1>1, <2>3, <3>1, <3>2, <3>3, <3>4
  <2>4. CASE cur.call = "exec" /\ cur.op.kind = "monadic"
    <3>1. Len(CallWrites(cur)) = 4 /\ CallWrites(cur)[4] = <<"OPSEL", cur.op>>
      BY <1>0, <2>4, Sends
    <3>2. sent = 3 BY <1>1, <1>3, <3>1
    <3>3. bus'.addr = <<"OPSEL", cur.op>>[1] /\ bus'.data = <<"OPSEL", cur.op>>[2] BY <1>1, <3>1, <3>2
    <3>4. phase' = "wait"
      BY <2>1, <2>4
    <3> QED BY <1>1, <2>4, <3>1, <3>2, <3>3, <3>4
  <2>8. CASE cur.call = "exec" /\ cur.op.kind = "dyadic"
    <3>1. Len(CallWrites(cur)) = 6 /\ CallWrites(cur)[6] = <<"OPSEL", cur.op>>
      BY <1>0, <2>8, Sends
    <3>2. sent = 5 BY <1>1, <1>3, <3>1
    <3>3. bus'.addr = <<"OPSEL", cur.op>>[1] /\ bus'.data = <<"OPSEL", cur.op>>[2] BY <1>1, <3>1, <3>2
    <3>4. phase' = "wait"
      BY <2>1, <2>8
    <3> QED BY <1>1, <2>8, <3>1, <3>2, <3>3, <3>4
  <2>5. CASE cur.call = "fsave"
    <3>1. Len(CallWrites(cur)) = 2 /\ CallWrites(cur)[2] = <<OPWORD, "cpSAVE">>
      BY <1>0, <2>5, Sends
    <3>2. sent = 1 BY <1>1, <1>3, <3>1
    <3>3. bus'.addr = <<OPWORD, "cpSAVE">>[1] /\ bus'.data = <<OPWORD, "cpSAVE">>[2] BY <1>1, <3>1, <3>2
    <3>4. phase' = "save"
      BY <2>1, <2>5
    <3> QED BY <1>1, <2>5, <3>1, <3>2, <3>3, <3>4
  <2>6. CASE cur.call = "frestore"
    <3>1. Len(CallWrites(cur)) = 3 /\ CallWrites(cur)[3] = <<"RESTORE", cur.format>>
      BY <1>0, <2>6, Sends
    <3>2. sent = 2 BY <1>1, <1>3, <3>1
    <3>3. bus'.addr = <<"RESTORE", cur.format>>[1] /\ bus'.data = <<"RESTORE", cur.format>>[2] BY <1>1, <3>1, <3>2
    <3>4. sent' = FrameWords(cur.format)
          /\ phase' = (IF cur.format = "null" THEN "drain" ELSE "restore_words")
      BY <2>1, <2>6, PeripheralAssumption DEF FrameWords, CallOK, IsCall
    <3> QED BY <1>1, <2>6, <3>1, <3>2, <3>3, <3>4
  <2> QED BY <2>2, <2>3, <2>4, <2>5, <2>6, <2>7, <2>8 DEF CallOK, IsCall
<1> QED BY <1>2, <1>3

\* An instruction is carried out under the rounding mode set before it.
LEMMA Begins ==
    ASSUME Served, CallOK, fline_illg_callback
    PROVE  /\ BusFree /\ bus' = bus /\ late' = late /\ phase = "free" /\ phase' = "send"
           /\ sent' = 0 /\ cur'.n = cur.n + 1 /\ answer' = NoAnswer
           /\ IsCall(cur') /\ cur'.call # "init" /\ cur'.op.cr = fpcr_shadow
           /\ fpcr_shadow' = IF cur'.call = "ctrl" THEN cur'.n ELSE fpcr_shadow
<1>1. /\ BusFree /\ bus' = bus /\ late' = late /\ phase = "free" /\ phase' = "send"
      /\ sent' = 0 /\ answer' = NoAnswer /\ cur' \in Calls(cur.n + 1)
      /\ fpcr_shadow' = IF cur'.call = "ctrl" THEN cur'.n ELSE fpcr_shadow
  BY DEF fline_illg_callback
<1> DEFINE Op(k) == [n |-> cur.n + 1, kind |-> k, cr |-> fpcr_shadow]
           Call(what, k, tests, format) ==
             [n |-> cur.n + 1, call |-> what, tests |-> tests, format |-> format, op |-> Op(k)]
<1> USE DEF IsCall
<1>0. cur.n + 1 \in Nat BY DEF CallOK
<1>2. cur' \in Calls(cur.n + 1) BY <1>1
<1>3. \/ cur' \in {Call("exec", k, t, "null") : k \in {"monadic", "dyadic"}, t \in BOOLEAN}
      \/ cur' \in {Call("movecr", "const", FALSE, "null"), Call("ctrl", "const", FALSE, "null"),
                   Call("fsave", "const", FALSE, "null")}
      \/ cur' \in {Call("frestore", "const", FALSE, f) : f \in Formats}
  BY ONLY <1>2 DEF Calls
<1>4. CASE cur' \in {Call("exec", k, t, "null") : k \in {"monadic", "dyadic"}, t \in BOOLEAN}
  <2>1. PICK k \in {"monadic", "dyadic"}, t \in BOOLEAN : cur' = Call("exec", k, t, "null")
    BY <1>4
  <2> QED BY <1>0, <1>1, <2>1
<1>5. CASE cur' \in {Call("movecr", "const", FALSE, "null"), Call("ctrl", "const", FALSE, "null"),
                     Call("fsave", "const", FALSE, "null")}
  <2>1. CASE cur' = Call("movecr", "const", FALSE, "null") BY <1>0, <1>1, <2>1
  <2>2. CASE cur' = Call("ctrl", "const", FALSE, "null") BY <1>0, <1>1, <2>2
  <2>3. CASE cur' = Call("fsave", "const", FALSE, "null") BY <1>0, <1>1, <2>3
  <2> QED BY <1>5, <2>1, <2>2, <2>3
<1>6. CASE cur' \in {Call("frestore", "const", FALSE, f) : f \in Formats}
  <2>1. PICK f \in Formats : cur' = Call("frestore", "const", FALSE, f)
    BY <1>6
  <2> QED BY <1>0, <1>1, <2>1 DEF Served
<1> QED BY <1>3, <1>4, <1>5, <1>6

\* How a bus cycle begins, goes on and ends.
LEMMA BusGoes ==
    ASSUME Served, IsBus, Host
    PROVE  /\ IsBus'
           /\ BusFree /\ BusFree' => bus' = bus
           /\ BusFree /\ ~BusFree' =>
                /\ bus'.first /\ bus'.op \in {"read", "write"}
                /\ bus'.left = (IF bus'.op = "write" THEN 3 ELSE 4)
           /\ ~BusFree /\ ~BusFree' =>
                /\ bus.left > 1 /\ bus'.left = bus.left - 1 /\ ~bus'.first
                /\ bus'.op = bus.op /\ bus'.addr = bus.addr /\ bus'.data = bus.data
                /\ Holds
           /\ ~BusFree /\ BusFree' =>
                /\ bus.left = 1 /\ Ends /\ ~bus'.first /\ bus'.left = 0
<1> USE DEF Served
<1>1. CASE BusFree
  <2>1. CASE UNCHANGED bus BY <1>1, <2>1 DEF IsBus, BusFree
  <2>2. CASE \E a, d : Starts("write", a, d) \/ Starts("read", a, d)
    <3>1. PICK a, d : Starts("write", a, d) \/ Starts("read", a, d) BY <2>2
    <3>2. CASE Starts("write", a, d)
      <4>1. bus' = [op |-> "write", addr |-> a, data |-> d, first |-> TRUE, left |-> 3]
        BY <3>2 DEF Starts
      <4> HIDE DEF Served
      <4> QED BY <1>1, <4>1 DEF IsBus, BusFree
    <3>3. CASE Starts("read", a, d)
      <4>1. bus' = [op |-> "read", addr |-> a, data |-> d, first |-> TRUE, left |-> 4]
        BY <3>3 DEF Starts
      <4> HIDE DEF Served
      <4> QED BY <1>1, <4>1 DEF IsBus, BusFree
    <3> QED BY <3>1, <3>2, <3>3
  <2>3. CASE fpu_wr BY <2>2, <2>3 DEF fpu_wr, Writes
  <2>4. CASE fpu_rd BY <2>2, <2>4 DEF fpu_rd, Reads
  <2>5. CASE SaveWord BY <2>2, <2>5 DEF SaveWord, Reads
  <2>6. CASE RestoreWord BY <2>2, <2>6 DEF RestoreWord, Writes
  <2>7. CASE LeaveDialog BY <2>2, <2>7 DEF LeaveDialog, Writes
  <2>8. CASE Pauses \/ fline_illg_callback BY <2>1, <2>8 DEF Pauses, fline_illg_callback
  <2> QED BY <1>1, <2>3, <2>4, <2>5, <2>6, <2>7, <2>8 DEF Host, HostStarts, Holds, Ends
<1>2. CASE ~BusFree
  <2>1. Holds \/ Ends
    BY <1>2 DEF Host, HostStarts, fline_illg_callback, fpu_wr, fpu_rd, SaveWord, RestoreWord,
                LeaveDialog, Pauses
  <2>2. CASE Holds
    <3>1. /\ bus.op # "none" /\ bus.left > 1 /\ bus'.left = bus.left - 1 /\ bus'.first = FALSE
          /\ bus'.op = bus.op /\ bus'.addr = bus.addr /\ bus'.data = bus.data
      BY <2>2 DEF Holds, IsBus, BusFree
    <3>2. bus'.left \in Nat BY <3>1 DEF IsBus
    <3>3. IsBus' BY <2>2, <3>1, <3>2 DEF Holds, IsBus
    <3> QED BY <2>2, <3>1, <3>3 DEF BusFree
  <2>3. CASE Ends BY <1>2, <2>3 DEF Ends, IsBus, BusFree
  <2> QED BY <2>1, <2>2, <2>3
<1> QED BY <1>1, <1>2

\* What ends is the cycle of the host's phase.
LEMMA PhaseOfCycle ==
    ASSUME CallOK, BusOK
    PROVE  /\ bus_read("STATUS") => phase = "wait"
           /\ bus_read("RES_L") => phase = "result"
           /\ bus_read("FPSR") => phase = "test"
           /\ bus_read("SAVE") => phase = "save"
           /\ bus_read("RESPONSE") => phase = "drain"
           /\ bus_read(OPERAND) => phase \in {"save_words", "drain"}
  BY DEF CallOK, BusOK, BusFree, bus_read, bus_write, IsWrite, Operating, Framing, OPERAND

\* Each phase is one of the call's.
LEMMA KeepsCall ==
    ASSUME Served, CallInv, Next
    PROVE  CallOK'
<1>0. CallOK /\ BusOK /\ Host
  BY DEF CallInv, Next
<1>1. CASE fline_illg_callback
  <2>1. IsCall(cur') BY <1>0, <1>1, Begins
  <2>2. 0 \in 0..Len(CallWrites(cur')) - 1
    BY <2>1, SendsSome
  <2> QED BY <1>0, <1>1, <2>1, <2>2, Begins DEF CallOK, IsCall, Operating, Framing
<1>2. CASE fpu_wr
  <2>1. BusFree BY <1>2 DEF fpu_wr
  <2>2. Len(CallWrites(cur)) \in Nat
    BY <1>0, SendsSome DEF CallOK
  <2>3. cur' = cur /\ fpcr_shadow' = fpcr_shadow /\ phase = "send" /\ sent \in Nat
    <3>1. cur' = cur /\ fpcr_shadow' = fpcr_shadow /\ phase = "send"
      BY <1>0, <1>2, <2>1, Opens
    <3>2. sent \in 0..Len(CallWrites(cur)) - 1 BY <1>0, <3>1 DEF CallOK
    <3> QED BY <2>2, <3>1, <3>2
  <2>4. CASE phase' = "send"
    <3>1. sent' = sent + 1 /\ sent + 1 < Len(CallWrites(cur))
      BY <1>0, <1>2, <2>1, <2>4, Opens
    <3> QED BY <1>0, <2>2, <2>3, <2>4, <3>1 DEF CallOK, Operating, Framing
  <2>5. CASE phase' # "send"
    BY <1>0, <1>2, <2>1, <2>3, <2>5, Opens DEF CallOK, Operating, Framing
  <2> QED BY <2>4, <2>5
<1>3. CASE fpu_rd BY <1>0, <1>3 DEF CallOK, fpu_rd, SameCall
<1>4. CASE SaveWord BY <1>0, <1>4 DEF CallOK, SaveWord, SameCall, Operating, Framing
<1>5. CASE RestoreWord BY <1>0, <1>5 DEF CallOK, RestoreWord, SameCall, Served, Operating, Framing
<1>6. CASE LeaveDialog BY <1>0, <1>6 DEF CallOK, LeaveDialog, SameCall, Operating, Framing
<1>7. CASE Holds \/ Pauses BY <1>0, <1>7 DEF CallOK, Holds, Pauses, hostVars
<1>8. CASE Ends
  <2>1. cur' = cur /\ fpcr_shadow' = fpcr_shadow BY <1>8 DEF Ends
  <2>2. CASE phase' = phase /\ sent' = sent BY <1>0, <2>1, <2>2 DEF CallOK
  <2>3. CASE ~(phase' = phase /\ sent' = sent)
    <3>1. \/ phase = "wait" /\ phase' \in {"result", "free"}
          \/ phase = "result" /\ phase' \in {"test", "free"}
          \/ phase = "test" /\ phase' = "free"
          \/ phase = "save" /\ phase' \in {"save_words", "drain"}
          \/ phase = "drain" /\ phase' \in {"drain", "leave"}
      BY <1>0, <1>8, <2>3, PhaseOfCycle DEF Ends, Returns
    <3> QED BY <1>0, <2>1, <3>1 DEF CallOK, Operating, Framing
  <2> QED BY <2>2, <2>3
<1> QED BY <1>0, <1>1, <1>2, <1>3, <1>4, <1>5, <1>6, <1>7, <1>8 DEF Host, HostStarts

\* The running bus cycle is one of the host's phase.
LEMMA KeepsBus ==
    ASSUME Served, CallInv, Next
    PROVE  BusOK'
<1>0. CallOK /\ BusOK /\ IsBus /\ Host
  BY DEF CallInv, Next, BusOK
<1>1. /\ IsBus' /\ (BusFree' => ~bus'.first /\ bus'.left = 0)
      /\ bus'.op = "write" => bus'.left \in 1..3 /\ (bus'.first <=> bus'.left = 3)
      /\ bus'.op = "read" => bus'.left \in 1..4 /\ (bus'.first <=> bus'.left = 4)
  BY <1>0, BusGoes DEF BusOK, IsBus, BusFree
<1>2. CASE BusFree' BY <1>1, <1>2 DEF BusOK, BusFree
<1>3. CASE ~BusFree /\ ~BusFree'
  <2>1. /\ bus'.op = bus.op /\ bus'.addr = bus.addr /\ bus'.data = bus.data
        /\ UNCHANGED hostVars
    BY <1>0, <1>3, BusGoes DEF Holds
  <2> QED BY <1>0, <1>1, <1>3, <2>1 DEF BusOK, BusFree, hostVars, bus_read, bus_write, IsWrite
<1>4. CASE BusFree /\ ~BusFree'
  <2>1. fpu_wr \/ fpu_rd \/ SaveWord \/ RestoreWord \/ LeaveDialog
    BY <1>0, <1>4 DEF Host, HostStarts, Holds, Ends, Pauses, fline_illg_callback, BusFree
  <2>2. CASE fpu_wr
    <3>1. BusFree BY <1>4
    <3>2. (phase = "send" => sent > 0 /\ IsWrite(CallWrites(cur)[sent]))'
      <4>1. CASE phase' = "send"
        <5>1. sent' = sent + 1 /\ IsWrite(CallWrites(cur)[sent])'
          BY <1>0, <2>2, <3>1, <4>1, Opens
        <5>2. sent \in Nat
          BY <1>0, <2>2, SendsSome DEF CallOK, fpu_wr
        <5> QED BY <5>1, <5>2
      <4> QED BY <4>1
    <3> QED BY <1>0, <1>1, <2>2, <3>1, <3>2, Opens DEF BusOK, IsWrite, bus_read, bus_write
  <2>3. CASE fpu_rd
    <3>1. bus'.op = "read" /\ phase' = phase
      BY <2>3 DEF fpu_rd, Reads, Starts
    <3>2. \/ phase = "wait" /\ bus'.addr = "STATUS"
          \/ phase = "result" /\ bus'.addr = "RES_L"
          \/ phase = "test" /\ bus'.addr = "FPSR"
          \/ phase = "save" /\ bus'.addr = "SAVE"
          \/ phase = "drain" /\ bus'.addr = "RESPONSE"
      BY <2>3 DEF fpu_rd, Reads, Starts
    <3> QED BY <1>1, <3>1, <3>2 DEF BusOK, bus_read
  <2>4. CASE SaveWord
    BY <1>1, <1>4, <2>4 DEF BusOK, SaveWord, Reads, Starts, bus_read, bus_write, IsWrite
  <2>5. CASE RestoreWord
    <3>1. /\ bus'.op = "write" /\ bus'.addr = OPERAND
          /\ phase' \in {"drain", "restore_words"}
      BY <2>5 DEF RestoreWord, Writes, Starts, Served
    <3> QED BY <1>1, <3>1 DEF BusOK, bus_write
  <2>6. CASE LeaveDialog
    BY <1>1, <1>4, <2>6 DEF BusOK, LeaveDialog, Writes, Starts, bus_read, bus_write, IsWrite
  <2> QED BY <2>1, <2>2, <2>3, <2>4, <2>5, <2>6
<1> QED BY <1>2, <1>3, <1>4

\* The FPU has seen a cycle from its second clock on.
LEMMA KeepsEdge ==
    ASSUME Served, CallInv, Next
    PROVE  EdgeOK'
<1>1. BusOK /\ IsBus /\ Host /\ bus_frame_proc /\ cir_write_proc
  BY DEF CallInv, Next, BusOK, FpuClock
<1>2. /\ opsel_prev' = bus_write("OPSEL") /\ write_prev' = bus_write(OPERAND)
      /\ read_prev' = bus_read(OPERAND) /\ save_prev' = bus_read("SAVE")
  BY <1>1 DEF bus_frame_proc, cir_write_proc
<1> QED
  BY <1>1, <1>2, BusGoes DEF EdgeOK, BusFree, bus_write, bus_read

\* The FPU sees each write of a call one clock after it begins.
LEMMA WrittenGoes ==
    ASSUME Served, CallInv, Next, phase' \in {"send"} \cup Operating
    PROVE  \/ fline_illg_callback /\ phase' = "send" /\ Written' = 0
           \/ /\ phase \in {"send"} \cup Operating /\ cur' = cur /\ fpcr_shadow' = fpcr_shadow
              /\ Written \in Nat
              /\ Written' = IF bus.op = "write" /\ bus.first THEN Written + 1 ELSE Written
<1>0. CallOK /\ BusOK /\ IsBus /\ Host /\ IsCall(cur) /\ Len(CallWrites(cur)) \in Nat \ {0}
  BY SendsSome DEF CallInv, Next, BusOK, CallOK
<1>1. CASE fline_illg_callback
  <2>1. ~bus'.first /\ sent' = 0 /\ phase' = "send"
    BY <1>0, <1>1, Begins DEF BusOK
  <2> QED BY <1>1, <2>1 DEF Written
<1>2. CASE fpu_wr
  <2>1. BusFree /\ ~bus.first BY <1>0, <1>2 DEF fpu_wr, BusOK
  <2>2. phase = "send" /\ sent \in Nat
    <3>1. phase = "send" BY <1>0, <1>2, <2>1, Opens
    <3>2. sent \in 0..Len(CallWrites(cur)) - 1 BY <1>0, <3>1 DEF CallOK
    <3> QED BY <1>0, <3>1, <3>2
  <2>3. Written = sent BY <2>1, <2>2 DEF Written
  <2>4. CASE phase' = "send"
    <3>1. bus'.first /\ sent' = sent + 1 /\ cur' = cur /\ fpcr_shadow' = fpcr_shadow
      BY <1>0, <1>2, <2>1, <2>4, Opens
    <3>2. Written' = sent BY <2>2, <2>4, <3>1 DEF Written
    <3> QED BY <2>1, <2>2, <2>3, <3>1, <3>2
  <2>5. CASE phase' # "send"
    <3>1. /\ bus'.first /\ bus'.op = "write" /\ cur' = cur /\ fpcr_shadow' = fpcr_shadow
          /\ phase' \in Operating
      BY <1>0, <1>2, <2>1, <2>5, Opens
    <3>2. sent = Len(CallWrites(cur)) - 1
      BY <1>0, <1>2, <2>1, <2>5, <3>1, Opens DEF Operating
    <3>3. Written' = Len(CallWrites(cur)) - 1 BY <2>5, <3>1 DEF Written
    <3> QED BY <2>1, <2>2, <2>3, <3>1, <3>2, <3>3
  <2> QED BY <2>4, <2>5
<1>3. CASE fpu_rd
  <2>1. /\ BusFree /\ ~bus.first /\ bus'.op = "read" /\ phase' = phase /\ cur' = cur
        /\ fpcr_shadow' = fpcr_shadow /\ phase \in Operating
    BY <1>0, <1>3 DEF fpu_rd, BusOK, Reads, Starts, SameCall, Operating
  <2>2. Written = Len(CallWrites(cur)) /\ Written' = Len(CallWrites(cur))
    BY <2>1 DEF Written, Operating
  <2> QED BY <1>0, <2>1, <2>2
<1>4. CASE Holds
  <2>1. /\ phase' = phase /\ sent' = sent /\ cur' = cur /\ fpcr_shadow' = fpcr_shadow
        /\ ~bus'.first /\ ~BusFree /\ bus.op \in {"read", "write"}
    BY <1>0, <1>4, BusGoes DEF Holds, hostVars, BusFree, IsBus
  <2>2. CASE phase = "send"
    <3>1. bus.op = "write" /\ sent \in Nat /\ sent > 0
      <4>1. bus.op = "write" /\ sent \in Nat BY <1>0, <2>1, <2>2, Sending
      <4>2. sent > 0 BY <1>0, <2>1, <2>2 DEF BusOK
      <4> QED BY <4>1, <4>2
    <3>2. Written' = sent BY <2>1, <2>2 DEF Written
    <3>3. Written = IF bus.first THEN sent - 1 ELSE sent BY <2>2 DEF Written
    <3>4. bus.first \in BOOLEAN BY <1>0 DEF IsBus
    <3> QED BY <2>1, <2>2, <3>1, <3>2, <3>3, <3>4
  <2>3. CASE phase \in Operating
    <3>1. Written' = Len(CallWrites(cur)) BY <2>1, <2>3 DEF Written, Operating
    <3>2. Written = IF bus.op = "write" /\ bus.first THEN Len(CallWrites(cur)) - 1
                    ELSE Len(CallWrites(cur))
      BY <2>3 DEF Written, Operating
    <3> QED BY <1>0, <2>1, <2>3, <3>1, <3>2
  <2> QED BY <2>1, <2>2, <2>3
<1>5. CASE Ends
  <2>1. /\ cur' = cur /\ fpcr_shadow' = fpcr_shadow /\ ~bus'.first /\ ~bus.first /\ ~BusFree
    BY <1>0, <1>5 DEF Ends, BusOK, BusFree, IsBus
  <2>2. CASE phase' = "send"
    <3>1. phase = "send" /\ sent' = sent /\ sent \in Nat
      BY <1>0, <1>5, <2>2 DEF Ends, Returns, CallOK
    <3> QED BY <2>1, <2>2, <3>1 DEF Written
  <2>3. CASE phase' # "send"
    <3>1. phase \in Operating /\ phase' \in Operating
      BY <1>0, <1>5, <2>3, PhaseOfCycle DEF Ends, Returns, Operating
    <3>2. Written' = Len(CallWrites(cur)) /\ Written = Len(CallWrites(cur))
      BY <2>1, <3>1 DEF Written, Operating
    <3> QED BY <1>0, <2>1, <3>1, <3>2
  <2> QED BY <2>2, <2>3
<1>6. CASE Pauses
  <2>1. /\ phase' = phase /\ sent' = sent /\ cur' = cur /\ fpcr_shadow' = fpcr_shadow
        /\ bus' = bus /\ ~bus.first
    BY <1>0, <1>6 DEF Pauses, hostVars, BusOK
  <2> QED BY <1>0, <2>1 DEF Written, CallOK, Operating
<1>7. ~SaveWord /\ ~LeaveDialog /\ ~RestoreWord
  BY DEF SaveWord, LeaveDialog, RestoreWord, Operating, Served
<1> QED BY <1>0, <1>1, <1>2, <1>3, <1>4, <1>5, <1>6, <1>7 DEF Host, HostStarts

\* Who writes where an operation word goes: a dialog's beginning, or an
\* operand outside dialog mode.
LEMMA OpwordWrites ==
    ASSUME CallOK, BusOK, ModeOK, bus_write(OPWORD)
    PROVE  \/ phase = "send" /\ cur.call = "exec" /\ sent = 4 /\ ~cir_mode
           \/ /\ phase = "send" /\ cur.call = "frestore" /\ sent = 2 /\ cir_mode
              /\ bus.data = "cpRESTORE"
           \/ /\ phase = "save" /\ cur.call = "fsave" /\ cir_mode /\ bus.data = "cpSAVE"
<1>1. ~BusFree BY DEF bus_write, BusFree
<1>2. phase \in {"send", "save"}
  BY <1>1 DEF CallOK, BusOK, bus_write, bus_read, IsWrite, Operating, Framing, OPWORD, OPERAND
<1>3. CASE phase = "save"
  BY <1>1, <1>3 DEF CallOK, BusOK, ModeOK, bus_write, bus_read, IsWrite, Framing
<1>4. CASE phase = "send"
  <2>1. \/ cur.call = "exec" /\ sent = 4
        \/ cur.call = "frestore" /\ sent = 2 /\ bus.data = "cpRESTORE"
    BY <1>1, <1>4, Sending DEF bus_write, OPWORD
  <2>2. sent \in Nat /\ sent > 1 BY <1>1, <1>4, <2>1, Sending
  <2>3. Written >= 1 BY <1>4, <2>1 DEF Written
  <2>4. cir_mode <=> cur.call = "frestore" BY <1>4, <2>1, <2>3 DEF ModeOK
  <2> QED BY <1>4, <2>1, <2>4
<1> QED BY <1>2, <1>3, <1>4

\* What the mode bit and the waiting operation word become.
LEMMA ModeGoes ==
    ASSUME Served, CallInv, Next
    PROVE  /\ cir_mode' = IF bus_write("CIR_MODE") THEN bus.data ELSE cir_mode
           /\ opword_written' => bus_write(OPWORD) /\ cir_mode /\ instr_type' = bus.data
<1>0. CallOK /\ BusOK /\ ModeOK /\ cir_write_proc
  BY DEF CallInv, Next, FpuClock
<1>1. opword_written /\ cir_state = "IDLE" => bus_write(OPWORD) /\ cir_mode
  <2>1. SUFFICES ASSUME opword_written, cir_state = "IDLE" PROVE bus_write(OPWORD) /\ cir_mode
    OBVIOUS
  <2>2. bus_write(OPWORD) /\ cur.call \in {"fsave", "frestore"} BY <1>0, <2>1 DEF ModeOK
  <2> QED BY <1>0, <2>2, OpwordWrites
<1> QED BY <1>0, <1>1 DEF cir_write_proc

\* The mode bit is written to enter a dialog and to leave it.
LEMMA ModeWrites ==
    ASSUME CallOK, BusOK, bus_write("CIR_MODE")
    PROVE  \/ /\ phase = "send" /\ cur.call \in {"init", "movecr", "exec"} /\ sent = 1
              /\ bus.data = FALSE
           \/ phase = "send" /\ cur.call \in {"fsave", "frestore"} /\ sent = 1 /\ bus.data = TRUE
           \/ phase = "free" /\ bus.data = FALSE
<1>1. ~BusFree BY DEF bus_write, BusFree
<1>2. phase \in {"send", "free"}
  BY <1>1 DEF CallOK, BusOK, bus_write, bus_read, IsWrite, Operating, Framing, OPWORD, OPERAND
<1>3. CASE phase = "send"
  BY <1>1, <1>3, Sending DEF bus_write, OPWORD
<1>4. CASE phase = "free"
  BY <1>1, <1>4 DEF BusOK, bus_write, IsWrite
<1> QED BY <1>2, <1>3, <1>4

\* The mode bit is set from the first write of a save or restore to the last
\* of it, and an operation word waits only while it is being written.
LEMMA KeepsMode ==
    ASSUME Served, CallInv, Next
    PROVE  ModeOK'
<1>0. /\ CallOK /\ BusOK /\ IsBus /\ ModeOK /\ DialogOK /\ Host /\ IsCall(cur)
      /\ cir_dialog_proc /\ cir_write_proc
  BY DEF CallInv, Next, BusOK, CallOK, FpuClock
<1>1. cir_mode' \in BOOLEAN
  <2>1. bus_write("CIR_MODE") => bus.data \in BOOLEAN BY <1>0, ModeWrites
  <2> QED BY <1>0, <2>1, ModeGoes DEF ModeOK
<1>2. phase' = "send" => /\ cur'.call # "init" =>
                              (cir_mode' <=> cur'.call \in {"fsave", "frestore"} /\ Written' >= 1)
                         /\ cur'.call = "init" => Written' = 0 \/ ~cir_mode'
  <2>1. SUFFICES ASSUME phase' = "send"
                 PROVE  /\ cur'.call # "init" =>
                              (cir_mode' <=> cur'.call \in {"fsave", "frestore"} /\ Written' >= 1)
                        /\ cur'.call = "init" => Written' = 0 \/ ~cir_mode'
    OBVIOUS
  <2>2. CASE fline_illg_callback
    <3>1. cur'.call # "init" /\ BusFree /\ phase = "free" BY <1>0, <2>2, Begins
    <3>2. ~cir_mode BY <1>0, <3>1 DEF ModeOK, BusFree, bus_write
    <3>3. Written' = 0
      BY <2>1, <2>2, <3>1, WrittenGoes DEF Operating
    <3> QED BY <3>1, <3>2, <3>3, ModeGoes DEF BusFree, bus_write
  <2>3. CASE ~fline_illg_callback
    <3>1. /\ phase \in {"send"} \cup Operating /\ cur' = cur /\ Written \in Nat
          /\ Written' = IF bus.op = "write" /\ bus.first THEN Written + 1 ELSE Written
      BY <2>1, <2>3, WrittenGoes
    <3>2. phase = "send"
      BY <1>0, <2>1, <2>3, <3>1, PhaseOfCycle DEF Host, HostStarts, fpu_wr, fpu_rd, SaveWord,
         RestoreWord, LeaveDialog, Holds, Ends, Pauses, Returns, hostVars, Operating
    <3>3. CASE bus_write("CIR_MODE")
      <4>1. sent = 1 /\ ~BusFree /\ (bus.data <=> cur.call \in {"fsave", "frestore"})
            /\ cur.call \in {"init", "exec", "movecr", "fsave", "frestore"}
        BY <1>0, <3>2, <3>3, ModeWrites DEF bus_write, BusFree
      <4>2. Written' >= 1
        <5>1. Written = IF bus.first THEN 0 ELSE 1 BY <3>2, <4>1 DEF Written
        <5> QED BY <3>1, <3>3, <5>1 DEF bus_write
      <4> QED BY <3>1, <3>3, <4>1, <4>2, ModeGoes
    <3>4. CASE ~bus_write("CIR_MODE")
      <4>1. Written >= 1 <=> Written' >= 1
        <5>1. CASE bus.op = "write" /\ bus.first
          <6>1. sent \in Nat /\ sent >= 2
            <7>1. ~BusFree BY <5>1 DEF BusFree
            <7>2. bus.addr # "CIR_MODE" BY <3>4, <5>1 DEF bus_write
            <7>3. sent = 2 \/ sent = 3 \/ sent = 4 \/ sent = 5
              BY <1>0, <3>2, <7>1, <7>2, Sending
            <7> QED BY <7>3
          <6>2. Written = sent - 1 BY <3>2, <5>1 DEF Written
          <6> QED BY <3>1, <5>1, <6>1, <6>2
        <5>2. CASE ~(bus.op = "write" /\ bus.first) BY <3>1, <5>2
        <5> QED BY <5>1, <5>2
      <4>2. cir_mode' = cir_mode BY <3>4, ModeGoes
      <4>3. Written' = 0 <=> ~(Written' >= 1)
        BY <3>1
      <4>4. Written = 0 <=> ~(Written >= 1)
        BY <3>1
      <4> QED BY <1>0, <3>1, <3>2, <4>1, <4>2, <4>3, <4>4 DEF ModeOK
    <3> QED BY <3>3, <3>4
  <2> QED BY <2>2, <2>3
<1>3. /\ phase' = "free" => ~cir_mode' \/ (bus_write("CIR_MODE") /\ bus.first)'
      /\ phase' \in Framing => cir_mode'
      /\ phase' \in Operating => ~cir_mode'
  <2>1. CASE phase = "send" /\ phase' # "send"
    <3>1. fpu_wr
      BY <1>0, <2>1, PhaseOfCycle DEF Host, HostStarts, fline_illg_callback, fpu_rd, SaveWord,
         RestoreWord, LeaveDialog, Holds, Ends, Pauses, Returns, hostVars
    <3>2. BusFree /\ ~bus.first BY <1>0, <3>1 DEF fpu_wr, BusOK
    <3>3. Written = sent BY <2>1, <3>2 DEF Written
    <3>4. cir_mode' = cir_mode BY <3>2, ModeGoes DEF bus_write, BusFree
    <3>5. \/ cur.call \in {"init", "ctrl"} /\ phase' = "free"
          \/ cur.call \in {"exec", "movecr"} /\ phase' = "wait"
          \/ cur.call \in {"fsave", "frestore"} /\ phase' \in {"save", "drain", "restore_words"}
      BY <1>0, <2>1, <3>1, <3>2, Opens
    <3>6. cur.call \in {"init", "fsave", "frestore"} => sent >= 1
      <4>1. CASE cur.call = "init"
        <5>1. sent = Len(CallWrites(cur)) - 1 BY <1>0, <2>1, <3>1, <3>2, <4>1, Opens
        <5>2. Len(CallWrites(cur)) = 2 BY <1>0, <4>1, Sends
        <5> QED BY <5>1, <5>2
      <4>2. CASE cur.call \in {"fsave", "frestore"}
        <5>1. sent = 1 \/ sent = 2 BY <1>0, <2>1, <3>1, <3>2, <4>2, Opens
        <5> QED BY <5>1
      <4> QED BY <4>1, <4>2
    <3> QED BY <1>0, <2>1, <3>3, <3>4, <3>5, <3>6 DEF ModeOK, Operating, Framing
  <2>2. CASE phase # "send" /\ phase' # "send"
    <3>1. CASE LeaveDialog
      BY <3>1 DEF LeaveDialog, Writes, Starts, bus_write, Framing, Operating
    <3>2. CASE ~LeaveDialog
      <4>1. \/ phase = "free" /\ phase' = "free"
            \/ phase \in Operating /\ phase' \in Operating \cup {"free"}
            \/ phase \in Framing /\ phase' \in Framing
        BY <1>0, <2>2, <3>2, PhaseOfCycle DEF Host, HostStarts, fpu_wr, fline_illg_callback, fpu_rd,
           SaveWord, RestoreWord, Holds, Ends, Pauses, Returns, hostVars, Operating, Framing,
           CallOK, Served
      <4>2. CASE bus_write("CIR_MODE")
        <5>1. phase = "free" /\ bus.data = FALSE BY <1>0, <2>2, <4>2, ModeWrites
        <5> QED BY <4>1, <4>2, <5>1, ModeGoes DEF Operating, Framing
      <4>3. CASE ~bus_write("CIR_MODE")
        BY <1>0, <4>1, <4>3, ModeGoes DEF ModeOK, Operating, Framing
      <4> QED BY <4>2, <4>3
    <3> QED BY <3>1, <3>2
  <2>3. CASE phase' = "send" BY <2>3 DEF Operating, Framing
  <2> QED BY <2>1, <2>2, <2>3
<1>4. opword_written' =>
        /\ cur'.call \in {"fsave", "frestore"}
        /\ phase' = (IF cur'.call = "fsave" THEN "save" ELSE "send")
        /\ BusFree' => cir_state' \in {"SAVE_FORMAT", "RESTORE_FORMAT"}
        /\ ~BusFree' => bus_write(OPWORD)'
        /\ instr_type' = (IF cur'.call = "fsave" THEN "cpSAVE" ELSE "cpRESTORE")
  <2>1. SUFFICES ASSUME opword_written'
                 PROVE  /\ cur'.call \in {"fsave", "frestore"}
                        /\ phase' = (IF cur'.call = "fsave" THEN "save" ELSE "send")
                        /\ BusFree' => cir_state' \in {"SAVE_FORMAT", "RESTORE_FORMAT"}
                        /\ ~BusFree' => bus_write(OPWORD)'
                        /\ instr_type' = (IF cur'.call = "fsave" THEN "cpSAVE" ELSE "cpRESTORE")
    OBVIOUS
  <2>2. bus_write(OPWORD) /\ cir_mode /\ instr_type' = bus.data BY <2>1, ModeGoes
  <2>3. ~BusFree BY <2>2 DEF bus_write, BusFree
  <2>4. /\ cur.call \in {"fsave", "frestore"}
        /\ phase = (IF cur.call = "fsave" THEN "save" ELSE "send")
        /\ instr_type' = (IF cur.call = "fsave" THEN "cpSAVE" ELSE "cpRESTORE")
        /\ cur.call = "frestore" => sent = 2
    BY <1>0, <2>2, OpwordWrites
  <2>5. cur' = cur /\ phase' = phase
    BY <1>0, <2>2, <2>3, PhaseOfCycle DEF Host, HostStarts, fpu_wr, fline_illg_callback, fpu_rd,
       SaveWord, RestoreWord, LeaveDialog, Holds, Ends, Pauses, Returns, hostVars, bus_write,
       bus_read
  <2>6. ~BusFree' => bus_write(OPWORD)' BY <1>0, <2>2, <2>3, BusGoes DEF bus_write
  <2>7. ASSUME BusFree' PROVE cir_state' \in {"SAVE_FORMAT", "RESTORE_FORMAT"}
    <3>1. bus.left = 1 BY <1>0, <2>3, <2>7, BusGoes
    <3>2. cir_state # "IDLE" BY <1>0, <2>2, <3>1 DEF DialogOK, AtIdle
    <3>3. cir_state = "SAVE_WAIT" \/ (cir_state = "RESTORE_FORMAT" /\ ~restore_trigger)
      <4>1. bus.op = "write" /\ bus.addr = OPWORD /\ phase \in {"save", "send"}
        BY <2>2, <2>4 DEF bus_write
      <4>2. cir_state # "SAVE_FORMAT" BY <1>0, <2>3, <4>1 DEF DialogOK, AtSaveFormat, bus_read
      <4>3. cir_state # "SAVE_FRAME" BY <1>0, <4>1 DEF DialogOK, AtSaveFrame, bus_read
      <4>4. cir_state # "XFER_DST_WAIT" BY <1>0, <4>1 DEF DialogOK, AtXferDstWait, bus_read
      <4>5. cir_state # "RESTORE_FRAME" BY <1>0, <4>1 DEF DialogOK, AtRestoreFrame, bus_write, OPWORD, OPERAND
      <4>6. cir_state = "RESTORE_FORMAT" => ~restore_trigger
        BY <1>0, <2>4, <3>1 DEF DialogOK, AtRestoreFormat
      <4>7. cir_state = "SAVE_WAIT" \/ cir_state = "RESTORE_FORMAT"
        BY <1>0, <3>2, <4>2, <4>3, <4>4, <4>5 DEF DialogOK
      <4> QED BY <4>6, <4>7
    <3> QED BY <1>0, <3>3 DEF cir_dialog_proc, Idle, SaveWait, SaveFormat, SaveFrame, DialogEnds,
               RestoreFormat, RestoreFrame, Goto
  <2> QED BY <2>4, <2>5, <2>6, <2>7
<1> QED BY <1>1, <1>2, <1>3, <1>4 DEF ModeOK

-----------------------------------------------------------------------------
(* The dialog *)

\* How the host moves a frame.
LEMMA FrameHost ==
    ASSUME Served, CallInv, Next
    PROVE  /\ ~BusFree /\ (bus.left > 1 \/ bus.op = "write" \/ bus_read(OPERAND)) =>
                phase' = phase /\ sent' = sent /\ cur' = cur
           /\ BusFree /\ phase = "save" =>
                /\ phase' = "save" /\ cur' = cur
                /\ BusFree' \/ bus_read("SAVE")'
           /\ BusFree /\ phase = "save_words" =>
                /\ cur' = cur
                /\ \/ BusFree' /\ phase' = "save_words" /\ sent' = sent
                   \/ /\ bus_read(OPERAND)' /\ sent' = sent - 1
                      /\ phase' = IF sent = 1 THEN "drain" ELSE "save_words"
           /\ BusFree /\ phase = "restore_words" =>
                /\ cur' = cur
                /\ \/ BusFree' /\ phase' = "restore_words" /\ sent' = sent
                   \/ /\ bus_write(OPERAND)' /\ sent' = sent - 1
                      /\ phase' = IF sent = 1 THEN "drain" ELSE "restore_words"
           /\ BusFree /\ phase = "send" /\ cur.call = "frestore" /\ sent = 2 =>
                /\ cur' = cur
                /\ \/ BusFree' /\ phase' = "send" /\ sent' = 2
                   \/ /\ bus_write("RESTORE")' /\ bus'.data = cur.format
                      /\ phase' = (IF cur.format = "null" THEN "drain" ELSE "restore_words")
                      /\ sent' = FrameWords(cur.format)
           /\ bus_read("SAVE") /\ bus.left = 1 =>
                /\ cur' = cur /\ sent' = FrameWords(d_out[2])
                /\ phase' = IF sent' = 0 THEN "drain" ELSE "save_words"
<1>0. CallOK /\ BusOK /\ IsBus /\ Host /\ IsCall(cur)
  BY DEF CallInv, Next, BusOK, CallOK
<1>1. ~BusFree /\ (bus.left > 1 \/ bus.op = "write" \/ bus_read(OPERAND)) =>
        phase' = phase /\ sent' = sent /\ cur' = cur
  BY <1>0 DEF Host, HostStarts, fline_illg_callback, fpu_wr, fpu_rd, SaveWord, RestoreWord,
     LeaveDialog, Pauses, Holds, Ends, hostVars, bus_read, OPERAND
<1>2. ASSUME BusFree PROVE fline_illg_callback \/ fpu_wr \/ fpu_rd \/ SaveWord \/ RestoreWord
                           \/ LeaveDialog \/ Pauses
  BY <1>0, <1>2 DEF Host, HostStarts, Holds, Ends
<1>3. Pauses => BusFree' /\ phase' = phase /\ sent' = sent /\ cur' = cur
  BY DEF Pauses, hostVars, BusFree
<1>4. BusFree /\ phase = "save" =>
        phase' = "save" /\ cur' = cur /\ (BusFree' \/ bus_read("SAVE")')
  BY <1>2, <1>3 DEF fline_illg_callback, fpu_wr, fpu_rd, SaveWord, RestoreWord, LeaveDialog,
     Reads, Starts, SameCall, bus_read
<1>5. BusFree /\ phase = "save_words" =>
        /\ cur' = cur
        /\ \/ BusFree' /\ phase' = "save_words" /\ sent' = sent
           \/ /\ bus_read(OPERAND)' /\ sent' = sent - 1
              /\ phase' = IF sent = 1 THEN "drain" ELSE "save_words"
  BY <1>2, <1>3 DEF fline_illg_callback, fpu_wr, fpu_rd, SaveWord, RestoreWord, LeaveDialog,
     Reads, Starts, SameCall, bus_read
<1>6. BusFree /\ phase = "restore_words" =>
        /\ cur' = cur
        /\ \/ BusFree' /\ phase' = "restore_words" /\ sent' = sent
           \/ /\ bus_write(OPERAND)' /\ sent' = sent - 1
              /\ phase' = IF sent = 1 THEN "drain" ELSE "restore_words"
  BY <1>2, <1>3 DEF fline_illg_callback, fpu_wr, fpu_rd, SaveWord, RestoreWord, LeaveDialog,
     Writes, Starts, SameCall, bus_write, Served
<1>7. ASSUME BusFree, phase = "send", cur.call = "frestore", sent = 2
      PROVE  /\ cur' = cur
             /\ \/ BusFree' /\ phase' = "send" /\ sent' = 2
                \/ /\ bus_write("RESTORE")' /\ bus'.data = cur.format
                   /\ phase' = (IF cur.format = "null" THEN "drain" ELSE "restore_words")
                   /\ sent' = FrameWords(cur.format)
  <2>1. fpu_wr \/ Pauses
    BY <1>2, <1>7 DEF fline_illg_callback, fpu_rd, SaveWord, RestoreWord, LeaveDialog
  <2>2. CASE Pauses BY <1>3, <1>7, <2>2
  <2>3. CASE fpu_wr
    <3>1. Len(CallWrites(cur)) = 3 BY <1>0, <1>7, Sends
    <3>2. bus'.op = "write" /\ cur' = cur /\ bus'.addr = "RESTORE" /\ bus'.data = cur.format
          /\ phase' = (IF cur.format = "null" THEN "drain" ELSE "restore_words")
          /\ sent' = FrameWords(cur.format)
      BY <1>0, <1>7, <2>3, <3>1, Opens
    <3> QED BY <3>2 DEF bus_write
  <2> QED BY <2>1, <2>2, <2>3
<1>8. bus_read("SAVE") /\ bus.left = 1 =>
        /\ cur' = cur /\ sent' = FrameWords(d_out[2])
        /\ phase' = IF sent' = 0 THEN "drain" ELSE "save_words"
  BY <1>0 DEF Host, HostStarts, fline_illg_callback, fpu_wr, fpu_rd, SaveWord, RestoreWord,
     LeaveDialog, Pauses, Holds, Ends, bus_read, BusFree, OPERAND
<1> QED BY <1>1, <1>4, <1>5, <1>6, <1>7, <1>8

\* The dialog leaves IDLE only for a save or a restore that begins, one clock
\* before the write of its operation word is over.
LEMMA FromIdle ==
    ASSUME Served, CallInv, Next, cir_state = "IDLE"
    PROVE  DialogOK'
<1>0. /\ CallOK /\ BusOK /\ IsBus /\ ModeOK /\ AtIdle /\ Host /\ IsCall(cur) /\ Idle
      /\ cir_write_proc /\ bus_frame_proc
  BY DEF CallInv, Next, BusOK, CallOK, FpuClock, DialogOK, cir_dialog_proc, SaveWait, SaveFormat,
         SaveFrame, DialogEnds, RestoreFormat, RestoreFrame
<1>1. ~commit_req' BY <1>0 DEF Idle, SamePulses
<1>2. CASE ~opword_written
  <2>1. cir_state' = "IDLE" BY <1>0, <1>2 DEF Idle, Goto
  <2>2. ASSUME bus_write(OPWORD)', cir_mode'
        PROVE  bus'.left \in {2, 3} /\ (opword_written' <=> bus'.left = 2)
    <3>1. CASE BusFree
      BY <1>0, <2>2, <3>1, BusGoes, ModeGoes DEF bus_write, BusFree
    <3>2. CASE ~BusFree
      <4>1. bus_write(OPWORD) /\ bus'.left = bus.left - 1
        BY <1>0, <2>2, <3>2, BusGoes DEF bus_write, BusFree
      <4>2. cir_mode BY <2>2, <4>1, ModeGoes DEF bus_write, OPWORD
      <4>3. bus.left = 3 BY <1>0, <1>2, <4>1, <4>2 DEF AtIdle
      <4>4. opword_written' BY <1>0, <4>1, <4>2 DEF cir_write_proc
      <4> QED BY <4>1, <4>3, <4>4
    <3> QED BY <3>1, <3>2
  <2> QED
    BY <1>1, <2>1, <2>2 DEF DialogOK, AtIdle, AtSaveWait, AtSaveFormat, AtSaveFrame, AtXferDstWait,
       AtRestoreFormat, AtRestoreFrame
<1>3. CASE opword_written
  <2>1. ~BusFree /\ bus_write(OPWORD) BY <1>0, <1>3 DEF ModeOK
  <2>2. /\ cur.call \in {"fsave", "frestore"} /\ cir_mode
        /\ phase = (IF cur.call = "fsave" THEN "save" ELSE "send")
        /\ instr_type = (IF cur.call = "fsave" THEN "cpSAVE" ELSE "cpRESTORE")
        /\ cur.call = "frestore" => sent = 2
    BY <1>0, <1>3, <2>1, OpwordWrites DEF ModeOK
  <2>3. bus.left = 2 BY <1>0, <1>3, <2>1, <2>2 DEF AtIdle
  <2>4. phase' = phase /\ sent' = sent /\ cur' = cur BY <2>1, <2>3, FrameHost
  <2>5. bus_write(OPWORD)' /\ bus'.left = 1
    BY <1>0, <2>1, <2>3, BusGoes DEF bus_write, BusFree
  <2>6. cir_state' = IF cur.call = "fsave" THEN "SAVE_WAIT" ELSE "RESTORE_FORMAT"
    BY <1>0, <1>3, <2>2 DEF Idle, Goto
  <2>7. ~restore_trigger' BY <1>0, <2>1 DEF bus_frame_proc, bus_write, OPWORD
  <2> QED
    BY <1>1, <2>2, <2>4, <2>5, <2>6, <2>7 DEF DialogOK, AtIdle, AtSaveWait, AtSaveFormat,
       AtSaveFrame, AtXferDstWait, AtRestoreFormat, AtRestoreFrame
<1> QED BY <1>2, <1>3

\* A frame has a number of words.
LEMMA WordsOfFrame == \A f : FrameWords(f) \in Nat
  BY PeripheralAssumption DEF FrameWords

\* A save: format word, frame words, and back to IDLE while the host still
\* reads the last of them.
LEMMA FromSave ==
    ASSUME Served, CallInv, Next, cir_state \in {"SAVE_WAIT", "SAVE_FORMAT", "SAVE_FRAME",
                                                "XFER_DST_WAIT"}
    PROVE  DialogOK'
<1>0. /\ CallOK /\ BusOK /\ IsBus /\ EdgeOK /\ DialogOK /\ Host /\ IsCall(cur)
      /\ cir_dialog_proc /\ cir_write_proc /\ ReadMux
  BY DEF CallInv, Next, BusOK, CallOK, FpuClock
<1>1. ~commit_req'
  BY <1>0 DEF cir_dialog_proc, Idle, SaveWait, SaveFormat, SaveFrame, DialogEnds, RestoreFormat,
     RestoreFrame, SamePulses
<1>2. CASE cir_state = "SAVE_WAIT"
  <2>1. cur.call = "fsave" /\ phase = "save" /\ bus_write(OPWORD) /\ bus.left = 1
    BY <1>0, <1>2 DEF DialogOK, AtSaveWait
  <2>2. SaveWait
    BY <1>0, <1>2 DEF cir_dialog_proc, Idle, SaveFormat, SaveFrame, DialogEnds, RestoreFormat,
       RestoreFrame
  <2>3. cir_state' = "SAVE_FORMAT" /\ word_idx' = 0 /\ word_count' = FrameWords(frame_format')
    BY <2>2, PeripheralAssumption DEF SaveWait, Goto, FrameWords
  <2>4. BusFree' /\ bus'.left = 0
    BY <1>0, <2>1, BusGoes DEF bus_write, BusFree
  <2>5. phase' = phase /\ cur' = cur BY <2>1, FrameHost DEF bus_write, BusFree
  <2>6. ~save_read_done' BY <1>0, <2>1 DEF cir_write_proc, bus_write, bus_read
  <2> QED
    BY <1>1, <2>1, <2>3, <2>4, <2>5, <2>6 DEF DialogOK, AtIdle, AtSaveWait, AtSaveFormat,
       AtSaveFrame, AtXferDstWait, AtRestoreFormat, AtRestoreFrame
<1>3. CASE cir_state = "SAVE_FORMAT"
  <2>1. /\ cur.call = "fsave" /\ phase = "save"
        /\ BusFree \/ (bus_read("SAVE") /\ bus.left \in {3, 4})
        /\ save_read_done <=> bus.left = 3
        /\ word_count = FrameWords(frame_format) /\ word_idx = 0
        /\ bus.left = 3 => d_out[2] = frame_format
    BY <1>0, <1>3 DEF DialogOK, AtSaveFormat
  <2>2. SaveFormat
    BY <1>0, <1>3 DEF cir_dialog_proc, Idle, SaveWait, SaveFrame, DialogEnds, RestoreFormat,
       RestoreFrame
  <2>3. word_idx' = 0 /\ word_count' = word_count /\ frame_format' = frame_format
    BY <2>1, <2>2 DEF SaveFormat, SameWords
  <2>4. phase' = "save" /\ cur' = cur
    BY <2>1, FrameHost DEF bus_read, BusFree
  <2>5. CASE bus.left = 3 /\ ~BusFree
    <3>1. bus_read("SAVE")' /\ bus'.left = 2
      BY <1>0, <2>1, <2>5, BusGoes DEF bus_read, BusFree
    <3>2. d_out'[2] = frame_format
      <4>1. d_out' = d_out
        <5>1. ~bus.first /\ bus_read("SAVE") BY <1>0, <2>1, <2>5 DEF BusOK, bus_read
        <5> QED BY <1>0, <5>1 DEF ReadMux, bus_read
      <4> QED BY <2>1, <2>5, <4>1
    <3>3. cir_state' = IF word_count = 0 THEN "IDLE" ELSE "SAVE_FRAME"
      BY <2>1, <2>2, <2>5 DEF SaveFormat, Goto
    <3>4. ~read_done' BY <1>0, <1>3 DEF cir_write_proc
    <3>5. word_count \in Nat BY <2>1, WordsOfFrame
    <3>6. ~bus_write(OPWORD)' /\ ~bus_read(OPERAND)'
      BY <3>1 DEF bus_read, bus_write, OPERAND
    <3> QED
      BY <1>1, <2>1, <2>3, <2>4, <3>1, <3>2, <3>3, <3>4, <3>5, <3>6 DEF DialogOK, AtIdle,
         AtSaveWait, AtSaveFormat, AtSaveFrame, AtXferDstWait, AtRestoreFormat, AtRestoreFrame
  <2>6. CASE ~(bus.left = 3 /\ ~BusFree)
    <3>1. ~save_read_done
      BY <1>0, <2>1, <2>6 DEF BusOK
    <3>2. cir_state' = "SAVE_FORMAT" BY <2>2, <3>1 DEF SaveFormat, Goto
    <3>3. CASE BusFree
      <4>1. ~save_read_done' BY <1>0, <3>3 DEF cir_write_proc, bus_read, BusFree
      <4>2. BusFree' \/ (bus_read("SAVE")' /\ bus'.left = 4)
        BY <1>0, <2>1, <3>3, FrameHost, BusGoes DEF bus_read, BusFree
      <4>3. BusFree' => bus'.left = 0 BY KeepsBus DEF BusOK
      <4> QED
        BY <1>1, <2>1, <2>3, <2>4, <3>2, <4>1, <4>2, <4>3 DEF DialogOK, AtIdle, AtSaveWait,
           AtSaveFormat, AtSaveFrame, AtXferDstWait, AtRestoreFormat, AtRestoreFrame
    <3>4. CASE ~BusFree
      <4>1. bus_read("SAVE") /\ bus.left = 4 BY <2>1, <2>6, <3>4
      <4>2. bus_read("SAVE")' /\ bus'.left = 3
        BY <1>0, <3>4, <4>1, BusGoes DEF bus_read, BusFree
      <4>3. bus.first /\ ~save_prev
        BY <1>0, <3>4, <4>1 DEF BusOK, EdgeOK, bus_read
      <4>4. save_read_done' BY <1>0, <1>3, <4>1, <4>3 DEF cir_write_proc
      <4>5. d_out' = <<"SAVE", frame_format>> BY <1>0, <4>1, <4>3 DEF ReadMux, bus_read
      <4>6. d_out'[2] = frame_format BY <4>5
      <4> QED
        BY <1>1, <2>1, <2>3, <2>4, <3>2, <4>2, <4>4, <4>6 DEF DialogOK, AtIdle, AtSaveWait,
           AtSaveFormat, AtSaveFrame, AtXferDstWait, AtRestoreFormat, AtRestoreFrame
    <3> QED BY <3>3, <3>4
  <2> QED BY <2>5, <2>6
<1>4. CASE cir_state = "SAVE_FRAME"
  <2>1. /\ cur.call = "fsave" /\ word_count \in Nat \ {0} /\ word_idx \in Nat
        /\ \/ /\ phase = "save" /\ bus_read("SAVE") /\ bus.left \in {1, 2}
              /\ d_out[2] = frame_format /\ word_count = FrameWords(frame_format)
              /\ word_idx = 0
           \/ /\ phase = "save_words" /\ sent \in Nat \ {0}
              /\ AfterWord(IF bus.left > 2 THEN 1 ELSE 0)
           \/ phase = "drain" /\ sent = 0 /\ bus_read(OPERAND) /\ bus.left > 2 /\ AfterWord(1)
        /\ read_done <=> bus_read(OPERAND) /\ bus.left = 3
    BY <1>0, <1>4 DEF DialogOK, AtSaveFrame
  <2>2. NextWord(read_done, "XFER_DST_WAIT") /\ frame_format' = frame_format
    BY <1>0, <1>4 DEF cir_dialog_proc, Idle, SaveWait, SaveFormat, SaveFrame, DialogEnds,
       RestoreFormat, RestoreFrame, NextWord
  <2>3. word_count' = word_count /\ ~bus_write(OPWORD)
    BY <1>0, <2>1, <2>2 DEF NextWord, BusOK, BusFree, bus_read, bus_write
  <2>3a. /\ ~read_done => /\ cir_state' = "SAVE_FRAME" /\ word_idx' = word_idx
         /\ read_done /\ word_idx + 1 < word_count =>
                cir_state' = "SAVE_FRAME" /\ word_idx' = word_idx + 1
         /\ read_done /\ word_idx + 1 = word_count => cir_state' = "XFER_DST_WAIT"
    BY <1>4, <2>1, <2>2 DEF NextWord, Goto
  <2>4. CASE phase = "save" /\ bus.left = 2
    <3>1. bus_read("SAVE") /\ ~read_done /\ ~bus.first
      BY <1>0, <2>1, <2>4 DEF BusOK, bus_read, BusFree, OPERAND
    <3>2. phase' = phase /\ cur' = cur BY <2>4, <3>1, FrameHost DEF bus_read, BusFree
    <3>3. bus_read("SAVE")' /\ bus'.left = 1
      BY <1>0, <2>4, <3>1, BusGoes DEF bus_read, BusFree
    <3>4. d_out' = d_out BY <1>0, <3>1 DEF ReadMux, bus_read
    <3>5. ~read_done' /\ ~bus_read(OPERAND)'
      BY <1>0, <3>1, <3>3 DEF cir_write_proc, bus_read, OPERAND
    <3>6. d_out'[2] = frame_format /\ word_count = FrameWords(frame_format) /\ word_idx = 0
      BY <2>1, <2>4, <3>4
    <3> QED
      BY <1>1, <2>1, <2>2, <2>3, <2>3a, <2>4, <3>1, <3>2, <3>3, <3>5, <3>6 DEF DialogOK, AtIdle, AtSaveWait,
         AtSaveFormat, AtSaveFrame, AtXferDstWait, AtRestoreFormat, AtRestoreFrame
  <2>5. CASE phase = "save" /\ bus.left = 1
    <3>1. bus_read("SAVE") /\ ~read_done /\ d_out[2] = frame_format
          /\ word_count = FrameWords(frame_format) /\ word_idx = 0
      BY <1>0, <2>1, <2>5 DEF bus_read, OPERAND
    <3>2. cur' = cur /\ sent' = word_count /\ phase' = "save_words"
      BY <2>1, <2>5, <3>1, FrameHost
    <3>3. BusFree' /\ bus'.left = 0
      BY <1>0, <2>5, <3>1, BusGoes DEF bus_read, BusFree
    <3>4. ~read_done' /\ ~bus_read(OPERAND)'
      BY <1>0, <3>1, <3>3 DEF cir_write_proc, bus_read, BusFree, OPERAND
    <3>5. AfterWord(IF bus.left > 2 THEN 1 ELSE 0)'
      <4>1. word_count' = word_idx' + sent' + 0
        BY <2>1, <2>3, <2>3a, <3>1, <3>2
      <4> QED BY <3>3, <4>1 DEF AfterWord
    <3> QED
      BY <1>1, <2>1, <2>2, <2>3, <2>3a, <3>1, <3>2, <3>3, <3>4, <3>5 DEF DialogOK, AtIdle, AtSaveWait,
         AtSaveFormat, AtSaveFrame, AtXferDstWait, AtRestoreFormat, AtRestoreFrame
  <2>6. CASE phase = "save_words" /\ BusFree
    <3>1. ~read_done /\ bus.left = 0 BY <1>0, <2>1, <2>6 DEF bus_read, BusOK, BusFree
    <3>2. sent \in Nat \ {0} /\ word_count = word_idx + sent + 0
      BY <2>1, <2>6, <3>1 DEF AfterWord
    <3>3. cur' = cur BY <2>6, FrameHost
    <3>4. ~read_done' BY <1>0, <2>6 DEF cir_write_proc, bus_read, BusFree
    <3>5. CASE BusFree'
      <4>1. phase' = "save_words" /\ sent' = sent /\ bus'.left = 0
        BY <1>0, <2>6, <3>1, <3>5, FrameHost, BusGoes DEF BusFree, bus_read
      <4>2. AfterWord(IF bus.left > 2 THEN 1 ELSE 0)'
        BY <2>1, <2>3, <2>3a, <3>1, <3>2, <4>1 DEF AfterWord
      <4> QED
        BY <1>1, <2>1, <2>2, <2>3, <2>3a, <3>1, <3>2, <3>3, <3>4, <3>5, <4>1, <4>2 DEF DialogOK, AtIdle, AtSaveWait,
         AtSaveFormat, AtSaveFrame, AtXferDstWait, AtRestoreFormat, AtRestoreFrame
    <3>6. CASE ~BusFree'
      <4>1. /\ bus_read(OPERAND)' /\ sent' = sent - 1 /\ bus'.left = 4
            /\ phase' = IF sent = 1 THEN "drain" ELSE "save_words"
        BY <1>0, <2>6, <3>6, FrameHost, BusGoes DEF BusFree, bus_read
      <4>2. AfterWord(1)' /\ AfterWord(IF bus.left > 2 THEN 1 ELSE 0)'
        <5>1. word_count' = word_idx' + sent' + 1
          BY <2>1, <2>3, <2>3a, <3>1, <3>2, <4>1
        <5> QED BY <4>1, <5>1 DEF AfterWord
      <4>3. (sent = 1 => sent' = 0) /\ (sent # 1 => sent' \in Nat \ {0})
        BY <3>2, <4>1
      <4> QED
        BY <1>1, <2>1, <2>2, <2>3, <2>3a, <3>1, <3>2, <3>3, <3>4, <4>1, <4>2, <4>3 DEF DialogOK, AtIdle, AtSaveWait,
         AtSaveFormat, AtSaveFrame, AtXferDstWait, AtRestoreFormat, AtRestoreFrame
    <3> QED BY <3>5, <3>6
  <2>6a. phase \in {"save_words", "drain"} /\ ~BusFree =>
          /\ bus_read(OPERAND) /\ phase' = phase /\ sent' = sent /\ cur' = cur
          /\ ~bus_write(OPWORD)'
    <3>1. SUFFICES ASSUME phase \in {"save_words", "drain"}, ~BusFree
                   PROVE  /\ bus_read(OPERAND) /\ phase' = phase /\ sent' = sent
                          /\ cur' = cur /\ ~bus_write(OPWORD)'
      OBVIOUS
    <3>2. bus_read(OPERAND) BY <1>0, <2>1, <3>1 DEF BusOK
    <3>3. ~bus_write(OPWORD)' BY <1>0, <3>1, <3>2, BusGoes DEF bus_read, bus_write, BusFree
    <3> QED BY <3>1, <3>2, <3>3, FrameHost
  <2>7. CASE phase \in {"save_words", "drain"} /\ ~BusFree /\ bus.left = 4
    <3>1. bus_read(OPERAND) /\ ~read_done /\ bus.first /\ ~read_prev
      BY <1>0, <2>1, <2>6a, <2>7 DEF BusOK, EdgeOK, bus_read
    <3>2. bus_read(OPERAND)' /\ bus'.left = 3
      BY <1>0, <2>7, <3>1, BusGoes DEF bus_read, BusFree
    <3>3. read_done' BY <1>0, <1>4, <3>1 DEF cir_write_proc
    <3>4. AfterWord(1)' /\ AfterWord(IF bus.left > 2 THEN 1 ELSE 0)'
      <4>1. word_count = word_idx + sent + 1 BY <2>1, <2>7 DEF AfterWord
      <4>2. word_count' = word_idx' + sent' + 1 BY <2>3, <2>3a, <2>6a, <2>7, <3>1, <4>1
      <4> QED BY <3>2, <4>2 DEF AfterWord
    <3> QED
      BY <1>1, <2>1, <2>2, <2>3, <2>3a, <2>6a, <2>7, <3>1, <3>2, <3>3, <3>4 DEF DialogOK, AtIdle, AtSaveWait,
         AtSaveFormat, AtSaveFrame, AtXferDstWait, AtRestoreFormat, AtRestoreFrame
  <2>8. CASE phase \in {"save_words", "drain"} /\ ~BusFree /\ bus.left = 3
    <3>1. bus_read(OPERAND) /\ read_done /\ ~bus.first /\ read_prev
      BY <1>0, <2>1, <2>6a, <2>8 DEF BusOK, EdgeOK, bus_read
    <3>2. bus_read(OPERAND)' /\ bus'.left = 2
      BY <1>0, <2>8, <3>1, BusGoes DEF bus_read, BusFree
    <3>3. ~read_done' BY <1>0, <1>4, <3>1 DEF cir_write_proc
    <3>4. word_count = word_idx + sent + 1 BY <2>1, <2>8 DEF AfterWord
    <3>5. CASE phase = "drain"
      <4>1. sent = 0 BY <2>1, <2>8, <3>1, <3>5 DEF bus_read
      <4>2. word_idx + 1 = word_count BY <2>1, <3>4, <4>1
      <4> QED
        BY <1>1, <2>1, <2>2, <2>3, <2>3a, <2>6a, <2>8, <3>1, <3>2, <3>3, <3>5, <4>2 DEF DialogOK, AtIdle, AtSaveWait,
         AtSaveFormat, AtSaveFrame, AtXferDstWait, AtRestoreFormat, AtRestoreFrame
    <3>6. CASE phase = "save_words"
      <4>1. sent \in Nat \ {0} BY <2>1, <3>6
      <4>2. word_idx + 1 < word_count BY <2>1, <3>4, <4>1
      <4>3. cir_state' = "SAVE_FRAME" /\ word_idx' = word_idx + 1 BY <2>3a, <3>1, <4>2
      <4>4. AfterWord(IF bus.left > 2 THEN 1 ELSE 0)'
        <5>1. word_count' = word_idx' + sent' + 0
          BY <2>1, <2>3, <2>6a, <2>8, <3>4, <4>1, <4>3
        <5> QED BY <3>2, <5>1 DEF AfterWord
      <4> QED
        BY <1>1, <2>1, <2>2, <2>3, <2>6a, <2>8, <3>1, <3>2, <3>3, <3>6, <4>1, <4>3, <4>4 DEF DialogOK, AtIdle, AtSaveWait,
         AtSaveFormat, AtSaveFrame, AtXferDstWait, AtRestoreFormat, AtRestoreFrame
    <3> QED BY <2>8, <3>5, <3>6
  <2>9. CASE phase = "save_words" /\ ~BusFree /\ bus.left \in {1, 2}
    <3>1. bus_read(OPERAND) /\ ~read_done /\ ~bus.first /\ read_prev
      BY <1>0, <2>1, <2>6a, <2>9 DEF BusOK, EdgeOK, bus_read
    <3>2. bus'.left \in {0, 1}
      BY <1>0, <2>9, <3>1, BusGoes DEF bus_read, BusFree
    <3>3. ~read_done' BY <1>0, <1>4, <3>1 DEF cir_write_proc
    <3>4. sent \in Nat \ {0} /\ word_count = word_idx + sent + 0
      BY <2>1, <2>9 DEF AfterWord
    <3>5. AfterWord(IF bus.left > 2 THEN 1 ELSE 0)'
      <4>1. word_count' = word_idx' + sent' + 0 BY <2>3, <2>3a, <2>6a, <2>9, <3>1, <3>4
      <4> QED BY <3>2, <4>1 DEF AfterWord
    <3> QED
      BY <1>1, <2>1, <2>2, <2>3, <2>3a, <2>6a, <2>9, <3>1, <3>2, <3>3, <3>4, <3>5 DEF DialogOK, AtIdle, AtSaveWait,
         AtSaveFormat, AtSaveFrame, AtXferDstWait, AtRestoreFormat, AtRestoreFrame
  <2> QED BY <1>0, <2>1, <2>4, <2>5, <2>6, <2>7, <2>8, <2>9 DEF BusOK, bus_read, BusFree
<1>5. CASE cir_state = "XFER_DST_WAIT"
  <2>1. cur.call = "fsave" /\ phase = "drain" /\ bus_read(OPERAND) /\ bus.left = 2
    BY <1>0, <1>5 DEF DialogOK, AtXferDstWait
  <2>2. DialogEnds
    BY <1>0, <1>5 DEF cir_dialog_proc, Idle, SaveWait, SaveFormat, SaveFrame,
       RestoreFormat, RestoreFrame
  <2>3. cir_state' = "IDLE" BY <1>5, <2>2 DEF DialogEnds, Goto
  <2>4. bus_read(OPERAND)'
    BY <1>0, <2>1, BusGoes DEF bus_read, BusFree
  <2> QED
    BY <1>1, <2>3, <2>4 DEF bus_read, bus_write, DialogOK, AtIdle, AtSaveWait, AtSaveFormat,
       AtSaveFrame, AtXferDstWait, AtRestoreFormat, AtRestoreFrame
<1> QED BY <1>2, <1>3, <1>4, <1>5

\* A restore: format word, frame words, and back to IDLE while the host still
\* writes the last of them.
LEMMA FromRestore ==
    ASSUME Served, CallInv, Next, cir_state \in {"RESTORE_FORMAT", "RESTORE_FRAME"}
    PROVE  DialogOK'
<1>0. /\ CallOK /\ BusOK /\ IsBus /\ EdgeOK /\ DialogOK /\ Host /\ IsCall(cur)
      /\ cir_dialog_proc /\ cir_write_proc /\ bus_frame_proc
  BY DEF CallInv, Next, BusOK, CallOK, FpuClock
<1>1. CASE cir_state = "RESTORE_FORMAT"
  <2>1. /\ cur.call = "frestore"
        /\ \/ phase = "send" /\ sent = 2 /\ (BusFree \/ (bus_write(OPWORD) /\ bus.left = 1))
           \/ /\ phase = (IF cur.format = "null" THEN "drain" ELSE "restore_words")
              /\ bus_write("RESTORE") /\ bus.left > 1 /\ sent = FrameWords(cur.format)
        /\ restore_trigger <=> phase # "send" /\ bus.left = 2
        /\ restore_trigger => restore_kind = cur.format
    BY <1>0, <1>1 DEF DialogOK, AtRestoreFormat
  <2>2. RestoreFormat /\ ~commit_req'
    BY <1>0, <1>1 DEF cir_dialog_proc, Idle, SaveWait, SaveFormat, SaveFrame, DialogEnds,
       RestoreFrame, RestoreFormat
  <2>3. restore_trigger' = bus_write("RESTORE") /\ (bus_write("RESTORE") => restore_kind' = bus.data)
    BY <1>0 DEF bus_frame_proc
  <2>4. CASE phase = "send"
    <3>1. cir_state' = "RESTORE_FORMAT" BY <2>1, <2>2, <2>4 DEF RestoreFormat, Goto
    <3>2. ~restore_trigger' BY <2>1, <2>3, <2>4 DEF bus_write, BusFree, OPWORD
    <3>3. CASE BusFree
      <4>1. /\ cur' = cur
            /\ \/ BusFree' /\ phase' = "send" /\ sent' = 2
               \/ /\ bus_write("RESTORE")' /\ bus'.data = cur.format
                  /\ phase' = (IF cur.format = "null" THEN "drain" ELSE "restore_words")
                  /\ sent' = FrameWords(cur.format)
        BY <2>1, <2>4, <3>3, FrameHost
      <4>2. bus_write("RESTORE")' => bus'.left = 3
        BY <1>0, <3>3, BusGoes DEF bus_write, BusFree
      <4> QED
        BY <2>1, <2>2, <3>1, <3>2, <4>1, <4>2 DEF DialogOK, AtIdle, AtSaveWait,
         AtSaveFormat, AtSaveFrame, AtXferDstWait, AtRestoreFormat, AtRestoreFrame
    <3>4. CASE ~BusFree
      <4>1. bus_write(OPWORD) /\ bus.left = 1 BY <2>1, <2>4, <3>4 DEF bus_write
      <4>2. phase' = phase /\ sent' = sent /\ cur' = cur BY <3>4, <4>1, FrameHost DEF bus_write
      <4>3. BusFree' BY <1>0, <3>4, <4>1, BusGoes
      <4> QED
        BY <2>1, <2>2, <2>4, <3>1, <3>2, <4>2, <4>3 DEF DialogOK, AtIdle, AtSaveWait,
         AtSaveFormat, AtSaveFrame, AtXferDstWait, AtRestoreFormat, AtRestoreFrame
    <3> QED BY <3>3, <3>4
  <2>5. CASE phase # "send"
    <3>1. /\ phase = (IF cur.format = "null" THEN "drain" ELSE "restore_words")
          /\ bus_write("RESTORE") /\ bus.left \in {2, 3} /\ sent = FrameWords(cur.format)
          /\ bus.data = cur.format /\ ~BusFree
      <4>1. ~BusFree BY <2>1, <2>5 DEF bus_write, BusFree
      <4>2. bus.data = cur.format
        BY <1>0, <2>1, <2>5, <4>1 DEF BusOK, bus_read, bus_write, IsWrite, OPERAND
      <4> QED BY <1>0, <2>1, <2>5, <4>1, <4>2 DEF BusOK, bus_write
    <3>2. phase' = phase /\ sent' = sent /\ cur' = cur BY <3>1, FrameHost DEF bus_write
    <3>3. bus_write("RESTORE")' /\ bus'.left = bus.left - 1
      BY <1>0, <3>1, BusGoes DEF bus_write, BusFree
    <3>4. restore_trigger' /\ restore_kind' = cur.format BY <2>3, <3>1
    <3>5. CASE bus.left = 3
      <4>1. cir_state' = "RESTORE_FORMAT" BY <2>1, <2>2, <3>5 DEF RestoreFormat, Goto
      <4>2. bus'.left = 2 BY <3>3, <3>5
      <4> QED
        BY <2>1, <2>2, <2>5, <3>1, <3>2, <3>3, <3>4, <4>1, <4>2 DEF DialogOK, AtIdle, AtSaveWait,
         AtSaveFormat, AtSaveFrame, AtXferDstWait, AtRestoreFormat, AtRestoreFrame
    <3>6. CASE bus.left = 2
      <4>1. restore_trigger /\ restore_kind = cur.format BY <2>1, <2>5, <3>6
      <4>2. bus'.left = 1 /\ ~bus_write(OPERAND)' /\ ~bus_write(OPWORD)'
        BY <3>3, <3>6 DEF bus_write, OPERAND, OPWORD
      <4>3. CASE cur.format = "null"
        <5>1. cir_state' = "IDLE" BY <2>2, <4>1, <4>3 DEF RestoreFormat, Goto
        <5> QED BY <2>2, <4>2, <5>1 DEF DialogOK, AtIdle, AtSaveWait,
         AtSaveFormat, AtSaveFrame, AtXferDstWait, AtRestoreFormat, AtRestoreFrame
      <4>4. CASE cur.format # "null"
        <5>1. cur.format \in {"idle", "busy"} BY <1>0, <4>4 DEF IsCall
        <5>2. cir_state' = "RESTORE_FRAME" BY <2>2, <4>1, <5>1 DEF RestoreFormat, Goto
        <5>3. word_idx' = 0 /\ word_count' = FrameWords(cur.format)
          BY <2>2, <4>1, <5>1 DEF RestoreFormat, FrameWords
        <5>4. FrameWords(cur.format) \in Nat \ {0}
          BY <5>1, PeripheralAssumption DEF FrameWords
        <5>5. AfterWord(IF bus.left > 1 THEN 1 ELSE 0)'
          <6>1. word_count' = word_idx' + sent' + 0 BY <3>1, <3>2, <5>3, <5>4
          <6> QED BY <4>2, <6>1 DEF AfterWord
        <5>6. ~word_arrived' BY <1>0, <1>1 DEF cir_write_proc
        <5>7. sent' \in Nat \ {0} /\ phase' = "restore_words" /\ word_idx' \in Nat
          BY <3>1, <3>2, <4>4, <5>3, <5>4
        <5> QED
          BY <2>1, <2>2, <3>2, <4>2, <5>2, <5>5, <5>6, <5>7 DEF DialogOK, AtIdle, AtSaveWait,
         AtSaveFormat, AtSaveFrame, AtXferDstWait, AtRestoreFormat, AtRestoreFrame
      <4> QED BY <4>3, <4>4
    <3> QED BY <3>1, <3>5, <3>6
  <2> QED BY <2>4, <2>5
<1>2. CASE cir_state = "RESTORE_FRAME"
  <2>1. /\ cur.call = "frestore" /\ word_idx \in Nat
        /\ \/ /\ phase = "restore_words" /\ sent \in Nat \ {0}
              /\ AfterWord(IF bus.left > 1 THEN 1 ELSE 0)
              /\ bus_write("RESTORE") => bus.left = 1
           \/ phase = "drain" /\ sent = 0 /\ bus_write(OPERAND) /\ bus.left > 1 /\ AfterWord(1)
        /\ word_arrived <=> bus_write(OPERAND) /\ bus.left = 2
    BY <1>0, <1>2 DEF DialogOK, AtRestoreFrame
  <2>2. /\ RestoreFrame /\ word_count' = word_count
        /\ commit_req' => cir_state' = "IDLE"
    BY <1>0, <1>2 DEF cir_dialog_proc, Idle, SaveWait, SaveFormat, SaveFrame, DialogEnds,
       RestoreFrame, RestoreFormat, NextWord
  <2>3. word_count \in Nat
    <3>1. CASE phase = "drain" BY <2>1, <3>1 DEF AfterWord
    <3>2. CASE phase = "restore_words"
      <4>1. word_count = word_idx + sent + 1 \/ word_count = word_idx + sent + 0
        BY <2>1, <3>2 DEF AfterWord
      <4> QED BY <2>1, <3>2, <4>1
    <3> QED BY <2>1, <3>1, <3>2
  <2>3a. /\ ~word_arrived => cir_state' = "RESTORE_FRAME" /\ word_idx' = word_idx
         /\ word_arrived /\ word_idx + 1 < word_count =>
                cir_state' = "RESTORE_FRAME" /\ word_idx' = word_idx + 1
         /\ word_arrived /\ word_idx + 1 = word_count => cir_state' = "IDLE"
    BY <1>2, <2>1, <2>2, <2>3 DEF RestoreFrame, NextWord, Goto
  <2>4. CASE BusFree
    <3>1. phase = "restore_words" /\ ~word_arrived /\ bus.left = 0
      BY <1>0, <2>1, <2>4 DEF bus_write, BusOK, BusFree
    <3>2. sent \in Nat \ {0} /\ word_count = word_idx + sent + 0
      BY <2>1, <3>1 DEF AfterWord
    <3>3. cur' = cur BY <2>4, <3>1, FrameHost
    <3>4. ~word_arrived' BY <1>0, <2>4 DEF cir_write_proc, bus_write, BusFree
    <3>5. CASE BusFree'
      <4>1. phase' = "restore_words" /\ sent' = sent /\ bus'.left = 0
        BY <1>0, <2>4, <3>1, <3>5, FrameHost, BusGoes DEF BusFree, bus_write
      <4>2. AfterWord(IF bus.left > 1 THEN 1 ELSE 0)'
        BY <2>1, <2>2, <2>3a, <3>1, <3>2, <4>1 DEF AfterWord
      <4>3. ~bus_write("RESTORE")' /\ ~bus_write(OPERAND)' BY <3>5 DEF BusFree, bus_write
      <4> QED
        BY <2>1, <2>2, <2>3a, <3>1, <3>2, <3>3, <3>4, <4>1, <4>2, <4>3 DEF DialogOK, AtIdle, AtSaveWait,
         AtSaveFormat, AtSaveFrame, AtXferDstWait, AtRestoreFormat, AtRestoreFrame
    <3>6. CASE ~BusFree'
      <4>1. /\ bus_write(OPERAND)' /\ sent' = sent - 1 /\ bus'.left = 3
            /\ phase' = IF sent = 1 THEN "drain" ELSE "restore_words"
        BY <1>0, <2>4, <3>1, <3>6, FrameHost, BusGoes DEF BusFree, bus_write
      <4>2. AfterWord(1)' /\ AfterWord(IF bus.left > 1 THEN 1 ELSE 0)'
        <5>1. word_count' = word_idx' + sent' + 1
          BY <2>1, <2>2, <2>3a, <3>1, <3>2, <4>1
        <5> QED BY <4>1, <5>1 DEF AfterWord
      <4>3. (sent = 1 => sent' = 0) /\ (sent # 1 => sent' \in Nat \ {0})
        BY <3>2, <4>1
      <4>4. ~bus_write("RESTORE")' BY <4>1 DEF bus_write, OPERAND
      <4> QED
        BY <2>1, <2>2, <2>3a, <3>1, <3>2, <3>3, <3>4, <4>1, <4>2, <4>3, <4>4 DEF DialogOK, AtIdle, AtSaveWait,
         AtSaveFormat, AtSaveFrame, AtXferDstWait, AtRestoreFormat, AtRestoreFrame
    <3> QED BY <3>5, <3>6
  <2>5. ~BusFree =>
          /\ phase' = phase /\ sent' = sent /\ cur' = cur /\ bus.left \in 1..3
          /\ bus_write("RESTORE") \/ bus_write(OPERAND)
          /\ bus'.left = bus.left - 1 /\ ~bus_write(OPWORD)'
          /\ bus.left > 1 => (bus_write(OPERAND) <=> bus_write(OPERAND)')
          /\ bus_write("RESTORE")' => bus_write("RESTORE") /\ bus.left > 1
    <3>1. SUFFICES ASSUME ~BusFree
                   PROVE  /\ phase' = phase /\ sent' = sent /\ cur' = cur /\ bus.left \in 1..3
                          /\ bus_write("RESTORE") \/ bus_write(OPERAND)
                          /\ bus'.left = bus.left - 1 /\ ~bus_write(OPWORD)'
                          /\ bus.left > 1 => (bus_write(OPERAND) <=> bus_write(OPERAND)')
                          /\ bus_write("RESTORE")' => bus_write("RESTORE") /\ bus.left > 1
      OBVIOUS
    <3>2. bus_write("RESTORE") \/ bus_write(OPERAND)
      BY <1>0, <2>1, <3>1 DEF BusOK, IsWrite, bus_write
    <3>3. bus.op = "write" /\ bus.left \in 1..3 BY <1>0, <3>2 DEF BusOK, bus_write
    <3>4. CASE BusFree'
      BY <1>0, <3>1, <3>2, <3>3, <3>4, BusGoes, FrameHost DEF bus_write, BusFree
    <3>5. CASE ~BusFree'
      BY <1>0, <3>1, <3>2, <3>3, <3>5, BusGoes, FrameHost DEF bus_write, BusFree, OPERAND, OPWORD
    <3> QED BY <3>4, <3>5
  <2>6. CASE ~BusFree /\ bus.left = 1
    <3>1. phase = "restore_words" /\ ~word_arrived /\ bus'.left = 0
      BY <2>1, <2>5, <2>6
    <3>2. sent \in Nat \ {0} /\ word_count = word_idx + sent + 0
      BY <2>1, <2>6, <3>1 DEF AfterWord
    <3>3. AfterWord(IF bus.left > 1 THEN 1 ELSE 0)'
      <4>1. word_count' = word_idx' + sent' + 0 BY <2>2, <2>3a, <2>5, <2>6, <3>1, <3>2
      <4> QED BY <3>1, <4>1 DEF AfterWord
    <3>4. ~word_arrived'
      <4>1. ~bus.first BY <1>0, <2>5, <2>6 DEF BusOK, bus_write
      <4>2. bus_write(OPERAND) => write_prev BY <1>0, <2>6, <4>1 DEF EdgeOK
      <4> QED BY <1>0, <4>2 DEF cir_write_proc
    <3>5. ~bus_write("RESTORE")' BY <2>5, <2>6
    <3> QED
      BY <2>1, <2>2, <2>3a, <2>5, <2>6, <3>1, <3>2, <3>3, <3>4, <3>5 DEF DialogOK, AtIdle, AtSaveWait,
         AtSaveFormat, AtSaveFrame, AtXferDstWait, AtRestoreFormat, AtRestoreFrame
  <2>7. CASE ~BusFree /\ bus.left = 3
    <3>1. bus_write(OPERAND) /\ ~word_arrived /\ bus'.left = 2 /\ ~bus_write("RESTORE")'
      BY <2>1, <2>5, <2>7 DEF bus_write, OPERAND
    <3>2. word_count = word_idx + sent + 1 /\ sent \in Nat BY <2>1, <2>7 DEF AfterWord
    <3>3. AfterWord(1)' /\ AfterWord(IF bus.left > 1 THEN 1 ELSE 0)'
      <4>1. word_count' = word_idx' + sent' + 1 BY <2>2, <2>3a, <2>5, <2>7, <3>1, <3>2
      <4> QED BY <3>1, <4>1 DEF AfterWord
    <3>4. word_arrived'
      <4>1. bus.first BY <1>0, <2>5, <2>7, <3>1 DEF BusOK, bus_write
      <4>2. ~write_prev BY <1>0, <2>7, <4>1 DEF EdgeOK
      <4> QED BY <1>0, <1>2, <3>1, <4>2 DEF cir_write_proc
    <3>5. bus_write(OPERAND)' BY <2>5, <2>7, <3>1
    <3> QED
      BY <2>1, <2>2, <2>3a, <2>5, <2>7, <3>1, <3>2, <3>3, <3>4, <3>5 DEF DialogOK, AtIdle, AtSaveWait,
         AtSaveFormat, AtSaveFrame, AtXferDstWait, AtRestoreFormat, AtRestoreFrame
  <2>8. CASE ~BusFree /\ bus.left = 2
    <3>1. bus_write(OPERAND) /\ word_arrived /\ bus'.left = 1 /\ ~bus_write("RESTORE")'
      BY <2>1, <2>5, <2>8 DEF bus_write, OPERAND
    <3>2. word_count = word_idx + sent + 1 /\ sent \in Nat BY <2>1, <2>8 DEF AfterWord
    <3>3. ~word_arrived'
      <4>1. ~bus.first BY <1>0, <2>5, <2>8, <3>1 DEF BusOK, bus_write
      <4>2. write_prev BY <1>0, <2>8, <3>1, <4>1 DEF EdgeOK
      <4> QED BY <1>0, <4>2 DEF cir_write_proc
    <3>4. CASE phase = "drain"
      <4>1. sent = 0 BY <2>1, <3>4
      <4>2. word_idx + 1 = word_count BY <2>1, <3>2, <4>1
      <4>3. cir_state' = "IDLE" /\ phase' = "drain" BY <2>3a, <2>5, <2>8, <3>1, <3>4, <4>2
      <4> QED BY <2>5, <2>8, <4>3 DEF DialogOK, AtIdle, AtSaveWait,
         AtSaveFormat, AtSaveFrame, AtXferDstWait, AtRestoreFormat, AtRestoreFrame
    <3>5. CASE phase = "restore_words"
      <4>1. sent \in Nat \ {0} BY <2>1, <3>5
      <4>2. word_idx + 1 < word_count BY <2>1, <3>2, <4>1
      <4>3. cir_state' = "RESTORE_FRAME" /\ word_idx' = word_idx + 1 BY <2>3a, <3>1, <4>2
      <4>4. AfterWord(IF bus.left > 1 THEN 1 ELSE 0)'
        <5>1. word_count' = word_idx' + sent' + 0
          BY <2>1, <2>2, <2>5, <2>8, <3>2, <4>1, <4>3
        <5> QED BY <3>1, <5>1 DEF AfterWord
      <4> QED
        BY <2>1, <2>2, <2>5, <2>8, <3>1, <3>3, <3>5, <4>1, <4>3, <4>4 DEF DialogOK, AtIdle, AtSaveWait,
         AtSaveFormat, AtSaveFrame, AtXferDstWait, AtRestoreFormat, AtRestoreFrame
    <3> QED BY <2>1, <3>4, <3>5
  <2> QED BY <2>4, <2>5, <2>6, <2>7, <2>8
<1> QED BY <1>1, <1>2

\* The host and the dialog agree about how much of a frame has moved.
LEMMA KeepsDialog ==
    ASSUME Served, CallInv, Next
    PROVE  DialogOK'
<1>1. cir_state \in {"IDLE", "SAVE_WAIT", "SAVE_FORMAT", "SAVE_FRAME", "XFER_DST_WAIT",
                     "RESTORE_FORMAT", "RESTORE_FRAME"}
  BY DEF CallInv, DialogOK
<1> QED BY <1>1, FromIdle, FromSave, FromRestore

-----------------------------------------------------------------------------
(* The operands and the operation *)

\* OPSEL is written last, and then only the answer is waited for.
LEMMA OpselWrites ==
    ASSUME CallOK, BusOK, bus_write("OPSEL")
    PROVE  phase = "wait" /\ bus.data = cur.op /\ ~BusFree /\ cur.call \in {"exec", "movecr"}
<1>1. ~BusFree BY DEF bus_write, BusFree
<1>2. phase \in {"send", "wait"}
  BY <1>1 DEF CallOK, BusOK, bus_write, bus_read, IsWrite, Operating, Framing, OPWORD, OPERAND
<1>3. phase # "send"
  BY <1>1, Sending DEF bus_write, OPWORD
<1> QED BY <1>1, <1>2, <1>3 DEF CallOK, BusOK, bus_write, bus_read, IsWrite, Operating

\* The rounding mode is written only between calls.
LEMMA FpcrWrites ==
    ASSUME CallOK, BusOK, bus_write("FPCR")
    PROVE  phase = "free" /\ bus.data = fpcr_shadow /\ ~BusFree
<1>1. ~BusFree BY DEF bus_write, BusFree
<1>2. phase \in {"send", "free"}
  BY <1>1 DEF CallOK, BusOK, bus_write, bus_read, IsWrite, Operating, Framing, OPWORD, OPERAND
<1>3. phase # "send"
  BY <1>1, Sending DEF bus_write, OPWORD
<1> QED BY <1>1, <1>2, <1>3 DEF BusOK, bus_write, IsWrite

\* What an operation finds when its OPSEL is written.
LEMMA OperandsThere ==
    ASSUME CallOK, LoadOK, phase \in Operating
    PROVE  /\ operand.a_l = cur.n
           /\ cur.call = "exec" => operand.a_he = cur.n
           /\ cur.op.kind = "dyadic" => operand.b_lh = cur.n /\ operand.b_e = cur.n
           /\ cur.call = "movecr" => move_cfg = "fmovecr"
           /\ Fed(cur.op, operand)
<1>0. IsCall(cur) /\ cur.call \in {"exec", "movecr"} /\ cur.op.n = cur.n
  BY DEF CallOK, IsCall
<1>1. Written = Len(CallWrites(cur)) - 1 \/ Written = Len(CallWrites(cur))
  BY DEF Written, Operating
<1>2. CASE cur.call = "movecr"
  <2>1. Len(CallWrites(cur)) = 4 BY <1>0, <1>2, Sends
  <2>2. Written >= 3 /\ Written >= 2 BY <1>1, <2>1
  <2>3. cur.op.kind = "const" BY <1>0, <1>2 DEF IsCall
  <2> QED BY <1>0, <1>2, <2>2, <2>3 DEF LoadOK, Fed
<1>3. CASE cur.call = "exec" /\ cur.op.kind = "monadic"
  <2>1. Len(CallWrites(cur)) = 4 BY <1>0, <1>3, Sends
  <2>2. Written >= 3 /\ Written >= 2 BY <1>1, <2>1
  <2> QED BY <1>0, <1>3, <2>2 DEF LoadOK, Fed
<1>4. CASE cur.call = "exec" /\ cur.op.kind = "dyadic"
  <2>1. Len(CallWrites(cur)) = 6 BY <1>0, <1>4, Sends
  <2>2. Written >= 5 /\ Written >= 4 /\ Written >= 3 /\ Written >= 2 BY <1>1, <2>1
  <2> QED BY <1>0, <1>4, <2>2 DEF LoadOK, Fed
<1> QED BY <1>0, <1>2, <1>3, <1>4 DEF IsCall

\* A call is what it was, except where a new one begins.
LEMMA SameCallElse ==
    ASSUME Host
    PROVE  fline_illg_callback \/ (cur' = cur /\ fpcr_shadow' = fpcr_shadow)
  BY DEF Host, HostStarts, fpu_wr, fpu_rd, SaveWord, RestoreWord, LeaveDialog, Holds, Ends,
     Pauses, hostVars, SameCall

\* Every operand written stays until the call is over.
LEMMA KeepsLoad ==
    ASSUME Served, CallInv, Next
    PROVE  LoadOK'
<1>0. /\ CallOK /\ BusOK /\ IsBus /\ ModeOK /\ DialogOK /\ LoadOK /\ Host /\ IsCall(cur)
      /\ bus_frame_proc
  BY DEF CallInv, Next, BusOK, CallOK, FpuClock
<1>1. (\/ fpcr = fpcr_shadow \/ (cur.call = "ctrl" /\ Written = 0 /\ phase = "send")
       \/ (phase = "free" /\ bus_write("FPCR") /\ bus.first))'
  <2>1. CASE bus_write("FPCR")
    <3>1. fpcr' = fpcr_shadow BY <1>0, <2>1, FpcrWrites DEF bus_frame_proc
    <3>2. fpcr_shadow' = fpcr_shadow
      BY <1>0, <2>1, FpcrWrites, SameCallElse DEF fline_illg_callback
    <3> QED BY <3>1, <3>2
  <2>2. CASE ~bus_write("FPCR") /\ fline_illg_callback
    <3>1. fpcr' = fpcr /\ phase = "free"
      BY <1>0, <2>2 DEF bus_frame_proc, fline_illg_callback
    <3>2. fpcr = fpcr_shadow BY <1>0, <2>2, <3>1 DEF LoadOK
    <3>3. CASE cur'.call = "ctrl"
      <4>1. Written' = 0 /\ phase' = "send"
        BY <1>0, <2>2, <3>1, Begins, WrittenGoes DEF Operating
      <4> QED BY <3>3, <4>1
    <3>4. CASE cur'.call # "ctrl" BY <1>0, <2>2, <3>1, <3>2, <3>4, Begins
    <3> QED BY <3>3, <3>4
  <2>3. CASE ~bus_write("FPCR") /\ ~fline_illg_callback
    <3>1. fpcr' = fpcr /\ fpcr_shadow' = fpcr_shadow /\ cur' = cur
      BY <1>0, <2>3, SameCallElse DEF bus_frame_proc
    <3>2. fpcr = fpcr_shadow \/ (cur.call = "ctrl" /\ Written = 0 /\ phase = "send")
      BY <1>0, <2>3 DEF LoadOK
    <3>3. CASE cur.call = "ctrl" /\ Written = 0 /\ phase = "send"
      <4>1. BusFree BY <1>0, <3>3, Sending
      <4>2. fpu_wr \/ Pauses
        BY <1>0, <2>3, <3>3, <4>1 DEF Host, HostStarts, fpu_rd, SaveWord, RestoreWord,
           LeaveDialog, Holds, Ends
      <4>3. CASE fpu_wr
        <5>1. Len(CallWrites(cur)) = 1 BY <1>0, <3>3, Sends
        <5>2. sent = 0
          <6>1. sent \in 0..Len(CallWrites(cur)) - 1 BY <1>0, <3>3 DEF CallOK
          <6> QED BY <5>1, <6>1
        <5>3. ~(sent + 1 < Len(CallWrites(cur))) BY <5>1, <5>2
        <5>4. phase' = "free" /\ bus'.op = "write" /\ bus'.addr = "FPCR" /\ bus'.first
          BY <1>0, <3>3, <4>1, <4>3, <5>3, Opens
        <5> QED BY <5>4 DEF bus_write
      <4>4. CASE Pauses
        <5>1. phase' = phase /\ bus' = bus /\ sent' = sent BY <4>4 DEF Pauses, hostVars
        <5> QED BY <3>1, <3>3, <5>1 DEF Written
      <4> QED BY <4>2, <4>3, <4>4
    <3> QED BY <3>1, <3>2, <3>3
  <2> QED BY <2>1, <2>2, <2>3
<1>1a. /\ operand = [a_l |-> operand.a_l, a_he |-> operand.a_he, b_lh |-> operand.b_lh,
                      b_e |-> operand.b_e]
       /\ AreOperands'
  <2>1. operand = [a_l |-> operand.a_l, a_he |-> operand.a_he, b_lh |-> operand.b_lh,
                   b_e |-> operand.b_e]
    BY <1>0 DEF LoadOK, AreOperands
  <2>2. OperandWrites BY <1>0 DEF bus_frame_proc
  <2>3. CASE operand' = FrameOperands
    <3>1. operand' = [a_l |-> 0, a_he |-> 0, b_lh |-> 0, b_e |-> 0]
      BY <2>3 DEF FrameOperands
    <3>2. operand'.a_l = 0 /\ operand'.a_he = 0 /\ operand'.b_lh = 0 /\ operand'.b_e = 0
      BY <3>1
    <3> QED BY <2>1, <3>1, <3>2 DEF AreOperands
  <2>4. CASE operand' = operand BY <2>1, <2>4 DEF AreOperands
  <2>5. CASE operand' = [operand EXCEPT !.a_l = bus.data] BY <2>1, <2>5 DEF AreOperands
  <2>6. CASE operand' = [operand EXCEPT !.a_he = bus.data] BY <2>1, <2>6 DEF AreOperands
  <2>7. CASE operand' = [operand EXCEPT !.b_lh = bus.data] BY <2>1, <2>7 DEF AreOperands
  <2>8. CASE operand' = [operand EXCEPT !.b_e = bus.data] BY <2>1, <2>8 DEF AreOperands
  <2> QED BY <2>1, <2>2, <2>3, <2>4, <2>5, <2>6, <2>7, <2>8 DEF OperandWrites
<1>2. ASSUME cur'.call \in {"exec", "movecr"}, phase' \in {"send"} \cup Operating
      PROVE  /\ Written' >= (IF cur'.call = "exec" THEN 2 ELSE 3) => operand'.a_l = cur'.n
             /\ cur'.call = "exec" /\ Written' >= 3 => operand'.a_he = cur'.n
             /\ cur'.op.kind = "dyadic" /\ Written' >= 4 => operand'.b_lh = cur'.n
             /\ cur'.op.kind = "dyadic" /\ Written' >= 5 => operand'.b_e = cur'.n
             /\ cur'.call = "movecr" /\ Written' >= 2 => move_cfg' = "fmovecr"
  <2>1. CASE fline_illg_callback
    <3>1. Written' = 0 BY <1>0, <1>2, <2>1, WrittenGoes DEF fline_illg_callback, Operating
    <3> QED BY <3>1
  <2>2. CASE ~fline_illg_callback
    <3>1. /\ phase \in {"send"} \cup Operating /\ cur' = cur /\ Written \in Nat
          /\ Written' = IF bus.op = "write" /\ bus.first THEN Written + 1 ELSE Written
      BY <1>2, <2>2, WrittenGoes
    <3>2. ~commit_req /\ ~cir_active
      <4>1. ~commit_req BY <1>0, <3>1 DEF DialogOK, Operating
      <4>2. cir_state = "IDLE"
        BY <1>0, <1>2, <3>1 DEF DialogOK, AtSaveWait, AtSaveFormat, AtSaveFrame,
           AtXferDstWait, AtRestoreFormat, AtRestoreFrame
      <4>3. ~cir_mode BY <1>0, <1>2, <3>1 DEF ModeOK
      <4> QED BY <4>1, <4>2, <4>3 DEF cir_active
    <3>3. LoadOK => /\ Written >= (IF cur.call = "exec" THEN 2 ELSE 3) => operand.a_l = cur.n
                    /\ cur.call = "exec" /\ Written >= 3 => operand.a_he = cur.n
                    /\ cur.op.kind = "dyadic" /\ Written >= 4 => operand.b_lh = cur.n
                    /\ cur.op.kind = "dyadic" /\ Written >= 5 => operand.b_e = cur.n
                    /\ cur.call = "movecr" /\ Written >= 2 => move_cfg = "fmovecr"
      BY <1>2, <3>1 DEF LoadOK
    <3>4. /\ move_cfg' = IF bus_write("MOVE_CFG") THEN bus.data ELSE move_cfg
          /\ operand' = IF bus_write("OPA_L") THEN [operand EXCEPT !.a_l = bus.data]
                        ELSE IF bus_write("OPA_HE") THEN [operand EXCEPT !.a_he = bus.data]
                        ELSE IF bus_write("OPB_LH") THEN [operand EXCEPT !.b_lh = bus.data]
                        ELSE IF bus_write("OPB_E") THEN [operand EXCEPT !.b_e = bus.data]
                        ELSE operand
      BY <1>0, <3>2 DEF bus_frame_proc, OperandWrites
    <3>5. CASE BusFree
      <4>1. Written' = Written /\ operand' = operand /\ move_cfg' = move_cfg
        BY <3>1, <3>4, <3>5 DEF BusFree, bus_write
      <4> QED BY <1>0, <3>1, <3>3, <4>1
    <3>6. CASE ~BusFree /\ phase \in Operating
      <4>1. operand' = operand /\ move_cfg' = move_cfg
        BY <1>0, <3>4, <3>6 DEF BusOK, Operating, bus_write, bus_read, IsWrite
      <4> QED BY <1>0, <3>1, <3>6, <4>1, OperandsThere
    <3>7. CASE ~BusFree /\ phase = "send"
      <4>1. bus.op = "write" /\ sent \in Nat BY <1>0, <3>7, Sending
      <4>2. Written' = sent /\ (Written = sent \/ Written = sent - 1)
        <5>1. Written = IF bus.first THEN sent - 1 ELSE sent BY <3>7 DEF Written
        <5> QED BY <3>1, <4>1, <5>1
      <4>3. CASE cur.call = "movecr"
        <5>1. \/ sent = 1 /\ bus.addr = "CIR_MODE"
              \/ sent = 2 /\ bus.addr = "MOVE_CFG" /\ bus.data = "fmovecr"
              \/ sent = 3 /\ bus.addr = "OPA_L" /\ bus.data = cur.n
          BY <1>0, <3>7, <4>3, Sending
        <5>2. cur.op.kind = "const" BY <1>0, <4>3 DEF IsCall
        <5>3. CASE sent = 1 BY <3>1, <4>2, <4>3, <5>2, <5>3
        <5>4. CASE sent = 2
          <6>1. move_cfg' = "fmovecr" BY <3>4, <4>1, <5>1, <5>4 DEF bus_write
          <6> QED BY <3>1, <4>2, <4>3, <5>2, <5>4, <6>1
        <5>5. CASE sent = 3
          <6>1. operand'.a_l = cur.n /\ move_cfg' = move_cfg
            BY <1>1a, <3>4, <4>1, <5>1, <5>5 DEF bus_write
          <6>2. move_cfg = "fmovecr" BY <1>0, <3>3, <4>2, <4>3, <5>5
          <6> QED BY <3>1, <4>2, <4>3, <5>2, <6>1, <6>2
        <5> QED BY <5>1, <5>3, <5>4, <5>5
      <4>4. CASE cur.call = "exec"
        <5>1. \/ sent = 1 /\ bus.addr = "CIR_MODE"
              \/ sent = 2 /\ bus.addr = "OPA_L" /\ bus.data = cur.n
              \/ sent = 3 /\ bus.addr = "OPA_HE" /\ bus.data = cur.n
              \/ sent = 4 /\ bus.addr = "OPB_LH" /\ bus.data = cur.n
              \/ sent = 5 /\ bus.addr = "OPB_E" /\ bus.data = cur.n
          BY <1>0, <3>7, <4>4, Sending
        <5>3. CASE sent = 1 BY <3>1, <4>2, <4>4, <5>3
        <5>4. CASE sent = 2
          <6>1. operand'.a_l = cur.n BY <1>1a, <3>4, <4>1, <5>1, <5>4 DEF bus_write
          <6> QED BY <3>1, <4>2, <4>4, <5>4, <6>1
        <5>5. CASE sent = 3
          <6>1. operand'.a_he = cur.n /\ operand'.a_l = operand.a_l
            BY <1>1a, <3>4, <4>1, <5>1, <5>5 DEF bus_write
          <6>2. operand.a_l = cur.n BY <1>0, <3>3, <4>2, <4>4, <5>5
          <6> QED BY <3>1, <4>2, <4>4, <5>5, <6>1, <6>2
        <5>6. CASE sent = 4
          <6>1. /\ operand'.b_lh = cur.n /\ operand'.a_l = operand.a_l
                /\ operand'.a_he = operand.a_he
            BY <1>1a, <3>4, <4>1, <5>1, <5>6 DEF bus_write
          <6>2. operand.a_l = cur.n /\ operand.a_he = cur.n BY <1>0, <3>3, <4>2, <4>4, <5>6
          <6> QED BY <3>1, <4>2, <4>4, <5>6, <6>1, <6>2
        <5>7. CASE sent = 5
          <6>1. /\ operand'.b_e = cur.n /\ operand'.a_l = operand.a_l
                /\ operand'.a_he = operand.a_he /\ operand'.b_lh = operand.b_lh
            BY <1>1a, <3>4, <4>1, <5>1, <5>7 DEF bus_write
          <6>2. /\ operand.a_l = cur.n /\ operand.a_he = cur.n
                /\ cur.op.kind = "dyadic" => operand.b_lh = cur.n
            BY <1>0, <3>3, <4>2, <4>4, <5>7
          <6> QED BY <3>1, <4>2, <4>4, <5>7, <6>1, <6>2
        <5> QED BY <5>1, <5>3, <5>4, <5>5, <5>6, <5>7
      <4> QED BY <1>2, <3>1, <4>3, <4>4
    <3> QED BY <3>1, <3>5, <3>6, <3>7
  <2> QED BY <2>1, <2>2
<1> QED BY <1>1, <1>1a, <1>2 DEF LoadOK

\* An operation is issued on the first clock of OPSEL, if the FPU is free.
LEMMA IssuedWhen ==
    ASSUME CallOK, BusOK, EdgeOK, ResultOK
    PROVE  /\ op_issue_pulse <=> Issuing /\ ~micro_active
           /\ op_issue_pulse => ~op_start /\ ~alu_busy /\ ~valid
<1>1. alu_busy \/ op_start \/ valid => micro_active BY DEF ResultOK
<1>2. bus_write("OPSEL") => ~BusFree BY DEF bus_write, BusFree
<1>3. bus_write("OPSEL") => (opsel_prev <=> ~bus.first) BY <1>2 DEF EdgeOK
<1> QED BY <1>1, <1>3 DEF op_issue_pulse, Issuing

\* An operation that is issued is the call's own and finds its operands.
LEMMA Issues ==
    ASSUME Served, CallInv, Next, op_issue_pulse
    PROVE  ResultOK'
<1>0. /\ CallOK /\ BusOK /\ IsBus /\ EdgeOK /\ LoadOK /\ ResultOK /\ Host /\ IsCall(cur)
      /\ Issue /\ MicroCycles /\ status_proc /\ mc68881_alu /\ bus_frame_proc
  BY DEF CallInv, Next, BusOK, CallOK, FpuClock, alu_control_proc
<1>1. Issuing /\ ~op_start /\ ~alu_busy /\ ~valid /\ ~micro_active
  BY <1>0, IssuedWhen
<1>2. bus_write("OPSEL") /\ bus.first /\ phase = "wait" /\ bus.data = cur.op /\ ~BusFree
      /\ cur.call \in {"exec", "movecr"} /\ cur.op.n = cur.n /\ cur.n \in Nat
  BY <1>0, <1>1, OpselWrites DEF Issuing, IsCall
<1>3. bus.left = 3 BY <1>0, <1>2 DEF BusOK, bus_write
<1>4. /\ phase' = "wait" /\ cur' = cur /\ late' = late /\ bus_write("OPSEL")' /\ ~bus'.first
      /\ bus'.left = 2
  <2>1. Holds
    BY <1>0, <1>2, <1>3 DEF Host, HostStarts, fline_illg_callback, fpu_wr, fpu_rd, SaveWord,
       RestoreWord, LeaveDialog, Pauses, Ends
  <2>2. phase' = phase /\ cur' = cur /\ late' = late /\ ~BusFree'
    BY <1>0, <1>2, <2>1 DEF Holds, hostVars, BusFree, IsBus
  <2> QED BY <1>0, <1>2, <1>3, <2>2, BusGoes DEF bus_write, BusFree
<1>5. ~valid' /\ ~alu_busy' BY <1>0, <1>1 DEF mc68881_alu, AluIdle, AluStart, AluWork, AluDone
<1>6. /\ last_op_sel' = cur.op /\ op_sel' = cur.op /\ micro_active' = TRUE
      /\ op_start' = (cur.op.kind # "const")
      /\ ~status_valid'
  BY <1>0, <1>2 DEF Issue, bus_frame_proc, MicroCycles, status_proc
<1>7. /\ result_ready' <=> cur.op.kind = "const"
      /\ exc_event'.on <=> cur.op.kind = "const"
  BY <1>0, <1>1, <1>2 DEF Issue, ResultReady, NoEvent
<1>8. cur.op.kind = "const" => result_reg' = cur.n
  <2>1. SUFFICES ASSUME cur.op.kind = "const" PROVE result_reg' = cur.n
    OBVIOUS
  <2>2. cur.call = "movecr" BY <1>0, <1>2, <2>1 DEF IsCall
  <2>3. Fed(cur.op, operand) /\ move_cfg = "fmovecr"
    BY <1>0, <1>2, <2>2, OperandsThere DEF Operating
  <2>4. result_reg' = Constant(cur.op, operand) BY <1>0, <1>1, <1>2, <2>1 DEF Issue
  <2> QED BY <1>2, <2>3, <2>4 DEF Constant
<1>9. cur.call = "exec" => ~result_ready' BY <1>0, <1>7 DEF IsCall
<1>10. last_op_sel'.n = cur.n /\ cur'.n = cur.n /\ cur'.call = cur.call BY <1>2, <1>4, <1>6
<1>11. (last_op_sel.n \in Nat /\ last_op_sel.n <= cur.n)' BY <1>2, <1>10
<1>12. ~Issuing' /\ phase' # "send" BY <1>4 DEF Issuing
<1>13. (op_start \/ exc_event.on =>
         /\ bus_write("OPSEL") /\ bus.left = 2 /\ op_sel = cur.op /\ last_op_sel = cur.op
         /\ phase = "wait"
         /\ exc_event.on <=> cur.op.kind = "const")'
  BY <1>4, <1>6, <1>7
<1>14. (op_start \/ alu_busy \/ valid => micro_active /\ ~result_ready)'
  BY <1>5, <1>6, <1>7
<1>15. (result_ready => result_reg = last_op_sel.n)'
  BY <1>2, <1>7, <1>8, <1>10
<1> QED
  BY <1>4, <1>5, <1>6, <1>9, <1>10, <1>11, <1>12, <1>13, <1>14, <1>15 DEF ResultOK

\* OpselWrites, after a step.
LEMMA OpselPhase ==
    (CallOK /\ BusOK /\ bus.op = "write" /\ bus.addr = "OPSEL" => phase = "wait")'
<1>1. CallOK /\ BusOK /\ bus.op = "write" /\ bus.addr = "OPSEL" => phase = "wait"
  BY OpselWrites DEF bus_write
<1> QED BY <1>1, PTL

\* Where the host is after a clock that issues nothing.
LEMMA HostWaits ==
    ASSUME Served, CallInv, Next
    PROVE  /\ late => late'
           /\ phase' \in Operating => phase \in Operating \/ (phase = "send" /\ fpu_wr)
           /\ phase' \in Operating \/ phase' = "send" => cur' = cur \/ phase' = "send"
           /\ Issuing' => fpu_wr /\ phase = "send" /\ cur.call \in {"exec", "movecr"}
           /\ phase = "send" /\ phase' \in Operating => Issuing'
<1>0. CallOK /\ BusOK /\ IsBus /\ Host /\ IsCall(cur) BY DEF CallInv, Next, BusOK, CallOK
<1>1. late => late'
  BY <1>0 DEF Host, HostStarts, fline_illg_callback, fpu_wr, fpu_rd, SaveWord, RestoreWord,
     LeaveDialog, Holds, Ends, Pauses, Returns, hostVars, SameCall
<1>2. phase' \in Operating => phase \in Operating \/ (phase = "send" /\ fpu_wr)
  BY <1>0, PhaseOfCycle DEF Host, HostStarts, fline_illg_callback, fpu_wr, fpu_rd, SaveWord,
     RestoreWord, LeaveDialog, Holds, Ends, Pauses, Returns, hostVars, Operating
<1>3. phase' \in Operating \/ phase' = "send" => cur' = cur \/ phase' = "send"
  BY <1>0, SameCallElse DEF fline_illg_callback
<1>4. ASSUME Issuing' PROVE fpu_wr /\ phase = "send" /\ cur.call \in {"exec", "movecr"}
  <2>1. bus'.op = "write" /\ bus'.addr = "OPSEL" /\ bus'.first /\ ~BusFree'
    BY <1>4 DEF Issuing, bus_write, BusFree
  <2>2. BusFree BY <1>0, <2>1, BusGoes
  <2>3. fpu_wr
    BY <1>0, <2>1, <2>2 DEF BusOK, Host, HostStarts, fline_illg_callback, fpu_rd, SaveWord,
       RestoreWord, LeaveDialog, Holds, Ends, Pauses, Writes, Reads, Starts, OPERAND
  <2>4. phase = "send" BY <1>0, <2>2, <2>3, Opens
  <2>5. phase' # "send"
    <3>1. CallOK' /\ BusOK' BY KeepsCall, KeepsBus
    <3>2. phase' = "wait" BY <2>1, <3>1, OpselPhase
    <3> QED BY <3>2
  <2> QED BY <1>0, <2>1, <2>2, <2>3, <2>4, <2>5, Opens DEF OPWORD
<1>5. ASSUME phase = "send", phase' \in Operating PROVE Issuing'
  <2>1. fpu_wr /\ BusFree BY <1>2, <1>5 DEF Operating, fpu_wr
  <2> QED BY <1>0, <1>5, <2>1, Opens DEF Issuing, bus_write, Operating
<1> QED BY <1>1, <1>2, <1>3, <1>4, <1>5

\* A clock that issues nothing only carries the operation on.
LEMMA CarriesOn ==
    ASSUME CallInv, Next, ~op_issue_pulse
    PROVE  /\ last_op_sel' = last_op_sel /\ ~op_start' /\ ~exc_event'.on
           /\ micro_active' <=> micro_active /\ ~MicroOver
           /\ result_ready' <=> valid \/ result_ready
           /\ status_valid' <=> MicroOver \/ status_valid
           /\ result_reg' = IF valid THEN result ELSE result_reg
<1>0. Issue /\ MicroCycles /\ status_proc
  BY DEF CallInv, Next, FpuClock, alu_control_proc
<1>1. last_op_sel' = last_op_sel /\ ~op_start' BY <1>0 DEF Issue
<1>2. ~exc_event'.on BY <1>0 DEF Issue, NoEvent
<1>3. micro_active' <=> micro_active /\ ~MicroOver BY <1>0 DEF MicroCycles
<1>4. result_ready' <=> valid \/ result_ready BY <1>0 DEF Issue, ResultReady
<1>5. status_valid' <=> MicroOver \/ status_valid BY <1>0 DEF status_proc
<1>6. result_reg' = IF valid THEN result ELSE result_reg BY <1>0 DEF Issue
<1> QED BY <1>1, <1>2, <1>3, <1>4, <1>5, <1>6

\* A clock that issues nothing leaves the operation in the FPU what it is.
LEMMA IssuesNothing ==
    ASSUME Served, CallInv, Next, ~op_issue_pulse
    PROVE  ResultOK'
<1>0. /\ CallOK /\ BusOK /\ IsBus /\ EdgeOK /\ LoadOK /\ DialogOK /\ ResultOK /\ AnswerOK
      /\ Host /\ IsCall(cur) /\ mc68881_alu /\ bus_frame_proc
  BY DEF CallInv, Next, BusOK, CallOK, FpuClock
<1>1. /\ last_op_sel' = last_op_sel /\ ~op_start' /\ ~exc_event'.on
      /\ micro_active' <=> micro_active /\ ~MicroOver
      /\ result_ready' <=> valid \/ result_ready
      /\ status_valid' <=> MicroOver \/ status_valid
      /\ result_reg' = IF valid THEN result ELSE result_reg
  BY CarriesOn
<1>2. last_op_sel.n \in Nat /\ last_op_sel.n <= cur.n /\ cur.n \in Nat
  BY <1>0 DEF ResultOK, IsCall
<1>3. \/ fline_illg_callback /\ phase' = "send" /\ cur'.n = cur.n + 1
      \/ cur' = cur
  BY <1>0, SameCallElse, Begins
<1>4. (last_op_sel.n \in Nat /\ last_op_sel.n <= cur.n)' BY <1>1, <1>2, <1>3
<1>5. (phase = "send" \/ Issuing => last_op_sel.n < cur.n \/ cur.call = "init")'
  <2>1. SUFFICES ASSUME phase' = "send" \/ Issuing'
                 PROVE  last_op_sel'.n < cur'.n \/ cur'.call = "init"
    OBVIOUS
  <2>2. CASE fline_illg_callback BY <1>0, <1>1, <1>2, <2>2, Begins
  <2>3. CASE ~fline_illg_callback
    <3>1. cur' = cur BY <1>0, <2>3, SameCallElse
    <3>2. phase = "send"
      <4>1. CASE phase' = "send"
        BY <1>0, <2>3, <4>1, PhaseOfCycle DEF Host, HostStarts, fpu_wr, fpu_rd, SaveWord, RestoreWord,
           LeaveDialog, Holds, Ends, Pauses, Returns, hostVars, SameCall
      <4>2. CASE Issuing' BY <4>2, HostWaits
      <4> QED BY <2>1, <4>1, <4>2
    <3> QED BY <1>0, <1>1, <3>1, <3>2 DEF ResultOK
  <2> QED BY <2>2, <2>3
\* An operation lost to one that is still in the FPU is one after a timeout.
<1>6. (phase \in Operating /\ ~Issuing /\ (~late \/ last_op_sel.n = cur.n) =>
         last_op_sel = cur.op)'
  <2>1. SUFFICES ASSUME phase' \in Operating, ~Issuing', ~late' \/ last_op_sel'.n = cur'.n
                 PROVE  last_op_sel' = cur'.op
    OBVIOUS
  <2>2. phase \in Operating /\ (late => late') BY <2>1, HostWaits
  <2>3. cur' = cur
    BY <1>0, <2>1, <2>2, SameCallElse DEF fline_illg_callback, Operating
  <2>4. ~late \/ last_op_sel.n = cur.n BY <1>1, <2>1, <2>2, <2>3
  <2>5. ~Issuing
    <3>1. SUFFICES ASSUME Issuing PROVE FALSE OBVIOUS
    <3>2. micro_active BY <1>0, <3>1, IssuedWhen
    <3>3. late BY <1>0, <3>1, <3>2 DEF ResultOK
    <3>4. last_op_sel.n < cur.n \/ cur.call = "init" BY <1>0, <3>1 DEF ResultOK
    <3>5. cur.call # "init" BY <1>0, <2>2 DEF CallOK, Operating
    <3> QED BY <1>2, <2>4, <3>3, <3>4, <3>5, <2>2, <2>1, <1>1, <2>3
  <2> QED BY <1>0, <1>1, <2>2, <2>3, <2>4, <2>5 DEF ResultOK
<1>7. (micro_active /\ ~late => phase = "wait" /\ ~Issuing)'
  <2>1. SUFFICES ASSUME micro_active', ~late' PROVE phase' = "wait" /\ ~Issuing'
    OBVIOUS
  <2>2. micro_active /\ ~late BY <1>1, <2>1, HostWaits
  <2>3. phase = "wait" /\ ~Issuing BY <1>0, <2>2 DEF ResultOK
  <2>4. ~status_valid BY <1>0, <2>2 DEF ResultOK
  <2>5. bus_read("STATUS") /\ bus.left = 1 => ~d_out[2]
    <3>1. bus_read("STATUS") /\ bus.left = 1 => ~bus.first BY <1>0 DEF BusOK, bus_read
    <3> QED BY <1>0, <2>4, <3>1 DEF AnswerOK
  <2>6. phase' = "wait"
    BY <1>0, <2>1, <2>3, <2>5, PhaseOfCycle DEF Host, HostStarts, fline_illg_callback, fpu_wr,
       fpu_rd, SaveWord, RestoreWord, LeaveDialog, Holds, Ends, Pauses, hostVars
  <2>7. ~Issuing' BY <2>3, HostWaits
  <2> QED BY <2>6, <2>7
<1>8. /\ valid' \/ alu_busy' => op_start \/ alu_busy
      /\ ~(alu_busy' /\ valid')
  BY <1>0 DEF mc68881_alu, AluIdle, AluStart, AluWork, AluDone
<1>9. (op_start \/ alu_busy \/ valid => micro_active /\ ~result_ready)'
  <2>1. SUFFICES ASSUME op_start \/ alu_busy PROVE micro_active' /\ ~result_ready'
    BY <1>1, <1>8
  <2>2. micro_active /\ ~result_ready /\ ~valid BY <1>0, <2>1 DEF ResultOK
  <2> QED BY <1>1, <2>2 DEF MicroOver
<1>10. (~(op_start /\ (alu_busy \/ valid)) /\ ~(alu_busy /\ valid))' BY <1>1, <1>8
<1>11. (alu_busy => alu_job = last_op_sel.n)'
  <2>1. SUFFICES ASSUME alu_busy' PROVE alu_job' = last_op_sel'.n
    OBVIOUS
  <2>2. CASE AluStart
    <3>1. op_start BY <2>2 DEF AluStart
    <3>2. op_sel = cur.op /\ last_op_sel = cur.op /\ phase = "wait" BY <1>0, <3>1 DEF ResultOK
    <3>3. Fed(cur.op, operand) BY <1>0, <3>2, OperandsThere DEF Operating
    <3>4. fpcr = cur.op.cr
      BY <1>0, <3>2 DEF LoadOK, CallOK, Operating
    <3>5. alu_job' = Compute(op_sel, operand) BY <2>2 DEF AluStart
    <3>6. alu_job' = cur.op.n BY <3>2, <3>3, <3>4, <3>5 DEF Compute
    <3> QED BY <1>1, <3>2, <3>6
  <2>3. CASE ~AluStart
    <3>1. alu_busy /\ alu_job' = alu_job
      BY <1>0, <2>1, <2>3 DEF mc68881_alu, AluIdle, AluWork, AluDone
    <3> QED BY <1>0, <1>1, <3>1 DEF ResultOK
  <2> QED BY <2>2, <2>3
<1>12. (valid => result = last_op_sel.n)'
  <2>1. SUFFICES ASSUME valid' PROVE result' = last_op_sel'.n
    OBVIOUS
  <2>2. alu_busy /\ result' = alu_job
    BY <1>0, <2>1 DEF mc68881_alu, AluIdle, AluStart, AluWork, AluDone
  <2> QED BY <1>0, <1>1, <2>2 DEF ResultOK
<1>13. (result_ready => result_reg = last_op_sel.n)'
  <2>1. SUFFICES ASSUME result_ready' PROVE result_reg' = last_op_sel'.n
    OBVIOUS
  <2>2. CASE valid BY <1>0, <1>1, <2>2 DEF ResultOK
  <2>3. CASE ~valid BY <1>0, <1>1, <2>1, <2>3 DEF ResultOK
  <2> QED BY <2>2, <2>3
<1>14. (status_valid => ~micro_active /\ result_ready)'
  <2>1. status_valid => ~micro_active /\ result_ready BY <1>0 DEF ResultOK
  <2> QED BY <1>1, <2>1 DEF MicroOver
<1>15. (phase \in Operating /\ last_op_sel = cur.op /\ cur.call = "exec" /\ result_ready =>
         fpsr = cur.n)'
  <2>1. SUFFICES ASSUME phase' \in Operating, last_op_sel' = cur'.op, cur'.call = "exec",
                        result_ready'
                 PROVE  fpsr' = cur'.n
    OBVIOUS
  <2>2. cur' = cur
    BY <1>0, <2>1, SameCallElse DEF fline_illg_callback, Operating
  <2>3. last_op_sel = cur.op /\ last_op_sel.n = cur.n /\ cur.call = "exec"
    BY <1>0, <1>1, <2>1, <2>2 DEF IsCall
  <2>4. phase \in Operating
    <3>1. phase # "send" BY <1>0, <1>2, <2>3 DEF ResultOK
    <3> QED BY <2>1, <3>1, HostWaits
  <2>5. ~commit_req BY <1>0, <2>4 DEF DialogOK, Operating
  <2>6. CASE valid
    <3>1. Fed(last_op_sel, operand) /\ result = last_op_sel.n
      BY <1>0, <2>3, <2>4, <2>6, OperandsThere DEF ResultOK
    <3> QED BY <1>0, <2>2, <2>3, <2>5, <2>6, <3>1 DEF bus_frame_proc, Classify
  <2>7. CASE ~valid
    <3>1. ~exc_event.on
      <4>1. cur.op.kind # "const" BY <1>0, <2>3 DEF IsCall
      <4> QED BY <1>0, <4>1 DEF ResultOK
    <3>2. fpsr = cur.n BY <1>0, <1>1, <2>1, <2>3, <2>4, <2>7 DEF ResultOK
    <3> QED BY <1>0, <2>2, <2>5, <2>7, <3>1, <3>2 DEF bus_frame_proc, Classify
  <2> QED BY <2>6, <2>7
<1>16. (op_start \/ exc_event.on => 
         /\ bus_write("OPSEL") /\ bus.left = 2 /\ op_sel = cur.op /\ last_op_sel = cur.op
         /\ phase = "wait"
         /\ exc_event.on <=> cur.op.kind = "const")'
  BY <1>1
<1> QED
  BY <1>4, <1>5, <1>6, <1>7, <1>9, <1>10, <1>11, <1>12, <1>13, <1>14, <1>15, <1>16 DEF ResultOK

\* The operation in the FPU is the call's, or one whose call was given up.
LEMMA KeepsResult ==
    ASSUME Served, CallInv, Next
    PROVE  ResultOK'
  BY Issues, IssuesNothing

-----------------------------------------------------------------------------
(* The answer *)

\* While the host reads, what it reads stays.
LEMMA ReadStays ==
    ASSUME Served, CallInv, Next
    PROVE  /\ bus.op # "write" \/ phase # "wait" => ~op_issue_pulse
           /\ phase \in {"result", "test"} =>
                ~valid /\ ~micro_active /\ result_reg = last_op_sel.n /\ status_valid'
           /\ phase = "test" => fpsr' = fpsr
           /\ phase \in {"result", "test"} => last_op_sel' = last_op_sel /\ result_reg' = result_reg
<1>0. CallOK /\ BusOK /\ EdgeOK /\ ResultOK /\ AnswerOK /\ DialogOK /\ bus_frame_proc
  BY DEF CallInv, Next, FpuClock
<1>1. bus.op # "write" \/ phase # "wait" => ~op_issue_pulse
  BY <1>0, OpselWrites DEF op_issue_pulse, bus_write
<1>2. ASSUME phase \in {"result", "test"}
      PROVE  ~valid /\ ~micro_active /\ result_reg = last_op_sel.n /\ status_valid'
             /\ last_op_sel' = last_op_sel /\ result_reg' = result_reg
  <2>1. status_valid BY <1>0, <1>2 DEF AnswerOK
  <2>2. ~micro_active /\ result_ready BY <1>0, <2>1 DEF ResultOK
  <2>3. ~valid /\ result_reg = last_op_sel.n BY <1>0, <2>2 DEF ResultOK
  <2>4. ~op_issue_pulse BY <1>1, <1>2
  <2> QED BY <2>1, <2>2, <2>3, <2>4, CarriesOn
<1>3. ASSUME phase = "test" PROVE fpsr' = fpsr
  <2>1. ~commit_req BY <1>0, <1>3 DEF DialogOK
  <2>2. ~exc_event.on BY <1>0, <1>3 DEF ResultOK
  <2>3. ~valid BY <1>2, <1>3
  <2> QED BY <1>0, <2>1, <2>2, <2>3 DEF bus_frame_proc, Classify
<1> QED BY <1>1, <1>2, <1>3

\* What the host is told is about the operation issued last.
LEMMA KeepsAnswer ==
    ASSUME Served, CallInv, Next
    PROVE  AnswerOK'
<1>0. /\ CallOK /\ BusOK /\ IsBus /\ EdgeOK /\ ResultOK /\ AnswerOK /\ Host /\ IsCall(cur) /\ ReadMux
  BY DEF CallInv, Next, BusOK, CallOK, FpuClock
<1>1. ASSUME NEW a, bus_read(a)', ~bus'.first
      PROVE  bus_read(a) /\ phase' = phase /\ ~op_issue_pulse
  <2>1. ~BusFree' BY <1>1 DEF bus_read, BusFree
  <2>2. ~BusFree BY <1>0, <1>1, <2>1, BusGoes
  <2>3. bus_read(a) /\ Holds BY <1>0, <1>1, <2>1, <2>2, BusGoes DEF bus_read
  <2>4. ~op_issue_pulse BY <2>3 DEF bus_read, op_issue_pulse, bus_write
  <2> QED BY <2>3, <2>4 DEF Holds, hostVars
<1>2. (bus_read("STATUS") /\ ~bus.first => (d_out[2] => status_valid))'
  <2>1. SUFFICES ASSUME bus_read("STATUS")', ~bus'.first, d_out'[2] PROVE status_valid'
    OBVIOUS
  <2>2. bus_read("STATUS") /\ ~op_issue_pulse BY <1>1, <2>1
  <2>3. d_out' = <<"VALID", status_valid>> BY <1>0, <2>2 DEF ReadMux
  <2>4. d_out'[2] = <<"VALID", status_valid>>[2] BY <2>3, Zenon
  <2>5. d_out'[2] = status_valid BY <2>4
  <2>6. status_valid BY <2>1, <2>5
  <2> QED BY <2>2, <2>6, CarriesOn
<1>3. (bus_read("RES_L") /\ ~bus.first => d_out[2] = result_reg)'
  <2>1. SUFFICES ASSUME bus_read("RES_L")', ~bus'.first PROVE d_out'[2] = result_reg'
    OBVIOUS
  <2>2. bus_read("RES_L") BY <1>1, <2>1
  <2>3. phase = "result" BY <1>0, <2>2, PhaseOfCycle
  <2>4. d_out' = <<"RES", result_reg>> BY <1>0, <2>2 DEF ReadMux, bus_read
  <2>5. d_out'[2] = result_reg BY <2>4
  <2> QED BY <2>3, <2>5, ReadStays
<1>4. (bus_read("FPSR") /\ ~bus.first => d_out[2] = fpsr)'
  <2>1. SUFFICES ASSUME bus_read("FPSR")', ~bus'.first PROVE d_out'[2] = fpsr'
    OBVIOUS
  <2>2. bus_read("FPSR") BY <1>1, <2>1
  <2>3. phase = "test" BY <1>0, <2>2, PhaseOfCycle
  <2>4. d_out' = <<"FPSR", fpsr>> BY <1>0, <2>2 DEF ReadMux, bus_read
  <2>5. d_out'[2] = fpsr BY <2>4
  <2> QED BY <2>3, <2>5, ReadStays
\* What the last clock of a read gives.
<1>5. bus.left = 1 => /\ bus_read("STATUS") => (d_out[2] => status_valid)
                      /\ bus_read("RES_L") => d_out[2] = result_reg
                      /\ bus_read("FPSR") => d_out[2] = fpsr
  <2>1. bus.op = "read" /\ bus.left = 1 => ~bus.first BY <1>0 DEF BusOK
  <2> QED BY <1>0, <2>1 DEF AnswerOK, bus_read
<1>6. answer = [rc |-> answer.rc, result |-> answer.result, fpsr |-> answer.fpsr]
      /\ answer.rc \in {"none", "ok", "timeout"}
  BY <1>0 DEF AnswerOK
\* Where the answer is from.
<1>7. CASE fline_illg_callback
  <2>1. answer' = NoAnswer /\ phase' = "send" BY <1>0, <1>7, Begins
  <2>2. answer'.rc = "none" /\ answer' = [rc |-> "none", result |-> 0, fpsr |-> 0]
        /\ answer'.result = 0 /\ answer'.fpsr = 0
    BY <2>1 DEF NoAnswer
  <2> QED BY <1>2, <1>3, <1>4, <2>1, <2>2 DEF AnswerOK
\* Nothing is answered.
<1>8. CASE /\ answer' = answer /\ late' = late /\ cur' = cur
           /\ phase' = "free" => phase = "free" \/ answer.rc = "none"
           /\ phase' = "result" =>
                phase = "result" \/ (bus_read("STATUS") /\ bus.left = 1 /\ d_out[2])
           /\ phase' = "test" => phase = "test"
           /\ phase' # "free" => phase # "free"
  <2>1. (phase \in {"result", "test"} => status_valid)'
    <3>1. CASE phase \in {"result", "test"} BY <3>1, ReadStays
    <3>2. CASE phase' = "result" /\ bus_read("STATUS") /\ bus.left = 1 /\ d_out[2]
      <4>1. status_valid /\ ~op_issue_pulse BY <1>5, <3>2, ReadStays DEF bus_read
      <4> QED BY <4>1, CarriesOn
    <3> QED BY <1>8, <3>1, <3>2
  <2>2. (phase = "test" => answer.result = last_op_sel.n)'
    BY <1>0, <1>8, ReadStays DEF AnswerOK
  <2>3. (phase # "free" => answer.rc = "none")'
    BY <1>0, <1>8 DEF AnswerOK
  <2>4. (phase = "free" /\ answer.rc = "ok" =>
            /\ answer.result = last_op_sel.n
            /\ ~late => last_op_sel.n = cur.n
            /\ cur.tests /\ last_op_sel.n = cur.n => answer.fpsr = cur.n)'
    <3>1. SUFFICES ASSUME phase' = "free", answer'.rc = "ok"
                   PROVE  /\ answer'.result = last_op_sel'.n
                          /\ ~late' => last_op_sel'.n = cur'.n
                          /\ cur'.tests /\ last_op_sel'.n = cur'.n => answer'.fpsr = cur'.n
      OBVIOUS
    <3>2. phase = "free" BY <1>8, <3>1
    <3>3. last_op_sel' = last_op_sel BY <3>2, ReadStays, CarriesOn
    <3> QED BY <1>0, <1>8, <3>1, <3>2, <3>3 DEF AnswerOK
  <2> QED BY <1>0, <1>2, <1>3, <1>4, <1>8, <2>1, <2>2, <2>3, <2>4 DEF AnswerOK
<1>9. CASE Ends
  <2>1. bus.left = 1 /\ cur' = cur BY <1>9 DEF Ends
  <2>2. CASE /\ bus_read("STATUS") /\ late' = TRUE /\ Returns("timeout", 0, 0)
    <3>1. answer' = [rc |-> "timeout", result |-> 0, fpsr |-> 0] /\ phase' = "free"
      BY <2>2 DEF Returns
    <3>2. answer'.rc = "timeout" /\ answer'.result = 0 /\ answer'.fpsr = 0 BY <3>1
    <3> QED BY <1>2, <1>3, <1>4, <3>1, <3>2 DEF AnswerOK
  <2>3. CASE bus_read("RES_L") /\ late' = late /\ cur.tests /\ phase' = "test"
             /\ answer' = [answer EXCEPT !.result = d_out[2]]
    <3>1. phase = "result" /\ d_out[2] = result_reg BY <1>0, <1>5, <2>1, <2>3, PhaseOfCycle
    <3>2. answer.rc = "none" BY <1>0, <3>1 DEF AnswerOK
    <3>3. answer' = [rc |-> "none", result |-> d_out[2], fpsr |-> answer.fpsr]
      BY <1>6, <2>3, <3>2
    <3>4. answer'.rc = "none" /\ answer'.result = d_out[2] /\ answer'.fpsr = answer.fpsr
      BY <3>3
    <3>5. status_valid' /\ answer'.result = last_op_sel'.n BY <3>1, <3>4, ReadStays
    <3> QED BY <1>2, <1>3, <1>4, <2>3, <3>3, <3>4, <3>5 DEF AnswerOK
  <2>4. CASE bus_read("RES_L") /\ late' = late /\ ~cur.tests /\ Returns("ok", d_out[2], 0)
    <3>1. phase = "result" /\ d_out[2] = result_reg BY <1>0, <1>5, <2>1, <2>4, PhaseOfCycle
    <3>2. answer' = [rc |-> "ok", result |-> d_out[2], fpsr |-> 0] /\ phase' = "free"
      BY <2>4 DEF Returns
    <3>3. answer'.rc = "ok" /\ answer'.result = d_out[2] /\ answer'.fpsr = 0 BY <3>2
    <3>4. answer'.result = last_op_sel'.n /\ last_op_sel' = last_op_sel
      BY <3>1, <3>3, ReadStays
    <3>5. ~late => last_op_sel.n = cur.n
      BY <1>0, <2>4, <3>1 DEF ResultOK, Issuing, bus_read, bus_write, Operating, IsCall
    <3> QED BY <1>2, <1>3, <1>4, <2>1, <2>4, <3>2, <3>3, <3>4, <3>5 DEF AnswerOK
  <2>5. CASE bus_read("FPSR") /\ Returns("ok", answer.result, d_out[2]) /\ late' = late
    <3>1. phase = "test" /\ d_out[2] = fpsr BY <1>0, <1>5, <2>1, <2>5, PhaseOfCycle
    <3>2. answer' = [rc |-> "ok", result |-> answer.result, fpsr |-> d_out[2]] /\ phase' = "free"
      BY <2>5 DEF Returns
    <3>3. answer'.rc = "ok" /\ answer'.result = answer.result /\ answer'.fpsr = d_out[2]
      BY <3>2
    <3>4. answer.result = last_op_sel.n /\ last_op_sel' = last_op_sel
      BY <1>0, <3>1, ReadStays DEF AnswerOK
    <3>5. ~late \/ last_op_sel.n = cur.n => last_op_sel = cur.op
      BY <1>0, <2>5, <3>1 DEF ResultOK, Issuing, bus_read, bus_write, Operating
    <3>6. ~late => last_op_sel.n = cur.n BY <1>0, <3>5 DEF IsCall
    <3>7. cur.tests /\ last_op_sel.n = cur.n => fpsr = cur.n
      <4>1. status_valid => result_ready BY <1>0 DEF ResultOK
      <4>2. result_ready BY <1>0, <3>1, <4>1 DEF AnswerOK
      <4>3. cur.tests => cur.call = "exec" BY <1>0 DEF IsCall
      <4> QED BY <1>0, <3>1, <3>5, <4>2, <4>3 DEF ResultOK, Operating
    <3> QED BY <1>2, <1>3, <1>4, <2>1, <2>5, <3>1, <3>2, <3>3, <3>4, <3>6, <3>7 DEF AnswerOK
  <2>6. CASE /\ answer' = answer /\ late' = late
             /\ \/ phase' = phase
                \/ bus_read("STATUS") /\ d_out[2] /\ phase' = "result"
                \/ bus_read("SAVE") /\ phase' \in {"drain", "save_words"}
                \/ bus_read("RESPONSE") /\ phase' \in {"drain", "leave"}
    <3>1. phase' # phase => phase \in {"wait", "save", "drain"}
      BY <1>0, <2>6, PhaseOfCycle
    <3> QED BY <1>8, <2>1, <2>6, <3>1
  <2> QED
    <3>1. \/ bus_read("STATUS") \/ bus_read("RES_L") \/ bus_read("FPSR") \/ bus_read("SAVE")
          \/ bus_read("RESPONSE") \/ bus.op = "write" \/ bus_read(OPERAND)
      BY <1>9 DEF Ends
    <3> QED BY <1>9, <2>2, <2>3, <2>4, <2>5, <2>6 DEF Ends
<1>10. CASE ~fline_illg_callback /\ ~Ends
  <2>1. answer' = answer /\ late' = late /\ cur' = cur
    BY <1>0, <1>10 DEF Host, HostStarts, fpu_wr, fpu_rd, SaveWord, RestoreWord, LeaveDialog, Holds,
       Pauses, hostVars, SameCall
  <2>2. phase' = "free" => phase = "free" \/ phase \in {"send", "leave"}
    BY <1>0, <1>10 DEF Host, HostStarts, fpu_wr, fpu_rd, SaveWord, RestoreWord, LeaveDialog, Holds,
       Pauses, hostVars, SameCall, Served
  <2>3. /\ phase' = "result" => phase = "result"
        /\ phase' = "test" => phase = "test"
        /\ phase' # "free" => phase # "free"
    BY <1>0, <1>10, Opens DEF Host, HostStarts, fpu_wr, fpu_rd, SaveWord, RestoreWord, LeaveDialog,
       Holds, Pauses, hostVars, SameCall
  <2>4. phase' = "free" => phase = "free" \/ answer.rc = "none"
    BY <1>0, <2>2 DEF AnswerOK
  <2> QED BY <1>8, <2>1, <2>3, <2>4
<1> QED BY <1>7, <1>9, <1>10

-----------------------------------------------------------------------------
(* The theorems *)

\* The invariant holds before fline_init's first write.
LEMMA Begun == Init => CallInv
<1> SUFFICES ASSUME Init PROVE CallInv OBVIOUS
<1>0. /\ cur = [n |-> 0, call |-> "init", op |-> NoOp, tests |-> FALSE, format |-> "null"]
      /\ bus = [op |-> "none", addr |-> "STATUS", data |-> 0, left |-> 0, first |-> FALSE]
      /\ NoOp.n = 0 /\ NoOp.kind = "monadic" /\ NoOp.cr = 0
  BY DEF Init, NoCall, NoCycle, NoOp
<1>0a. IsCall(cur) BY <1>0 DEF IsCall
<1>0b. Len(CallWrites(cur)) = 2 BY <1>0, <1>0a, Sends
<1>0c. cur.call = "init" /\ cur.n = 0 /\ BusFree /\ ~bus.first /\ bus.left = 0
       /\ phase = "send" /\ sent = 0 /\ answer.rc = "none"
  BY <1>0 DEF Init, BusFree, NoAnswer
<1>0d. Written = 0 BY <1>0c DEF Written
<1>1. CallOK
  <2>1. sent \in 0..Len(CallWrites(cur)) - 1 BY <1>0b, <1>0c
  <2>2. fpcr_shadow = 0 BY DEF Init
  <2> QED BY <1>0a, <1>0c, <2>1, <2>2 DEF CallOK, Operating, Framing
<1>2. BusOK BY <1>0, <1>0c DEF BusOK, IsBus, BusFree
<1>3. EdgeOK BY <1>0c DEF EdgeOK
<1>4. ModeOK BY <1>0c, <1>0d DEF Init, FpuInit, ModeOK, Operating, Framing
<1>5. DialogOK
  BY <1>0, <1>0c DEF Init, FpuInit, DialogOK, AtIdle, AtSaveWait, AtSaveFormat, AtSaveFrame,
     AtXferDstWait, AtRestoreFormat, AtRestoreFrame, bus_write
<1>6. LoadOK
  <2>1. AreOperands BY DEF Init, FpuInit, FrameOperands, AreOperands
  <2> QED BY <1>0c, <2>1 DEF Init, FpuInit, LoadOK
<1>7. ResultOK
  BY <1>0, <1>0c DEF Init, FpuInit, ResultOK, Issuing, bus_write, BusFree, Operating, NoEvent
<1>8. AnswerOK
  <2>1. answer = [rc |-> "none", result |-> 0, fpsr |-> 0] BY DEF Init, NoAnswer
  <2>2. answer.result = 0 /\ answer.fpsr = 0 /\ answer.rc = "none" BY <2>1
  <2> QED BY <1>0c, <2>1, <2>2 DEF AnswerOK, bus_read, BusFree
<1> QED BY <1>1, <1>2, <1>3, <1>4, <1>5, <1>6, <1>7, <1>8 DEF CallInv

\* A stuttering step changes nothing an invariant is about.
LEMMA Stutters == CallInv /\ UNCHANGED vars => CallInv'
<1> SUFFICES ASSUME CallInv, UNCHANGED vars PROVE CallInv' OBVIOUS
<1>0. /\ UNCHANGED fpuVars /\ UNCHANGED hostVars /\ bus' = bus
      /\ CallOK /\ BusOK /\ EdgeOK /\ ModeOK /\ DialogOK /\ LoadOK /\ ResultOK /\ AnswerOK
  BY DEF vars, CallInv
<1>1. /\ UNCHANGED frameProcVars /\ UNCHANGED controlVars /\ UNCHANGED aluVars
      /\ UNCHANGED cirVars /\ d_out' = d_out
  BY <1>0 DEF fpuVars
<1>2. CallOK' BY <1>0 DEF CallOK, hostVars
<1>3. BusOK' BY <1>0 DEF BusOK, IsBus, IsWrite, BusFree, bus_read, bus_write, hostVars
<1>4. EdgeOK' BY <1>0, <1>1 DEF EdgeOK, BusFree, bus_read, bus_write, frameProcVars, cirVars
<1>5. ModeOK'
  BY <1>0, <1>1 DEF ModeOK, Written, BusFree, bus_write, hostVars, cirVars
<1>6. DialogOK'
  BY <1>0, <1>1 DEF DialogOK, AtIdle, AtSaveWait, AtSaveFormat, AtSaveFrame, AtXferDstWait,
     AtRestoreFormat, AtRestoreFrame, AfterWord, BusFree, bus_write, bus_read, hostVars, cirVars,
     frameProcVars
<1>7. LoadOK'
  BY <1>0, <1>1 DEF LoadOK, AreOperands, Written, bus_write, hostVars, frameProcVars
<1>8. ResultOK'
  BY <1>0, <1>1 DEF ResultOK, Issuing, bus_write, hostVars, frameProcVars, controlVars, aluVars
<1>9. AnswerOK'
  BY <1>0, <1>1 DEF AnswerOK, bus_read, hostVars, frameProcVars, controlVars
<1> QED BY <1>2, <1>3, <1>4, <1>5, <1>6, <1>7, <1>8, <1>9 DEF CallInv


\* In every reachable state the host, the dialog and the operation agree.
THEOREM CallInvariant == Served => (Spec => []CallInv)
<1> SUFFICES ASSUME Served PROVE Spec => []CallInv OBVIOUS
<1>1. Init => CallInv BY Begun
<1>2. CallInv /\ [Next]_vars => CallInv'
  <2>1. ASSUME CallInv, Next PROVE CallInv'
    BY <2>1, KeepsCall, KeepsBus, KeepsEdge, KeepsMode, KeepsDialog, KeepsLoad, KeepsResult,
       KeepsAnswer DEF CallInv
  <2> QED BY <2>1, Stutters
<1> QED BY <1>1, <1>2, PTL DEF Spec

\* A call that returns without an error returns the result of its own
\* operation on its own operands, unless its OPSEL was lost to an operation
\* that was given up: fpu_exec, fpu_wait_done and op_issue_pulse.
THEOREM ResultsAreOwned == Served => (Spec => []ResultsAreOwn)
<1> SUFFICES ASSUME Served PROVE Spec => []ResultsAreOwn OBVIOUS
<1>1. CallInv => ResultsAreOwn BY DEF CallInv, CallOK, AnswerOK, ResultsAreOwn
<1> QED BY <1>1, CallInvariant, PTL

\* Between two calls the FPU is out of its dialog and out of dialog mode,
\* though FSAVE and FRESTORE only poll until the response is not BUSY.
THEOREM DialogsAreOver == Served => (Spec => []DialogOver)
<1> SUFFICES ASSUME Served PROVE Spec => []DialogOver OBVIOUS
<1>1. CallInv => DialogOver
  BY DEF CallInv, DialogOK, AtSaveWait, AtSaveFormat, AtSaveFrame, AtXferDstWait,
     AtRestoreFormat, AtRestoreFrame, ModeOK, DialogOver, BusFree, bus_write
<1> QED BY <1>1, CallInvariant, PTL

=============================================================================
