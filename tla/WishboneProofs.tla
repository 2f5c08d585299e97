---------------------------- MODULE WishboneProofs ----------------------------
(***************************************************************************)
(* Theorems about Wishbone, for every set of registers, every number of    *)
(* accesses and resets at any moment: with a pipelined master that waits   *)
(* out the stall of an access it has aborted, each access is asked of the  *)
(* bridge once and answered with its own result.                           *)
(***************************************************************************)
EXTENDS Wishbone, TLAPS

\* The master these theorems are about.
GoodMaster == Pipelined /\ WaitsOutAbort

-----------------------------------------------------------------------------
(* The inductive invariant                                                 *)

WbFlagsOK ==
    /\ wb_ack_o \in BOOLEAN /\ wb_err_o \in BOOLEAN /\ wb_stall_o \in BOOLEAN
    /\ we_reg \in BOOLEAN /\ err_reg \in BOOLEAN
    /\ bridge_req \in BOOLEAN /\ bridge_rw \in BOOLEAN
    /\ cyc \in BOOLEAN /\ stb \in BOOLEAN /\ we \in BOOLEAN
    /\ waiting \in BOOLEAN /\ draining \in BOOLEAN
    /\ port_rw \in BOOLEAN /\ failed \in BOOLEAN /\ done \in BOOLEAN /\ error \in BOOLEAN

\* Nothing is under way, and nothing is stalled.
Quiet ==
    /\ wb_state = "WB_IDLE" /\ ~bridge_req /\ ~wb_stall_o
    /\ port \in {"idle", "resetting"}

\* Who is where: a request is on its way only from WB_WAIT, an answer is shown
\* when everything is over, a strobe finds everything over, and an aborted
\* access keeps the stall up until it is.
Turns ==
    /\ bridge_req => wb_state = "WB_WAIT" /\ port = "idle" /\ ~done
    /\ done => port \in {"idle", "resetting"}
    /\ wb_state = "WB_ACK" => port = "idle" /\ ~bridge_req
    /\ wb_ack_o \/ wb_err_o => Quiet
    /\ stb => cyc /\ Quiet /\ asks = 0 /\ ~waiting /\ ~wb_ack_o /\ ~wb_err_o
    /\ ~cyc => Quiet \/ (wb_stall_o /\ draining)
    /\ asks \in {0, 1}
    /\ port = "resetting" => ~cyc

\* What the newest access wants of its register, if v is what it reads.
Has(v) == registers[adr] = IF we THEN wb_dat_i ELSE v

\* The access whose strobe is taken, from the wrapper to the bridge and back.
Underway ==
    cyc /\ ~stb =>
        /\ waiting /\ asks = 1
        /\ we_reg = we /\ bridge_rw = ~we /\ bridge_addr = adr /\ bridge_wdata = wb_dat_i
        /\ wb_state = "WB_IDLE" => wb_ack_o \/ wb_err_o
        /\ wb_state = "WB_WAIT" => bridge_req \/ done \/ port \in {"asked", "served"}
        /\ port \in {"asked", "served"} =>
               /\ wb_state = "WB_WAIT"
               /\ port_rw = ~we /\ port_addr = adr /\ port_wdata = wb_dat_i
        /\ port = "served" /\ ~failed => Has(fetched)
        /\ wb_state = "WB_WAIT" /\ done /\ ~error => Has(rdata)
        /\ wb_state = "WB_ACK" /\ ~err_reg => Has(rdata_reg)
        /\ wb_ack_o => Has(rdata_reg)

WbInv == WbFlagsOK /\ TypeOK /\ Turns /\ Underway

-----------------------------------------------------------------------------
(* Types                                                                   *)

LEMMA InitFlags == WbInit => WbFlagsOK /\ TypeOK
BY WishboneAssumption, AtomicAssumption DEF WbInit, AtomicInit, WbFlagsOK, TypeOK

\* The words of the master and the bridge; the flags of all three.
LEMMA BusEdgeTypes ==
    ASSUME WbFlagsOK, TypeOK, BusEdge
    PROVE  WbFlagsOK' /\ TypeOK'
<1>1. /\ wb_state' \in {"WB_IDLE", "WB_WAIT", "WB_ACK"}
      /\ rdata_reg' \in Data /\ bridge_wdata' \in Data /\ bridge_addr' \in Addr
  BY DEF BusEdge, TypeOK, p_wb, WbIdle, TakesStrobe, NoStrobe, WbWait, WbAck, NoRequest,
     KeepsDataOfReads, wb_dat_i
<1>2. /\ wb_ack_o' \in BOOLEAN /\ wb_err_o' \in BOOLEAN
      /\ ~(wb_ack_o' /\ wb_err_o')
  <2>1. CASE WbAck
    <3>1. err_reg \in BOOLEAN /\ wb_err_o' = err_reg /\ wb_ack_o' = ~err_reg
      BY <2>1 DEF WbAck, ShowsAnswer, WbFlagsOK
    <3> QED
      BY <3>1, Zenon
  <2>2. CASE NoWbAnswer
    BY <2>2 DEF NoWbAnswer
  <2> QED
    BY <2>1, <2>2 DEF BusEdge, p_wb, WbIdle, WbWait
<1>5. bridge_busy \in BOOLEAN
  BY DEF bridge_busy
<1>6. /\ we_reg' \in BOOLEAN /\ err_reg' \in BOOLEAN
      /\ bridge_req' \in BOOLEAN /\ bridge_rw' \in BOOLEAN /\ wb_stall_o' \in BOOLEAN
  BY <1>5 DEF BusEdge, WbFlagsOK, p_wb, WbIdle, TakesStrobe, NoStrobe, WbWait, WbAck, NoRequest
<1>3. /\ port' \in {"idle", "asked", "served", "resetting"}
      /\ port_addr' \in Addr /\ {port_wdata, fetched, rdata}' \subseteq Data
      /\ registers' \in [Addr -> Data]
      /\ port_rw' \in BOOLEAN /\ failed' \in BOOLEAN
      /\ done' \in BOOLEAN /\ error' \in BOOLEAN
  BY DEF BusEdge, WbFlagsOK, TypeOK, BridgeEdge, Ask, Answer, Pause, NoAnswer, askedVars,
     servedVars
<1>4. /\ cyc' \in BOOLEAN /\ stb' \in BOOLEAN /\ we' \in BOOLEAN
      /\ waiting' \in BOOLEAN /\ draining' \in BOOLEAN
  BY WishboneAssumption
  DEF BusEdge, WbFlagsOK, WbMaster, BeginAccess, EndCycle, StrobeTaken, Waits, AbortCycle
<1>7. adr' \in Addr
  BY DEF BusEdge, TypeOK, WbMaster, BeginAccess, EndCycle, StrobeTaken, Waits, AbortCycle
<1>8. writes' \in Data
  <2>1. writes \in 0..MaxWrites
    BY WishboneAssumption DEF TypeOK
  <2>2. writes' = writes \/ (writes < MaxWrites /\ writes' = writes + 1)
    BY DEF BusEdge, WbMaster, BeginAccess, EndCycle, StrobeTaken, Waits, AbortCycle
  <2> QED
    BY <2>1, <2>2, WishboneAssumption
<1> QED
  BY <1>1, <1>2, <1>3, <1>4, <1>6, <1>7, <1>8 DEF WbFlagsOK, TypeOK

LEMMA CarryOutTypes ==
    ASSUME WbFlagsOK, TypeOK, CarryOut
    PROVE  WbFlagsOK' /\ TypeOK'
<1>1. UNCHANGED <<wrapperVars, masterVars, askedVars, answerVars>>
  BY DEF CarryOut, Serve, Fail
<1>2. port' = "served" /\ failed' \in BOOLEAN /\ fetched' \in Data
  BY DEF CarryOut, Serve, Fail, TypeOK
<1>3. registers' \in [Addr -> Data]
  BY DEF CarryOut, Serve, Fail, Written, TypeOK
<1> QED
  BY <1>1, <1>2, <1>3 DEF WbFlagsOK, TypeOK, wrapperVars, masterVars, askedVars, answerVars

LEMMA ResetTypes ==
    ASSUME WbFlagsOK, TypeOK, AssertReset \/ ReleaseReset
    PROVE  WbFlagsOK' /\ TypeOK'
<1>1. CASE AssertReset
  <2>1. WbFlagsOK' /\ ~(wb_ack_o' /\ wb_err_o')
    BY <1>1 DEF AssertReset, Reset, WbReset, NoWbAnswer, WbFlagsOK, askedVars, answerVars
  <2>2. 0 \in Data
    BY WishboneAssumption
  <2>3. /\ wb_state' = "WB_IDLE" /\ port' = "resetting"
        /\ rdata_reg' = 0 /\ bridge_wdata' = 0
        /\ bridge_addr' = port_addr /\ adr' = port_addr
        /\ UNCHANGED <<port_wdata, fetched, rdata, writes, port_addr, registers>>
    BY <1>1 DEF AssertReset, Reset, WbReset, askedVars, answerVars
  <2>4. {rdata_reg, bridge_wdata, port_wdata, fetched, rdata, writes}' \subseteq Data
    BY <2>2, <2>3 DEF TypeOK
  <2>5. {bridge_addr, port_addr, adr}' \subseteq Addr /\ registers' \in [Addr -> Data]
    BY <2>3 DEF TypeOK
  <2>6. /\ wb_state' \in {"WB_IDLE", "WB_WAIT", "WB_ACK"}
        /\ port' \in {"idle", "asked", "served", "resetting"}
    BY <2>3
  <2> QED
    BY <2>1, <2>4, <2>5, <2>6 DEF TypeOK
<1>2. CASE ReleaseReset
  <2>1. /\ port' = "idle" /\ registers' = [a \in Addr |-> ResetValue]
        /\ done' = FALSE /\ error' = FALSE
        /\ UNCHANGED <<askedVars, rdata, fetched, failed, wrapperVars, masterVars>>
    BY <1>2 DEF ReleaseReset, Release
  <2>2. registers' \in [Addr -> Data]
    BY <2>1, AtomicAssumption
  <2>3. WbFlagsOK'
    <3>1. UNCHANGED <<wb_ack_o, wb_err_o, wb_stall_o, we_reg, err_reg, bridge_req, bridge_rw,
                      cyc, stb, we, waiting, draining, port_rw, failed>>
      BY <2>1 DEF wrapperVars, masterVars, askedVars
    <3>2. done' \in BOOLEAN /\ error' \in BOOLEAN
      BY <2>1
    <3> QED
      BY <3>1, <3>2 DEF WbFlagsOK
  <2>4. TypeOK'
    BY <2>1, <2>2 DEF TypeOK, wrapperVars, masterVars, askedVars
  <2> QED
    BY <2>3, <2>4
<1> QED
  BY <1>1, <1>2

LEMMA NextTypes ==
    ASSUME WbFlagsOK, TypeOK, [WbNext]_wbVars
    PROVE  WbFlagsOK' /\ TypeOK'
<1>1. CASE UNCHANGED wbVars
  BY <1>1 DEF wbVars, atomicVars, askedVars, servedVars, answerVars, wrapperVars, masterVars,
     WbFlagsOK, TypeOK
<1> QED
  BY <1>1, BusEdgeTypes, CarryOutTypes, ResetTypes DEF WbNext

-----------------------------------------------------------------------------
(* Turns                                                                   *)

\* The bridge's side of an edge.
LEMMA BridgeEdges ==
    ASSUME Turns, BusEdge
    PROVE  /\ done' => port' = "idle"
           /\ ~bridge_req /\ port = "idle" => port' = "idle" /\ ~done' /\ UNCHANGED registers
           /\ port' \in {"idle", "asked", "served"}
BY DEF Turns, Quiet, BusEdge, BridgeEdge, Ask, Answer, Pause, NoAnswer, servedVars

\* Only a strobe makes a request, and it finds everything over.
LEMMA RequestNeedsStrobe ==
    ASSUME WbFlagsOK, Turns, BusEdge, bridge_req'
    PROVE  /\ stb /\ cyc /\ wb_state' = "WB_WAIT" /\ wb_stall_o'
           /\ port = "idle" /\ port' = "idle" /\ ~done'
<1>1. WbIdle /\ TakesStrobe
  BY DEF BusEdge, p_wb, WbIdle, NoStrobe, WbWait, WbAck, NoRequest
<1>2. stb /\ cyc /\ wb_state' = "WB_WAIT" /\ wb_stall_o'
  BY <1>1 DEF TakesStrobe
<1>3. port = "idle" /\ ~bridge_req
  BY <1>2 DEF Turns, Quiet, BusEdge
<1> QED
  BY <1>2, <1>3, BridgeEdges

\* Without a strobe everything stays over.
LEMMA QuietStays ==
    ASSUME Turns, BusEdge, Quiet, ~stb
    PROVE  Quiet' /\ ~wb_ack_o' /\ ~wb_err_o'
<1>1. port = "idle" /\ ~bridge_req
  BY DEF Quiet, BusEdge
<1>2. WbIdle /\ NoStrobe /\ ~bridge_busy
  BY <1>1 DEF BusEdge, p_wb, WbIdle, TakesStrobe, WbWait, WbAck, Quiet, bridge_busy
<1> QED
  BY <1>1, <1>2, BridgeEdges DEF WbIdle, NoStrobe, NoWbAnswer, NoRequest, Quiet

\* An answer is shown when everything is over.
LEMMA AnswerEnds ==
    ASSUME Turns, BusEdge, wb_state = "WB_ACK"
    PROVE  Quiet'
<1>1. port = "idle" /\ ~bridge_req
  BY DEF Turns
<1>2. WbAck
  BY DEF BusEdge, p_wb, WbIdle, WbWait
<1> QED
  BY <1>1, <1>2, BridgeEdges DEF WbAck, NoRequest, Quiet

\* As long as something is under way, the stall is up.
LEMMA StallOrQuiet ==
    ASSUME WbFlagsOK, TypeOK, Turns, BusEdge
    PROVE  wb_stall_o' \/ Quiet'
<1>1. CASE WbIdle /\ TakesStrobe
  BY <1>1 DEF TakesStrobe
<1>2. CASE WbIdle /\ NoStrobe
  <2>1. ~bridge_req
    BY <1>2 DEF WbIdle, Turns
  <2>2. wb_stall_o' = bridge_busy /\ wb_state' = "WB_IDLE" /\ ~bridge_req'
    BY <1>2 DEF WbIdle, NoStrobe, NoRequest
  <2>3. bridge_busy \/ port = "idle"
    BY DEF bridge_busy, TypeOK, BusEdge
  <2>4. bridge_busy \in BOOLEAN
    BY DEF bridge_busy
  <2> QED
    BY <2>1, <2>2, <2>3, <2>4, BridgeEdges DEF Quiet
<1>3. CASE WbWait
  BY <1>3 DEF WbWait
<1>4. CASE WbAck
  BY <1>4, AnswerEnds DEF WbAck
<1> QED
  BY <1>1, <1>2, <1>3, <1>4 DEF BusEdge, p_wb, WbIdle

LEMMA AckFollowsDone ==
    ASSUME Turns, BusEdge, wb_state' = "WB_ACK"
    PROVE  port' = "idle" /\ ~bridge_req'
<1>1. WbWait /\ done
  BY DEF BusEdge, p_wb, WbIdle, TakesStrobe, NoStrobe, WbWait, WbAck
<1>2. port = "idle" /\ ~bridge_req
  BY <1>1 DEF Turns, BusEdge
<1> QED
  BY <1>1, <1>2, BridgeEdges DEF WbWait, NoRequest

LEMMA BusEdgeTurns ==
    ASSUME GoodMaster, WbFlagsOK, TypeOK, Turns, BusEdge
    PROVE  Turns'
<1>1. bridge_req' => wb_state' = "WB_WAIT" /\ port' = "idle" /\ ~done'
  BY RequestNeedsStrobe
<1>2. done' => port' \in {"idle", "resetting"}
  BY BridgeEdges
<1>3. wb_state' = "WB_ACK" => port' = "idle" /\ ~bridge_req'
  BY AckFollowsDone
<1>4. wb_ack_o' \/ wb_err_o' => wb_state = "WB_ACK"
  BY DEF BusEdge, p_wb, WbIdle, WbWait, WbAck, NoWbAnswer
<1>5. wb_ack_o' \/ wb_err_o' => Quiet'
  BY <1>4, AnswerEnds
<1>6. port' # "resetting"
  BY BridgeEdges
<1>7. CASE BeginAccess
  <2>1. Quiet /\ ~stb
    BY <1>7 DEF BeginAccess, Answered, Turns
  <2>2. /\ cyc' /\ asks' = 0 /\ ~waiting'
    BY <1>7 DEF BeginAccess, GoodMaster
  <2>3. Quiet' /\ ~wb_ack_o' /\ ~wb_err_o'
    BY <2>1, QuietStays
  <2> QED
    BY <1>1, <1>2, <1>3, <1>6, <2>2, <2>3 DEF Turns
<1>8. CASE ~BeginAccess
  <2>1. Counts /\ (cyc' => cyc)
    BY <1>8 DEF BusEdge, WbMaster, EndCycle, StrobeTaken, Waits, AbortCycle
  <2>2. asks' \in {0, 1}
    BY <2>1, RequestNeedsStrobe DEF Counts, Turns
  <2>3. ~stb'
    BY <1>8 DEF BusEdge, WbMaster, EndCycle, StrobeTaken, Waits, AbortCycle, Turns, Quiet, GoodMaster
  <2>4. ~cyc' => Quiet' \/ (wb_stall_o' /\ draining')
    <3>1. CASE EndCycle
      BY <3>1, QuietStays DEF EndCycle, Answered, Turns
    <3>2. CASE AbortCycle
      BY <3>2, StallOrQuiet DEF AbortCycle, GoodMaster
    <3>3. CASE Waits /\ ~cyc
      <4>1. ~stb
        BY <3>3 DEF Turns
      <4>2. CASE Quiet
        BY <4>1, <4>2, QuietStays
      <4>3. CASE ~Quiet
        BY <3>3, <4>3, StallOrQuiet DEF Waits, Turns
      <4> QED
        BY <4>2, <4>3
    <3>4. CASE StrobeTaken \/ (Waits /\ cyc)
      BY <3>4 DEF StrobeTaken, Waits
    <3> QED
      BY <1>8, <3>1, <3>2, <3>3, <3>4 DEF BusEdge, WbMaster
  <2> QED
    BY <1>1, <1>2, <1>3, <1>5, <1>6, <2>2, <2>3, <2>4 DEF Turns
<1> QED
  BY <1>7, <1>8

\* The other steps disturb little of who is where.
LEMMA OtherTurns ==
    ASSUME TypeOK, Turns, CarryOut \/ AssertReset \/ ReleaseReset \/ UNCHANGED wbVars
    PROVE  Turns'
<1>1. CASE CarryOut
  <2>1. port = "asked" /\ port' = "served" /\ UNCHANGED <<wrapperVars, masterVars, done>>
    BY <1>1 DEF CarryOut, Serve, Fail, answerVars
  <2>2. ~Quiet
    BY <2>1 DEF Quiet
  <2> QED
    BY <2>1, <2>2 DEF Turns, wrapperVars, masterVars
<1>2. CASE AssertReset
  BY <1>2 DEF AssertReset, Reset, WbReset, NoWbAnswer, Turns, Quiet, answerVars
<1>3. CASE ReleaseReset
  BY <1>3 DEF ReleaseReset, Release, Turns, Quiet, wrapperVars, masterVars
<1>4. CASE UNCHANGED wbVars
  BY <1>4 DEF wbVars, atomicVars, askedVars, servedVars, answerVars, wrapperVars, masterVars,
     Turns, Quiet
<1> QED
  BY <1>1, <1>2, <1>3, <1>4

-----------------------------------------------------------------------------
(* The access under way                                                    *)

\* A strobe that is not stalled is taken on the same edge.
LEMMA StrobeEdge ==
    ASSUME GoodMaster, WbFlagsOK, TypeOK, Turns, BusEdge, StrobeTaken
    PROVE  Underway'
<1>1. stb /\ cyc /\ asks = 0 /\ Quiet /\ port = "idle"
  BY DEF StrobeTaken, Turns, Quiet, BusEdge
<1>2. WbIdle /\ TakesStrobe
  BY <1>1 DEF BusEdge, p_wb, WbIdle, NoStrobe, WbWait, WbAck, Quiet, bridge_busy
<1>3. /\ bridge_req' /\ wb_state' = "WB_WAIT" /\ ~wb_ack_o' /\ port' = "idle" /\ ~done'
  BY <1>1, <1>2, BridgeEdges DEF WbIdle, TakesStrobe, NoWbAnswer, Quiet
<1>4. /\ waiting' /\ asks' = 1
      /\ UNCHANGED <<adr, we, writes>>
  BY <1>1, <1>3 DEF StrobeTaken, Counts
<1>5. /\ we_reg' = we' /\ bridge_rw' = ~we' /\ bridge_addr' = adr' /\ bridge_wdata' = wb_dat_i'
  BY <1>2, <1>4 DEF TakesStrobe, wb_dat_i
<1> QED
  BY <1>3, <1>4, <1>5 DEF Underway

\* The master waits for an access that is under way.
LEMMA WaitingEdge ==
    ASSUME GoodMaster, WbFlagsOK, TypeOK, Turns, Underway, BusEdge, Waits, cyc, ~stb
    PROVE  Underway'
<1>1. wb_state # "WB_IDLE" /\ ~wb_ack_o /\ ~wb_err_o
  BY DEF Underway, Waits, Answered
<1>2. ~bridge_req'
  BY RequestNeedsStrobe
<1>3. waiting' /\ asks' = 1 /\ UNCHANGED <<adr, we, writes, we_reg, bridge_rw, bridge_addr, bridge_wdata>>
  <2>1. NoRequest /\ UNCHANGED we_reg
    BY <1>1 DEF BusEdge, p_wb, WbIdle, WbWait, WbAck
  <2>2. asks' = asks /\ UNCHANGED <<adr, we, writes, waiting>>
    BY <1>2 DEF Waits, Counts
  <2> QED
    BY <2>1, <2>2 DEF NoRequest, Underway
<1>4. wb_state = "WB_ACK" => Underway'
  <2>1. SUFFICES ASSUME wb_state = "WB_ACK" PROVE Underway'
    OBVIOUS
  <2>2. WbAck /\ port = "idle" /\ ~bridge_req
    BY <2>1 DEF BusEdge, p_wb, WbIdle, WbWait, Turns
  <2>3. port' = "idle" /\ UNCHANGED <<registers, rdata_reg>> /\ wb_state' = "WB_IDLE"
    BY <2>2, BridgeEdges DEF WbAck
  <2>4. wb_err_o' = err_reg /\ wb_ack_o' = ~err_reg /\ err_reg \in BOOLEAN
    BY <2>2 DEF WbAck, ShowsAnswer, WbFlagsOK
  <2>5. wb_ack_o' \/ wb_err_o'
    BY <2>4, Zenon
  <2>6. wb_ack_o' => Has(rdata_reg)'
    BY <1>3, <2>1, <2>3, <2>4 DEF Underway, Has, wb_dat_i
  <2> QED
    BY <1>3, <2>3, <2>5, <2>6 DEF Underway, wb_dat_i
<1>5. wb_state = "WB_WAIT" /\ done => Underway'
  <2>1. SUFFICES ASSUME wb_state = "WB_WAIT", done PROVE Underway'
    OBVIOUS
  <2>2. WbWait /\ port = "idle" /\ ~bridge_req
    BY <2>1 DEF BusEdge, p_wb, WbIdle, WbAck, Turns
  <2>3. /\ port' = "idle" /\ UNCHANGED registers /\ ~done'
        /\ wb_state' = "WB_ACK" /\ ~wb_ack_o' /\ err_reg' = error
        /\ rdata_reg' = IF we_reg THEN rdata_reg ELSE rdata
    BY <2>1, <2>2, BridgeEdges DEF WbWait, NoWbAnswer, KeepsDataOfReads
  <2>4. ~err_reg' => Has(rdata_reg)'
    BY <1>3, <2>1, <2>3 DEF Underway, Has, wb_dat_i
  <2> QED
    BY <1>3, <2>3, <2>4 DEF Underway, wb_dat_i
<1>6. wb_state = "WB_WAIT" /\ ~done => Underway'
  <2>1. SUFFICES ASSUME wb_state = "WB_WAIT", ~done PROVE Underway'
    OBVIOUS
  <2>2. wb_state' = "WB_WAIT" /\ ~wb_ack_o'
    BY <2>1 DEF BusEdge, p_wb, WbIdle, WbAck, WbWait, NoWbAnswer
  <2>3. CASE bridge_req
    <3>1. port = "idle" /\ Ask(bridge_rw, bridge_addr, bridge_wdata)
      BY <2>3 DEF BusEdge, BridgeEdge, Turns, Answer
    <3> QED
      BY <1>3, <2>2, <3>1 DEF Ask, NoAnswer, Underway, wb_dat_i
  <2>4. CASE ~bridge_req /\ Pause
    <3>1. port \in {"asked", "served"}
      BY <2>1, <2>4 DEF Underway
    <3>2. Has(fetched)' <=> Has(fetched)
      BY <1>3, <2>4 DEF Pause, servedVars, Has, wb_dat_i
    <3> QED
      BY <1>3, <2>1, <2>2, <2>4, <3>1, <3>2 DEF Pause, NoAnswer, askedVars, servedVars, Underway, wb_dat_i
  <2>5. CASE ~bridge_req /\ Answer
    <3>1. Has(rdata)' <=> Has(fetched)
      BY <1>3, <2>5 DEF Answer, Has, wb_dat_i
    <3> QED
      BY <1>3, <2>2, <2>5, <3>1 DEF Answer, Underway, wb_dat_i
  <2> QED
    BY <2>3, <2>4, <2>5 DEF BusEdge, BridgeEdge
<1> QED
  BY <1>1, <1>4, <1>5, <1>6 DEF TypeOK

\* An access is taken or waited for; any other step of the master begins or
\* ends one.
LEMMA BusEdgeUnderway ==
    ASSUME GoodMaster, WbFlagsOK, TypeOK, Turns, Underway, BusEdge
    PROVE  Underway'
<1>1. CASE StrobeTaken
  BY <1>1, StrobeEdge
<1>2. CASE Waits /\ cyc
  <2>1. ~stb
    BY <1>2 DEF Waits, Turns, Quiet, GoodMaster
  <2> QED
    BY <1>2, <2>1, WaitingEdge
<1>3. CASE BeginAccess \/ EndCycle \/ AbortCycle \/ (Waits /\ ~cyc)
  BY <1>3 DEF BeginAccess, EndCycle, AbortCycle, Waits, Underway
<1> QED
  BY <1>1, <1>2, <1>3 DEF BusEdge, WbMaster

LEMMA OtherUnderway ==
    ASSUME TypeOK, Turns, Underway, CarryOut \/ AssertReset \/ ReleaseReset \/ UNCHANGED wbVars
    PROVE  Underway'
<1>1. CASE CarryOut
  <2>1. SUFFICES ASSUME cyc', ~stb' PROVE Underway'
    BY DEF Underway
  <2>2. /\ port = "asked" /\ port' = "served"
        /\ UNCHANGED <<wb_state, wb_ack_o, wb_err_o, rdata_reg, we_reg, err_reg, bridge_req,
                       bridge_rw, bridge_addr, bridge_wdata, cyc, stb, we, adr, writes,
                       waiting, asks, done, port_rw, port_addr, port_wdata>>
    BY <1>1 DEF CarryOut, Serve, Fail, answerVars, askedVars, wrapperVars, masterVars
  <2>3. /\ wb_state = "WB_WAIT" /\ ~done /\ ~wb_ack_o
        /\ port_rw = ~we /\ port_addr = adr /\ port_wdata = wb_dat_i
    BY <2>1, <2>2 DEF Turns, Quiet, Underway
  <2>4. ~failed' => Has(fetched)'
    <3>1. SUFFICES ASSUME ~failed' PROVE Has(fetched)'
      OBVIOUS
    <3>2. Serve
      BY <1>1, <3>1 DEF CarryOut, Fail
    <3>3. registers \in [Addr -> Data] /\ adr \in Addr
      BY DEF TypeOK
    <3> QED
      BY <2>2, <2>3, <3>2, <3>3 DEF Serve, Written, Has, wb_dat_i
  <2> QED
    BY <2>1, <2>2, <2>3, <2>4 DEF Underway, wb_dat_i
<1>2. CASE AssertReset
  BY <1>2 DEF AssertReset, Underway
<1>3. CASE ReleaseReset
  BY <1>3 DEF ReleaseReset, Release, Turns, Underway, masterVars
<1>4. CASE UNCHANGED wbVars
  BY <1>4 DEF wbVars, atomicVars, askedVars, servedVars, answerVars, wrapperVars, masterVars,
     Underway, Has, wb_dat_i
<1> QED
  BY <1>1, <1>2, <1>3, <1>4

-----------------------------------------------------------------------------
(* The theorems                                                            *)

\* Every register of the wrapper, the bridge and the master keeps to its
\* range, and no access is acknowledged and refused at once, whatever the
\* master does.
THEOREM TypeCorrect == WbSpec => []TypeOK
<1>1. WbFlagsOK /\ TypeOK /\ [WbNext]_wbVars => (WbFlagsOK /\ TypeOK)'
  BY NextTypes
<1> QED
  BY InitFlags, <1>1, PTL DEF WbSpec

LEMMA WbInvariant ==
    ASSUME GoodMaster
    PROVE  WbSpec => []WbInv
<1>1. WbInit => WbInv
  <2>1. WbInit => Turns /\ Underway
    BY DEF WbInit, AtomicInit, Turns, Quiet, Underway
  <2> QED
    BY <2>1, InitFlags DEF WbInv
<1>2. WbInv /\ [WbNext]_wbVars => WbInv'
  <2>1. SUFFICES ASSUME WbInv, [WbNext]_wbVars PROVE WbInv'
    OBVIOUS
  <2>2. WbFlagsOK' /\ TypeOK'
    BY <2>1, NextTypes DEF WbInv
  <2>3. Turns' /\ Underway'
    BY <2>1, GoodMaster, BusEdgeTurns, OtherTurns, BusEdgeUnderway, OtherUnderway DEF WbInv, WbNext
  <2> QED
    BY <2>2, <2>3 DEF WbInv
<1> QED
  BY <1>1, <1>2, PTL DEF WbSpec

\* An access is asked of the bridge once, and only when the bridge listens:
\* for every set of registers, any number of accesses, aborted ones included,
\* and resets at any moment.
THEOREM EachAskedOnce ==
    ASSUME GoodMaster
    PROVE  WbSpec => []AskedOnce
<1>1. WbInv => AskedOnce
  BY DEF WbInv, Turns, AskedOnce
<1> QED
  BY <1>1, WbInvariant, PTL

\* An answer belongs to the access it is shown to, never to an aborted one,
\* and an acknowledge means that the access was done.
THEOREM AnswersAreOwn ==
    ASSUME GoodMaster
    PROVE  WbSpec => []AnswerIsOwn
<1>1. WbInv => AnswerIsOwn
  BY DEF WbInv, Turns, Underway, Has, wb_dat_i, wb_dat_o, AnswerIsOwn
<1> QED
  BY <1>1, WbInvariant, PTL

=============================================================================
