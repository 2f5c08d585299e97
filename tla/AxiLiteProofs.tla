---------------------------- MODULE AxiLiteProofs ----------------------------
(***************************************************************************)
(* Theorems about AxiLite, for every set of registers, number of writes,    *)
(* assignment of addresses to them, channel timeout, and resets at any      *)
(* moment: the wrapper asks only an idle port, the halves of a write stay   *)
(* together, and an answer tells the truth about the register.             *)
(***************************************************************************)
EXTENDS AxiLite, TLAPS

-----------------------------------------------------------------------------
(* The inductive invariant                                                 *)

AxiFlagsOK ==
    /\ {awready, wready, arready, bvalid, rvalid} \subseteq BOOLEAN
    /\ {aw_latched, w_latched, req_sent, bridge_req, bridge_rw} \subseteq BOOLEAN
    /\ {awvalid, wvalid, arvalid, ready, timed_out} \subseteq BOOLEAN
    /\ {port_rw, failed, done, error} \subseteq BOOLEAN

\* The numbers behind TypeOK: a beat is offered only while writes are left,
\* and the counter is compared before it is advanced.
Numbers ==
    /\ bs \in Nat
    /\ awvalid => aws < MaxWrites
    /\ wvalid => ws < MaxWrites
    /\ channel_timeout_g \in Nat
    /\ IF channel_timeout_g = 0 THEN chan_timeout_cnt = 0 ELSE chan_timeout_cnt < channel_timeout_g
    /\ okays \in [Addr -> 0..MaxWrites]

Bridging == axi_state \in {"AXI_WRITE_BRIDGE", "AXI_READ_BRIDGE"}

\* Who is busy: a request, its execution and its answer are found only while
\* the wrapper waits for them, one at a time.
Turns ==
    /\ bridge_req => port = "idle" /\ ~done
    /\ done => port \in {"idle", "resetting"}
    /\ bridge_req \/ port \in {"asked", "served"} \/ (done /\ port # "resetting") =>
           Bridging /\ req_sent
    /\ port = "resetting" => axi_state = "AXI_IDLE" /\ ~bridge_req
    /\ axi_state = "AXI_WRITE_BRIDGE" /\ req_sent =>
           aw_latched /\ w_latched /\ ~awready /\ ~wready

\* A ready is shown only for a beat that is there and has been latched.
Channels ==
    /\ awready => awvalid /\ axi_state \in {"AXI_WRITE_BRIDGE", "AXI_WRITE_RESP"}
    /\ wready => wvalid /\ axi_state \in {"AXI_WRITE_BRIDGE", "AXI_WRITE_RESP"}
    /\ axi_state = "AXI_WRITE_BRIDGE" /\ awready => aw_latched
    /\ axi_state = "AXI_WRITE_BRIDGE" /\ wready => w_latched
    /\ bvalid => axi_state = "AXI_WRITE_RESP" /\ bresp = resp_reg
    /\ rvalid => axi_state = "AXI_READ_RESP" /\ rresp = resp_reg /\ rchannel = rdata_reg

Beats(sent, shown) == IF shown THEN sent + 1 ELSE sent

\* How far each channel is: level with the responses, or one beat ahead with
\* that beat latched.
Pairing ==
    /\ axi_state \in {"AXI_IDLE", "AXI_READ_BRIDGE", "AXI_READ_RESP"} => aws = bs /\ ws = bs
    /\ axi_state = "AXI_WRITE_BRIDGE" =>
           /\ IF aw_latched THEN Beats(aws, awready) = bs + 1 /\ aw_addr_reg = AddrOf(bs + 1)
                            ELSE aws = bs
           /\ IF w_latched THEN Beats(ws, wready) = bs + 1 /\ w_data_reg = bs + 1
                           ELSE ws = bs
    /\ axi_state = "AXI_WRITE_RESP" =>
           ~awready /\ ~wready /\ aws = bs + 1 /\ ws = bs + 1

\* The register of the write whose response is next has it.
HasWrite == registers[AddrOf(bs + 1)] = bs + 1

\* A write from the latches to the bridge and back.
WriteUnderway ==
    /\ axi_state = "AXI_WRITE_BRIDGE" /\ req_sent =>
           /\ ~bridge_rw /\ bridge_addr = AddrOf(bs + 1) /\ bridge_wdata = bs + 1
           /\ port \in {"asked", "served"} =>
                  ~port_rw /\ port_addr = AddrOf(bs + 1) /\ port_wdata = bs + 1
           /\ port = "served" /\ ~failed => HasWrite
           /\ done /\ ~error => HasWrite
    /\ axi_state = "AXI_WRITE_RESP" /\ resp_reg = "OKAY" => HasWrite

\* A read from the master to the bridge and back.
ReadUnderway ==
    /\ axi_state = "AXI_READ_BRIDGE" =>
           /\ ar_addr_reg = araddr
           /\ req_sent => bridge_rw /\ bridge_addr = araddr
           /\ port \in {"asked", "served"} => port_rw /\ port_addr = araddr
           /\ port = "served" /\ ~failed => fetched >= floor
           /\ done /\ ~error => rdata >= floor
    /\ axi_state = "AXI_READ_RESP" /\ resp_reg = "OKAY" => rdata_reg >= floor

\* What the registers hold has been sent there, and is no older than what the
\* master has been told.
Truthful ==
    /\ port # "resetting" =>
           \A a \in Addr : registers[a] # ResetValue => AddrOf(registers[a]) = a
    /\ \A a \in Addr : okays[a] <= registers[a] /\ okays[a] <= bs
    /\ floor <= okays[araddr]
    /\ port = "resetting" => okays = [a \in Addr |-> 0]

AxiInv ==
    /\ AxiFlagsOK /\ TypeOK /\ Numbers
    /\ Turns /\ Channels
    /\ ~timed_out => Pairing /\ WriteUnderway /\ ReadUnderway /\ Truthful

-----------------------------------------------------------------------------
(* Types                                                                   *)

LEMMA InitTypes ==
    ASSUME AxiInit
    PROVE  AxiFlagsOK /\ TypeOK /\ Numbers
<1>0. 0 \in Data /\ ResetValue = 0 /\ MaxWrites \in Nat /\ 0 \in 0..MaxWrites
  BY AxiAssumption
<1>1. AxiFlagsOK
  BY DEF AxiInit, AtomicInit, AxiFlagsOK
<1>2. channel_timeout_g \in Nat /\ chan_timeout_cnt = 0
  BY AxiAssumption DEF AxiInit
<1>3. Numbers
  BY <1>0, <1>2 DEF AxiInit, Numbers
<1>4. TypeOK
  BY <1>0, <1>2 DEF AxiInit, AtomicInit, TypeOK, AxiStates, Responses
<1> QED
  BY <1>1, <1>3, <1>4

\* The wrapper's own registers.
LEMMA WrapperFlags ==
    ASSUME AxiFlagsOK, p_axi
    PROVE  /\ {awready, wready, arready, bvalid, rvalid}' \subseteq BOOLEAN
           /\ {aw_latched, w_latched, req_sent, bridge_req, bridge_rw, timed_out}' \subseteq BOOLEAN
<1>1. CASE AxiIdle
  BY <1>1 DEF AxiFlagsOK, AxiIdle, ForgetsRequest, TakesAddress, TakesData, NoRequest
<1>2. CASE AxiWriteBridge
  BY <1>2
  DEF AxiFlagsOK, AxiWriteBridge, AcceptsMissing, TakesAddress, TakesData, NoRequest,
      WriteDone, WriteAsked, WriteTimedOut, WriteWaits
<1>3. CASE AxiWriteResp
  BY <1>3 DEF AxiFlagsOK, AxiWriteResp, NoChannel, NoRequest, KeepsPairing
<1>4. CASE AxiReadBridge
  BY <1>4 DEF AxiFlagsOK, AxiReadBridge, NoChannel, NoRequest
<1>5. CASE AxiReadResp
  BY <1>5 DEF AxiFlagsOK, AxiReadResp, NoChannel, NoRequest, KeepsPairing
<1> QED
  BY <1>1, <1>2, <1>3, <1>4, <1>5 DEF p_axi

\* A beat that is offered has a number of its own, and an address.
LEMMA BeatOffered ==
    ASSUME TypeOK, Numbers
    PROVE  /\ awvalid => awaddr \in Addr
           /\ wvalid => wdata \in Data
<1>1. aws \in 0..MaxWrites /\ ws \in 0..MaxWrites
  BY DEF TypeOK
<1> QED
  BY <1>1, AxiAssumption DEF Numbers, awaddr, wdata

LEMMA WrapperWords ==
    ASSUME TypeOK, Numbers, p_axi
    PROVE  /\ axi_state' \in AxiStates
           /\ bresp' \in Responses /\ rresp' \in Responses /\ resp_reg' \in Responses
           /\ {rchannel, rdata_reg, w_data_reg, bridge_wdata}' \subseteq Data
           /\ {aw_addr_reg, ar_addr_reg, bridge_addr}' \subseteq Addr
<1>1. CASE AxiIdle
  BY <1>1, BeatOffered
  DEF TypeOK, AxiIdle, TakesAddress, TakesData, NoRequest, Goto, AxiStates
<1>2. CASE AxiWriteBridge
  BY <1>2, BeatOffered
  DEF TypeOK, AxiWriteBridge, AcceptsMissing, TakesAddress, TakesData, NoRequest, Goto,
      WriteDone, WriteAsked, WriteTimedOut, WriteWaits, KeepsError, AxiStates, Responses
<1>3. CASE AxiWriteResp
  BY <1>3 DEF TypeOK, AxiWriteResp, NoChannel, NoRequest, Goto, AxiStates, latchVars
<1>4. CASE AxiReadBridge
  BY <1>4
  DEF TypeOK, AxiReadBridge, NoChannel, NoRequest, Goto, KeepsFetched, KeepsError, AxiStates,
      Responses, latchVars
<1>5. CASE AxiReadResp
  BY <1>5 DEF TypeOK, AxiReadResp, NoChannel, NoRequest, Goto, AxiStates, latchVars
<1> QED
  BY <1>1, <1>2, <1>3, <1>4, <1>5 DEF p_axi

\* The counter is compared before it is advanced, so it never gets past the
\* generic.
LEMMA CounterKept ==
    ASSUME Numbers, p_axi, UNCHANGED channel_timeout_g, TypeOK
    PROVE  /\ IF channel_timeout_g' = 0 THEN chan_timeout_cnt' = 0
                                        ELSE chan_timeout_cnt' < channel_timeout_g'
           /\ chan_timeout_cnt' \in 0..channel_timeout_g'
<1>1. chan_timeout_cnt \in Nat /\ channel_timeout_g \in Nat
  BY DEF TypeOK, Numbers
<1>2. \/ chan_timeout_cnt' = chan_timeout_cnt \/ chan_timeout_cnt' = 0
      \/ /\ channel_timeout_g > 0 /\ chan_timeout_cnt # channel_timeout_g - 1
         /\ chan_timeout_cnt' = chan_timeout_cnt + 1
  BY DEF p_axi, AxiIdle, AxiWriteBridge, AxiWriteResp, AxiReadBridge, AxiReadResp, KeepsPairing,
         WriteDone, WriteAsked, WriteTimedOut, WriteWaits, ChannelLate, TimesChannels
<1> QED
  BY <1>1, <1>2 DEF Numbers

LEMMA BridgeTypes ==
    ASSUME AxiFlagsOK, TypeOK, BridgeEdge
    PROVE  /\ {port_rw, failed, done, error}' \subseteq BOOLEAN
           /\ port' \in {"idle", "asked", "served", "resetting"}
           /\ {port_wdata, fetched, rdata}' \subseteq Data /\ port_addr' \in Addr
           /\ registers' = registers
BY DEF AxiFlagsOK, TypeOK, BridgeEdge, Ask, Answer, Pause, NoAnswer, askedVars, servedVars

LEMMA MasterTypes ==
    ASSUME AxiFlagsOK, TypeOK, Numbers, MasterEdge,
           bvalid /\ ~timed_out => bs + 1 \in 1..MaxWrites
    PROVE  /\ {awvalid, wvalid, arvalid, ready}' \subseteq BOOLEAN
           /\ {aws, ws, floor}' \subseteq 0..MaxWrites /\ araddr' \in Addr
           /\ bs' \in Nat
           /\ awvalid' => aws' < MaxWrites
           /\ wvalid' => ws' < MaxWrites
           /\ okays' \in [Addr -> 0..MaxWrites]
<1>1. /\ aws \in 0..MaxWrites /\ ws \in 0..MaxWrites /\ floor \in 0..MaxWrites
      /\ bs \in Nat /\ MaxWrites \in Nat
  BY AxiAssumption DEF TypeOK, Numbers
<1>2. /\ {awvalid, wvalid, arvalid, ready}' \subseteq BOOLEAN
  BY DEF AxiFlagsOK, MasterEdge, WriteMaster, ReadMaster, Held
<1>3. bs' \in Nat
  BY <1>1 DEF MasterEdge, WriteMaster
<1>4. aws' \in 0..MaxWrites /\ (awvalid' => aws' < MaxWrites)
  <2>1. aws' = aws \/ (awvalid /\ aws' = aws + 1)
    BY DEF MasterEdge, WriteMaster
  <2>2. awvalid' => aws' < MaxWrites \/ (awvalid /\ aws' = aws)
    BY DEF MasterEdge, WriteMaster, Held
  <2> QED
    BY <1>1, <2>1, <2>2 DEF Numbers
<1>5. ws' \in 0..MaxWrites /\ (wvalid' => ws' < MaxWrites)
  <2>1. ws' = ws \/ (wvalid /\ ws' = ws + 1)
    BY DEF MasterEdge, WriteMaster
  <2>2. wvalid' => ws' < MaxWrites \/ (wvalid /\ ws' = ws)
    BY DEF MasterEdge, WriteMaster, Held
  <2> QED
    BY <1>1, <2>1, <2>2 DEF Numbers
<1>6. okays' \in [Addr -> 0..MaxWrites]
  BY <1>1, AxiAssumption DEF MasterEdge, WriteMaster, Numbers
<1>7. floor' \in 0..MaxWrites /\ araddr' \in Addr
  BY DEF MasterEdge, ReadMaster, TypeOK, Numbers
<1> QED
  BY <1>2, <1>3, <1>4, <1>5, <1>6, <1>7

\* The response that is shown is about a write the master has sent.
LEMMA ResponseOfWrite ==
    ASSUME AxiInv
    PROVE  bvalid /\ ~timed_out => bs + 1 \in 1..MaxWrites
<1>1. aws \in 0..MaxWrites /\ bs \in Nat
  BY DEF AxiInv, TypeOK, Numbers
<1>2. bvalid /\ ~timed_out => aws = bs + 1
  BY DEF AxiInv, Channels, Pairing
<1> QED
  BY <1>1, <1>2

LEMMA BusEdgeTypes ==
    ASSUME AxiInv, BusEdge
    PROVE  AxiFlagsOK' /\ TypeOK' /\ Numbers'
<1>0. /\ AxiFlagsOK /\ TypeOK /\ Numbers
      /\ p_axi /\ BridgeEdge /\ MasterEdge /\ UNCHANGED channel_timeout_g
  BY DEF AxiInv, BusEdge
<1>1. bvalid /\ ~timed_out => bs + 1 \in 1..MaxWrites
  BY ResponseOfWrite
<1>2. AxiFlagsOK'
  BY <1>0, <1>1, WrapperFlags, BridgeTypes, MasterTypes DEF AxiFlagsOK
<1>3. TypeOK'
  BY <1>0, <1>1, WrapperWords, CounterKept, BridgeTypes, MasterTypes DEF TypeOK
<1>4. Numbers'
  BY <1>0, <1>1, CounterKept, MasterTypes DEF Numbers
<1> QED
  BY <1>2, <1>3, <1>4

LEMMA CarryOutTypes ==
    ASSUME AxiFlagsOK, TypeOK, Numbers, CarryOut
    PROVE  AxiFlagsOK' /\ TypeOK' /\ Numbers'
<1>1. UNCHANGED <<wrapperVars, masterVars, channel_timeout_g, askedVars, answerVars>>
  BY DEF CarryOut, Serve, Fail
<1>2. port' = "served" /\ failed' \in BOOLEAN /\ fetched' \in Data
  BY DEF CarryOut, Serve, Fail, TypeOK
<1>3. registers' \in [Addr -> Data]
  BY DEF CarryOut, Serve, Fail, Written, TypeOK
<1> QED
  BY <1>1, <1>2, <1>3
  DEF AxiFlagsOK, TypeOK, Numbers, wrapperVars, masterVars, askedVars, answerVars, readyVars,
      latchVars, bridgeVars

LEMMA ResetTypes ==
    ASSUME AxiFlagsOK, TypeOK, Numbers, AssertReset \/ ReleaseReset
    PROVE  AxiFlagsOK' /\ TypeOK' /\ Numbers'
<1>0. 0 \in Data /\ ResetValue \in Data /\ MaxWrites \in Nat
  BY AxiAssumption
<1>1. CASE AssertReset
  <2>1. AxiFlagsOK'
    BY <1>1 DEF AssertReset, Reset, AxiReset, AxiFlagsOK, askedVars, answerVars
  <2>2. aws' \in 0..MaxWrites /\ ws' = aws' /\ bs' \in Nat /\ floor' = 0
    BY <1>0, <1>1 DEF AssertReset, TypeOK
  <2>3. TypeOK'
    BY <1>0, <1>1, <2>2
    DEF AssertReset, Reset, AxiReset, TypeOK, askedVars, answerVars, Goto, AxiStates, Responses,
        Numbers
  <2>4. Numbers'
    BY <1>0, <1>1, <2>2 DEF AssertReset, AxiReset, Numbers
  <2> QED
    BY <2>1, <2>3, <2>4
<1>2. CASE ReleaseReset
  BY <1>0, <1>2
  DEF ReleaseReset, Release, AxiFlagsOK, TypeOK, Numbers, wrapperVars, masterVars, askedVars,
      readyVars, latchVars, bridgeVars
<1> QED
  BY <1>1, <1>2

-----------------------------------------------------------------------------
(* Who is busy, and what the channels show                                 *)

\* The bridge takes a request on the clock it sees it, and answers later.
LEMMA BridgeEdges ==
    ASSUME AxiFlagsOK, TypeOK, Turns, BusEdge
    PROVE  /\ done' => port = "served" /\ port' = "idle" /\ ~bridge_req
           /\ port' \in {"asked", "served"} => bridge_req \/ (port' = port /\ ~done)
           /\ port' # "resetting"
           /\ bridge_req => port' = "asked" /\ ~done'
BY DEF AxiFlagsOK, TypeOK, Turns, BusEdge, BridgeEdge, Ask, Answer, Pause, NoAnswer

LEMMA BusEdgeTurns ==
    ASSUME AxiFlagsOK, TypeOK, Turns, Channels, BusEdge
    PROVE  Turns'
<1>1. port # "resetting" /\ port' # "resetting"
  BY BridgeEdges DEF BusEdge
<1>2. Bridging /\ req_sent => (Bridging /\ req_sent)' \/ done
  BY DEF BusEdge, Bridging, p_axi, AxiIdle, AxiWriteBridge, AxiWriteResp, AxiReadBridge,
         AxiReadResp, WriteDone, WriteAsked, WriteTimedOut, WriteWaits, ChannelLate, TimesChannels,
         Paired, Goto, Turns
<1>3. bridge_req' => /\ Bridging' /\ req_sent' /\ ~req_sent /\ ~done
  BY DEF BusEdge, Bridging, p_axi, AxiIdle, AxiWriteBridge, AxiWriteResp, AxiReadBridge,
         AxiReadResp, WriteDone, WriteAsked, WriteTimedOut, WriteWaits, NoRequest, Goto
<1>4. bridge_req' => port' = "idle" /\ ~done'
  <2>1. bridge_req' => port = "idle" /\ ~bridge_req
    BY <1>1, <1>3 DEF Turns, TypeOK
  <2> QED
    BY <2>1 DEF BusEdge, BridgeEdge, Ask, Answer, Pause, NoAnswer
<1>5. done' => port' = "idle"
  BY BridgeEdges
<1>6. port' \in {"asked", "served"} \/ done' => Bridging /\ req_sent /\ ~done
  BY <1>1, BridgeEdges DEF Turns
<1>7. axi_state' = "AXI_WRITE_BRIDGE" /\ req_sent' =>
          aw_latched' /\ w_latched' /\ ~awready' /\ ~wready'
  <2> SUFFICES ASSUME axi_state' = "AXI_WRITE_BRIDGE", req_sent'
               PROVE  aw_latched' /\ w_latched' /\ ~awready' /\ ~wready'
    OBVIOUS
  <2>1. AxiWriteBridge
    BY DEF BusEdge, p_axi, AxiIdle, AxiWriteResp, AxiReadBridge, AxiReadResp, Goto, ForgetsRequest
  <2>2. aw_latched /\ w_latched /\ aw_latched' /\ w_latched'
    <3>1. CASE WriteAsked
      BY <3>1 DEF WriteAsked, Paired
    <3>2. CASE WriteWaits
      <4>1. aw_latched /\ w_latched
        BY <2>1, <3>2 DEF AxiWriteBridge, WriteWaits, Turns
      <4>2. aw_latched' = (aw_latched \/ awvalid) /\ w_latched' = (w_latched \/ wvalid)
        BY <3>2 DEF WriteWaits
      <4> QED
        BY <4>1, <4>2, Zenon
    <3> QED
      BY <2>1, <3>1, <3>2 DEF AxiWriteBridge, WriteDone, WriteTimedOut, Goto
  <2>3. awready' = (~aw_latched /\ awvalid) /\ wready' = (~w_latched /\ wvalid)
    BY <2>1 DEF AxiWriteBridge, AcceptsMissing, TakesAddress, TakesData
  <2> QED
    BY <2>2, <2>3, Zenon
<1> QED
  BY <1>1, <1>2, <1>3, <1>4, <1>5, <1>6, <1>7 DEF Turns

LEMMA BusEdgeChannels ==
    ASSUME AxiFlagsOK, TypeOK, Turns, Channels, BusEdge
    PROVE  Channels'
<1>1. /\ awready' => awvalid /\ ~awready
      /\ wready' => wvalid /\ ~wready
      /\ awready' \/ wready' => axi_state' \in {"AXI_WRITE_BRIDGE", "AXI_WRITE_RESP"}
  BY DEF BusEdge, p_axi, AxiIdle, AxiWriteBridge, AxiWriteResp, AxiReadBridge, AxiReadResp,
         WriteDone, WriteAsked, WriteTimedOut, WriteWaits, Goto, Channels, AxiFlagsOK,
         AcceptsMissing, TakesAddress, TakesData, NoChannel
<1>2. /\ awvalid /\ ~awready => awvalid'
      /\ wvalid /\ ~wready => wvalid'
  BY DEF BusEdge, MasterEdge, WriteMaster, Held
<1>3. axi_state' = "AXI_WRITE_BRIDGE" =>
          (awready' => aw_latched') /\ (wready' => w_latched')
  <2>1. CASE AxiIdle
    <3>1. /\ awready' = (~arvalid /\ awvalid) /\ wready' = (~arvalid /\ wvalid)
          /\ aw_latched' = (~arvalid /\ awvalid) /\ w_latched' = (~arvalid /\ wvalid)
      BY <2>1 DEF AxiIdle, TakesAddress, TakesData
    <3> QED
      BY <3>1, Zenon
  <2>2. CASE AxiWriteBridge /\ axi_state' = "AXI_WRITE_BRIDGE"
    <3>1. awready' = (~aw_latched /\ awvalid) /\ wready' = (~w_latched /\ wvalid)
      BY <2>2 DEF AxiWriteBridge, AcceptsMissing, TakesAddress, TakesData
    <3>2. CASE WriteAsked
      BY <3>1, <3>2, Zenon DEF WriteAsked, Paired
    <3>3. CASE WriteWaits
      <4>1. aw_latched' = (aw_latched \/ awvalid) /\ w_latched' = (w_latched \/ wvalid)
        BY <3>3 DEF WriteWaits
      <4> QED
        BY <3>1, <4>1, Zenon
    <3> QED
      BY <2>2, <3>2, <3>3 DEF AxiWriteBridge, WriteDone, WriteTimedOut, Goto
  <2> QED
    BY <2>1, <2>2 DEF BusEdge, p_axi, AxiWriteResp, AxiReadBridge, AxiReadResp, Goto
<1>4. bvalid' => axi_state' = "AXI_WRITE_RESP" /\ bresp' = resp_reg'
  BY DEF BusEdge, p_axi, AxiIdle, AxiWriteBridge, AxiWriteResp, AxiReadBridge, AxiReadResp,
         Goto, Channels
<1>5. rvalid' => axi_state' = "AXI_READ_RESP" /\ rresp' = resp_reg' /\ rchannel' = rdata_reg'
  BY DEF BusEdge, p_axi, AxiIdle, AxiWriteBridge, AxiWriteResp, AxiReadBridge, AxiReadResp,
         Goto, Channels
<1> QED
  BY <1>1, <1>2, <1>3, <1>4, <1>5 DEF Channels

LEMMA OtherTurns ==
    ASSUME AxiFlagsOK, TypeOK, Turns, Channels, CarryOut \/ AssertReset \/ ReleaseReset
    PROVE  Turns' /\ Channels'
<1>1. CASE CarryOut
  BY <1>1
  DEF CarryOut, Serve, Fail, Turns, Channels, Bridging, wrapperVars, masterVars, answerVars,
      readyVars, bridgeVars
<1>2. CASE AssertReset
  BY <1>2
  DEF AssertReset, Reset, AxiReset, Turns, Channels, Bridging, answerVars, Goto
<1>3. CASE ReleaseReset
  BY <1>3
  DEF ReleaseReset, Release, Turns, Channels, Bridging, wrapperVars, masterVars, readyVars,
      bridgeVars
<1> QED
  BY <1>1, <1>2, <1>3

-----------------------------------------------------------------------------
(* The two halves of a write stay together                                 *)

\* One step of the beat counters.
LEMMA Counts ==
    ASSUME AxiFlagsOK, TypeOK, Channels, BusEdge
    PROVE  /\ aws' = Beats(aws, awready) /\ ws' = Beats(ws, wready)
           /\ bvalid /\ ready => bs' = bs + 1 /\ axi_state = "AXI_WRITE_RESP"
           /\ ~(bvalid /\ ready) => bs' = bs
           /\ axi_state # "AXI_WRITE_RESP" => bs' = bs
<1>1. /\ aws' = IF awvalid /\ awready THEN aws + 1 ELSE aws
      /\ ws' = IF wvalid /\ wready THEN ws + 1 ELSE ws
      /\ bs' = IF bvalid /\ ready THEN bs + 1 ELSE bs
  BY DEF BusEdge, MasterEdge, WriteMaster
<1> QED
  BY <1>1 DEF Beats, Channels

LEMMA IdlePairing ==
    ASSUME AxiInv, AxiIdle, BusEdge, Pairing
    PROVE  Pairing'
<1>1. /\ aws' = aws /\ ws' = ws /\ bs' = bs /\ aws = bs /\ ws = bs
  BY Counts DEF AxiInv, AxiIdle, Channels, Beats, Pairing
<1>2. /\ awready' = aw_latched' /\ wready' = w_latched'
      /\ awready' => aw_addr_reg' = AddrOf(aws + 1)
      /\ wready' => w_data_reg' = ws + 1
  BY DEF AxiIdle, TakesAddress, TakesData, awaddr, wdata
<1>3. axi_state' # "AXI_WRITE_RESP"
  BY DEF AxiIdle, Goto
<1> QED
  BY <1>1, <1>2, <1>3 DEF Pairing, Beats

LEMMA WritePairing ==
    ASSUME AxiInv, AxiWriteBridge, BusEdge, Pairing, ~timed_out'
    PROVE  Pairing'
<1>0. /\ axi_state = "AXI_WRITE_BRIDGE" /\ AxiFlagsOK /\ Turns /\ Channels /\ bs \in Nat
      /\ aws \in Nat /\ ws \in Nat
  BY AxiAssumption DEF AxiInv, AxiWriteBridge, Numbers, TypeOK
<1>1. /\ aws' = Beats(aws, awready) /\ ws' = Beats(ws, wready) /\ bs' = bs
  BY <1>0, Counts DEF AxiInv
<1>2. /\ awready' = (~aw_latched /\ awvalid) /\ wready' = (~w_latched /\ wvalid)
      /\ aw_addr_reg' = IF ~aw_latched /\ awvalid THEN AddrOf(aws + 1) ELSE aw_addr_reg
      /\ w_data_reg' = IF ~w_latched /\ wvalid THEN ws + 1 ELSE w_data_reg
  BY DEF AxiWriteBridge, AcceptsMissing, TakesAddress, TakesData, awaddr, wdata
<1>3. \/ /\ aw_latched' = (aw_latched \/ awvalid) /\ w_latched' = (w_latched \/ wvalid)
      \/ aw_latched /\ w_latched /\ UNCHANGED <<aw_latched, w_latched>>
  BY DEF AxiWriteBridge, WriteDone, WriteAsked, WriteTimedOut, WriteWaits, Paired
<1>4. /\ axi_state' \in {"AXI_WRITE_BRIDGE", "AXI_WRITE_RESP"}
      /\ axi_state' = "AXI_WRITE_RESP" => aw_latched /\ w_latched /\ ~awready /\ ~wready
  BY <1>0 DEF BusEdge, Turns, AxiWriteBridge, WriteDone, WriteAsked, WriteTimedOut, WriteWaits,
              Goto
<1>5. IF aw_latched' THEN Beats(aws', awready') = bs + 1 /\ aw_addr_reg' = AddrOf(bs + 1)
                     ELSE aws' = bs
  BY <1>0, <1>1, <1>2, <1>3 DEF Pairing, Beats, Channels
<1>6. IF w_latched' THEN Beats(ws', wready') = bs + 1 /\ w_data_reg' = bs + 1
                    ELSE ws' = bs
  BY <1>0, <1>1, <1>2, <1>3 DEF Pairing, Beats, Channels
<1>7. axi_state' = "AXI_WRITE_RESP" =>
          ~awready' /\ ~wready' /\ aws' = bs + 1 /\ ws' = bs + 1
  BY <1>0, <1>1, <1>2, <1>4 DEF Pairing, Beats
<1> QED
  BY <1>1, <1>4, <1>5, <1>6, <1>7 DEF Pairing

LEMMA OtherPairing ==
    ASSUME AxiInv, AxiWriteResp \/ AxiReadBridge \/ AxiReadResp, BusEdge, Pairing
    PROVE  Pairing'
<1>1. CASE AxiWriteResp
  <2>1. aws' = bs + 1 /\ ws' = bs + 1 /\ bs' = IF bvalid /\ ready THEN bs + 1 ELSE bs
    BY <1>1, Counts DEF AxiInv, AxiWriteResp, Pairing, Beats
  <2> QED
    BY <1>1, <2>1 DEF AxiWriteResp, Pairing, NoChannel, Goto
<1>2. CASE AxiReadBridge \/ AxiReadResp
  <2>1. aws' = bs' /\ ws' = bs'
    BY <1>2, Counts DEF AxiInv, AxiReadBridge, AxiReadResp, Channels, Pairing, Beats
  <2>2. axi_state' \in {"AXI_IDLE", "AXI_READ_BRIDGE", "AXI_READ_RESP"}
    BY <1>2 DEF AxiReadBridge, AxiReadResp, Goto
  <2> QED
    BY <2>1, <2>2 DEF Pairing
<1> QED
  BY <1>1, <1>2

LEMMA BusEdgePairing ==
    ASSUME AxiInv, BusEdge, ~timed_out'
    PROVE  ~timed_out /\ Pairing'
<1>1. ~timed_out
  BY DEF BusEdge, p_axi, AxiIdle, AxiWriteBridge, AxiWriteResp, AxiReadBridge, AxiReadResp,
         WriteDone, WriteAsked, WriteTimedOut, WriteWaits
<1>2. Pairing /\ p_axi
  BY <1>1 DEF AxiInv, BusEdge
<1> QED
  BY <1>1, <1>2, IdlePairing, WritePairing, OtherPairing DEF p_axi

-----------------------------------------------------------------------------
(* A write, and a read, from the wrapper to the port and back              *)

\* The port stays idle on the clock that raises a request.
LEMMA RaisedAtRest ==
    ASSUME AxiFlagsOK, TypeOK, Turns, BusEdge, Bridging, ~req_sent
    PROVE  port' = "idle" /\ ~done'
<1>1. port = "idle" /\ ~bridge_req
  BY DEF Turns, TypeOK, BusEdge, Bridging
<1> QED
  BY <1>1 DEF BusEdge, BridgeEdge, Ask, Answer, Pause, NoAnswer

LEMMA BusEdgeWrite ==
    ASSUME AxiInv, BusEdge, Pairing, WriteUnderway, ~timed_out'
    PROVE  WriteUnderway'
<1>0. /\ AxiFlagsOK /\ TypeOK /\ Turns /\ Channels
      /\ registers' = registers
  BY BridgeTypes DEF AxiInv, BusEdge
<1>1. axi_state # "AXI_WRITE_RESP" => (HasWrite <=> HasWrite') /\ bs' = bs
  BY <1>0, Counts DEF HasWrite
<1>2. ASSUME axi_state' = "AXI_WRITE_BRIDGE", req_sent'
      PROVE  /\ ~bridge_rw' /\ bridge_addr' = AddrOf(bs + 1) /\ bridge_wdata' = bs + 1
             /\ port' \in {"asked", "served"} =>
                    ~port_rw' /\ port_addr' = AddrOf(bs + 1) /\ port_wdata' = bs + 1
             /\ port' = "served" /\ ~failed' => HasWrite
             /\ done' /\ ~error' => HasWrite
             /\ bs' = bs
             /\ axi_state # "AXI_WRITE_RESP"
  <2>1. AxiWriteBridge /\ axi_state = "AXI_WRITE_BRIDGE" /\ bs' = bs
    BY <1>1, <1>2
    DEF BusEdge, p_axi, AxiIdle, AxiWriteBridge, AxiWriteResp, AxiReadBridge, AxiReadResp, Goto,
        ForgetsRequest
  <2>2. CASE ~req_sent
    <3>1. WriteAsked
      BY <1>2, <2>1, <2>2
      DEF AxiWriteBridge, WriteDone, WriteTimedOut, WriteWaits, Goto
    <3>2. port' = "idle" /\ ~done'
      BY <1>0, <2>1, <2>2, RaisedAtRest DEF Bridging
    <3>3. aw_latched /\ w_latched
      BY <3>1 DEF WriteAsked, Paired
    <3> QED
      BY <2>1, <3>1, <3>2, <3>3 DEF WriteAsked, Pairing
  <2>3. CASE req_sent
    <3>1. UNCHANGED <<bridge_rw, bridge_addr, bridge_wdata>>
      BY <1>2, <2>1, <2>3
      DEF AxiWriteBridge, WriteDone, WriteAsked, WriteTimedOut, WriteWaits, Goto, NoRequest
    <3>2. /\ ~bridge_rw /\ bridge_addr = AddrOf(bs + 1) /\ bridge_wdata = bs + 1
          /\ port \in {"asked", "served"} =>
                 ~port_rw /\ port_addr = AddrOf(bs + 1) /\ port_wdata = bs + 1
          /\ port = "served" /\ ~failed => HasWrite
      BY <2>1, <2>3 DEF WriteUnderway
    <3>3. /\ port' \in {"asked", "served"} =>
                 ~port_rw' /\ port_addr' = AddrOf(bs + 1) /\ port_wdata' = bs + 1
          /\ port' = "served" /\ ~failed' => HasWrite
          /\ done' /\ ~error' => HasWrite
      BY <3>2 DEF BusEdge, BridgeEdge, Ask, Answer, Pause, NoAnswer, askedVars, servedVars
    <3> QED
      BY <2>1, <3>1, <3>2, <3>3
  <2> QED
    BY <2>2, <2>3
<1>3. ASSUME axi_state' = "AXI_WRITE_RESP", resp_reg' = "OKAY"
      PROVE  HasWrite /\ bs' = bs
  <2>1. CASE AxiWriteBridge
    <3>1. WriteDone
      BY <1>3, <2>1 DEF BusEdge, AxiWriteBridge, WriteAsked, WriteTimedOut, WriteWaits
    <3>2. done /\ ~error /\ req_sent /\ axi_state = "AXI_WRITE_BRIDGE"
      BY <1>0, <1>3, <2>1, <3>1 DEF WriteDone, KeepsError, AxiWriteBridge, Turns, BusEdge
    <3> QED
      BY <1>1, <3>2 DEF WriteUnderway
  <2>2. CASE AxiWriteResp
    BY <1>0, <1>3, <2>2, Counts DEF AxiWriteResp, Goto, WriteUnderway
  <2> QED
    BY <1>3, <2>1, <2>2 DEF BusEdge, p_axi, AxiIdle, AxiReadBridge, AxiReadResp, Goto
<1>4. HasWrite /\ bs' = bs => HasWrite'
  BY <1>0 DEF HasWrite
<1> QED
  BY <1>2, <1>3, <1>4 DEF WriteUnderway

LEMMA BusEdgeRead ==
    ASSUME AxiInv, BusEdge, ReadUnderway, Turns'
    PROVE  ReadUnderway'
<1>0. AxiFlagsOK /\ TypeOK /\ Turns /\ Channels
  BY DEF AxiInv
<1>1. CASE AxiIdle
  <2>1. axi_state' = "AXI_READ_BRIDGE" =>
            ar_addr_reg' = araddr /\ ~req_sent' /\ araddr' = araddr
    BY <1>1 DEF AxiIdle, Goto, ForgetsRequest, BusEdge, MasterEdge, ReadMaster
  <2>2. axi_state' = "AXI_READ_BRIDGE" => port' \notin {"asked", "served"} /\ ~done'
    BY <2>1, BridgeEdges, <1>0 DEF Turns
  <2> QED
    BY <1>1, <2>1, <2>2 DEF AxiIdle, Goto, ReadUnderway
<1>2. CASE AxiWriteBridge \/ AxiWriteResp
  BY <1>2
  DEF AxiWriteBridge, AxiWriteResp, WriteDone, WriteAsked, WriteTimedOut, WriteWaits, Goto,
      ReadUnderway
<1>3. CASE AxiReadBridge
  <2>0. axi_state = "AXI_READ_BRIDGE" /\ araddr' = araddr /\ floor' = floor
    BY <1>3 DEF AxiReadBridge, BusEdge, MasterEdge, ReadMaster
  <2>1. ar_addr_reg' = araddr' /\ axi_state' \in {"AXI_READ_BRIDGE", "AXI_READ_RESP"}
    BY <1>3, <2>0 DEF AxiReadBridge, NoChannel, latchVars, Goto, ReadUnderway
  <2>2. CASE ~req_sent
    <3>1. port' = "idle" /\ ~done'
      BY <1>0, <2>0, <2>2, RaisedAtRest DEF Bridging
    <3>2. axi_state' = "AXI_READ_BRIDGE" => bridge_rw' /\ bridge_addr' = araddr'
      BY <1>3, <2>0, <2>2 DEF AxiReadBridge, Goto, ReadUnderway
    <3>3. ~done
      BY <1>0, <2>2 DEF Turns, BusEdge
    <3>4. axi_state' = "AXI_READ_BRIDGE"
      BY <1>3, <3>3, <2>2 DEF AxiReadBridge
    <3> QED
      BY <2>1, <3>1, <3>2, <3>4 DEF ReadUnderway
  <2>3. CASE req_sent /\ ~done
    <3>1. UNCHANGED <<bridge_rw, bridge_addr, axi_state>>
      BY <1>3, <2>3 DEF AxiReadBridge, NoRequest
    <3>2. /\ port' \in {"asked", "served"} => port_rw' /\ port_addr' = araddr
          /\ port' = "served" /\ ~failed' => fetched' >= floor
          /\ done' /\ ~error' => rdata' >= floor
      BY <2>0, <2>3
      DEF ReadUnderway, BusEdge, BridgeEdge, Ask, Answer, Pause, NoAnswer, askedVars, servedVars
    <3> QED
      BY <2>0, <2>1, <2>3, <3>1, <3>2 DEF ReadUnderway
  <2>4. CASE done
    <3>1. axi_state' = "AXI_READ_RESP" /\ (resp_reg' = "OKAY" => ~error) /\ rdata_reg' = rdata
      BY <1>3, <2>4 DEF AxiReadBridge, Goto, KeepsFetched, KeepsError
    <3> QED
      BY <2>0, <2>4, <3>1 DEF ReadUnderway
  <2> QED
    BY <2>2, <2>3, <2>4
<1>4. CASE AxiReadResp
  BY <1>4 DEF AxiReadResp, Goto, ReadUnderway, BusEdge, MasterEdge, ReadMaster
<1> QED
  BY <1>1, <1>2, <1>3, <1>4 DEF BusEdge, p_axi

\* The master believes what it is told, and is told the truth.
LEMMA BusEdgeTruthful ==
    ASSUME AxiInv, BusEdge, ~timed_out, Pairing, WriteUnderway, Truthful
    PROVE  Truthful'
<1>0. /\ AxiFlagsOK /\ TypeOK /\ Turns /\ Channels /\ bs \in Nat
      /\ okays \in [Addr -> 0..MaxWrites] /\ floor \in Nat /\ MaxWrites \in Nat
      /\ registers' = registers /\ registers \in [Addr -> 0..MaxWrites]
      /\ port # "resetting" /\ port' # "resetting"
      /\ floor' \in Nat /\ araddr' \in Addr
  <2>1. AxiFlagsOK /\ TypeOK /\ Numbers /\ Turns /\ Channels /\ BridgeEdge /\ port # "resetting"
    BY DEF AxiInv, BusEdge
  <2>2. TypeOK'
    BY BusEdgeTypes
  <2>3. port' # "resetting" /\ registers' = registers
    BY <2>1, BridgeTypes, BridgeEdges
  <2>4. floor \in Nat /\ floor' \in Nat /\ araddr' \in Addr
    BY <2>1, <2>2 DEF TypeOK
  <2>5. bs \in Nat /\ okays \in [Addr -> 0..MaxWrites]
    BY <2>1 DEF Numbers
  <2> QED
    BY <2>1, <2>3, <2>4, <2>5, AxiAssumption DEF TypeOK
<1>1. \A a \in Addr : registers'[a] # ResetValue => AddrOf(registers'[a]) = a
  BY <1>0 DEF Truthful
<1>2. /\ bs' \in {bs, bs + 1}
      /\ okays' # okays => /\ bs' = bs + 1 /\ HasWrite
                          /\ okays' = [okays EXCEPT ![AddrOf(bs + 1)] = bs + 1]
  <2>1. okays' # okays => /\ bvalid /\ ready /\ bresp = "OKAY"
                          /\ okays' = [okays EXCEPT ![AddrOf(bs + 1)] = bs + 1]
    BY DEF BusEdge, MasterEdge, WriteMaster
  <2>2. bvalid /\ bresp = "OKAY" => axi_state = "AXI_WRITE_RESP" /\ resp_reg = "OKAY"
    BY <1>0 DEF Channels
  <2> QED
    BY <1>0, <2>1, <2>2, Counts DEF WriteUnderway
<1>3. \A a \in Addr : okays'[a] <= registers'[a] /\ okays'[a] <= bs' /\ okays[a] <= okays'[a]
  <2>1. CASE okays' = okays
    BY <1>0, <1>2, <2>1 DEF Truthful
  <2>2. CASE okays' # okays
    BY <1>0, <1>2, <2>2 DEF Truthful, HasWrite
  <2> QED
    BY <2>1, <2>2
<1>4. floor' <= okays[araddr']
  BY <1>0 DEF BusEdge, MasterEdge, ReadMaster, Truthful
<1>5. floor' <= okays'[araddr']
  <2>1. okays'[araddr'] \in Nat /\ okays[araddr'] \in Nat
    BY <1>0, <1>2
  <2> QED
    BY <1>0, <1>3, <1>4, <2>1
<1> QED
  BY <1>0, <1>1, <1>3, <1>5 DEF Truthful

-----------------------------------------------------------------------------
(* The other steps                                                         *)

\* Carrying out a write puts it where it belongs; a read finds nothing older
\* than what the master knows.
LEMMA CarryOutKeeps ==
    ASSUME AxiInv, CarryOut, ~timed_out
    PROVE  Pairing' /\ WriteUnderway' /\ ReadUnderway' /\ Truthful'
<1>0. /\ AxiFlagsOK /\ TypeOK /\ Numbers /\ Turns
      /\ Pairing /\ WriteUnderway /\ ReadUnderway /\ Truthful
  BY DEF AxiInv
<1>1. /\ UNCHANGED <<wrapperVars, masterVars, askedVars, answerVars>>
      /\ port = "asked" /\ port' = "served" /\ ~done
  BY <1>0 DEF CarryOut, Serve, Fail, Turns
<1>2. Bridging /\ req_sent
  BY <1>0, <1>1 DEF Turns
<1>3. Pairing'
  BY <1>0, <1>1 DEF Pairing, wrapperVars, masterVars, readyVars, latchVars
<1>4. CASE axi_state = "AXI_WRITE_BRIDGE"
  <2>1. ~port_rw /\ port_addr = AddrOf(bs + 1) /\ port_wdata = bs + 1
    BY <1>0, <1>1, <1>2, <1>4 DEF WriteUnderway
  <2>2. AddrOf(bs + 1) \in Addr /\ bs \in Nat
    BY <1>0, <2>1 DEF TypeOK, Numbers
  <2>3. registers' = registers \/ registers' = Written
    BY DEF CarryOut, Serve, Fail
  <2>4. ~failed' => registers' = Written
    BY <2>1 DEF CarryOut, Serve, Fail
  <2>5. ~failed' => HasWrite'
    BY <1>0, <1>1, <2>1, <2>2, <2>4 DEF HasWrite, Written, TypeOK, masterVars
  <2>6. WriteUnderway'
    BY <1>0, <1>1, <1>4, <2>5
    DEF WriteUnderway, wrapperVars, masterVars, askedVars, answerVars, bridgeVars
  <2>7. ReadUnderway'
    BY <1>1, <1>4 DEF ReadUnderway, wrapperVars
  <2>8. \A a \in Addr : registers'[a] = registers[a] \/ (a = AddrOf(bs + 1) /\ registers'[a] = bs + 1)
    BY <1>0, <2>1, <2>2, <2>3 DEF Written, TypeOK
  <2>9. \A a \in Addr : okays[a] \in Nat /\ okays[a] <= bs
    <3>1. okays \in [Addr -> 0..MaxWrites] /\ MaxWrites \in Nat
      BY <1>0, AxiAssumption DEF Numbers
    <3>2. \A a \in Addr : okays[a] \in Nat
      BY <3>1
    <3> QED
      BY <1>0, <3>2 DEF Truthful
  <2>10. \A a \in Addr : okays[a] <= registers'[a]
    BY <1>0, <2>2, <2>8, <2>9 DEF Truthful
  <2>11. \A a \in Addr : registers'[a] # ResetValue => AddrOf(registers'[a]) = a
    BY <1>0, <1>1, <2>8 DEF Truthful
  <2>12. /\ \A a \in Addr : okays'[a] <= registers'[a] /\ okays'[a] <= bs'
         /\ floor' <= okays'[araddr']
    BY <1>0, <1>1, <2>9, <2>10 DEF masterVars, Truthful
  <2>13. Truthful'
    BY <1>1, <2>11, <2>12 DEF Truthful
  <2> QED
    BY <1>3, <2>6, <2>7, <2>13
<1>5. CASE axi_state = "AXI_READ_BRIDGE"
  <2>1. port_rw /\ port_addr = araddr
    BY <1>0, <1>1, <1>2, <1>5 DEF ReadUnderway
  <2>2. registers' = registers /\ (~failed' => fetched' = registers[araddr])
    BY <2>1 DEF CarryOut, Serve, Fail
  <2>3. ~failed' => fetched' >= floor
    <3>1. floor \in Nat /\ okays[araddr] \in Nat /\ registers[araddr] \in Nat /\ araddr \in Addr
      BY <1>0, AxiAssumption DEF TypeOK, Numbers
    <3>2. floor <= okays[araddr] /\ okays[araddr] <= registers[araddr]
      BY <1>0, <3>1 DEF Truthful
    <3> QED
      BY <2>2, <3>1, <3>2
  <2>4. ReadUnderway'
    BY <1>0, <1>1, <1>5, <2>3
    DEF ReadUnderway, wrapperVars, masterVars, askedVars, answerVars, bridgeVars, latchVars
  <2>5. WriteUnderway'
    BY <1>1, <1>5 DEF WriteUnderway, wrapperVars
  <2>6. Truthful'
    BY <1>0, <1>1, <2>2 DEF Truthful, masterVars
  <2> QED
    BY <1>3, <2>4, <2>5, <2>6
<1> QED
  BY <1>2, <1>4, <1>5 DEF Bridging

LEMMA ResetKeeps ==
    ASSUME AxiInv, AssertReset \/ ReleaseReset, ~timed_out'
    PROVE  Pairing' /\ WriteUnderway' /\ ReadUnderway' /\ Truthful'
<1>0. AxiFlagsOK /\ TypeOK /\ Numbers /\ Turns /\ MaxWrites \in Nat
      /\ Data = 0..MaxWrites /\ ResetValue = 0
  BY AxiAssumption DEF AxiInv
<1>1. CASE AssertReset
  <2>1. /\ axi_state' = "AXI_IDLE" /\ port' = "resetting"
        /\ aws' = bs' /\ ws' = bs' /\ okays' = [a \in Addr |-> 0] /\ floor' = 0
        /\ registers' = registers /\ araddr' = port_addr
    BY <1>1 DEF AssertReset, Reset, AxiReset, Goto
  <2>2. bs' \in Nat
    BY <1>0, <1>1, ResetTypes DEF Numbers
  <2>3. Truthful'
    BY <1>0, <2>1, <2>2 DEF Truthful, TypeOK
  <2> QED
    BY <2>1, <2>3 DEF Pairing, WriteUnderway, ReadUnderway
<1>2. CASE ReleaseReset
  <2>1. /\ UNCHANGED <<wrapperVars, masterVars>>
        /\ port = "resetting" /\ port' = "idle" /\ registers' = [a \in Addr |-> 0]
    BY <1>0, <1>2 DEF ReleaseReset, Release
  <2>2. axi_state = "AXI_IDLE" /\ Pairing /\ Truthful
    BY <2>1 DEF AxiInv, Turns, wrapperVars
  <2>3. Truthful'
    BY <1>0, <2>1, <2>2 DEF Truthful, masterVars, Numbers
  <2> QED
    BY <2>1, <2>2, <2>3
    DEF Pairing, WriteUnderway, ReadUnderway, wrapperVars, masterVars, readyVars, latchVars
<1> QED
  BY <1>1, <1>2

LEMMA InitInv == AxiInit => AxiInv
<1> SUFFICES ASSUME AxiInit
             PROVE  AxiInv
  OBVIOUS
<1>1. AxiFlagsOK /\ TypeOK /\ Numbers
  BY InitTypes
<1>2. Turns /\ Channels
  BY DEF AxiInit, AtomicInit, Turns, Channels, Bridging
<1>3. Pairing /\ WriteUnderway /\ ReadUnderway
  BY DEF AxiInit, AtomicInit, Pairing, WriteUnderway, ReadUnderway
<1>4. Truthful
  BY <1>1, AxiAssumption DEF AxiInit, AtomicInit, Truthful, TypeOK
<1> QED
  BY <1>1, <1>2, <1>3, <1>4 DEF AxiInv

LEMMA NextInv == AxiInv /\ [AxiNext]_axiVars => AxiInv'
<1> SUFFICES ASSUME AxiInv, [AxiNext]_axiVars
             PROVE  AxiInv'
  OBVIOUS
<1>0. AxiFlagsOK /\ TypeOK /\ Numbers /\ Turns /\ Channels
  BY DEF AxiInv
<1>1. CASE BusEdge
  <2>1. AxiFlagsOK' /\ TypeOK' /\ Numbers' /\ Turns' /\ Channels'
    BY <1>0, <1>1, BusEdgeTypes, BusEdgeTurns, BusEdgeChannels
  <2>2. ASSUME ~timed_out'
        PROVE  Pairing' /\ WriteUnderway' /\ ReadUnderway' /\ Truthful'
    <3>1. ~timed_out /\ Pairing'
      BY <1>1, <2>2, BusEdgePairing
    <3>2. Pairing /\ WriteUnderway /\ ReadUnderway /\ Truthful
      BY <3>1 DEF AxiInv
    <3> QED
      BY <1>1, <2>1, <2>2, <3>1, <3>2, BusEdgeWrite, BusEdgeRead, BusEdgeTruthful
  <2> QED
    BY <2>1, <2>2 DEF AxiInv
<1>2. CASE CarryOut
  <2>1. timed_out' = timed_out
    BY <1>2 DEF CarryOut, wrapperVars
  <2> QED
    BY <1>0, <1>2, <2>1, CarryOutTypes, OtherTurns, CarryOutKeeps DEF AxiInv
<1>3. CASE AssertReset \/ ReleaseReset
  BY <1>0, <1>3, ResetTypes, OtherTurns, ResetKeeps DEF AxiInv
<1>4. CASE UNCHANGED axiVars
  BY <1>4
  DEF axiVars, atomicVars, askedVars, servedVars, answerVars, wrapperVars, readyVars, latchVars,
      bridgeVars, masterVars, AxiInv, AxiFlagsOK, TypeOK, Numbers, Turns, Bridging, Channels,
      Pairing, Beats, WriteUnderway, HasWrite, ReadUnderway, Truthful
<1> QED
  BY <1>1, <1>2, <1>3, <1>4 DEF AxiNext

LEMMA AxiInvariant == AxiSpec => []AxiInv
BY InitInv, NextInv, PTL DEF AxiSpec

-----------------------------------------------------------------------------
(* The theorems                                                            *)

\* Every register of the wrapper and the master keeps its type, and the
\* channel timeout counts within its generic.
THEOREM TypeCorrect == AxiSpec => []TypeOK
<1>1. AxiInv => TypeOK
  BY DEF AxiInv
<1> QED
  BY <1>1, AxiInvariant, PTL

\* p_axi raises bridge_req only while the bridge listens.
THEOREM NeverAsksBusyPort == AxiSpec => []AsksOnlyIdlePort
<1>1. AxiInv => AsksOnlyIdlePort
  BY DEF AxiInv, Turns, AsksOnlyIdlePort
<1> QED
  BY <1>1, AxiInvariant, PTL

\* The address and the data of a write, taken from two channels in any order,
\* reach the register together, up to the first channel timeout.
THEOREM HalvesStayTogether == AxiSpec => []WrittenWhereSent
<1>1. AxiInv => WrittenWhereSent
  BY DEF AxiInv, Truthful, WrittenWhereSent
<1> QED
  BY <1>1, AxiInvariant, PTL

\* An OKAY on the response channel is given for a write whose two beats have
\* been taken and whose register has it.
THEOREM OkayIsTrue == AxiSpec => []OkayMeansWritten
<1>1. ASSUME AxiInv
      PROVE  OkayMeansWritten
  <2>1. aws \in Nat /\ ws \in Nat /\ bs \in Nat
    BY <1>1, AxiAssumption DEF AxiInv, TypeOK, Numbers
  <2> QED
    BY <1>1, <2>1
    DEF AxiInv, Channels, Pairing, WriteUnderway, HasWrite, OkayMeansWritten
<1> QED
  BY <1>1, AxiInvariant, PTL

\* A read answered OKAY is no older than the newest write whose OKAY the master
\* had when it asked.
THEOREM ReadsAreFresh == AxiSpec => []ReadsSeeWrites
<1>1. AxiInv => ReadsSeeWrites
  BY DEF AxiInv, Channels, ReadUnderway, ReadsSeeWrites
<1> QED
  BY <1>1, AxiInvariant, PTL
=============================================================================
