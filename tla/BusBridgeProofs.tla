--------------------------- MODULE BusBridgeProofs ---------------------------
(***************************************************************************)
(* Theorems about BusBridge, for every value of its constants: its types,  *)
(* the FPU's port under it and, with resets at any moment, as long as the  *)
(* bus timeout and the reset are long enough (Timely), the agreement of    *)
(* the two clock domains about every request.  A transfer reported as done *)
(* without an error was done, and those reported as failed are the ones    *)
(* for which the DSACK timeout is shorter than the FPU's answer.  Under    *)
(* the same condition the bridge implements AtomicPort: every edge of      *)
(* either clock is one step of the abstract port, or none.                 *)
(***************************************************************************)
EXTENDS BusBridgeInv, TLAPS

-----------------------------------------------------------------------------
(* Types.  Flags, words and timers are taken apart: a step's leaf is about *)
(* one of the three.                                                       *)

\* What leaves the registers of a part alone keeps their types.
LEMMA PortUnchanged ==
    ASSUME PortTypeOK, UNCHANGED <<strobeVars, portVars>>
    PROVE  PortTypeOK'
BY DEF PortTypeOK, PortFlagsOK, PortWordsOK, strobeVars, portVars

LEMMA FpuUnchanged ==
    ASSUME FpuFlagsOK, FpuWordsOK, FpuTimerOK,
           UNCHANGED <<fpuVars, dsack_timeout_g>>
    PROVE  FpuFlagsOK' /\ FpuWordsOK' /\ FpuTimerOK'
BY DEF FpuFlagsOK, FpuWordsOK, FpuTimerOK, fpuVars

LEMMA BusUnchanged ==
    ASSUME BusFlagsOK, BusWordsOK, bus_reset_n' \in BOOLEAN,
           UNCHANGED <<hostVars, busVars>>
    PROVE  BusFlagsOK' /\ BusWordsOK'
BY DEF BusFlagsOK, BusWordsOK, hostVars, busVars

LEMMA InitType == Init => TypeOK
<1> SUFFICES ASSUME Init PROVE TypeOK
  OBVIOUS
<1> USE PortAssumption, BridgeAssumption DEF Init, BridgeInit, PortInit
<1>1. PortFlagsOK /\ BusFlagsOK /\ FpuFlagsOK
  BY DEF PortFlagsOK, BusFlagsOK, FpuFlagsOK
<1>2. PortWordsOK /\ BusWordsOK /\ FpuWordsOK
  BY DEF PortWordsOK, BusWordsOK, FpuWordsOK, BusStates, FpuStates
<1>3. BusTimersOK /\ FpuTimerOK
  BY DEF BusTimersOK, FpuTimerOK
<1> QED
  BY <1>1, <1>2, <1>3 DEF TypeOK, PortTypeOK

\* An edge of the bus clock keeps the types of the bus side.
LEMMA BusEdgeType == TypeOK /\ BusEdge => TypeOK'
<1> SUFFICES ASSUME TypeOK, BusEdge PROVE TypeOK'
  OBVIOUS
<1>1. PortTypeOK' /\ FpuFlagsOK' /\ FpuWordsOK' /\ FpuTimerOK'
  BY PortUnchanged, FpuUnchanged DEF TypeOK, BusEdge
<1>2. BusFlagsOK'
  <2>1. /\ ack_ff1' \in BOOLEAN /\ ack_ff2' \in BOOLEAN
        /\ err_ff1' \in BOOLEAN /\ err_ff2' \in BOOLEAN
    BY DEF TypeOK, BusFlagsOK, FpuFlagsOK, BusEdge, BusSynchronizers
  <2>2. bus_reset_n' \in BOOLEAN /\ bridge_req' \in BOOLEAN
        /\ bridge_rw' \in BOOLEAN
    BY DEF TypeOK, BusFlagsOK, BusEdge, HostEdge
  <2>3. /\ req_toggle' \in BOOLEAN /\ req_rw' \in BOOLEAN
        /\ bridge_done' \in BOOLEAN /\ bridge_error' \in BOOLEAN
    BY DEF TypeOK, BusFlagsOK, reqVars, BusEdge, p_bus_clk,
           BusReset, BusIdle, BusAcknowledged, BusTimedOut, BusWaiting
  <2> QED
    BY <2>1, <2>2, <2>3 DEF BusFlagsOK
<1>3. BusWordsOK'
  <2>1. bridge_addr' \in Addr /\ bridge_wdata' \in Data
    BY DEF TypeOK, BusWordsOK, BusEdge, HostEdge
  <2>2. /\ bus_state' \in BusStates /\ bridge_rdata' \in Data
        /\ req_addr' \in Addr /\ req_wdata' \in Data
    BY DEF TypeOK, BusWordsOK, FpuWordsOK, BusStates, reqVars, BusEdge, p_bus_clk,
           BusReset, BusIdle, BusAcknowledged, BusTimedOut, BusWaiting
  <2> QED
    BY <2>1, <2>2 DEF BusWordsOK
<1>4. BusTimersOK'
  <2>1. lag' \in 0..MaxLag /\ held' \in 0..ResetLength
    BY BridgeAssumption DEF TypeOK, BusTimersOK, BusEdge, BusDrift
  <2>2. bus_timeout_cnt' \in 0..BusTimeout-1
    BY BridgeAssumption
    DEF TypeOK, BusTimersOK, BusEdge, p_bus_clk, BusTimerExpired,
        BusReset, BusIdle, BusAcknowledged, BusTimedOut, BusWaiting
  <2> QED
    BY <2>1, <2>2 DEF BusTimersOK
<1> QED
  BY <1>1, <1>2, <1>3, <1>4 DEF TypeOK

\* An edge of the FPU clock keeps the types of the FPU side and of the port.
LEMMA FpuEdgeType == TypeOK /\ FpuEdge => TypeOK'
<1> SUFFICES ASSUME TypeOK, FpuEdge PROVE TypeOK'
  OBVIOUS
<1> USE DEF FpuEdge, p_fpu_clk, FpuReset, FpuIdle, FpuSetup, FpuStrobe,
            FpuSeesDsack, FpuTimedOut, FpuWaiting, FpuCapture, FpuDeassert,
            FpuAck, strobeVars, latched
<1>1. BusFlagsOK' /\ BusWordsOK'
  <2>1. UNCHANGED <<hostVars, busVars>> /\ bus_reset_n' = bus_reset_n
    OBVIOUS
  <2>2. bus_reset_n' \in BOOLEAN
    BY <2>1 DEF TypeOK, BusFlagsOK
  <2> QED
    BY <2>1, <2>2, BusUnchanged DEF TypeOK
<1>2. BusTimersOK'
  BY BridgeAssumption DEF TypeOK, BusTimersOK, busVars
<1>3. PortFlagsOK'
  <2>1. cs' \in BOOLEAN /\ as' \in BOOLEAN /\ ds' \in BOOLEAN /\ rw' \in BOOLEAN
    BY DEF TypeOK, PortTypeOK, PortFlagsOK, FpuFlagsOK
  <2>2. dsack_active' \in BOOLEAN
    BY DEF TypeOK, PortTypeOK, PortFlagsOK, PortReset, PortEdge, DsackEdge,
           DsackIdle, DsackWaitAssert, DsackAsserted, start_access
  <2> QED
    BY <2>1, <2>2 DEF PortFlagsOK
<1>4. PortWordsOK'
  <2>1. a_in' \in Addr /\ d_in' \in Data
    BY DEF TypeOK, PortTypeOK, PortWordsOK, FpuWordsOK
  <2>2. dsack_state' \in {"DSACK_IDLE", "DSACK_WAIT_ASSERT", "DSACK_ASSERTED"}
    BY DEF PortReset, PortEdge, DsackEdge, DsackIdle, DsackWaitAssert,
           DsackAsserted
  <2>3. regs' \in [Addr -> Data]
    BY PortAssumption
    DEF TypeOK, PortTypeOK, PortWordsOK, PortReset, PortEdge, RegisterEdge
  <2> QED
    BY <2>1, <2>2, <2>3 DEF PortWordsOK
<1>5. FpuFlagsOK'
  <2>1. /\ rst_ff1' \in BOOLEAN /\ rst_ff2' \in BOOLEAN
        /\ req_ff1' \in BOOLEAN /\ req_ff2' \in BOOLEAN
    BY DEF TypeOK, BusFlagsOK, FpuFlagsOK, FpuSynchronizers
  <2>2. ack_toggle' \in BOOLEAN /\ fpu_error' \in BOOLEAN /\ fpu_rw_r' \in BOOLEAN
    BY DEF TypeOK, BusFlagsOK, FpuFlagsOK
  <2> QED
    BY <2>1, <2>2 DEF FpuFlagsOK
<1>6. FpuWordsOK'
  BY DEF TypeOK, FpuWordsOK, FpuStates, BusWordsOK, PortTypeOK, PortWordsOK, d_out
<1>7. FpuTimerOK'
  <2>1. \/ timeout_cnt' \in {0, timeout_cnt}
        \/ ~DsackTimerExpired /\ timeout_cnt' = timeout_cnt + 1
    OBVIOUS
  <2> QED
    BY <2>1, BridgeAssumption DEF TypeOK, FpuTimerOK, DsackTimerExpired
<1> QED
  BY <1>1, <1>2, <1>3, <1>4, <1>5, <1>6, <1>7 DEF TypeOK, PortTypeOK

\* Every register of the bridge and of the port keeps its type, and both
\* timers stay in the range they are declared with.
THEOREM TypeCorrect == Spec => []TypeOK
<1>1. Init => TypeOK
  BY InitType
<1>2. TypeOK /\ [Next]_vars => TypeOK'
  <2> SUFFICES ASSUME TypeOK, [Next]_vars PROVE TypeOK'
    OBVIOUS
  <2>1. CASE BusEdge
    BY <2>1, BusEdgeType
  <2>2. CASE FpuEdge
    BY <2>2, FpuEdgeType
  <2>3. CASE AssertReset \/ ReleaseReset \/ UNCHANGED vars
    <3>1. UNCHANGED <<strobeVars, portVars, hostVars, busVars, fpuVars,
                    dsack_timeout_g, lag>>
      BY <2>3 DEF AssertReset, ReleaseReset, vars
    <3>2. bus_reset_n' \in BOOLEAN
      BY <2>3 DEF AssertReset, ReleaseReset, vars, TypeOK, BusFlagsOK
    <3>3. held' \in 0..ResetLength
      BY <2>3, BridgeAssumption
      DEF AssertReset, ReleaseReset, vars, TypeOK, BusTimersOK
    <3>4. BusTimersOK'
      BY <3>1, <3>3 DEF TypeOK, BusTimersOK, busVars
    <3> QED
      BY <3>1, <3>2, <3>4, PortUnchanged, FpuUnchanged, BusUnchanged DEF TypeOK
  <2> QED
    BY <2>1, <2>2, <2>3 DEF Next
<1> QED
  BY <1>1, <1>2, PTL DEF Spec

-----------------------------------------------------------------------------
(* The port.  NoStaleDsack alone is not inductive: it does not say why     *)
(* DSACK stays away.                                                       *)

\* Without chip select the DSACK machine is idle after one edge.
LEMMA UnselectedGoesQuiet ==
    ASSUME ~cs, DsackEdge
    PROVE  dsack_active' = FALSE /\ dsack_state' = "DSACK_IDLE"
BY DEF DsackEdge, DsackIdle, DsackWaitAssert, DsackAsserted, start_access

\* Out of reset an edge of the FPU clock is one of these.
LEMMA FpuEdgeCases ==
    ASSUME FpuEdge, rst_ff2
    PROVE  \/ FpuIdle \/ FpuSetup \/ FpuStrobe \/ FpuSeesDsack \/ FpuTimedOut
           \/ FpuWaiting \/ FpuCapture \/ FpuDeassert \/ FpuAck
BY DEF FpuEdge, p_fpu_clk, FpuReset

\* In reset it is the other.
LEMMA FpuEdgeInReset ==
    ASSUME FpuEdge, ~rst_ff2
    PROVE  FpuReset /\ PortReset
BY DEF FpuEdge, p_fpu_clk, FpuIdle, FpuSetup, FpuStrobe, FpuSeesDsack,
       FpuTimedOut, FpuWaiting, FpuCapture, FpuDeassert, FpuAck

LEMMA FpuEdgePort == PortInv /\ FpuEdge => PortInv'
<1> SUFFICES ASSUME PortInv, FpuEdge, rst_ff2'
             PROVE  DsackQuiet' /\ DsackAdvances'
  BY DEF PortInv
\* The edge that ends a reset leaves the port as the reset put it.
<1>1. CASE ~rst_ff2
  BY <1>1, FpuEdgeInReset DEF FpuReset, PortReset, DsackQuiet, DsackAdvances
<1>2. CASE rst_ff2
  <2>1. DsackEdge
    BY <1>2 DEF FpuEdge, PortEdge
  <2>2. CASE FpuIdle
    <3>1. ~cs' /\ fpu_state' \in {"FPU_IDLE", "FPU_SETUP"}
      BY <2>2 DEF FpuIdle
    <3>2. ~cs
      BY <1>2, <2>2 DEF PortInv, DsackQuiet, FpuIdle
    <3> QED
      BY <2>1, <3>1, <3>2, UnselectedGoesQuiet DEF DsackQuiet, DsackAdvances
  <2>3. CASE FpuAck
    <3>1. fpu_state' = "FPU_IDLE" /\ cs' = cs
      BY <2>3 DEF FpuAck, strobeVars
    <3>2. ~cs
      BY <1>2, <2>3 DEF PortInv, DsackQuiet, FpuAck
    <3> QED
      BY <2>1, <3>1, <3>2, UnselectedGoesQuiet DEF DsackQuiet, DsackAdvances
  <2>4. CASE FpuDeassert
    BY <2>4 DEF FpuDeassert, DsackQuiet, DsackAdvances
  <2>5. CASE FpuSetup
    <3>1. fpu_state' = "FPU_STROBE" /\ cs' /\ as'
      BY <2>5 DEF FpuSetup
    <3>2. ~cs
      BY <1>2, <2>5 DEF PortInv, DsackQuiet, FpuSetup
    <3> QED
      BY <2>1, <3>1, <3>2, UnselectedGoesQuiet DEF DsackQuiet, DsackAdvances
  <2>6. CASE FpuStrobe
    <3>1. fpu_state' = "FPU_WAIT_DSACK" /\ cs' = cs /\ as' = as /\ ds'
      BY <2>6 DEF FpuStrobe
    <3>2. cs /\ as /\ dsack_state = "DSACK_IDLE"
      BY <1>2, <2>6 DEF PortInv, DsackAdvances, FpuStrobe
    <3>3. dsack_active' = FALSE /\ dsack_state' # "DSACK_ASSERTED"
      BY <2>1, <3>2 DEF DsackEdge, DsackIdle, DsackWaitAssert, DsackAsserted
    <3> QED
      BY <3>1, <3>2, <3>3 DEF DsackQuiet, DsackAdvances
  <2>7. CASE FpuWaiting
    <3>1. /\ fpu_state' = "FPU_WAIT_DSACK"
          /\ cs' = cs /\ as' = as /\ ds' = ds
      BY <2>7 DEF FpuWaiting, strobeVars
    <3>2. cs /\ as /\ ds
      BY <1>2, <2>7 DEF PortInv, DsackAdvances, FpuWaiting
    <3>3. dsack_active' <=> dsack_state' = "DSACK_ASSERTED"
      BY <2>1, <3>2
      DEF DsackEdge, DsackIdle, DsackWaitAssert, DsackAsserted, start_access
    <3> QED
      BY <3>1, <3>2, <3>3 DEF DsackQuiet, DsackAdvances
  <2>8. CASE FpuSeesDsack \/ FpuTimedOut \/ FpuCapture
    <3>1. fpu_state' \in {"FPU_CAPTURE", "FPU_DEASSERT"}
      BY <2>8 DEF FpuSeesDsack, FpuTimedOut, FpuCapture
    <3> QED
      BY <3>1 DEF DsackQuiet, DsackAdvances
  <2> QED
    BY <1>2, <2>2, <2>3, <2>4, <2>5, <2>6, <2>7, <2>8, FpuEdgeCases
<1> QED
  BY <1>1, <1>2

LEMMA NextPort == PortInv /\ [Next]_vars => PortInv'
<1> SUFFICES ASSUME PortInv, [Next]_vars PROVE PortInv'
  OBVIOUS
<1>1. CASE FpuEdge
  BY <1>1, FpuEdgePort
<1>2. CASE BusEdge \/ AssertReset \/ ReleaseReset \/ UNCHANGED vars
  <2>1. UNCHANGED <<rst_ff2, fpu_state, strobeVars, portVars>>
    BY <1>2 DEF BusEdge, AssertReset, ReleaseReset, vars, fpuVars
  <2> QED
    BY <2>1 DEF PortInv, DsackQuiet, DsackAdvances, strobeVars, portVars
<1> QED
  BY <1>1, <1>2 DEF Next

LEMMA InitPort == Init => PortInv
BY DEF Init, BridgeInit, PortInit, PortInv, DsackQuiet, DsackAdvances

\* DSACK of one bus cycle is gone when the next one starts, whatever the
\* timeouts, the drift of the clocks and the moments of reset: no cycle of
\* p_fpu_clk is ended by its predecessor's acknowledge.
THEOREM DsackNeverStale == Spec => []NoStaleDsack
<1>1. PortInv => NoStaleDsack
  BY DEF PortInv, DsackQuiet, NoStaleDsack
<1> QED
  BY <1>1, InitPort, NextPort, PTL DEF Spec

-----------------------------------------------------------------------------
(* Arithmetic of the bus timer                                             *)

LEMMA Numbers ==
    ASSUME TypeOK
    PROVE  /\ MaxLag \in Nat /\ MaxLag > 0 /\ ResetLength \in Nat
           /\ lag \in Nat /\ lag <= MaxLag
           /\ held \in Nat /\ held <= ResetLength
           /\ BusTimeout \in Nat /\ BusTimeout > 0
           /\ bus_timeout_cnt \in Nat /\ bus_timeout_cnt < BusTimeout
BY BridgeAssumption DEF TypeOK, BusTimersOK

\* Before its acknowledge a transfer has taken at most 10 FPU edges.
LEMMA UnansweredBound ==
    ASSUME TypeOK, TimerKeepsUp, bus_state = "BUS_WAIT_ACK",
           ack_toggle # req_toggle
    PROVE  bus_timeout_cnt <= 10 * MaxLag + lag
<1> USE Numbers DEF Within
<1>1. CASE req_ff2 # req_toggle
  BY <1>1 DEF TimerKeepsUp
<1>2. CASE req_ff2 = req_toggle
  <2>1. fpu_state \in FpuStates
    BY DEF TypeOK, FpuWordsOK
  <2>2. dsack_state \in {"DSACK_IDLE", "DSACK_WAIT_ASSERT", "DSACK_ASSERTED"}
    BY DEF TypeOK, PortTypeOK, PortWordsOK
  <2> QED
    BY <1>2, <2>1, <2>2 DEF TimerKeepsUp, FpuStates
<1> QED
  BY <1>1, <1>2

\* So the timer cannot expire.
LEMMA NotExpired ==
    ASSUME Timely, TypeOK, TimerKeepsUp, bus_state = "BUS_WAIT_ACK",
           ack_ff2 # req_toggle
    PROVE  ~BusTimerExpired
<1> USE Numbers
<1>1. CASE ack_toggle # req_toggle
  BY <1>1, UnansweredBound DEF Timely, BusTimerExpired
<1>2. CASE ack_toggle = req_toggle
  BY <1>2 DEF TimerKeepsUp, Timely, BusTimerExpired
<1> QED
  BY <1>1, <1>2

-----------------------------------------------------------------------------
(* An edge of the bus clock, out of reset                                  *)

LEMMA BusEdgeRunning ==
    ASSUME Timely, TypeOK, bus_reset_n, Running, BusEdge
    PROVE  Running'
<1>1. /\ req_ff1' = req_ff1 /\ req_ff2' = req_ff2 /\ ack_toggle' = ack_toggle
      /\ rst_ff1' = rst_ff1 /\ rst_ff2' = rst_ff2
      /\ fpu_state' = fpu_state /\ dsack_state' = dsack_state
      /\ latched' = latched
  BY DEF BusEdge, fpuVars, portVars, latched
<1>2. ack_ff1' = ack_toggle /\ ack_ff2' = ack_ff1
  BY DEF BusEdge, BusSynchronizers
<1>3. lag' = lag + 1
  BY DEF BusEdge, BusDrift, Timely
<1>4. CASE BusIdle /\ bridge_req
  <2>1. /\ req_ff1 = req_toggle /\ req_ff2 = req_toggle
        /\ ack_toggle = req_toggle /\ ack_ff1 = req_toggle
    BY <1>4 DEF BusIdle, Running, Ring, Turns
  <2>2. req_toggle' # req_toggle
    BY <1>4 DEF BusIdle, TypeOK, BusFlagsOK
  <2>3. fpu_state = "FPU_IDLE"
    BY <2>1 DEF Running, Turns
  <2>4. bus_state' = "BUS_WAIT_ACK" /\ bus_timeout_cnt' = 0
    BY <1>4 DEF BusIdle
  <2>5. Ring' /\ Turns'
    BY <1>1, <1>2, <2>1, <2>2, <2>3, <2>4 DEF Ring, Turns
  <2>6. ReleaseLeads'
    BY <1>1, <2>1, <2>2, <2>3 DEF Running, ReleaseLeads
  <2>7. TimerKeepsUp'
    <3>1. 0 <= 0 * MaxLag + lag'
      BY <1>3, Numbers
    <3>2. req_ff1' # req_toggle' /\ req_ff2' # req_toggle'
          /\ ack_toggle' # req_toggle' /\ ack_ff1' # req_toggle'
      BY <1>1, <1>2, <2>1, <2>2
    <3> QED
      BY <2>4, <3>1, <3>2 DEF TimerKeepsUp, Within
  <2> QED
    BY <2>5, <2>6, <2>7 DEF Running
<1>5. CASE (BusIdle /\ ~bridge_req) \/ BusAcknowledged
  <2>1. /\ req_toggle' = req_toggle /\ bus_state' = "BUS_IDLE"
        /\ req_rw' = req_rw /\ req_addr' = req_addr /\ req_wdata' = req_wdata
    BY <1>5 DEF BusIdle, BusAcknowledged, reqVars
  <2>2. ack_ff2 = req_toggle
    BY <1>5 DEF BusIdle, BusAcknowledged, Running, Turns
  <2>3. ack_ff1 = req_toggle /\ ack_toggle = req_toggle
    BY <2>2 DEF Running, Ring
  <2>4. Ring' /\ Turns'
    BY <1>1, <1>2, <2>1, <2>3 DEF Running, Ring, Turns
  <2>5. ReleaseLeads' /\ TimerKeepsUp'
    BY <1>1, <2>1 DEF Running, ReleaseLeads, TimerKeepsUp
  <2> QED
    BY <2>4, <2>5 DEF Running
<1>6. CASE BusWaiting
  <2>1. /\ req_toggle' = req_toggle /\ bus_state' = "BUS_WAIT_ACK"
        /\ bus_state = "BUS_WAIT_ACK" /\ ack_ff2 # req_toggle
        /\ req_rw' = req_rw /\ req_addr' = req_addr /\ req_wdata' = req_wdata
    BY <1>6 DEF BusWaiting, reqVars
  <2>2. bus_timeout_cnt' = bus_timeout_cnt + 1
    BY <1>6 DEF BusWaiting
  <2>3. Ring' /\ Turns'
    BY <1>1, <1>2, <2>1 DEF Running, Ring, Turns
  <2>4. ReleaseLeads'
    BY <1>1, <2>1 DEF Running, ReleaseLeads
  <2>5. TimerKeepsUp'
    <3>1. CASE ack_toggle # req_toggle
      <4>1. \A n \in 0..10 : Within(n) => Within(n)'
        BY <1>3, <2>2, Numbers DEF Within
      <4>2. ack_ff1' # req_toggle'
        BY <1>2, <2>1, <3>1
      <4> QED
        BY <1>1, <2>1, <3>1, <4>1, <4>2 DEF Running, TimerKeepsUp
    <3>2. CASE ack_toggle = req_toggle
      <4>1. ack_ff1' = req_toggle'
        BY <1>2, <2>1, <3>2
      <4>2. ack_ff1 # req_toggle => bus_timeout_cnt <= 11 * MaxLag
        BY <2>1, <3>2 DEF Running, TimerKeepsUp
      <4>3. ack_ff2' # req_toggle' => bus_timeout_cnt' <= 11 * MaxLag + 1
        BY <1>2, <2>1, <2>2, <4>2, Numbers
      <4> QED
        BY <1>1, <2>1, <3>2, <4>1, <4>3 DEF TimerKeepsUp
    <3> QED
      BY <3>1, <3>2
  <2> QED
    BY <2>3, <2>4, <2>5 DEF Running
<1>7. ~BusReset /\ ~BusTimedOut
  BY NotExpired DEF BusReset, BusTimedOut, Running
<1> QED
  BY <1>4, <1>5, <1>6, <1>7 DEF BusEdge, p_bus_clk

-----------------------------------------------------------------------------
(* An edge of the FPU clock, out of reset                                  *)

\* An FPU edge buys the bus timer MaxLag bus edges.
LEMMA OneEdgeMore ==
    ASSUME TypeOK, bus_timeout_cnt' = bus_timeout_cnt, lag' = 0
    PROVE  /\ Within(0) => Within(1)'
           /\ Within(1) => Within(2)'
           /\ Within(2) => Within(3)'
           /\ Within(3) => Within(4)'
           /\ Within(4) => Within(5)'
           /\ Within(5) => Within(6)'
           /\ Within(6) => Within(7)'
           /\ Within(7) => Within(8)' /\ Within(9)'
           /\ Within(8) => Within(9)'
           /\ Within(9) => Within(10)'
BY Numbers DEF Within

\* What every FPU edge does besides the bus cycle.
LEMMA FpuEdgeFrame ==
    ASSUME FpuEdge
    PROVE  /\ bus_reset_n' = bus_reset_n /\ held' = held /\ lag' = 0
           /\ bus_state' = bus_state /\ req_toggle' = req_toggle
           /\ req_rw' = req_rw /\ req_addr' = req_addr /\ req_wdata' = req_wdata
           /\ bus_timeout_cnt' = bus_timeout_cnt
           /\ ack_ff1' = ack_ff1 /\ ack_ff2' = ack_ff2
           /\ bridge_done' = bridge_done
           /\ req_ff1' = req_toggle /\ req_ff2' = req_ff1
           /\ rst_ff1' = bus_reset_n /\ rst_ff2' = rst_ff1
BY DEF FpuEdge, FpuSynchronizers, busVars

\* A busy state of the FPU side other than its last.
Busy == fpu_state \notin {"FPU_IDLE", "FPU_ACK"}

LEMMA BusyMoves ==
    ASSUME FpuEdge, rst_ff2, Busy
    PROVE  /\ ack_toggle' = ack_toggle /\ latched' = latched
           /\ fpu_state' # "FPU_IDLE"
BY FpuEdgeCases
DEF Busy, latched, FpuIdle, FpuSetup, FpuStrobe, FpuSeesDsack, FpuTimedOut,
    FpuWaiting, FpuCapture, FpuDeassert, FpuAck

\* The FPU side flips its acknowledge in FPU_ACK only, and that answers the
\* request; it leaves FPU_IDLE only with a request to serve.
LEMMA FpuEdgeToggle ==
    ASSUME TypeOK, Running, FpuEdge
    PROVE  \/ /\ ~rst_ff2 /\ fpu_state = "FPU_IDLE" /\ fpu_state' = "FPU_IDLE"
              /\ ack_toggle' = ack_toggle
           \/ /\ rst_ff2 /\ fpu_state = "FPU_IDLE" /\ fpu_state' = "FPU_IDLE"
              /\ req_ff2 = ack_toggle /\ ack_toggle' = ack_toggle
           \/ /\ rst_ff2 /\ fpu_state = "FPU_IDLE" /\ fpu_state' = "FPU_SETUP"
              /\ req_ff2 # ack_toggle /\ ack_toggle' = ack_toggle
              /\ latched' = <<req_rw, req_addr, req_wdata>>
           \/ /\ rst_ff2 /\ Busy /\ fpu_state' # "FPU_IDLE"
              /\ ack_toggle' = ack_toggle /\ latched' = latched
           \/ /\ rst_ff2 /\ fpu_state = "FPU_ACK" /\ fpu_state' = "FPU_IDLE"
              /\ ack_toggle # req_toggle /\ ack_toggle' = req_toggle
<1>1. CASE ~rst_ff2
  BY <1>1, FpuEdgeInReset DEF FpuReset, Running, ReleaseLeads
<1>2. CASE rst_ff2 /\ Busy
  BY <1>2, BusyMoves
<1>3. CASE rst_ff2 /\ fpu_state = "FPU_IDLE"
  <2>1. FpuIdle
    BY <1>3, FpuEdgeCases DEF FpuSetup, FpuStrobe, FpuSeesDsack, FpuTimedOut,
       FpuWaiting, FpuCapture, FpuDeassert, FpuAck
  <2> QED
    BY <1>3, <2>1 DEF FpuIdle, latched
<1>4. CASE rst_ff2 /\ fpu_state = "FPU_ACK"
  <2>1. FpuAck
    BY <1>4, FpuEdgeCases DEF FpuIdle, FpuSetup, FpuStrobe, FpuSeesDsack,
       FpuTimedOut, FpuWaiting, FpuCapture, FpuDeassert
  <2>2. ack_toggle # req_toggle
    BY <1>4 DEF Running, Turns
  <2>3. ack_toggle \in BOOLEAN /\ req_toggle \in BOOLEAN
    BY DEF TypeOK, BusFlagsOK, FpuFlagsOK
  <2> QED
    BY <1>4, <2>1, <2>2, <2>3 DEF FpuAck
<1> QED
  BY <1>1, <1>2, <1>3, <1>4 DEF Busy

LEMMA FpuEdgeRing ==
    ASSUME TypeOK, bus_reset_n, Running, FpuEdge
    PROVE  Ring' /\ Turns' /\ ReleaseLeads'
<1> USE FpuEdgeFrame
<1>1. /\ req_ff2 \in BOOLEAN /\ ack_toggle \in BOOLEAN /\ req_toggle \in BOOLEAN
  BY DEF TypeOK, BusFlagsOK, FpuFlagsOK
<1>2. req_ff2 = req_toggle => req_ff2' = req_toggle
  BY DEF Running, Ring
<1>3. ack_toggle = req_toggle => ack_toggle' = req_toggle /\ fpu_state' = "FPU_IDLE"
  BY <1>1, FpuEdgeToggle DEF Running, Ring, Turns, Busy
<1>4. Ring'
  <2>1. ack_toggle' = req_toggle => req_ff2' = req_toggle
    BY <1>2, <1>1, FpuEdgeToggle DEF Running, Ring, Turns, Busy
  <2> QED
    BY <1>2, <1>3, <2>1 DEF Running, Ring
<1>5. Turns'
  BY <1>1, <1>2, <1>3, FpuEdgeToggle DEF Running, Turns, Busy
<1>6. ReleaseLeads'
  <2>1. rst_ff2' => rst_ff1'
    OBVIOUS
  <2>2. ~rst_ff2' => fpu_state' = "FPU_IDLE" /\ ack_toggle' = FALSE
    BY FpuEdgeToggle DEF Running, ReleaseLeads
  <2>3. req_ff2' = req_toggle' /\ ack_toggle' # req_toggle' => rst_ff2'
    BY <1>3 DEF Running, ReleaseLeads
  <2>4. bus_state' = "BUS_WAIT_ACK" /\ ack_toggle' = req_toggle' => rst_ff2'
    BY FpuEdgeToggle DEF Running, ReleaseLeads
  <2> QED
    BY <2>1, <2>2, <2>3, <2>4 DEF ReleaseLeads
<1> QED
  BY <1>4, <1>5, <1>6

\* One clock of a transfer: where the FPU side was, and where it is now.
LEMMA FpuEdgeProgress ==
    ASSUME TypeOK, PortInv, Running, FpuEdge, rst_ff2
    PROVE  /\ fpu_state = "FPU_SETUP" => fpu_state' = "FPU_STROBE"
           /\ fpu_state = "FPU_STROBE" =>
                  fpu_state' = "FPU_WAIT_DSACK" /\ dsack_state' # "DSACK_ASSERTED"
           /\ fpu_state = "FPU_WAIT_DSACK" =>
                  \/ fpu_state' = "FPU_DEASSERT"
                  \/ /\ dsack_state = "DSACK_IDLE"
                     /\ fpu_state' = "FPU_WAIT_DSACK"
                     /\ dsack_state' = "DSACK_WAIT_ASSERT"
                  \/ /\ dsack_state = "DSACK_WAIT_ASSERT"
                     /\ fpu_state' = "FPU_WAIT_DSACK"
                     /\ dsack_state' = "DSACK_ASSERTED"
                  \/ /\ dsack_state = "DSACK_ASSERTED"
                     /\ fpu_state' = "FPU_CAPTURE"
           /\ fpu_state = "FPU_CAPTURE" => fpu_state' = "FPU_DEASSERT"
           /\ fpu_state = "FPU_DEASSERT" => fpu_state' = "FPU_ACK"
<1>1. DsackEdge
  <2>1. rst_ff2'
    BY FpuEdgeFrame DEF Running, ReleaseLeads
  <2> QED
    BY <2>1 DEF FpuEdge, PortEdge
<1>2. DsackAdvances
  BY DEF PortInv
<1>3. CASE fpu_state = "FPU_STROBE"
  BY <1>1, <1>2, <1>3, FpuEdgeCases
  DEF DsackAdvances, DsackEdge, DsackIdle, DsackWaitAssert, DsackAsserted,
      FpuIdle, FpuSetup, FpuStrobe, FpuSeesDsack, FpuTimedOut, FpuWaiting,
      FpuCapture, FpuDeassert, FpuAck
<1>4. CASE fpu_state = "FPU_WAIT_DSACK"
  <2>1. start_access /\ (dsack_active <=> dsack_state = "DSACK_ASSERTED")
    BY <1>2, <1>4 DEF DsackAdvances, start_access
  <2>2. FpuSeesDsack \/ FpuTimedOut \/ FpuWaiting
    BY <1>4, FpuEdgeCases
    DEF FpuIdle, FpuSetup, FpuStrobe, FpuCapture, FpuDeassert, FpuAck
  <2> QED
    BY <1>1, <1>4, <2>1, <2>2
    DEF DsackEdge, DsackIdle, DsackWaitAssert, DsackAsserted,
        FpuSeesDsack, FpuTimedOut, FpuWaiting
<1>5. CASE fpu_state \in {"FPU_SETUP", "FPU_CAPTURE", "FPU_DEASSERT"}
  BY <1>5, FpuEdgeCases
  DEF FpuIdle, FpuSetup, FpuStrobe, FpuSeesDsack, FpuTimedOut, FpuWaiting,
      FpuCapture, FpuDeassert, FpuAck
<1> QED
  BY <1>3, <1>4, <1>5

LEMMA FpuEdgeTimer ==
    ASSUME TypeOK, PortInv, bus_reset_n, Running, FpuEdge
    PROVE  TimerKeepsUp'
<1> SUFFICES ASSUME bus_state' = "BUS_WAIT_ACK" PROVE TimerKeepsUp'
  BY DEF TimerKeepsUp
<1> USE FpuEdgeFrame
<1>1. bus_state = "BUS_WAIT_ACK" /\ TimerKeepsUp
  BY DEF Running
<1>2. CASE ack_toggle = req_toggle
  <2>1. ack_toggle' = req_toggle
    BY <1>2, FpuEdgeToggle DEF Running, Ring, Turns, Busy, TypeOK
  <2> QED
    BY <1>1, <1>2, <2>1 DEF TimerKeepsUp
<1>3. CASE ack_toggle # req_toggle /\ ack_toggle' = req_toggle
  <2>1. fpu_state = "FPU_ACK" /\ req_ff2 = req_toggle
    BY <1>3, FpuEdgeToggle DEF Running, Turns
  <2>2. bus_timeout_cnt <= 10 * MaxLag + lag
    BY <1>1, <1>3, UnansweredBound
  <2>3. bus_timeout_cnt' <= 11 * MaxLag
    BY <2>2, Numbers
  <2>4. ack_ff1' # req_toggle
    BY <1>3 DEF Running, Ring
  <2> QED
    BY <1>3, <2>3, <2>4 DEF TimerKeepsUp
<1>4. CASE ack_toggle # req_toggle /\ ack_toggle' # req_toggle
  <2>1. ack_ff1' # req_toggle
    BY <1>4 DEF Running, Ring
  <2>2. CASE req_ff1 # req_toggle
    <3>1. req_ff2' # req_toggle /\ Within(1)'
      BY <1>1, <1>4, <2>2, OneEdgeMore DEF TimerKeepsUp
    <3> QED
      BY <1>4, <2>1, <3>1 DEF TimerKeepsUp
  <2>3. CASE req_ff1 = req_toggle /\ req_ff2 # req_toggle
    <3>1. Within(2)'
      BY <1>1, <1>4, <2>3, OneEdgeMore DEF TimerKeepsUp
    <3>2. fpu_state = "FPU_IDLE"
      BY <2>3 DEF Running, Turns
    <3>3. req_ff2 = ack_toggle
      BY <1>4, <2>3 DEF TypeOK, BusFlagsOK, FpuFlagsOK
    <3>4. fpu_state' = "FPU_IDLE"
      BY <3>2, <3>3, FpuEdgeToggle DEF Busy
    <3> QED
      BY <1>4, <2>1, <2>3, <3>1, <3>4 DEF TimerKeepsUp
  <2>4. CASE req_ff2 = req_toggle
    <3>1. rst_ff2 /\ req_ff2' = req_toggle
      BY <1>4, <2>4 DEF Running, ReleaseLeads, Ring
    <3>2. /\ fpu_state = "FPU_IDLE" => fpu_state' = "FPU_SETUP"
          /\ fpu_state # "FPU_ACK"
      BY <1>4, <2>4, <3>1, FpuEdgeToggle DEF Busy
    <3>3. fpu_state \in FpuStates
      BY DEF TypeOK, FpuWordsOK
    <3>4. dsack_state \in {"DSACK_IDLE", "DSACK_WAIT_ASSERT", "DSACK_ASSERTED"}
      BY DEF TypeOK, PortTypeOK, PortWordsOK
    <3>5. CASE fpu_state = "FPU_IDLE"
      <4>1. Within(3)'
        BY <1>1, <1>4, <2>4, <3>5, OneEdgeMore DEF TimerKeepsUp
      <4> QED
        BY <1>4, <2>1, <3>1, <3>2, <3>5, <4>1 DEF TimerKeepsUp
    <3>6. CASE fpu_state = "FPU_SETUP"
      <4>1. Within(4)'
        BY <1>1, <1>4, <2>4, <3>6, OneEdgeMore DEF TimerKeepsUp
      <4> QED
        BY <1>4, <2>1, <3>1, <3>6, <4>1, FpuEdgeProgress DEF TimerKeepsUp
    <3>7. CASE fpu_state = "FPU_STROBE"
      <4>1. Within(5)' /\ Within(6)'
        <5>1. Within(4)
          BY <1>1, <1>4, <2>4, <3>7 DEF TimerKeepsUp
        <5> QED
          BY <5>1, Numbers DEF Within
      <4> QED
        BY <1>4, <2>1, <3>1, <3>7, <4>1, FpuEdgeProgress DEF TimerKeepsUp
    <3>8. CASE fpu_state = "FPU_WAIT_DSACK"
      <4>1. /\ dsack_state = "DSACK_IDLE" => Within(5) /\ Within(6)'
            /\ dsack_state = "DSACK_WAIT_ASSERT" => Within(6) /\ Within(7)'
            /\ dsack_state = "DSACK_ASSERTED" => Within(7) /\ Within(8)'
        BY <1>1, <1>4, <2>4, <3>8, OneEdgeMore DEF TimerKeepsUp
      <4>2. Within(9)'
        BY <3>4, <4>1, Numbers DEF Within
      <4> QED
        BY <1>4, <2>1, <3>1, <3>4, <3>8, <4>1, <4>2, FpuEdgeProgress
        DEF TimerKeepsUp
    <3>9. CASE fpu_state = "FPU_CAPTURE"
      <4>1. Within(9)'
        BY <1>1, <1>4, <2>4, <3>9, OneEdgeMore DEF TimerKeepsUp
      <4> QED
        BY <1>4, <2>1, <3>1, <3>9, <4>1, FpuEdgeProgress DEF TimerKeepsUp
    <3>10. CASE fpu_state = "FPU_DEASSERT"
      <4>1. Within(10)'
        BY <1>1, <1>4, <2>4, <3>10, OneEdgeMore DEF TimerKeepsUp
      <4> QED
        BY <1>4, <2>1, <3>1, <3>10, <4>1, FpuEdgeProgress DEF TimerKeepsUp
    <3> QED
      BY <3>2, <3>3, <3>5, <3>6, <3>7, <3>8, <3>9, <3>10 DEF FpuStates
  <2> QED
    BY <2>2, <2>3, <2>4
<1> QED
  BY <1>2, <1>3, <1>4

-----------------------------------------------------------------------------
(* Reset                                                                   *)

\* The register of every stage is cleared one clock after the one before.
LEMMA BusEdgeResetting ==
    ASSUME Timely, TypeOK, ~bus_reset_n, Resetting, BusEdge
    PROVE  Resetting'
<1>1. BusReset
  BY DEF BusEdge, p_bus_clk, BusIdle, BusAcknowledged, BusTimedOut, BusWaiting
<1>2. req_toggle' = FALSE /\ bus_state' = "BUS_IDLE" /\ bridge_done' = FALSE
  BY <1>1 DEF BusReset
<1>3. /\ req_ff1' = req_ff1 /\ req_ff2' = req_ff2 /\ ack_toggle' = ack_toggle
      /\ rst_ff1' = rst_ff1 /\ rst_ff2' = rst_ff2 /\ fpu_state' = fpu_state
      /\ ack_ff1' = ack_toggle /\ ack_ff2' = ack_ff1
  BY DEF BusEdge, BusSynchronizers, fpuVars
<1>4. lag' = lag + 1 /\ lag < MaxLag /\ (held' = held \/ held' = held + 1)
  BY DEF BusEdge, BusDrift, Timely
<1>5. /\ req_ff1' \/ rst_ff1' => held' <= lag'
      /\ req_ff2' \/ rst_ff2' => held' <= MaxLag + lag'
      /\ fpu_state' # "FPU_IDLE" \/ ack_toggle' => held' <= 2 * MaxLag + lag'
      /\ ack_ff1' => held' <= 3 * MaxLag
      /\ ack_ff2' => held' <= 3 * MaxLag + 1
  BY <1>3, <1>4, Numbers DEF Resetting
<1> QED
  BY <1>2, <1>5 DEF Resetting

LEMMA FpuEdgeResetting ==
    ASSUME TypeOK, ~bus_reset_n, Resetting, FpuEdge
    PROVE  Resetting'
<1> USE FpuEdgeFrame
<1>1. rst_ff1' = FALSE
  BY DEF TypeOK, BusFlagsOK
<1>2. req_ff1' \/ rst_ff1' => held' <= lag'
  BY <1>1, Numbers DEF Resetting
<1>3. req_ff2' \/ rst_ff2' => held' <= MaxLag + lag'
  BY Numbers DEF Resetting
<1>4. fpu_state' # "FPU_IDLE" \/ ack_toggle' => held' <= 2 * MaxLag + lag'
  <2>1. CASE rst_ff2
    BY <2>1, Numbers DEF Resetting
  <2>2. CASE ~rst_ff2
    BY <2>2, FpuEdgeInReset DEF FpuReset
  <2> QED
    BY <2>1, <2>2
<1> QED
  BY <1>2, <1>3, <1>4 DEF Resetting

LEMMA AssertResetResetting ==
    ASSUME TypeOK, AssertReset
    PROVE  ~bus_reset_n' /\ Resetting'
<1>1. held' = 0 /\ lag' = lag /\ ~bus_reset_n'
  BY DEF AssertReset
<1>2. 0 <= lag /\ 0 <= MaxLag + lag /\ 0 <= 2 * MaxLag + lag
      /\ 0 <= 3 * MaxLag /\ 0 <= 3 * MaxLag + 1
  BY Numbers
<1> QED
  BY <1>1, <1>2 DEF Resetting

\* When the reset has been long enough, nothing of what was before is left.
LEMMA ReleaseResetRunning ==
    ASSUME Timely, TypeOK, Resetting, ReleaseReset
    PROVE  bus_reset_n' /\ Running'
<1>1. held >= 3 * MaxLag + 2
  BY DEF ReleaseReset, Timely
<1>2. /\ held # 0 /\ ~(held <= lag) /\ ~(held <= MaxLag + lag)
      /\ ~(held <= 2 * MaxLag + lag) /\ ~(held <= 3 * MaxLag)
      /\ ~(held <= 3 * MaxLag + 1)
  BY <1>1, Numbers
<1>3. /\ ~req_toggle /\ bus_state = "BUS_IDLE" /\ ~req_ff1 /\ ~req_ff2
      /\ ~rst_ff1 /\ ~rst_ff2 /\ fpu_state = "FPU_IDLE" /\ ~ack_toggle
      /\ ~ack_ff1 /\ ~ack_ff2
  BY <1>2 DEF Resetting
<1>4. /\ req_toggle' = FALSE /\ bus_state' = "BUS_IDLE"
      /\ req_ff1' = FALSE /\ req_ff2' = FALSE
      /\ rst_ff1' = FALSE /\ rst_ff2' = FALSE
      /\ fpu_state' = "FPU_IDLE" /\ ack_toggle' = FALSE
      /\ ack_ff1' = FALSE /\ ack_ff2' = FALSE
  BY <1>3 DEF ReleaseReset, busVars, fpuVars, TypeOK, BusFlagsOK, FpuFlagsOK
<1>5. Ring' /\ Turns' /\ ReleaseLeads' /\ TimerKeepsUp'
  BY <1>4 DEF Ring, Turns, ReleaseLeads, TimerKeepsUp
<1> QED
  BY <1>5 DEF ReleaseReset, Running

-----------------------------------------------------------------------------
(* The invariant                                                           *)

LEMMA InitHandshake == Init => Handshake
<1> SUFFICES ASSUME Init PROVE Handshake
  OBVIOUS
<1>1. PortInv
  BY InitPort
<1>2. bus_reset_n /\ Running
  BY DEF Init, BridgeInit, Running, Ring, Turns, ReleaseLeads, TimerKeepsUp
<1> QED
  BY <1>1, <1>2 DEF Handshake

LEMMA HandshakeUnchanged ==
    ASSUME Running \/ Resetting, UNCHANGED vars
    PROVE  (Running => Running') /\ (Resetting => Resetting')
BY DEF Running, Resetting, Ring, Turns, ReleaseLeads, TimerKeepsUp, Within,
       vars, busVars, fpuVars, portVars, latched

LEMMA NextHandshake ==
    ASSUME Timely, TypeOK, Handshake, [Next]_vars
    PROVE  Handshake'
<1>1. PortInv /\ PortInv'
  BY NextPort DEF Handshake
<1>2. CASE BusEdge
  <2>1. bus_reset_n' = bus_reset_n
    BY <1>2 DEF BusEdge
  <2> QED
    BY <1>1, <1>2, <2>1, BusEdgeRunning, BusEdgeResetting DEF Handshake
<1>3. CASE FpuEdge
  <2>1. bus_reset_n' = bus_reset_n
    BY <1>3, FpuEdgeFrame
  <2>2. bus_reset_n /\ Running => Running'
    BY <1>1, <1>3, FpuEdgeRing, FpuEdgeTimer DEF Running
  <2> QED
    BY <1>1, <1>3, <2>1, <2>2, FpuEdgeResetting DEF Handshake
<1>4. CASE AssertReset
  BY <1>1, <1>4, AssertResetResetting DEF Handshake
<1>5. CASE ReleaseReset
  BY <1>1, <1>5, ReleaseResetRunning DEF Handshake, ReleaseReset
<1>6. CASE UNCHANGED vars
  BY <1>1, <1>6, HandshakeUnchanged DEF Handshake, vars
<1> QED
  BY <1>2, <1>3, <1>4, <1>5, <1>6 DEF Next

LEMMA HandshakeHolds ==
    ASSUME Timely
    PROVE  Spec => [](TypeOK /\ Handshake)
<1>1. Init => Handshake
  BY InitHandshake
<1>2. TypeOK /\ Handshake /\ [Next]_vars => Handshake'
  BY NextHandshake
<1> QED
  BY <1>1, <1>2, TypeCorrect, PTL DEF Spec

\* When both clocks run within the bound, the FPU side works on a request
\* only while the host waits for that request, and the fields it latches
\* from the other clock domain are that request's.
THEOREM RequestIsStable ==
    ASSUME Timely
    PROVE  Spec => []RequestStable
<1>1. TypeOK /\ Handshake => RequestStable
  <2> SUFFICES ASSUME TypeOK, Handshake, bus_reset_n, fpu_state # "FPU_IDLE"
               PROVE  /\ bus_state = "BUS_WAIT_ACK"
                      /\ latched = <<req_rw, req_addr, req_wdata>>
    BY DEF RequestStable
  <2>1. ack_ff2 # req_toggle
    BY DEF Handshake, Running, Ring, Turns
  <2>2. bus_state \in BusStates
    BY DEF TypeOK, BusWordsOK
  <2> QED
    BY <2>1, <2>2 DEF Handshake, Running, Turns, BusStates
<1> QED
  BY <1>1, HandshakeHolds, PTL

\* The bus side's last-resort timer never expires while the FPU clock runs:
\* an answer to an abandoned request, which could be taken for the answer to
\* the next one, never exists.
THEOREM BusNeverTimesOut ==
    ASSUME Timely
    PROVE  Spec => NoBusTimeout
<1>1. TypeOK /\ Handshake /\ [Next]_vars => [~BusTimedOut]_vars
  <2> SUFFICES ASSUME TypeOK, Handshake, BusTimedOut PROVE FALSE
    OBVIOUS
  <2>1. TimerKeepsUp
    BY DEF Handshake, Running, BusTimedOut
  <2> QED
    BY <2>1, NotExpired DEF BusTimedOut
<1> QED
  BY <1>1, HandshakeHolds, PTL DEF Spec, NoBusTimeout

-----------------------------------------------------------------------------
(* The port under the bridge                                               *)

\* Without chip select no register changes.
LEMMA UnselectedKeepsRegisters ==
    ASSUME ~cs, RegisterEdge
    PROVE  regs' = regs
BY DEF RegisterEdge, bus_write

\* A write strobe stores the data, and storing it again changes nothing.
LEMMA WriteStores ==
    ASSUME PortTypeOK, RegisterEdge, cs, as, ds, ~rw
    PROVE  regs'[a_in] = d_in
BY DEF RegisterEdge, bus_write, PortTypeOK, PortWordsOK

LEMMA SecondWriteKeeps ==
    ASSUME PortTypeOK, RegisterEdge, regs[a_in] = d_in
    PROVE  regs' = regs
BY DEF RegisterEdge, PortTypeOK, PortWordsOK

-----------------------------------------------------------------------------
(* An edge of the bus clock, out of reset                                  *)

LEMMA BusEdgeData ==
    ASSUME Timely, TypeOK, Handshake, bus_reset_n, DataInv, BusEdge
    PROVE  DataInv'
<1>1. /\ UNCHANGED <<fpu_state, ack_toggle, fpu_error, fpu_rw_r, fpu_addr_r,
                     fpu_wdata_r, rdata_fpu, rst_ff2>>
      /\ UNCHANGED <<cs, ds, rw, a_in, d_in, regs, bus_reset_n>>
  BY DEF BusEdge, fpuVars, strobeVars, portVars
<1>2. /\ ack_ff1' = ack_toggle /\ ack_ff2' = ack_ff1
      /\ err_ff1' = fpu_error /\ err_ff2' = err_ff1
  BY DEF BusEdge, BusSynchronizers
<1>3. Ring /\ Turns /\ ReleaseLeads
  BY DEF Handshake, Running
<1>4. Addressed /\ Carried /\ ErrorTravels /\ DoneIsQuiet
  BY DEF DataInv
<1>5. Addressed'
  BY <1>1, <1>4 DEF Addressed
<1>6. CASE BusIdle
  <2>1. ack_toggle = req_toggle /\ ack_ff1 = req_toggle /\ fpu_state = "FPU_IDLE"
    BY <1>3, <1>6 DEF BusIdle, Ring, Turns
  <2>2. bridge_done' = FALSE
    BY <1>6 DEF BusIdle
  <2>3. CASE bridge_req
    <3>1. req_toggle' # req_toggle
      BY <1>6, <2>3 DEF BusIdle, TypeOK, BusFlagsOK
    <3> QED
      BY <1>1, <1>2, <1>5, <2>1, <2>2, <3>1
      DEF DataInv, Carried, ErrorTravels, DoneIsQuiet
  <2>4. CASE ~bridge_req
    <3>1. bus_state' = "BUS_IDLE"
      BY <1>6, <2>4 DEF BusIdle
    <3> QED
      BY <1>1, <1>5, <2>1, <2>2, <3>1
      DEF DataInv, Carried, ErrorTravels, DoneIsQuiet
  <2> QED
    BY <2>3, <2>4
<1>7. CASE BusAcknowledged
  <2>1. ack_ff1 = req_toggle /\ ack_toggle = req_toggle /\ fpu_state = "FPU_IDLE"
    BY <1>3, <1>7 DEF BusAcknowledged, Ring, Turns
  <2>2. /\ bus_state = "BUS_WAIT_ACK" /\ ack_ff2 = req_toggle
        /\ bus_state' = "BUS_IDLE" /\ bridge_error' = err_ff2
        /\ bridge_rdata' = rdata_fpu
        /\ UNCHANGED <<req_rw, req_addr, req_wdata>>
    BY <1>7 DEF BusAcknowledged, reqVars
  <2>3. bridge_error' = fpu_error
    BY <1>4, <2>2 DEF ErrorTravels
  <2>4. ~fpu_error => Served(rdata_fpu)
    BY <1>4, <2>1, <2>2 DEF Carried
  <2>5. rst_ff2
    BY <1>3, <2>1, <2>2 DEF ReleaseLeads
  <2>6. Carried'
    BY <1>1, <2>1, <2>2, <2>3, <2>4 DEF Carried, Served
  <2> QED
    BY <1>1, <1>5, <2>2, <2>5, <2>6 DEF DataInv, ErrorTravels, DoneIsQuiet
<1>8. CASE BusWaiting
  <2>1. /\ bus_state = "BUS_WAIT_ACK" /\ bus_state' = bus_state
        /\ bridge_done' = FALSE
        /\ UNCHANGED <<req_toggle, req_rw, req_addr, req_wdata>>
    BY <1>8 DEF BusWaiting, reqVars
  <2>2. Carried'
    BY <1>1, <1>4, <2>1 DEF Carried, Served
  <2>3. ErrorTravels'
    BY <1>1, <1>2, <1>4, <2>1 DEF ErrorTravels
  <2> QED
    BY <1>5, <2>1, <2>2, <2>3 DEF DataInv, DoneIsQuiet
<1>9. ~BusReset /\ ~BusTimedOut
  BY NotExpired DEF BusReset, BusTimedOut, Handshake, Running
<1> QED
  BY <1>6, <1>7, <1>8, <1>9 DEF BusEdge, p_bus_clk

-----------------------------------------------------------------------------
(* An edge of the FPU clock, out of reset                                  *)

\* Out of reset the port sees the edge too, and stays out of reset.
LEMMA FpuEdgeSeen ==
    ASSUME Handshake, bus_reset_n, FpuEdge, rst_ff2
    PROVE  RegisterEdge /\ rst_ff2'
<1>1. ReleaseLeads
  BY DEF Handshake, Running
<1>2. rst_ff2'
  BY <1>1, FpuEdgeFrame DEF ReleaseLeads
<1> QED
  BY <1>2 DEF FpuEdge, PortEdge

\* With nothing to serve the FPU side leaves a finished transfer as it is.
LEMMA ServedStays ==
    ASSUME TypeOK, Handshake, bus_reset_n, FpuEdge, rst_ff2,
           ack_toggle = req_toggle
    PROVE  /\ fpu_state = "FPU_IDLE" /\ fpu_state' = "FPU_IDLE"
           /\ UNCHANGED <<ack_toggle, fpu_error, rdata_fpu, regs>>
<1>1. Ring /\ Turns /\ ReleaseLeads /\ PortInv
  BY DEF Handshake, Running
<1>2. fpu_state = "FPU_IDLE" /\ req_ff2 = ack_toggle
  BY <1>1 DEF Ring, Turns
<1>3. FpuIdle
  BY <1>2, FpuEdgeCases DEF FpuSetup, FpuStrobe, FpuSeesDsack, FpuTimedOut,
     FpuWaiting, FpuCapture, FpuDeassert, FpuAck
<1>4. ~cs
  BY <1>1, <1>2 DEF PortInv, DsackQuiet
<1>5. RegisterEdge
  BY FpuEdgeSeen
<1> QED
  BY <1>2, <1>3, <1>4, <1>5, UnselectedKeepsRegisters DEF FpuIdle

LEMMA FpuEdgeAddressed ==
    ASSUME TypeOK, Handshake, bus_reset_n, Addressed, FpuEdge
    PROVE  Addressed'
<1>1. CASE ~rst_ff2
  BY <1>1, FpuEdgeInReset DEF FpuReset, Addressed
<1>2. CASE rst_ff2
  <2> USE DEF Addressed, latched, strobeVars
  <2>1. CASE FpuIdle
    BY <2>1 DEF FpuIdle
  <2>2. CASE FpuSetup
    BY <2>2 DEF FpuSetup
  <2>3. CASE FpuStrobe
    BY <2>3 DEF FpuStrobe
  <2>4. CASE FpuSeesDsack \/ FpuWaiting
    BY <2>4 DEF FpuSeesDsack, FpuWaiting
  <2>5. CASE FpuTimedOut \/ FpuCapture
    BY <2>5 DEF FpuTimedOut, FpuCapture
  <2>6. CASE FpuDeassert \/ FpuAck
    BY <2>6 DEF FpuDeassert, FpuAck
  <2> QED
    BY <1>2, <2>1, <2>2, <2>3, <2>4, <2>5, <2>6, FpuEdgeCases
<1> QED
  BY <1>1, <1>2

\* When a write leaves FPU_WAIT_DSACK with DSACK, the register holds its data.
LEMMA FpuEdgeWritten ==
    ASSUME TypeOK, Handshake, bus_reset_n, Addressed, FpuEdge,
           fpu_state' = "FPU_CAPTURE"
    PROVE  (fpu_rw_r \/ regs[fpu_addr_r] = fpu_wdata_r)'
<1>1. rst_ff2
  BY FpuEdgeInReset DEF FpuReset
<1>2. FpuSeesDsack
  BY <1>1, FpuEdgeCases DEF FpuIdle, FpuSetup, FpuStrobe, FpuTimedOut,
     FpuWaiting, FpuCapture, FpuDeassert, FpuAck
<1>3. cs /\ as /\ ds
  BY <1>1, <1>2 DEF Handshake, PortInv, DsackAdvances, FpuSeesDsack
<1>4. /\ rw = fpu_rw_r /\ a_in = fpu_addr_r
      /\ ~fpu_rw_r => d_in = fpu_wdata_r
  BY <1>2 DEF Addressed, FpuSeesDsack
<1>5. RegisterEdge
  BY <1>1, FpuEdgeSeen
<1>6. UNCHANGED <<fpu_rw_r, fpu_addr_r, fpu_wdata_r>>
  BY <1>2 DEF FpuSeesDsack, latched
<1> QED
  BY <1>3, <1>4, <1>5, <1>6, WriteStores DEF TypeOK

\* From the capture on, a transfer without an error is served.
LEMMA FpuEdgeServed ==
    ASSUME TypeOK, Handshake, bus_reset_n, Addressed, Carried, FpuEdge,
           rst_ff2, fpu_state \in {"FPU_CAPTURE", "FPU_DEASSERT", "FPU_ACK"},
           ~fpu_error'
    PROVE  Served(rdata_fpu)'
<1>1. RegisterEdge
  BY FpuEdgeSeen
<1>2. UNCHANGED <<req_rw, req_addr, req_wdata>>
  BY FpuEdgeFrame
<1>3. FpuCapture \/ FpuDeassert \/ FpuAck
  BY FpuEdgeCases DEF FpuIdle, FpuSetup, FpuStrobe, FpuSeesDsack,
     FpuTimedOut, FpuWaiting
<1>4. ~fpu_error
  BY <1>3 DEF FpuCapture, FpuDeassert, FpuAck
<1>5. CASE FpuCapture
  <2>1. latched = <<req_rw, req_addr, req_wdata>>
    BY <1>5 DEF FpuCapture, Handshake, Running, Turns
  <2>2. /\ rw = fpu_rw_r /\ a_in = fpu_addr_r
        /\ ~fpu_rw_r => d_in = fpu_wdata_r
        /\ fpu_rw_r \/ regs[fpu_addr_r] = fpu_wdata_r
    BY <1>5 DEF FpuCapture, Addressed, Carried
  <2>3. regs' = regs
    <3>1. CASE fpu_rw_r
      BY <1>1, <2>2, <3>1 DEF RegisterEdge, bus_write
    <3>2. CASE ~fpu_rw_r
      BY <1>1, <2>2, <3>2, SecondWriteKeeps DEF TypeOK
    <3> QED
      BY <3>1, <3>2
  <2>4. fpu_rw_r => rdata_fpu' = regs[a_in]
    BY <1>5 DEF FpuCapture, d_out
  <2> QED
    BY <1>2, <2>1, <2>2, <2>3, <2>4 DEF Served, latched
<1>6. CASE FpuDeassert \/ FpuAck
  <2>1. ~cs \/ ~ds
    BY <1>6 DEF FpuDeassert, FpuAck, Addressed, Handshake, PortInv, DsackQuiet
  <2>2. regs' = regs
    BY <1>1, <2>1 DEF RegisterEdge, bus_write
  <2>3. rdata_fpu' = rdata_fpu /\ Served(rdata_fpu)
    BY <1>4, <1>6 DEF FpuDeassert, FpuAck, Carried
  <2> QED
    BY <1>2, <2>2, <2>3 DEF Served
<1> QED
  BY <1>3, <1>5, <1>6

LEMMA FpuEdgeCarried ==
    ASSUME TypeOK, Handshake, bus_reset_n, DataInv, FpuEdge
    PROVE  Carried'
<1> USE FpuEdgeFrame
<1>1. Addressed /\ Carried /\ DoneIsQuiet
  BY DEF DataInv
<1>2. Ring /\ Turns /\ ReleaseLeads
  BY DEF Handshake, Running
<1>3. fpu_state' = "FPU_CAPTURE" => (fpu_rw_r \/ regs[fpu_addr_r] = fpu_wdata_r)'
  BY <1>1, FpuEdgeWritten
<1>4. fpu_state' \in {"FPU_DEASSERT", "FPU_ACK"} /\ ~fpu_error' => Served(rdata_fpu)'
  <2> SUFFICES ASSUME fpu_state' \in {"FPU_DEASSERT", "FPU_ACK"}, ~fpu_error'
               PROVE  Served(rdata_fpu)'
    OBVIOUS
  <2>1. rst_ff2
    BY FpuEdgeInReset DEF FpuReset
  <2>2. FpuCapture \/ FpuDeassert
    BY <2>1, FpuEdgeCases DEF FpuIdle, FpuSetup, FpuStrobe, FpuSeesDsack,
       FpuTimedOut, FpuWaiting, FpuAck
  <2> QED
    BY <1>1, <2>1, <2>2, FpuEdgeServed DEF FpuCapture, FpuDeassert
<1>5. bus_state' = "BUS_WAIT_ACK" /\ ack_toggle' = req_toggle' /\ ~fpu_error' =>
          Served(rdata_fpu)'
  <2> SUFFICES ASSUME bus_state' = "BUS_WAIT_ACK", ack_toggle' = req_toggle',
                      ~fpu_error'
               PROVE  Served(rdata_fpu)'
    OBVIOUS
  <2>1. CASE ack_toggle = req_toggle
    <3>1. rst_ff2
      BY <1>2, <2>1 DEF ReleaseLeads
    <3>2. UNCHANGED <<fpu_error, rdata_fpu, regs>>
      BY <2>1, <3>1, ServedStays
    <3>3. Served(rdata_fpu)
      BY <1>1, <2>1, <3>2 DEF Carried
    <3> QED
      BY <3>2, <3>3 DEF Served
  <2>2. CASE ack_toggle # req_toggle
    <3>1. rst_ff2 /\ fpu_state = "FPU_ACK"
      BY <2>2, FpuEdgeToggle DEF Handshake
    <3> QED
      BY <1>1, <3>1, FpuEdgeServed
  <2> QED
    BY <2>1, <2>2
<1>6. bridge_done' /\ ~bridge_error' => Served(bridge_rdata)'
  <2> SUFFICES ASSUME bridge_done', ~bridge_error' PROVE Served(bridge_rdata)'
    OBVIOUS
  <2>1. bridge_done /\ ~bridge_error /\ bridge_rdata' = bridge_rdata
    BY DEF FpuEdge, busVars
  <2>2. bus_state = "BUS_IDLE" /\ rst_ff2
    BY <1>1, <2>1 DEF DoneIsQuiet
  <2>3. ack_toggle = req_toggle
    BY <1>2, <2>2 DEF Turns, Ring
  <2>4. regs' = regs
    BY <2>2, <2>3, ServedStays
  <2> QED
    BY <1>1, <2>1, <2>4 DEF Carried, Served
<1> QED
  BY <1>3, <1>4, <1>5, <1>6 DEF Carried

LEMMA FpuEdgeData ==
    ASSUME TypeOK, Handshake, bus_reset_n, DataInv, FpuEdge
    PROVE  DataInv'
<1> USE FpuEdgeFrame
<1>1. Addressed' /\ Carried'
  BY FpuEdgeAddressed, FpuEdgeCarried DEF DataInv
<1>2. ErrorTravels'
  <2>1. err_ff1' = err_ff1 /\ err_ff2' = err_ff2
    BY DEF FpuEdge, busVars
  <2>2. bus_state = "BUS_WAIT_ACK" /\ (ack_ff1 = req_toggle \/ ack_ff2 = req_toggle)
            => ack_toggle = req_toggle /\ rst_ff2
    BY DEF Handshake, Running, Ring, ReleaseLeads
  <2>3. bus_state = "BUS_WAIT_ACK" /\ (ack_ff1 = req_toggle \/ ack_ff2 = req_toggle)
            => fpu_error' = fpu_error
    BY <2>2, ServedStays
  <2> QED
    BY <2>1, <2>3 DEF DataInv, ErrorTravels
<1>3. DoneIsQuiet'
  BY FpuEdgeSeen DEF DataInv, DoneIsQuiet
<1> QED
  BY <1>1, <1>2, <1>3 DEF DataInv

-----------------------------------------------------------------------------
(* The invariant                                                           *)

LEMMA InitData == Init => DataInv
BY DEF Init, BridgeInit, DataInv, Addressed, Carried, ErrorTravels, DoneIsQuiet

\* A reset leaves no transfer in progress and no completion on show.
LEMMA ReleaseResetData ==
    ASSUME Timely, TypeOK, Resetting, ReleaseReset
    PROVE  DataInv'
<1>1. held # 0 /\ ~(held <= 2 * MaxLag + lag)
  BY Numbers DEF ReleaseReset, Timely
<1>2. /\ fpu_state = "FPU_IDLE" /\ bus_state = "BUS_IDLE"
      /\ ~bridge_done
  BY <1>1 DEF Resetting
<1>3. /\ fpu_state' = "FPU_IDLE" /\ bus_state' = "BUS_IDLE"
      /\ ~bridge_done'
  BY <1>2 DEF ReleaseReset, busVars, fpuVars
<1> QED
  BY <1>3 DEF DataInv, Addressed, Carried, ErrorTravels, DoneIsQuiet

LEMMA NextData ==
    ASSUME Timely, TypeOK, Handshake, DataInv, [Next]_vars
    PROVE  DataInv'
<1>1. CASE BusEdge
  BY <1>1, BusEdgeData DEF BusEdge, DataInv
<1>2. CASE FpuEdge
  BY <1>2, FpuEdgeData, FpuEdgeFrame DEF DataInv
<1>3. CASE AssertReset
  BY <1>3 DEF AssertReset, DataInv
<1>4. CASE ReleaseReset
  BY <1>4, ReleaseResetData DEF ReleaseReset, Handshake
<1>5. CASE UNCHANGED vars
  BY <1>5 DEF vars, strobeVars, portVars, busVars, fpuVars, DataInv, Addressed,
     Carried, Served, ErrorTravels, DoneIsQuiet
<1> QED
  BY <1>1, <1>2, <1>3, <1>4, <1>5 DEF Next

LEMMA DataHolds ==
    ASSUME Timely
    PROVE  Spec => []DataInv
<1>1. Init => DataInv
  BY InitData
<1>2. TypeOK /\ Handshake /\ DataInv /\ [Next]_vars => DataInv'
  BY NextData
<1> QED
  BY <1>1, <1>2, HandshakeHolds, PTL DEF Spec

\* A completion without an error belongs to the request the host made: the
\* value a read returns is the addressed register's, and a write has stored
\* its data.
THEOREM DoneIsServed ==
    ASSUME Timely
    PROVE  Spec => []DoneMeansServed
<1>1. DataInv => DoneMeansServed
  BY DEF DataInv, Carried, Served, DoneMeansServed
<1> QED
  BY <1>1, DataHolds, PTL

-----------------------------------------------------------------------------
(* Errors: an edge of the bus clock, out of reset                          *)

LEMMA BusEdgeError ==
    ASSUME Timely, TypeOK, Handshake, bus_reset_n, DataInv, ErrorInv, BusEdge
    PROVE  ErrorInv'
<1>1. /\ UNCHANGED <<fpu_state, ack_toggle, fpu_error, fpu_rw_r, timeout_cnt>>
      /\ UNCHANGED <<ds, dsack_state, dsack_timeout_g>>
  BY DEF BusEdge, fpuVars, strobeVars, portVars
<1>2. Ring /\ Turns /\ ErrorTravels /\ TimerMatches /\ Verdict
  BY DEF Handshake, Running, DataInv, ErrorInv
<1>3. TimerMatches'
  BY <1>1, <1>2 DEF TimerMatches
<1>4. CASE BusIdle
  <2>1. ack_toggle = req_toggle /\ fpu_state = "FPU_IDLE" /\ bridge_done' = FALSE
    BY <1>2, <1>4 DEF BusIdle, Ring, Turns
  <2>2. bus_state' # "BUS_WAIT_ACK" \/ req_toggle' # req_toggle
    BY <1>4 DEF BusIdle, TypeOK, BusFlagsOK
  <2> QED
    BY <1>1, <1>3, <2>1, <2>2 DEF ErrorInv, Verdict
<1>5. CASE BusAcknowledged
  <2>1. /\ bus_state = "BUS_WAIT_ACK" /\ ack_ff2 = req_toggle
        /\ bus_state' = "BUS_IDLE" /\ bridge_error' = err_ff2 /\ req_rw' = req_rw
    BY <1>5 DEF BusAcknowledged, reqVars
  <2>2. ack_toggle = req_toggle /\ fpu_state = "FPU_IDLE"
    BY <1>2, <2>1 DEF Ring, Turns
  <2>3. bridge_error' <=> TooShort(req_rw)
    BY <1>2, <2>1, <2>2 DEF ErrorTravels, Verdict
  <2> QED
    BY <1>1, <1>3, <2>1, <2>2, <2>3 DEF ErrorInv, Verdict, TooShort
<1>6. CASE BusWaiting
  <2>1. /\ bus_state = "BUS_WAIT_ACK" /\ bridge_done' = FALSE
        /\ req_toggle' = req_toggle /\ req_rw' = req_rw
    BY <1>6 DEF BusWaiting, reqVars
  <2> QED
    BY <1>1, <1>2, <1>3, <2>1 DEF ErrorInv, Verdict, TooShort
<1>7. ~BusReset /\ ~BusTimedOut
  BY NotExpired DEF BusReset, BusTimedOut, Handshake, Running
<1> QED
  BY <1>4, <1>5, <1>6, <1>7 DEF BusEdge, p_bus_clk

-----------------------------------------------------------------------------
(* Errors: an edge of the FPU clock, out of reset                          *)

\* The DSACK machine sees the edge too.
LEMMA FpuEdgeDsack ==
    ASSUME Handshake, bus_reset_n, FpuEdge, rst_ff2
    PROVE  DsackEdge
BY FpuEdgeSeen DEF FpuEdge, PortEdge

LEMMA FpuEdgeTimerMatches ==
    ASSUME TypeOK, Handshake, bus_reset_n, Addressed, TimerMatches, FpuEdge
    PROVE  TimerMatches'
<1>1. CASE ~rst_ff2
  BY <1>1, FpuEdgeInReset DEF FpuReset, TimerMatches
<1>2. CASE rst_ff2
  <2>1. DsackEdge /\ PortInv
    BY <1>2, FpuEdgeDsack DEF Handshake
  <2>2. CASE FpuIdle
    BY <2>2 DEF FpuIdle, TimerMatches
  <2>3. CASE FpuSetup
    BY <2>3 DEF FpuSetup, TimerMatches
  <2>4. CASE FpuStrobe
    <3>1. /\ fpu_state' = "FPU_WAIT_DSACK" /\ timeout_cnt' = 0
          /\ fpu_rw_r' = fpu_rw_r /\ ~ds /\ rw = fpu_rw_r
      BY <2>4 DEF FpuStrobe, TimerMatches, Addressed, latched
    <3>2. cs /\ as /\ dsack_state = "DSACK_IDLE"
      BY <1>2, <2>1, <2>4 DEF FpuStrobe, PortInv, DsackAdvances
    <3>3. dsack_state' = IF fpu_rw_r THEN "DSACK_IDLE" ELSE "DSACK_WAIT_ASSERT"
      BY <2>1, <3>1, <3>2
      DEF DsackEdge, DsackIdle, DsackWaitAssert, DsackAsserted, start_access
    <3> QED
      BY <3>1, <3>3 DEF TimerMatches
  <2>5. CASE FpuWaiting
    <3>1. /\ fpu_state = "FPU_WAIT_DSACK" /\ fpu_state' = "FPU_WAIT_DSACK"
          /\ timeout_cnt' = timeout_cnt + 1
          /\ fpu_rw_r' = fpu_rw_r /\ ~dsack_active
      BY <2>5 DEF FpuWaiting, latched
    <3>2. start_access /\ (dsack_active <=> dsack_state = "DSACK_ASSERTED")
      BY <1>2, <2>1, <3>1 DEF PortInv, DsackAdvances, start_access
    <3>3. \/ dsack_state = "DSACK_IDLE" /\ dsack_state' = "DSACK_WAIT_ASSERT"
          \/ dsack_state = "DSACK_WAIT_ASSERT" /\ dsack_state' = "DSACK_ASSERTED"
      BY <2>1, <3>1, <3>2 DEF DsackEdge, DsackIdle, DsackWaitAssert, DsackAsserted
    <3> QED
      BY <3>1, <3>3 DEF TimerMatches
  <2>6. CASE \/ FpuSeesDsack \/ FpuTimedOut \/ FpuCapture \/ FpuDeassert \/ FpuAck
    <3>1. fpu_state' \in {"FPU_CAPTURE", "FPU_DEASSERT", "FPU_ACK", "FPU_IDLE"}
      BY <2>6 DEF FpuSeesDsack, FpuTimedOut, FpuCapture, FpuDeassert, FpuAck
    <3> QED
      BY <3>1 DEF TimerMatches
  <2> QED
    BY <1>2, <2>2, <2>3, <2>4, <2>5, <2>6, FpuEdgeCases
<1> QED
  BY <1>1, <1>2

\* The wait ends with DSACK if, and only if, the timeout is long enough.
LEMMA WaitEnds ==
    ASSUME TypeOK, PortInv, rst_ff2, TimerMatches,
           fpu_state = "FPU_WAIT_DSACK"
    PROVE  /\ dsack_active => ~TooShort(fpu_rw_r)
           /\ ~dsack_active /\ DsackTimerExpired => TooShort(fpu_rw_r)
<1>1. /\ dsack_timeout_g \in Nat /\ timeout_cnt \in Nat
      /\ dsack_timeout_g > 0 => timeout_cnt < dsack_timeout_g
  BY BridgeAssumption DEF TypeOK, FpuTimerOK
<1>2. dsack_active <=> dsack_state = "DSACK_ASSERTED"
  BY DEF PortInv, DsackAdvances
<1>3. dsack_state \in {"DSACK_IDLE", "DSACK_WAIT_ASSERT", "DSACK_ASSERTED"}
  BY DEF TypeOK, PortTypeOK, PortWordsOK
<1>4. CASE dsack_active
  <2>1. timeout_cnt = IF fpu_rw_r THEN 2 ELSE 1
    BY <1>2, <1>4 DEF TimerMatches
  <2> QED
    BY <1>1, <1>4, <2>1 DEF TooShort
<1>5. CASE ~dsack_active /\ DsackTimerExpired
  <2>1. timeout_cnt \in 0..(IF fpu_rw_r THEN 1 ELSE 0)
    BY <1>2, <1>3, <1>5 DEF TimerMatches
  <2> QED
    BY <1>1, <1>5, <2>1 DEF TooShort, DsackTimerExpired
<1> QED
  BY <1>4, <1>5

LEMMA FpuEdgeVerdict ==
    ASSUME TypeOK, Handshake, bus_reset_n, DataInv, TimerMatches, Verdict, FpuEdge
    PROVE  Verdict'
<1>1. Ring /\ Turns /\ ReleaseLeads /\ PortInv /\ DoneIsQuiet
  BY DEF Handshake, Running, DataInv
<1>2. /\ UNCHANGED <<req_rw, req_toggle, bus_state, bridge_done, bridge_error>>
      /\ UNCHANGED dsack_timeout_g
  BY DEF FpuEdge, busVars
<1>3. fpu_state' \in {"FPU_SETUP", "FPU_STROBE", "FPU_WAIT_DSACK", "FPU_CAPTURE"}
          => ~fpu_error'
  <2>1. CASE ~rst_ff2
    BY <2>1, FpuEdgeInReset DEF FpuReset
  <2>2. CASE rst_ff2
    BY <2>2, FpuEdgeCases
    DEF Verdict, FpuIdle, FpuSetup, FpuStrobe, FpuSeesDsack, FpuTimedOut,
        FpuWaiting, FpuCapture, FpuDeassert, FpuAck
  <2> QED
    BY <2>1, <2>2
<1>4. fpu_state' = "FPU_CAPTURE" => ~TooShort(fpu_rw_r)'
  <2> SUFFICES ASSUME fpu_state' = "FPU_CAPTURE" PROVE ~TooShort(fpu_rw_r)'
    OBVIOUS
  <2>1. rst_ff2
    BY FpuEdgeInReset DEF FpuReset
  <2>2. FpuSeesDsack
    BY <2>1, FpuEdgeCases DEF FpuIdle, FpuSetup, FpuStrobe, FpuTimedOut,
       FpuWaiting, FpuCapture, FpuDeassert, FpuAck
  <2>3. dsack_active /\ fpu_state = "FPU_WAIT_DSACK" /\ fpu_rw_r' = fpu_rw_r
    BY <2>2 DEF FpuSeesDsack, latched
  <2> QED
    BY <1>1, <1>2, <2>1, <2>3, WaitEnds DEF TooShort
<1>5. fpu_state' \in {"FPU_DEASSERT", "FPU_ACK"} =>
          (fpu_error' <=> TooShort(req_rw)')
  <2> SUFFICES ASSUME fpu_state' \in {"FPU_DEASSERT", "FPU_ACK"}
               PROVE  fpu_error' <=> TooShort(req_rw)
    BY <1>2 DEF TooShort
  <2>1. rst_ff2
    BY FpuEdgeInReset DEF FpuReset
  <2>2. CASE FpuTimedOut
    <3>1. /\ fpu_state = "FPU_WAIT_DSACK" /\ ~dsack_active /\ DsackTimerExpired
          /\ fpu_error' = TRUE
      BY <2>2 DEF FpuTimedOut
    <3>2. fpu_rw_r = req_rw
      BY <1>1, <3>1 DEF Turns, latched
    <3> QED
      BY <1>1, <2>1, <3>1, <3>2, WaitEnds
  <2>3. CASE FpuCapture
    <3>1. fpu_rw_r = req_rw
      BY <1>1, <2>3 DEF FpuCapture, Turns, latched
    <3> QED
      BY <2>3, <3>1 DEF FpuCapture, Verdict
  <2>4. CASE FpuDeassert
    BY <2>4 DEF FpuDeassert, Verdict
  <2> QED
    BY <2>1, <2>2, <2>3, <2>4, FpuEdgeCases
    DEF FpuIdle, FpuSetup, FpuStrobe, FpuSeesDsack, FpuWaiting, FpuAck
<1>6. bus_state' = "BUS_WAIT_ACK" /\ ack_toggle' = req_toggle' =>
          (fpu_error' <=> TooShort(req_rw)')
  <2> SUFFICES ASSUME bus_state = "BUS_WAIT_ACK", ack_toggle' = req_toggle
               PROVE  fpu_error' <=> TooShort(req_rw)
    BY <1>2 DEF TooShort
  <2>1. CASE ack_toggle = req_toggle
    BY <1>1, <2>1, ServedStays DEF ReleaseLeads, Verdict
  <2>2. CASE ack_toggle # req_toggle
    <3>1. rst_ff2 /\ fpu_state = "FPU_ACK"
      BY <2>2, FpuEdgeToggle DEF Handshake
    <3>2. FpuAck
      BY <3>1, FpuEdgeCases DEF FpuIdle, FpuSetup, FpuStrobe, FpuSeesDsack,
         FpuTimedOut, FpuWaiting, FpuCapture, FpuDeassert
    <3> QED
      BY <3>2 DEF FpuAck, Verdict
  <2> QED
    BY <2>1, <2>2
<1>7. bridge_done' => (bridge_error' <=> TooShort(req_rw)')
  BY <1>2 DEF Verdict, TooShort
<1> QED
  BY <1>3, <1>4, <1>5, <1>6, <1>7 DEF Verdict

-----------------------------------------------------------------------------
(* Errors: the invariant                                                   *)

LEMMA InitError == Init => ErrorInv
BY DEF Init, BridgeInit, ErrorInv, TimerMatches, Verdict

LEMMA ReleaseResetError ==
    ASSUME Timely, TypeOK, Resetting, ReleaseReset
    PROVE  ErrorInv'
<1>1. held # 0 /\ ~(held <= 2 * MaxLag + lag)
  BY Numbers DEF ReleaseReset, Timely
<1>2. /\ fpu_state = "FPU_IDLE" /\ bus_state = "BUS_IDLE"
      /\ ~bridge_done
  BY <1>1 DEF Resetting
<1>3. /\ fpu_state' = "FPU_IDLE" /\ bus_state' = "BUS_IDLE"
      /\ ~bridge_done'
  BY <1>2 DEF ReleaseReset, busVars, fpuVars
<1> QED
  BY <1>3 DEF ErrorInv, TimerMatches, Verdict

LEMMA NextError ==
    ASSUME Timely, TypeOK, Handshake, DataInv, ErrorInv, [Next]_vars
    PROVE  ErrorInv'
<1>1. CASE BusEdge
  BY <1>1, BusEdgeError DEF BusEdge, ErrorInv
<1>2. CASE FpuEdge
  BY <1>2, FpuEdgeTimerMatches, FpuEdgeVerdict, FpuEdgeFrame DEF DataInv, ErrorInv
<1>3. CASE AssertReset
  BY <1>3 DEF AssertReset, ErrorInv
<1>4. CASE ReleaseReset
  BY <1>4, ReleaseResetError DEF ReleaseReset, Handshake
<1>5. CASE UNCHANGED vars
  BY <1>5 DEF vars, strobeVars, portVars, busVars, fpuVars, ErrorInv,
     TimerMatches, Verdict, TooShort
<1> QED
  BY <1>1, <1>2, <1>3, <1>4, <1>5 DEF Next

\* A transfer fails exactly when the DSACK timeout is shorter than the port's
\* answer, which is one FPU clock after the strobes for a write and two for a
\* read: no error is lost between the clocks and none is left over.
THEOREM ErrorsAreTimely ==
    ASSUME Timely
    PROVE  Spec => []ErrorIsTimely
<1>1. Init => ErrorInv
  BY InitError
<1>2. TypeOK /\ Handshake /\ DataInv /\ ErrorInv /\ [Next]_vars => ErrorInv'
  BY NextError
<1>3. ErrorInv => ErrorIsTimely
  BY DEF ErrorInv, Verdict, TooShort, ErrorIsTimely
<1> QED
  BY <1>1, <1>2, <1>3, HandshakeHolds, DataHolds, PTL DEF Spec

-----------------------------------------------------------------------------
(* The invariant of the refinement                                         *)

LEMMA InitEffect == Init => EffectInv
BY DEF Init, BridgeInit, PortInit, EffectInv, ResetClears, ErrorWithDone, WriteTakesEffect

\* Waiting with the strobes asserted, a write stores its data on every edge.
LEMMA WaitingWrites ==
    ASSUME TypeOK, Handshake, bus_reset_n, Addressed, FpuEdge, rst_ff2,
           fpu_state = "FPU_WAIT_DSACK", ~fpu_rw_r
    PROVE  regs' = [regs EXCEPT ![fpu_addr_r] = fpu_wdata_r]
<1>1. cs /\ as /\ ds
  BY DEF Handshake, PortInv, DsackAdvances
<1>2. ~rw /\ a_in = fpu_addr_r /\ d_in = fpu_wdata_r
  BY DEF Addressed
<1> QED
  BY <1>1, <1>2, FpuEdgeSeen DEF RegisterEdge, bus_write

LEMMA FpuEdgeTakesEffect ==
    ASSUME TypeOK, Handshake, DataInv, FpuEdge
    PROVE  WriteTakesEffect'
<1> SUFFICES ASSUME bus_reset_n, fpu_state' = "FPU_WAIT_DSACK",
                    dsack_state' = "DSACK_ASSERTED"
             PROVE  (fpu_rw_r \/ regs[fpu_addr_r] = fpu_wdata_r)'
  BY FpuEdgeFrame DEF WriteTakesEffect
<1>1. rst_ff2
  BY FpuEdgeInReset DEF FpuReset
<1>2. FpuWaiting
  <2>1. ~FpuStrobe
    BY <1>1, FpuEdgeProgress DEF FpuStrobe, Handshake
  <2> QED
    BY <1>1, <2>1, FpuEdgeCases DEF FpuIdle, FpuSetup, FpuSeesDsack,
       FpuTimedOut, FpuCapture, FpuDeassert, FpuAck
<1>3. UNCHANGED <<fpu_rw_r, fpu_addr_r, fpu_wdata_r>> /\ fpu_state = "FPU_WAIT_DSACK"
  BY <1>2 DEF FpuWaiting, latched
<1>4. CASE ~fpu_rw_r
  <2>1. regs' = [regs EXCEPT ![fpu_addr_r] = fpu_wdata_r]
    BY <1>1, <1>3, <1>4, WaitingWrites DEF DataInv
  <2>2. regs \in [Addr -> Data] /\ fpu_addr_r \in Addr
    BY DEF TypeOK, PortTypeOK, PortWordsOK, FpuWordsOK
  <2> QED
    BY <1>3, <2>1, <2>2
<1> QED
  BY <1>3, <1>4

LEMMA NextEffect ==
    ASSUME Timely, TypeOK, Handshake, DataInv, EffectInv, [Next]_vars
    PROVE  EffectInv'
<1>1. CASE BusEdge
  <2>1. UNCHANGED <<bus_reset_n, rst_ff2, regs, fpu_state, dsack_state,
                    fpu_rw_r, fpu_addr_r, fpu_wdata_r>>
    BY <1>1 DEF BusEdge, fpuVars, portVars
  <2>2. ErrorWithDone'
    BY <1>1 DEF EffectInv, ErrorWithDone, BusEdge, p_bus_clk, BusReset, BusIdle,
       BusAcknowledged, BusTimedOut, BusWaiting
  <2> QED
    BY <2>1, <2>2 DEF EffectInv, ResetClears, WriteTakesEffect
<1>2. CASE FpuEdge
  <2>1. ResetClears'
    <3> SUFFICES ASSUME ~rst_ff2' PROVE regs' = [a \in Addr |-> ResetValue]
      BY DEF ResetClears
    <3> QED
      BY <1>2 DEF FpuEdge, PortReset
  <2>2. ErrorWithDone'
    BY <1>2 DEF FpuEdge, busVars, EffectInv, ErrorWithDone
  <2> QED
    BY <1>2, <2>1, <2>2, FpuEdgeTakesEffect DEF EffectInv
<1>3. CASE AssertReset
  BY <1>3 DEF AssertReset, EffectInv, ResetClears, ErrorWithDone, WriteTakesEffect,
     portVars, fpuVars, busVars
<1>4. CASE ReleaseReset
  <2>1. held # 0 /\ ~(held <= 2 * MaxLag + lag)
    BY <1>4, Numbers DEF ReleaseReset, Timely
  <2>2. fpu_state = "FPU_IDLE"
    BY <1>4, <2>1 DEF ReleaseReset, Handshake, Resetting
  <2> QED
    BY <1>4, <2>2 DEF ReleaseReset, EffectInv, ResetClears, ErrorWithDone,
       WriteTakesEffect, portVars, fpuVars, busVars
<1>5. CASE UNCHANGED vars
  BY <1>5 DEF vars, portVars, fpuVars, busVars, EffectInv, ResetClears, ErrorWithDone,
     WriteTakesEffect
<1> QED
  BY <1>1, <1>2, <1>3, <1>4, <1>5 DEF Next

LEMMA EffectHolds ==
    ASSUME Timely
    PROVE  Spec => [](TypeOK /\ Handshake /\ DataInv /\ ErrorInv /\ EffectInv)
<1>1. Init => EffectInv /\ ErrorInv
  BY InitEffect, InitError
<1>2. TypeOK /\ Handshake /\ DataInv /\ EffectInv /\ ErrorInv /\ [Next]_vars
          => EffectInv' /\ ErrorInv'
  BY NextEffect, NextError
<1> QED
  BY <1>1, <1>2, HandshakeHolds, DataHolds, PTL DEF Spec

-----------------------------------------------------------------------------
(* Steps of the abstract port.  PortState is "idle" or beyond the reset    *)
(* only when nothing is under way.                                         *)

\* The host's view of an edge of the FPU clock.
LEMMA HostFrame ==
    ASSUME FpuEdge
    PROVE  UNCHANGED <<bus_reset_n, bus_state, req_toggle, req_rw, req_addr, req_wdata,
                       bridge_done, bridge_rdata, bridge_error>>
BY DEF FpuEdge, busVars

\* Nothing of the abstract port changes.
Stutters == UNCHANGED Atomic!atomicVars

\* Out of reset an edge of the FPU clock stutters when it leaves alone the
\* registers, the data read, the state of the port and an error it shows.
LEMMA FpuEdgeStutters ==
    ASSUME FpuEdge, UNCHANGED <<regs, rdata_fpu, PortState>>,
           PortState = "served" => fpu_error' = fpu_error
    PROVE  Stutters
BY HostFrame DEF Stutters, Atomic!atomicVars, Atomic!askedVars, Atomic!servedVars,
   Atomic!answerVars

LEMMA InitAtomic == Init => Atomic!AtomicInit
BY DEF Init, BridgeInit, PortInit, Atomic!AtomicInit, PortState

\* An edge of the bus clock takes a request, answers one, or does nothing.
LEMMA BusEdgeAtomic ==
    ASSUME Timely, TypeOK, Handshake, bus_reset_n, DataInv, BusEdge
    PROVE  Atomic!AtomicNext
<1>1. UNCHANGED <<bus_reset_n, fpu_state, ack_toggle, fpu_error, rdata_fpu,
                  dsack_state, regs>>
  BY DEF BusEdge, fpuVars, portVars
<1>2. Ring /\ Turns /\ ErrorTravels
  BY DEF Handshake, Running, DataInv
<1>3. fpu_error \in BOOLEAN /\ bridge_rw \in BOOLEAN /\ bridge_addr \in Addr
      /\ bridge_wdata \in Data
  BY DEF TypeOK, FpuFlagsOK, BusFlagsOK, BusWordsOK
<1>4. CASE BusIdle /\ bridge_req
  <2>1. /\ bus_state = "BUS_IDLE" /\ bus_state' = "BUS_WAIT_ACK"
        /\ bridge_done' = FALSE /\ bridge_error' = FALSE /\ bridge_rdata' = bridge_rdata
        /\ req_rw' = bridge_rw /\ req_addr' = bridge_addr /\ req_wdata' = bridge_wdata
        /\ req_toggle' = ~req_toggle
    BY <1>4 DEF BusIdle
  <2>2. ack_toggle' # req_toggle' /\ fpu_state' = "FPU_IDLE"
    BY <1>1, <1>2, <2>1 DEF Ring, Turns, TypeOK, BusFlagsOK
  <2>3. PortState = "idle" /\ PortState' = "asked"
    BY <1>1, <2>1, <2>2 DEF PortState, CarriedOut
  <2>4. Atomic!Ask(bridge_rw, bridge_addr, bridge_wdata)
    BY <1>1, <2>1, <2>3 DEF Atomic!Ask, Atomic!NoAnswer, Atomic!servedVars
  <2> QED
    BY <1>3, <2>4 DEF Atomic!AtomicNext
<1>5. CASE BusIdle /\ ~bridge_req
  <2>1. /\ bus_state = "BUS_IDLE" /\ bus_state' = "BUS_IDLE"
        /\ bridge_done' = FALSE /\ bridge_error' = FALSE /\ bridge_rdata' = bridge_rdata
        /\ UNCHANGED <<req_rw, req_addr, req_wdata>>
    BY <1>5 DEF BusIdle, reqVars
  <2>2. PortState = "idle" /\ PortState' = "idle"
    BY <1>1, <2>1 DEF PortState
  <2>3. Atomic!Pause
    BY <1>1, <2>1, <2>2
    DEF Atomic!Pause, Atomic!NoAnswer, Atomic!askedVars, Atomic!servedVars
  <2> QED
    BY <2>3 DEF Atomic!AtomicNext
<1>6. CASE BusAcknowledged
  <2>1. /\ bus_state = "BUS_WAIT_ACK" /\ bus_state' = "BUS_IDLE"
        /\ ack_ff2 = req_toggle
        /\ bridge_done' = TRUE /\ bridge_error' = err_ff2 /\ bridge_rdata' = rdata_fpu
        /\ UNCHANGED <<req_rw, req_addr, req_wdata>>
    BY <1>6 DEF BusAcknowledged, reqVars
  <2>2. ack_toggle = req_toggle /\ err_ff2 = fpu_error
    BY <1>2, <2>1 DEF Ring, ErrorTravels
  <2>3. PortState = "served" /\ PortState' = "idle"
    BY <1>1, <2>1, <2>2 DEF PortState, CarriedOut
  <2>4. Atomic!Answer
    BY <1>1, <1>3, <2>1, <2>2, <2>3 DEF Atomic!Answer, Atomic!askedVars
  <2> QED
    BY <2>4 DEF Atomic!AtomicNext
<1>7. CASE BusWaiting
  <2>1. /\ bus_state' = bus_state
        /\ bridge_done' = FALSE /\ bridge_error' = FALSE /\ bridge_rdata' = bridge_rdata
        /\ UNCHANGED <<req_toggle, req_rw, req_addr, req_wdata>>
    BY <1>7 DEF BusWaiting, reqVars
  <2>2. PortState' = PortState
    BY <1>1, <2>1 DEF PortState, CarriedOut
  <2>3. Atomic!Pause
    BY <1>1, <2>1, <2>2
    DEF Atomic!Pause, Atomic!NoAnswer, Atomic!askedVars, Atomic!servedVars
  <2> QED
    BY <2>3 DEF Atomic!AtomicNext
<1>8. ~BusReset /\ ~BusTimedOut
  BY NotExpired DEF BusReset, BusTimedOut, Handshake, Running
<1> QED
  BY <1>4, <1>5, <1>6, <1>7, <1>8 DEF BusEdge, p_bus_clk

-----------------------------------------------------------------------------
(* An edge of the FPU clock, out of reset                                  *)

\* Without chip select or data strobe, or on a read, no register changes.
LEMMA NoWriteKeepsRegisters ==
    ASSUME RegisterEdge, ~cs \/ ~ds \/ rw
    PROVE  regs' = regs
BY DEF RegisterEdge, bus_write

\* The state of the port while the host waits.
LEMMA PortStateWaiting ==
    ASSUME bus_reset_n, bus_state = "BUS_WAIT_ACK"
    PROVE  PortState = IF CarriedOut THEN "served" ELSE "asked"
BY DEF PortState

\* Nothing under way, or already acknowledged.
LEMMA FpuEdgeSettled ==
    ASSUME TypeOK, Handshake, EffectInv, bus_reset_n, FpuEdge,
           ack_toggle = req_toggle \/ ~rst_ff2
    PROVE  Stutters
<1> USE HostFrame
<1>1. Ring /\ Turns /\ ReleaseLeads
  BY DEF Handshake, Running
<1>2. CASE ~rst_ff2
  <2>1. /\ regs' = [a \in Addr |-> ResetValue] /\ rdata_fpu' = rdata_fpu
        /\ fpu_state' = "FPU_IDLE" /\ ack_toggle' = FALSE
    BY <1>2, FpuEdgeInReset DEF FpuReset, PortReset
  <2>2. regs' = regs
    BY <1>2, <2>1 DEF EffectInv, ResetClears
  <2>3. fpu_state = "FPU_IDLE" /\ ack_toggle' = ack_toggle
    BY <1>1, <1>2, <2>1 DEF ReleaseLeads
  <2>4. bus_state = "BUS_WAIT_ACK" => ack_toggle # req_toggle
    BY <1>1, <1>2 DEF ReleaseLeads
  <2>5. bus_state \in BusStates
    BY DEF TypeOK, BusWordsOK
  <2>6. PortState \in {"idle", "asked"} /\ PortState' = PortState
    BY <2>1, <2>3, <2>4, <2>5 DEF PortState, CarriedOut, BusStates
  <2> QED
    BY <2>1, <2>2, <2>6, FpuEdgeStutters
<1>3. CASE rst_ff2 /\ ack_toggle = req_toggle
  <2>1. UNCHANGED <<ack_toggle, fpu_error, rdata_fpu, regs>>
    BY <1>3, ServedStays
  <2>2. PortState' = PortState
    BY <1>3, <2>1 DEF PortState, CarriedOut
  <2> QED
    BY <2>1, <2>2, FpuEdgeStutters
<1> QED
  BY <1>2, <1>3

\* What the port holds for the bridge, with a request on its way.
LEMMA RequestLatched ==
    ASSUME Handshake, bus_reset_n, DataInv, fpu_state # "FPU_IDLE"
    PROVE  /\ fpu_rw_r = req_rw /\ fpu_addr_r = req_addr /\ fpu_wdata_r = req_wdata
           /\ fpu_state \in {"FPU_STROBE", "FPU_WAIT_DSACK", "FPU_CAPTURE"} =>
                  rw = req_rw /\ a_in = req_addr /\ (~req_rw => d_in = req_wdata)
BY DEF Handshake, Running, Turns, latched, DataInv, Addressed

\* Before the strobes and after them.
LEMMA FpuEdgeAround ==
    ASSUME TypeOK, Handshake, bus_reset_n, DataInv, ErrorInv, FpuEdge, rst_ff2,
           bus_state = "BUS_WAIT_ACK", ack_toggle # req_toggle,
           fpu_state \notin {"FPU_WAIT_DSACK", "FPU_CAPTURE"}
    PROVE  Stutters
<1> USE HostFrame
<1>1. RegisterEdge /\ PortInv /\ Addressed /\ TimerMatches /\ Running
  BY FpuEdgeSeen DEF Handshake, DataInv, ErrorInv
<1>2. CASE FpuIdle \/ FpuSetup
  <2>1. /\ fpu_state \in {"FPU_IDLE", "FPU_SETUP"} /\ fpu_state' \in {"FPU_IDLE", "FPU_SETUP", "FPU_STROBE"}
        /\ rdata_fpu' = rdata_fpu /\ ack_toggle' = ack_toggle
    BY <1>2 DEF FpuIdle, FpuSetup
  <2>2. regs' = regs
    BY <1>1, <2>1, NoWriteKeepsRegisters DEF PortInv, DsackQuiet
  <2>3. PortState = "asked" /\ PortState' = "asked"
    BY <2>1 DEF PortState, CarriedOut
  <2> QED
    BY <2>1, <2>2, <2>3, FpuEdgeStutters
<1>3. CASE FpuStrobe
  <2>1. /\ fpu_state = "FPU_STROBE" /\ fpu_state' = "FPU_WAIT_DSACK"
        /\ rdata_fpu' = rdata_fpu /\ ack_toggle' = ack_toggle
    BY <1>3 DEF FpuStrobe
  <2>2. dsack_state' # "DSACK_ASSERTED"
    BY <1>1, <2>1, FpuEdgeProgress
  <2>3. regs' = regs
    BY <1>1, <2>1, NoWriteKeepsRegisters DEF TimerMatches
  <2>4. PortState = "asked" /\ PortState' = "asked"
    BY <2>1, <2>2 DEF PortState, CarriedOut
  <2> QED
    BY <2>1, <2>3, <2>4, FpuEdgeStutters
<1>4. CASE FpuDeassert \/ FpuAck
  <2>1. /\ fpu_state \in {"FPU_DEASSERT", "FPU_ACK"}
        /\ rdata_fpu' = rdata_fpu /\ fpu_error' = fpu_error
        /\ ack_toggle' = req_toggle \/ fpu_state' = "FPU_ACK"
    BY <1>1, <1>4, FpuEdgeToggle DEF FpuDeassert, FpuAck, Busy
  <2>2. regs' = regs
    BY <1>1, <2>1, NoWriteKeepsRegisters DEF Addressed, PortInv, DsackQuiet
  <2>3. PortState = "served" /\ PortState' = "served"
    BY <2>1 DEF PortState, CarriedOut
  <2> QED
    BY <2>1, <2>2, <2>3, FpuEdgeStutters
<1>5. ~FpuSeesDsack /\ ~FpuTimedOut /\ ~FpuWaiting /\ ~FpuCapture
  BY DEF FpuSeesDsack, FpuTimedOut, FpuWaiting, FpuCapture
<1> QED
  BY <1>2, <1>3, <1>4, <1>5, FpuEdgeCases

\* Waiting for DSACK: the edge that shows it carries a write out, the one that
\* gives up fails the request, whether or not it has written.
LEMMA FpuEdgeWaiting ==
    ASSUME TypeOK, Handshake, bus_reset_n, DataInv, ErrorInv, EffectInv, FpuEdge, rst_ff2,
           bus_state = "BUS_WAIT_ACK", ack_toggle # req_toggle,
           fpu_state = "FPU_WAIT_DSACK"
    PROVE  Atomic!AtomicNext \/ Stutters
<1> USE HostFrame
<1>1. /\ RegisterEdge /\ cs /\ as /\ ds /\ (dsack_active <=> dsack_state = "DSACK_ASSERTED")
      /\ rw = req_rw /\ a_in = req_addr /\ (~req_rw => d_in = req_wdata) /\ fpu_rw_r = req_rw
  BY FpuEdgeSeen, RequestLatched DEF Handshake, PortInv, DsackAdvances
<1>2. regs' = IF req_rw THEN regs ELSE Atomic!Written
  BY <1>1 DEF RegisterEdge, bus_write, Atomic!Written
<1>3. ~fpu_error
  BY DEF ErrorInv, Verdict
<1>4. CASE FpuSeesDsack
  <2>1. /\ dsack_state = "DSACK_ASSERTED" /\ fpu_state' = "FPU_CAPTURE"
        /\ rdata_fpu' = rdata_fpu /\ fpu_error' = fpu_error /\ ack_toggle' = ack_toggle
    BY <1>1, <1>4 DEF FpuSeesDsack
  <2>2. regs' = regs
    <3>1. CASE req_rw
      BY <1>2, <3>1
    <3>2. CASE ~req_rw
      <4>1. regs[a_in] = d_in
        BY <1>1, <2>1, <3>2, RequestLatched DEF EffectInv, WriteTakesEffect
      <4> QED
        BY <1>1, <4>1, SecondWriteKeeps DEF TypeOK
    <3> QED
      BY <3>1, <3>2
  <2>3. PortState' = PortState
    BY <2>1 DEF PortState, CarriedOut
  <2> QED
    BY <2>1, <2>2, <2>3, FpuEdgeStutters
<1>5. CASE FpuTimedOut
  <2>1. /\ dsack_state # "DSACK_ASSERTED" /\ fpu_state' = "FPU_DEASSERT"
        /\ rdata_fpu' = rdata_fpu /\ fpu_error' = TRUE
    BY <1>1, <1>5 DEF FpuTimedOut
  <2>2. PortState = "asked" /\ PortState' = "served"
    BY <2>1 DEF PortState, CarriedOut
  <2>3. rdata_fpu' \in Data
    BY <2>1 DEF TypeOK, FpuWordsOK
  <2>4. regs' \in {regs} \cup (IF req_rw THEN {} ELSE {Atomic!Written})
    BY <1>2
  <2>5. Atomic!Fail
    BY <2>1, <2>2, <2>3, <2>4 DEF Atomic!Fail, Atomic!askedVars, Atomic!answerVars
  <2> QED
    BY <2>5 DEF Atomic!AtomicNext
<1>6. CASE FpuWaiting
  <2>1. /\ ~dsack_active /\ fpu_state' = "FPU_WAIT_DSACK"
        /\ rdata_fpu' = rdata_fpu /\ fpu_error' = fpu_error /\ ack_toggle' = ack_toggle
    BY <1>6 DEF FpuWaiting
  <2>2. CASE req_rw
    <3>1. PortState = "asked" /\ PortState' = "asked"
      BY <2>1, <2>2 DEF PortState, CarriedOut
    <3> QED
      BY <1>2, <2>1, <2>2, <3>1, FpuEdgeStutters
  <2>3. CASE ~req_rw
    <3>1. dsack_state = "DSACK_WAIT_ASSERT"
      BY <1>1, <2>1, <2>3 DEF ErrorInv, TimerMatches, TypeOK, PortTypeOK, PortWordsOK
    <3>2. dsack_state' = "DSACK_ASSERTED"
      BY <2>1, <3>1, FpuEdgeProgress DEF Handshake
    <3>3. PortState = "asked" /\ PortState' = "served"
      BY <2>1, <2>3, <3>1, <3>2 DEF PortState, CarriedOut
    <3>4. rdata_fpu' \in Data
      BY <2>1 DEF TypeOK, FpuWordsOK
    <3>5. Atomic!Serve
      BY <1>2, <1>3, <2>1, <2>3, <3>3, <3>4
      DEF Atomic!Serve, Atomic!askedVars, Atomic!answerVars
    <3> QED
      BY <3>5 DEF Atomic!AtomicNext
  <2> QED
    BY <2>2, <2>3
<1>7. FpuSeesDsack \/ FpuTimedOut \/ FpuWaiting
  BY FpuEdgeCases DEF FpuIdle, FpuSetup, FpuStrobe, FpuCapture, FpuDeassert, FpuAck
<1> QED
  BY <1>4, <1>5, <1>6, <1>7

\* The capture carries a read out; for a write it repeats what was done.
LEMMA FpuEdgeCaptures ==
    ASSUME TypeOK, Handshake, bus_reset_n, DataInv, ErrorInv, FpuEdge, rst_ff2,
           bus_state = "BUS_WAIT_ACK", ack_toggle # req_toggle,
           fpu_state = "FPU_CAPTURE"
    PROVE  Atomic!AtomicNext \/ Stutters
<1> USE HostFrame
<1>1. /\ RegisterEdge /\ ~fpu_error
      /\ rw = req_rw /\ a_in = req_addr /\ (~req_rw => d_in = req_wdata) /\ fpu_rw_r = req_rw
  BY FpuEdgeSeen, RequestLatched DEF ErrorInv, Verdict
<1>2. FpuCapture
  BY FpuEdgeCases DEF FpuIdle, FpuSetup, FpuStrobe, FpuSeesDsack, FpuTimedOut,
     FpuWaiting, FpuDeassert, FpuAck
<1>3. /\ fpu_state' = "FPU_DEASSERT" /\ fpu_error' = fpu_error
      /\ rdata_fpu' = IF req_rw THEN regs[req_addr] ELSE rdata_fpu
  BY <1>1, <1>2 DEF FpuCapture, d_out
<1>4. CASE req_rw
  <2>1. regs' = regs
    BY <1>1, <1>4, NoWriteKeepsRegisters
  <2>2. PortState = "asked" /\ PortState' = "served"
    BY <1>3, <1>4 DEF PortState, CarriedOut
  <2>3. Atomic!Serve
    BY <1>1, <1>3, <1>4, <2>1, <2>2 DEF Atomic!Serve, Atomic!askedVars, Atomic!answerVars
  <2> QED
    BY <2>3 DEF Atomic!AtomicNext
<1>5. CASE ~req_rw
  <2>1. regs[a_in] = d_in
    BY <1>1, <1>5, RequestLatched DEF DataInv, Carried
  <2>2. regs' = regs
    BY <1>1, <2>1, SecondWriteKeeps DEF TypeOK
  <2>3. PortState = "served" /\ PortState' = "served"
    BY <1>3, <1>5 DEF PortState, CarriedOut
  <2> QED
    BY <1>3, <1>5, <2>2, <2>3, FpuEdgeStutters
<1> QED
  BY <1>4, <1>5

LEMMA FpuEdgeAtomic ==
    ASSUME TypeOK, Handshake, bus_reset_n, DataInv, ErrorInv, EffectInv, FpuEdge
    PROVE  Atomic!AtomicNext \/ Stutters
<1>1. CASE ack_toggle = req_toggle \/ ~rst_ff2
  BY <1>1, FpuEdgeSettled
<1>2. CASE ack_toggle # req_toggle /\ rst_ff2
  <2>1. bus_state = "BUS_WAIT_ACK"
    BY <1>2 DEF Handshake, Running, Ring, Turns, TypeOK, BusWordsOK, BusStates
  <2> QED
    BY <1>2, <2>1, FpuEdgeAround, FpuEdgeWaiting, FpuEdgeCaptures
<1> QED
  BY <1>1, <1>2

-----------------------------------------------------------------------------
(* Resets                                                                  *)

LEMMA InResetAtomic ==
    ASSUME TypeOK, TypeOK', ~bus_reset_n, BusEdge \/ FpuEdge
    PROVE  Atomic!AtomicNext
<1>1. bus_reset_n' = bus_reset_n
  BY DEF BusEdge, FpuEdge
<1>2. PortState = "resetting" /\ PortState' = "resetting"
  BY <1>1 DEF PortState
<1>3. UNCHANGED <<req_rw, req_addr, req_wdata, bridge_rdata>>
  BY DEF BusEdge, FpuEdge, busVars, p_bus_clk, BusReset, BusIdle, BusAcknowledged,
     BusTimedOut, BusWaiting
<1>4. /\ regs' \in [Addr -> Data] /\ rdata_fpu' \in Data
      /\ bridge_done' \in BOOLEAN /\ bridge_error' \in BOOLEAN
  BY DEF TypeOK, PortTypeOK, PortWordsOK, FpuWordsOK, BusFlagsOK
<1>5. Atomic!InReset
  BY <1>2, <1>3, <1>4 DEF Atomic!InReset, Atomic!askedVars
<1> QED
  BY <1>5 DEF Atomic!AtomicNext

LEMMA AssertResetAtomic ==
    ASSUME AssertReset
    PROVE  Atomic!AtomicNext
<1>1. PortState # "resetting" /\ PortState' = "resetting"
  BY DEF AssertReset, PortState
<1>2. Atomic!Reset
  BY <1>1 DEF AssertReset, busVars, fpuVars, portVars, Atomic!Reset, Atomic!askedVars,
     Atomic!answerVars
<1> QED
  BY <1>2 DEF Atomic!AtomicNext

LEMMA ReleaseResetAtomic ==
    ASSUME Timely, TypeOK, Handshake, EffectInv, ReleaseReset
    PROVE  Atomic!AtomicNext
<1>1. held # 0 /\ ~(held <= MaxLag + lag)
  BY Numbers DEF ReleaseReset, Timely
<1>2. bus_state = "BUS_IDLE" /\ ~bridge_done /\ ~rst_ff2
  BY <1>1 DEF ReleaseReset, Handshake, Resetting
<1>3. bridge_done = FALSE /\ bridge_error = FALSE
  BY <1>2 DEF EffectInv, ErrorWithDone, TypeOK, BusFlagsOK
<1>4. regs = [a \in Addr |-> ResetValue]
  BY <1>2 DEF EffectInv, ResetClears
<1>5. PortState = "resetting" /\ PortState' = "idle"
  BY <1>2 DEF ReleaseReset, PortState, busVars
<1>6. Atomic!Release
  BY <1>3, <1>4, <1>5 DEF ReleaseReset, busVars, fpuVars, portVars, Atomic!Release,
     Atomic!askedVars
<1> QED
  BY <1>6 DEF Atomic!AtomicNext

-----------------------------------------------------------------------------
(* The refinement                                                          *)

\* To the wrapper the bridge is a bank of registers with one atomic access per
\* request: two clock domains, synchronizers, handshake and bus cycle, each
\* request carried out at most once and answered with what that found, through
\* DSACK timeouts and resets at any moment.
THEOREM BridgeIsAtomic ==
    ASSUME Timely
    PROVE  Spec => ImplementsAtomicPort
<1>1. Init => Atomic!AtomicInit
  BY InitAtomic
<1>2. TypeOK /\ Handshake /\ DataInv /\ ErrorInv /\ EffectInv /\ TypeOK' /\ [Next]_vars
          => [Atomic!AtomicNext]_Atomic!atomicVars
  <2> SUFFICES ASSUME TypeOK, Handshake, DataInv, ErrorInv, EffectInv, TypeOK', [Next]_vars
               PROVE  [Atomic!AtomicNext]_Atomic!atomicVars
    OBVIOUS
  <2>1. CASE (BusEdge \/ FpuEdge) /\ ~bus_reset_n
    BY <2>1, InResetAtomic
  <2>2. CASE BusEdge /\ bus_reset_n
    BY <2>2, BusEdgeAtomic
  <2>3. CASE FpuEdge /\ bus_reset_n
    BY <2>3, FpuEdgeAtomic DEF Stutters
  <2>4. CASE AssertReset
    BY <2>4, AssertResetAtomic
  <2>5. CASE ReleaseReset
    BY <2>5, ReleaseResetAtomic
  <2>6. CASE UNCHANGED vars
    BY <2>6 DEF vars, portVars, busVars, fpuVars, PortState, CarriedOut,
       Atomic!atomicVars, Atomic!askedVars, Atomic!servedVars, Atomic!answerVars
  <2> QED
    BY <2>1, <2>2, <2>3, <2>4, <2>5, <2>6 DEF Next
<1> QED
  BY <1>1, <1>2, EffectHolds, PTL DEF Spec, ImplementsAtomicPort, Atomic!AtomicSpec

=============================================================================
