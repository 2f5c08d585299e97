------------------------------ MODULE BusBridge ------------------------------
(***************************************************************************)
(* wrappers/mc68881_bus_bridge.vhd: the clock-domain bridge between a SoC  *)
(* bus and the FPU.  The bus side flips req_toggle to ask for a transfer   *)
(* and waits until the acknowledge toggle, seen through two flip-flops,    *)
(* has the same value; the FPU side sees the request through two           *)
(* flip-flops of its own, runs one M68K bus cycle (CS/AS, DS, DSACK) and   *)
(* flips ack_toggle.  Both sides have a timeout.                           *)
(*                                                                         *)
(* The two clocks are unrelated, so an edge of either is a step of its     *)
(* own: BusEdge and FpuEdge.  All registers of a domain change together,   *)
(* from the values they and the other domain's registers had before.       *)
(*                                                                         *)
(* How the clocks drift is the environment's: at most MaxLag bus edges     *)
(* pass between two FPU edges, unless FpuClkMayStop, when any number may.  *)
(* lag counts them.  The host behind the bridge (one of the wrappers)      *)
(* raises bridge_req for one bus cycle, and only when the bridge is idle.  *)
(***************************************************************************)
EXTENDS FpuPort

CONSTANTS
    DsackTimeouts,  \* values of generic dsack_timeout_g, in FPU edges
    BusTimeout,     \* BUS_TIMEOUT_C, in bus edges
    MaxLag,         \* bus edges between two FPU edges, at most
    FpuClkMayStop,  \* TRUE: no bound on the drift
    MayReset,       \* TRUE: the bus reset may be asserted at any time
    ResetLength     \* bus edges a reset lasts, at least

ASSUME BridgeAssumption ==
    /\ DsackTimeouts \subseteq Nat
    /\ BusTimeout \in Nat \ {0}
    /\ MaxLag \in Nat \ {0}
    /\ FpuClkMayStop \in BOOLEAN
    /\ MayReset \in BOOLEAN
    /\ ResetLength \in Nat

VARIABLES
    \* driven by the host, in the bus domain
    bus_reset_n, bridge_req, bridge_rw, bridge_addr, bridge_wdata,
    \* bus domain
    bus_state, req_toggle, req_rw, req_addr, req_wdata, bus_timeout_cnt,
    ack_ff1, ack_ff2, err_ff1, err_ff2,
    bridge_rdata, bridge_done, bridge_error,
    \* FPU domain
    rst_ff1, rst_ff2, req_ff1, req_ff2,
    fpu_state, ack_toggle, fpu_error, fpu_rw_r, fpu_addr_r, fpu_wdata_r,
    rdata_fpu, timeout_cnt,
    dsack_timeout_g,    \* the generic: a value that never changes
    \* the environment: drift of the two clocks, bus edges since reset began
    lag, held

hostVars == <<bridge_req, bridge_rw, bridge_addr, bridge_wdata>>
reqVars == <<req_toggle, req_rw, req_addr, req_wdata>>
busSync == <<ack_ff1, ack_ff2, err_ff1, err_ff2>>
busVars == <<bus_state, req_toggle, req_rw, req_addr, req_wdata,
             bus_timeout_cnt, ack_ff1, ack_ff2, err_ff1, err_ff2,
             bridge_rdata, bridge_done, bridge_error>>
fpuSync == <<rst_ff1, rst_ff2, req_ff1, req_ff2>>
latched == <<fpu_rw_r, fpu_addr_r, fpu_wdata_r>>
fpuVars == <<rst_ff1, rst_ff2, req_ff1, req_ff2, fpu_state, ack_toggle,
             fpu_error, fpu_rw_r, fpu_addr_r, fpu_wdata_r, rdata_fpu,
             timeout_cnt>>
vars == <<strobeVars, portVars, bus_reset_n, hostVars, busVars, fpuVars,
          dsack_timeout_g, lag, held>>

BusStates == {"BUS_IDLE", "BUS_WAIT_ACK"}
FpuStates == {"FPU_IDLE", "FPU_SETUP", "FPU_STROBE", "FPU_WAIT_DSACK",
              "FPU_CAPTURE", "FPU_DEASSERT", "FPU_ACK"}

BridgeInit ==
    /\ dsack_timeout_g \in DsackTimeouts
    /\ bus_reset_n = TRUE
    /\ bridge_req = FALSE /\ bridge_rw = TRUE
    /\ bridge_addr \in Addr /\ bridge_wdata = ResetValue
    /\ bus_state = "BUS_IDLE"
    /\ req_toggle = FALSE /\ req_rw = TRUE
    /\ req_addr = bridge_addr /\ req_wdata = ResetValue
    /\ bus_timeout_cnt = 0
    /\ ack_ff1 = FALSE /\ ack_ff2 = FALSE
    /\ err_ff1 = FALSE /\ err_ff2 = FALSE
    /\ bridge_rdata = ResetValue /\ bridge_done = FALSE /\ bridge_error = FALSE
    /\ rst_ff1 = TRUE /\ rst_ff2 = TRUE
    /\ req_ff1 = FALSE /\ req_ff2 = FALSE
    /\ fpu_state = "FPU_IDLE" /\ ack_toggle = FALSE /\ fpu_error = FALSE
    /\ fpu_rw_r = TRUE /\ fpu_addr_r = bridge_addr /\ fpu_wdata_r = ResetValue
    /\ rdata_fpu = ResetValue /\ timeout_cnt = 0
    /\ lag = 0 /\ held = 0

\* The power-on reset is over: every register has its reset value.
Init == BridgeInit /\ PortInit /\ a_in = bridge_addr

-----------------------------------------------------------------------------
(* Bus clock domain: p_bus_clk *)

\* The two-flip-flop synchronizers run on every edge, in reset too.
BusSynchronizers ==
    /\ ack_ff1' = ack_toggle /\ ack_ff2' = ack_ff1
    /\ err_ff1' = fpu_error  /\ err_ff2' = err_ff1

BusReset ==
    /\ ~bus_reset_n
    /\ bus_state' = "BUS_IDLE"
    /\ req_toggle' = FALSE
    /\ bridge_done' = FALSE /\ bridge_error' = FALSE
    /\ bus_timeout_cnt' = 0
    /\ UNCHANGED <<req_rw, req_addr, req_wdata, bridge_rdata>>

\* Wrong variant, for mutation: the timer is not restarted.
BusIdleKeepsTimer ==
    /\ bus_reset_n /\ bus_state = "BUS_IDLE"
    /\ bridge_done' = FALSE /\ bridge_error' = FALSE
    /\ bus_timeout_cnt' = bus_timeout_cnt
    /\ IF bridge_req
       THEN /\ req_addr' = bridge_addr /\ req_wdata' = bridge_wdata
            /\ req_rw' = bridge_rw
            /\ req_toggle' = ~req_toggle
            /\ bus_state' = "BUS_WAIT_ACK"
       ELSE UNCHANGED <<reqVars, bus_state>>
    /\ UNCHANGED bridge_rdata

BusIdle ==
    /\ bus_reset_n /\ bus_state = "BUS_IDLE"
    /\ bridge_done' = FALSE /\ bridge_error' = FALSE
    /\ bus_timeout_cnt' = 0
    /\ IF bridge_req
       THEN /\ req_addr' = bridge_addr /\ req_wdata' = bridge_wdata
            /\ req_rw' = bridge_rw
            /\ req_toggle' = ~req_toggle
            /\ bus_state' = "BUS_WAIT_ACK"
       ELSE UNCHANGED <<reqVars, bus_state>>
    /\ UNCHANGED bridge_rdata

BusAcknowledged ==
    /\ bus_reset_n /\ bus_state = "BUS_WAIT_ACK"
    /\ ack_ff2 = req_toggle
    /\ bridge_rdata' = rdata_fpu
    /\ bridge_done' = TRUE /\ bridge_error' = err_ff2
    /\ bus_state' = "BUS_IDLE"
    /\ UNCHANGED <<reqVars, bus_timeout_cnt>>

\* Wrong variant, for mutation: one clock late.
BusTimerExpiredLate == bus_timeout_cnt = BusTimeout

BusTimerExpired == bus_timeout_cnt = BusTimeout - 1

BusTimedOut ==
    /\ bus_reset_n /\ bus_state = "BUS_WAIT_ACK"
    /\ ack_ff2 # req_toggle
    /\ BusTimerExpired
    /\ bridge_done' = TRUE /\ bridge_error' = TRUE
    /\ bus_state' = "BUS_IDLE"
    /\ UNCHANGED <<reqVars, bus_timeout_cnt, bridge_rdata>>

\* Wrong variant, for mutation: the timer never advances.
BusWaitingForever ==
    /\ bus_reset_n /\ bus_state = "BUS_WAIT_ACK"
    /\ ack_ff2 # req_toggle
    /\ ~BusTimerExpired
    /\ bus_timeout_cnt' = bus_timeout_cnt
    /\ bridge_done' = FALSE /\ bridge_error' = FALSE
    /\ UNCHANGED <<reqVars, bus_state, bridge_rdata>>

BusWaiting ==
    /\ bus_reset_n /\ bus_state = "BUS_WAIT_ACK"
    /\ ack_ff2 # req_toggle
    /\ ~BusTimerExpired
    /\ bus_timeout_cnt' = bus_timeout_cnt + 1
    /\ bridge_done' = FALSE /\ bridge_error' = FALSE
    /\ UNCHANGED <<reqVars, bus_state, bridge_rdata>>

p_bus_clk == BusReset \/ BusIdle \/ BusAcknowledged \/ BusTimedOut \/ BusWaiting

\* What the wrappers promise the bridge: bridge_req is a one-cycle pulse,
\* raised only when the bridge is idle and no request is on its way.
HostEdge ==
    \/ /\ bridge_req' = FALSE
       /\ UNCHANGED <<bridge_rw, bridge_addr, bridge_wdata>>
    \/ /\ bus_reset_n /\ bus_state = "BUS_IDLE" /\ ~bridge_req
       /\ bridge_req' = TRUE
       /\ bridge_rw' \in BOOLEAN /\ bridge_addr' \in Addr
       /\ bridge_wdata' \in Data

\* The count itself stops at MaxLag when the FPU clock may stop.
BusDrift ==
    /\ FpuClkMayStop \/ lag < MaxLag
    /\ lag' = IF lag < MaxLag THEN lag + 1 ELSE lag
    /\ held' = IF bus_reset_n \/ held = ResetLength THEN held ELSE held + 1

BusEdge ==
    /\ BusDrift
    /\ BusSynchronizers
    /\ p_bus_clk
    /\ HostEdge
    /\ UNCHANGED <<bus_reset_n, dsack_timeout_g, fpuVars, strobeVars, portVars>>

-----------------------------------------------------------------------------
(* FPU clock domain: p_rst_sync and p_fpu_clk *)

FpuSynchronizers ==
    /\ rst_ff1' = bus_reset_n /\ rst_ff2' = rst_ff1
    /\ req_ff1' = req_toggle  /\ req_ff2' = req_ff1

\* Wrong variant, for mutation: reset forgets the acknowledge.
FpuResetKeepsAck ==
    /\ ~rst_ff2
    /\ fpu_state' = "FPU_IDLE"
    /\ ack_toggle' = ack_toggle /\ fpu_error' = FALSE
    /\ cs' = FALSE /\ as' = FALSE /\ ds' = FALSE /\ rw' = TRUE
    /\ timeout_cnt' = 0
    /\ UNCHANGED <<latched, rdata_fpu, a_in, d_in>>

\* Reset releases the strobes.  It clears fpu_a_in and fpu_d_in too: with
\* the strobes released nothing looks at them, so they are left alone here.
FpuReset ==
    /\ ~rst_ff2
    /\ fpu_state' = "FPU_IDLE"
    /\ ack_toggle' = FALSE /\ fpu_error' = FALSE
    /\ cs' = FALSE /\ as' = FALSE /\ ds' = FALSE /\ rw' = TRUE
    /\ timeout_cnt' = 0
    /\ UNCHANGED <<latched, rdata_fpu, a_in, d_in>>

\* Wrong variant, for mutation: a new request keeps the old error.
FpuIdleKeepsError ==
    /\ rst_ff2 /\ fpu_state = "FPU_IDLE"
    /\ cs' = FALSE /\ as' = FALSE /\ ds' = FALSE /\ rw' = TRUE
    /\ IF req_ff2 # ack_toggle
       THEN /\ fpu_error' = fpu_error
            /\ fpu_addr_r' = req_addr /\ fpu_wdata_r' = req_wdata
            /\ fpu_rw_r' = req_rw
            /\ fpu_state' = "FPU_SETUP"
       ELSE UNCHANGED <<fpu_error, latched, fpu_state>>
    /\ UNCHANGED <<ack_toggle, rdata_fpu, timeout_cnt, a_in, d_in>>

FpuIdle ==
    /\ rst_ff2 /\ fpu_state = "FPU_IDLE"
    /\ cs' = FALSE /\ as' = FALSE /\ ds' = FALSE /\ rw' = TRUE
    /\ IF req_ff2 # ack_toggle
       THEN /\ fpu_error' = FALSE
            /\ fpu_addr_r' = req_addr /\ fpu_wdata_r' = req_wdata
            /\ fpu_rw_r' = req_rw
            /\ fpu_state' = "FPU_SETUP"
       ELSE UNCHANGED <<fpu_error, latched, fpu_state>>
    /\ UNCHANGED <<ack_toggle, rdata_fpu, timeout_cnt, a_in, d_in>>

\* Wrong variant, for mutation: write data driven on reads.
FpuSetupDrivesReads ==
    /\ rst_ff2 /\ fpu_state = "FPU_SETUP"
    /\ a_in' = fpu_addr_r /\ rw' = fpu_rw_r
    /\ d_in' = IF fpu_rw_r THEN fpu_wdata_r ELSE d_in
    /\ cs' = TRUE /\ as' = TRUE
    /\ timeout_cnt' = 0
    /\ fpu_state' = "FPU_STROBE"
    /\ UNCHANGED <<ds, ack_toggle, fpu_error, latched, rdata_fpu>>

FpuSetup ==
    /\ rst_ff2 /\ fpu_state = "FPU_SETUP"
    /\ a_in' = fpu_addr_r /\ rw' = fpu_rw_r
    /\ d_in' = IF fpu_rw_r THEN d_in ELSE fpu_wdata_r
    /\ cs' = TRUE /\ as' = TRUE
    /\ timeout_cnt' = 0
    /\ fpu_state' = "FPU_STROBE"
    /\ UNCHANGED <<ds, ack_toggle, fpu_error, latched, rdata_fpu>>

FpuStrobe ==
    /\ rst_ff2 /\ fpu_state = "FPU_STROBE"
    /\ ds' = TRUE
    /\ fpu_state' = "FPU_WAIT_DSACK"
    /\ UNCHANGED <<cs, as, rw, a_in, d_in, ack_toggle, fpu_error, latched,
                   rdata_fpu, timeout_cnt>>

FpuSeesDsack ==
    /\ rst_ff2 /\ fpu_state = "FPU_WAIT_DSACK"
    /\ dsack_active
    /\ fpu_state' = "FPU_CAPTURE"
    /\ UNCHANGED <<strobeVars, ack_toggle, fpu_error, latched, rdata_fpu,
                   timeout_cnt>>

\* A generic of 0 disables the timeout.
DsackTimerExpired == dsack_timeout_g > 0 /\ timeout_cnt = dsack_timeout_g - 1

FpuTimedOut ==
    /\ rst_ff2 /\ fpu_state = "FPU_WAIT_DSACK"
    /\ ~dsack_active
    /\ DsackTimerExpired
    /\ fpu_error' = TRUE
    /\ ds' = FALSE
    /\ fpu_state' = "FPU_DEASSERT"
    /\ UNCHANGED <<cs, as, rw, a_in, d_in, ack_toggle, latched, rdata_fpu,
                   timeout_cnt>>

FpuWaiting ==
    /\ rst_ff2 /\ fpu_state = "FPU_WAIT_DSACK"
    /\ ~dsack_active
    /\ ~DsackTimerExpired
    /\ timeout_cnt' = timeout_cnt + 1
    /\ UNCHANGED <<strobeVars, fpu_state, ack_toggle, fpu_error, latched,
                   rdata_fpu>>

FpuCapture ==
    /\ rst_ff2 /\ fpu_state = "FPU_CAPTURE"
    /\ rdata_fpu' = IF fpu_rw_r THEN d_out ELSE rdata_fpu
    /\ ds' = FALSE
    /\ fpu_state' = "FPU_DEASSERT"
    /\ UNCHANGED <<cs, as, rw, a_in, d_in, ack_toggle, fpu_error, latched,
                   timeout_cnt>>

\* Wrong variant, for mutation: acknowledges one clock early.
FpuDeassertAcks ==
    /\ rst_ff2 /\ fpu_state = "FPU_DEASSERT"
    /\ cs' = FALSE /\ as' = FALSE
    /\ ack_toggle' = ~ack_toggle
    /\ fpu_state' = "FPU_IDLE"
    /\ UNCHANGED <<ds, rw, a_in, d_in, fpu_error, latched,
                   rdata_fpu, timeout_cnt>>

FpuDeassert ==
    /\ rst_ff2 /\ fpu_state = "FPU_DEASSERT"
    /\ cs' = FALSE /\ as' = FALSE
    /\ fpu_state' = "FPU_ACK"
    /\ UNCHANGED <<ds, rw, a_in, d_in, ack_toggle, fpu_error, latched,
                   rdata_fpu, timeout_cnt>>

FpuAck ==
    /\ rst_ff2 /\ fpu_state = "FPU_ACK"
    /\ ack_toggle' = ~ack_toggle
    /\ fpu_state' = "FPU_IDLE"
    /\ UNCHANGED <<strobeVars, fpu_error, latched, rdata_fpu, timeout_cnt>>

p_fpu_clk ==
    \/ FpuReset \/ FpuIdle \/ FpuSetup \/ FpuStrobe \/ FpuSeesDsack
    \/ FpuTimedOut \/ FpuWaiting \/ FpuCapture \/ FpuDeassert \/ FpuAck

\* fpu_reset_n is rst_ff2, and the FPU's own reset is asynchronous: it holds
\* from the edge that clears rst_ff2 through the edge that sets it again.
FpuEdge ==
    /\ lag' = 0
    /\ FpuSynchronizers
    /\ p_fpu_clk
    /\ IF rst_ff2 /\ rst_ff2' THEN PortEdge ELSE PortReset
    /\ UNCHANGED <<bus_reset_n, dsack_timeout_g, hostVars, busVars, held>>

-----------------------------------------------------------------------------
(* The reset input *)

AssertReset ==
    /\ MayReset /\ bus_reset_n
    /\ bus_reset_n' = FALSE
    /\ held' = 0
    /\ UNCHANGED <<strobeVars, portVars, hostVars, busVars, fpuVars,
                   dsack_timeout_g, lag>>

ReleaseReset ==
    /\ ~bus_reset_n /\ held = ResetLength
    /\ bus_reset_n' = TRUE
    /\ UNCHANGED <<strobeVars, portVars, hostVars, busVars, fpuVars,
                   dsack_timeout_g, lag, held>>

Next == BusEdge \/ FpuEdge \/ AssertReset \/ ReleaseReset

\* Both clocks run.  An edge of a clock is always possible (the bus clock's
\* up to the drift bound), so weak fairness is all it takes.
Spec == Init /\ [][Next]_vars
FairSpec == Spec /\ WF_vars(BusEdge) /\ WF_vars(FpuEdge)
\* Only the bus clock is sure to run.
BusClockSpec == Spec /\ WF_vars(BusEdge)

-----------------------------------------------------------------------------
(* Properties *)

\* Type invariant.  The ranges of the two timers are the ones the code
\* declares.
BusFlagsOK ==
    /\ bus_reset_n \in BOOLEAN /\ bridge_req \in BOOLEAN /\ bridge_rw \in BOOLEAN
    /\ req_toggle \in BOOLEAN /\ req_rw \in BOOLEAN
    /\ ack_ff1 \in BOOLEAN /\ ack_ff2 \in BOOLEAN
    /\ err_ff1 \in BOOLEAN /\ err_ff2 \in BOOLEAN
    /\ bridge_done \in BOOLEAN /\ bridge_error \in BOOLEAN

BusWordsOK ==
    /\ bus_state \in BusStates
    /\ bridge_addr \in Addr /\ bridge_wdata \in Data
    /\ req_addr \in Addr /\ req_wdata \in Data
    /\ bridge_rdata \in Data

BusTimersOK ==
    /\ bus_timeout_cnt \in 0..BusTimeout-1
    /\ lag \in 0..MaxLag /\ held \in 0..ResetLength

FpuFlagsOK ==
    /\ rst_ff1 \in BOOLEAN /\ rst_ff2 \in BOOLEAN
    /\ req_ff1 \in BOOLEAN /\ req_ff2 \in BOOLEAN
    /\ ack_toggle \in BOOLEAN /\ fpu_error \in BOOLEAN /\ fpu_rw_r \in BOOLEAN

FpuWordsOK ==
    /\ fpu_state \in FpuStates
    /\ fpu_addr_r \in Addr /\ fpu_wdata_r \in Data
    /\ rdata_fpu \in Data

FpuTimerOK ==
    /\ dsack_timeout_g \in DsackTimeouts
    /\ timeout_cnt \in Nat /\ (dsack_timeout_g > 0 => timeout_cnt < dsack_timeout_g)

TypeOK ==
    /\ PortTypeOK
    /\ BusFlagsOK /\ BusWordsOK /\ BusTimersOK
    /\ FpuFlagsOK /\ FpuWordsOK /\ FpuTimerOK

\* The DSACK timer stays in the range its declaration gives it, "natural
\* range 0 to dsack_timeout_g", also when 0 disables the timeout.
DsackTimerInRange == timeout_cnt \in 0..dsack_timeout_g

\* Whenever the FPU side is serving a request, the host is still waiting for
\* that very request and the fields latched from the other clock domain are
\* the ones it asked for: the reason the code gives for latching req_*_reg
\* without synchronizers ("bus side is in BUS_WAIT_ACK and cannot modify
\* them until ack returns").
RequestStable ==
    bus_reset_n /\ fpu_state # "FPU_IDLE" =>
        /\ bus_state = "BUS_WAIT_ACK"
        /\ latched = <<req_rw, req_addr, req_wdata>>

\* A transfer that ends without an error was done: a read returned what the
\* addressed register holds, a written register holds the data written.  A
\* completion that belongs to an earlier request, or to none, would not.
DoneMeansServed ==
    bus_reset_n /\ bridge_done /\ ~bridge_error =>
        regs[req_addr] = IF req_rw THEN bridge_rdata ELSE req_wdata

\* Which transfers fail is decided by the DSACK timeout alone: a write waits
\* one FPU edge for DSACK after the strobes, a read two.  An error flag left
\* over from an earlier request, or lost on the way through the
\* synchronizers, would show here.
ErrorIsTimely ==
    bus_reset_n /\ bridge_done =>
        (bridge_error <=> dsack_timeout_g \in 1..(IF req_rw THEN 2 ELSE 1))

\* DSACK of one bus cycle is gone before the next one starts, so no cycle is
\* ended by its predecessor's acknowledge.
NoStaleDsack ==
    rst_ff2 /\ fpu_state \in {"FPU_IDLE", "FPU_SETUP"} =>
        ~dsack_active /\ dsack_state = "DSACK_IDLE"

\* The last-resort timeout of the bus side never fires while the FPU clock
\* runs within the drift bound.
NoBusTimeout == [][~BusTimedOut]_vars

\* Every request is answered (or given up by a reset).
RequestAnswered == bus_state = "BUS_WAIT_ACK" ~> bus_state = "BUS_IDLE"

=============================================================================
