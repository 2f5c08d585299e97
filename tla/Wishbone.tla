------------------------------- MODULE Wishbone -------------------------------
(***************************************************************************)
(* wrappers/mc68881_wishbone_wrapper.vhd: the Wishbone front end of the FPU, *)
(* between a bus master and the bridge, here AtomicPort.  As in AxiLite, a   *)
(* step is a rising edge of wb_clk_i, or the bridge carrying a request out.  *)
(*                                                                         *)
(* The wrapper is built for a pipelined master, which takes its strobe away  *)
(* as soon as it is not stalled; the repository's testbench is a classic     *)
(* one, which holds it until it is answered.  The master's writes are        *)
(* numbered, and a write's number is its data.                              *)
(***************************************************************************)
EXTENDS AtomicPort

CONSTANTS
    MaxWrites,       \* writes the master does
    Pipelined,       \* TRUE: the strobe lasts until it is not stalled
    MayAbort,        \* TRUE: the master may drop cyc before the answer
    WaitsOutAbort,   \* TRUE: it then waits for the stall to drop (TEST 4)
    MayReset         \* TRUE: wb_rst_i may be asserted at any time

ASSUME WishboneAssumption ==
    /\ MaxWrites \in Nat /\ Data = 0..MaxWrites /\ ResetValue = 0
    /\ {Pipelined, MayAbort, WaitsOutAbort, MayReset} \subseteq BOOLEAN

VARIABLES
    wb_state, wb_ack_o, wb_err_o, wb_stall_o,
    rdata_reg, we_reg, err_reg,
    bridge_req, bridge_rw, bridge_addr, bridge_wdata,
    cyc, stb, we, adr, writes,  \* what the master drives; its newest write
    waiting,     \* the master's strobe is taken, its answer is not there yet
    draining,    \* the master has aborted and waits for the stall to drop
    asks         \* requests made of the bridge for the master's newest access

wrapperVars == <<wb_state, wb_ack_o, wb_err_o, wb_stall_o, rdata_reg, we_reg, err_reg,
                 bridge_req, bridge_rw, bridge_addr, bridge_wdata>>
masterVars == <<cyc, stb, we, adr, writes, waiting, draining, asks>>
wbVars == <<atomicVars, wrapperVars, masterVars>>

wb_dat_i == writes
wb_dat_o == rdata_reg

WbInit ==
    /\ AtomicInit
    /\ wb_state = "WB_IDLE"
    /\ wb_ack_o = FALSE /\ wb_err_o = FALSE /\ wb_stall_o = FALSE
    /\ rdata_reg = 0 /\ we_reg = FALSE /\ err_reg = FALSE
    /\ bridge_req = FALSE /\ bridge_rw = TRUE /\ bridge_addr = port_addr /\ bridge_wdata = 0
    /\ cyc = FALSE /\ stb = FALSE /\ we = FALSE /\ adr = port_addr /\ writes = 0
    /\ waiting = FALSE /\ draining = FALSE /\ asks = 0

-----------------------------------------------------------------------------
(* The wrapper: p_wb *)

\* Wrong variant, for mutation: no longer busy once the port has done its part.
BusyUntilServed == port = "asked"

bridge_busy == port \in {"asked", "served"}

NoRequest == bridge_req' = FALSE /\ UNCHANGED <<bridge_rw, bridge_addr, bridge_wdata>>
NoWbAnswer == wb_ack_o' = FALSE /\ wb_err_o' = FALSE

\* A strobe is taken whatever wb_stall_o shows: what counts is the bridge.
TakesStrobe ==
    /\ stb /\ cyc /\ ~bridge_busy
    /\ bridge_addr' = adr /\ bridge_wdata' = wb_dat_i /\ bridge_rw' = ~we
    /\ bridge_req' = TRUE
    /\ we_reg' = we
    /\ wb_stall_o' = TRUE
    /\ wb_state' = "WB_WAIT"
    /\ UNCHANGED <<rdata_reg, err_reg>>

\* Wrong variant, for mutation: the stall is never dropped.
NoStrobeKeepsStall ==
    /\ ~(stb /\ cyc /\ ~bridge_busy)
    /\ wb_stall_o' = (wb_stall_o \/ bridge_busy)
    /\ NoRequest
    /\ UNCHANGED <<wb_state, rdata_reg, we_reg, err_reg>>

NoStrobe ==
    /\ ~(stb /\ cyc /\ ~bridge_busy)
    /\ wb_stall_o' = bridge_busy
    /\ NoRequest
    /\ UNCHANGED <<wb_state, rdata_reg, we_reg, err_reg>>

WbIdle == wb_state = "WB_IDLE" /\ NoWbAnswer /\ (TakesStrobe \/ NoStrobe)

\* Wrong variant, for mutation: the polarity of we_reg swapped.
KeepsDataOfWrites == rdata_reg' = IF we_reg THEN rdata ELSE rdata_reg

KeepsDataOfReads == rdata_reg' = IF we_reg THEN rdata_reg ELSE rdata

\* cyc dropped: the bridge goes on by itself, and its answer is not looked at.
WbWait ==
    /\ wb_state = "WB_WAIT"
    /\ NoWbAnswer /\ NoRequest
    /\ wb_stall_o' = TRUE
    /\ \/ /\ ~cyc
          /\ wb_state' = "WB_IDLE" /\ UNCHANGED <<rdata_reg, err_reg>>
       \/ /\ cyc /\ done
          /\ wb_state' = "WB_ACK" /\ err_reg' = error
          /\ KeepsDataOfReads
       \/ /\ cyc /\ ~done
          /\ UNCHANGED <<wb_state, rdata_reg, err_reg>>
    /\ UNCHANGED we_reg

\* Wrong variants, for mutation: acknowledged even when the port failed, or
\* then not answered at all.
ShowsAck == wb_err_o' = err_reg /\ wb_ack_o' = TRUE
ShowsNoError == wb_err_o' = FALSE /\ wb_ack_o' = ~err_reg

ShowsAnswer == wb_err_o' = err_reg /\ wb_ack_o' = ~err_reg

\* cyc is not looked at.
WbAck ==
    /\ wb_state = "WB_ACK"
    /\ ShowsAnswer
    /\ wb_stall_o' = FALSE
    /\ wb_state' = "WB_IDLE"
    /\ NoRequest
    /\ UNCHANGED <<rdata_reg, we_reg, err_reg>>

p_wb == WbIdle \/ WbWait \/ WbAck

\* The registers the code leaves alone are dead until they are loaded again:
\* here they are cleared, which makes equivalent states equal.
WbReset ==
    /\ wb_state' = "WB_IDLE" /\ wb_stall_o' = FALSE
    /\ NoWbAnswer /\ bridge_req' = FALSE
    /\ rdata_reg' = 0 /\ we_reg' = FALSE /\ err_reg' = FALSE
    /\ bridge_rw' = TRUE /\ bridge_addr' = port_addr /\ bridge_wdata' = 0

-----------------------------------------------------------------------------
(* The bridge's bus side, as AtomicPort promises it *)

BridgeEdge ==
    \/ port = "idle" /\ bridge_req /\ Ask(bridge_rw, bridge_addr, bridge_wdata)
    \/ port = "idle" /\ ~bridge_req /\ Pause
    \/ port \in {"asked", "served"} /\ Pause
    \/ Answer

CarryOut == (Serve \/ Fail) /\ UNCHANGED <<wrapperVars, masterVars>>

-----------------------------------------------------------------------------
(* The master *)

Answered == cyc /\ waiting /\ (wb_ack_o \/ wb_err_o)

Counts == asks' = IF bridge_req' THEN asks + 1 ELSE asks

\* The next access follows the last one's answer at once, or after idle clocks.
BeginAccess ==
    /\ ~cyc \/ Answered
    /\ ~(draining /\ wb_stall_o)
    /\ cyc' = TRUE /\ stb' = TRUE /\ adr' \in Addr
    /\ \/ we' = FALSE /\ UNCHANGED writes
       \/ we' = TRUE /\ writes < MaxWrites /\ writes' = writes + 1
    /\ waiting' = ~Pipelined
    /\ draining' = FALSE /\ asks' = 0

EndCycle ==
    /\ Answered
    /\ cyc' = FALSE /\ stb' = FALSE /\ waiting' = FALSE
    /\ Counts /\ UNCHANGED <<we, adr, writes, draining>>

StrobeTaken ==
    /\ Pipelined /\ cyc /\ stb /\ ~wb_stall_o /\ ~Answered
    /\ stb' = FALSE /\ waiting' = TRUE
    /\ Counts /\ UNCHANGED <<cyc, we, adr, writes, draining>>

Waits ==
    /\ ~Answered /\ ~(Pipelined /\ cyc /\ stb /\ ~wb_stall_o)
    /\ draining' = (draining /\ wb_stall_o)
    /\ Counts /\ UNCHANGED <<cyc, stb, we, adr, writes, waiting>>

AbortCycle ==
    /\ MayAbort /\ cyc /\ ~Answered
    /\ cyc' = FALSE /\ stb' = FALSE /\ waiting' = FALSE
    /\ draining' = WaitsOutAbort
    /\ Counts /\ UNCHANGED <<we, adr, writes>>

WbMaster == BeginAccess \/ EndCycle \/ StrobeTaken \/ Waits \/ AbortCycle

BusEdge == port # "resetting" /\ p_wb /\ BridgeEdge /\ WbMaster

AssertReset ==
    /\ MayReset /\ Reset
    /\ WbReset
    /\ cyc' = FALSE /\ stb' = FALSE /\ waiting' = FALSE /\ draining' = FALSE
    /\ we' = FALSE /\ adr' = port_addr /\ asks' = 0
    /\ UNCHANGED writes

ReleaseReset == Release /\ UNCHANGED <<wrapperVars, masterVars>>

WbNext == BusEdge \/ CarryOut \/ AssertReset \/ ReleaseReset

WbSpec == WbInit /\ [][WbNext]_wbVars

\* The clock runs, the bridge answers and the reset ends.  The master takes its
\* answers, but need not ever begin or abort an access.
PatientEdge ==
    port # "resetting" /\ p_wb /\ BridgeEdge /\ (EndCycle \/ StrobeTaken \/ Waits)

FairWbSpec ==
    /\ WbSpec
    /\ WF_wbVars(CarryOut) /\ WF_wbVars(ReleaseReset)
    /\ WF_wbVars(PatientEdge) /\ WF_wbVars(PatientEdge /\ Answer)

-----------------------------------------------------------------------------
(* Properties *)

\* Types; and an access is acknowledged or refused, not both.
TypeOK ==
    /\ wb_state \in {"WB_IDLE", "WB_WAIT", "WB_ACK"}
    /\ port \in {"idle", "asked", "served", "resetting"}
    /\ {rdata_reg, bridge_wdata, port_wdata, fetched, rdata, writes} \subseteq Data
    /\ {bridge_addr, port_addr, adr} \subseteq Addr
    /\ registers \in [Addr -> Data]
    /\ ~(wb_ack_o /\ wb_err_o)

\* "One transaction at a time": an access is asked of the bridge once, whether
\* it is answered or aborted, and never while the bridge is busy with another,
\* for it would ignore the request.  Writing a command register twice is not
\* the same as once.
AskedOnce ==
    /\ asks <= 1
    /\ bridge_req => port \in {"idle", "resetting"}

\* An answer shown in a cycle belongs to the access this cycle has made, never
\* to an aborted one; acknowledged, the access has been done: the register holds
\* what was written, or what is on wb_dat_o was in it.
AnswerIsOwn ==
    cyc /\ (wb_ack_o \/ wb_err_o) =>
        /\ waiting /\ asks = 1
        /\ wb_ack_o => registers[adr] = IF we THEN wb_dat_i ELSE wb_dat_o

\* "Stall should drop after bridge drains aborted transaction."
StallEnds == wb_stall_o /\ ~cyc ~> ~wb_stall_o

\* Every strobe is answered, with ERR when the port failed it.
StrobeAnswered == cyc /\ stb ~> wb_ack_o \/ wb_err_o \/ ~cyc
=============================================================================
