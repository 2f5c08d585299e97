------------------------------- MODULE AxiLite -------------------------------
(***************************************************************************)
(* wrappers/mc68881_axilite_wrapper.vhd: the AXI4-Lite front end of the      *)
(* FPU, between a bus master with five independent channels and the bridge, *)
(* here AtomicPort.                                                         *)
(*                                                                         *)
(* A step is a rising edge of s_axi_aclk, on which the wrapper, the bridge's *)
(* bus side and the master all act on the values before the edge; or the    *)
(* bridge carrying a request out, in between.                               *)
(*                                                                         *)
(* The master numbers its writes.  A write's number is its data, and its    *)
(* address follows from its number (AddrOf).                                *)
(***************************************************************************)
EXTENDS AtomicPort

CONSTANTS
    ChannelTimeouts, \* values of generic channel_timeout_g, in clocks
    MaxWrites,       \* writes the master does
    AddrOf(_),       \* the address of a write
    MayReset         \* TRUE: s_axi_aresetn may be asserted at any time

ASSUME AxiAssumption ==
    /\ ChannelTimeouts \subseteq Nat /\ MaxWrites \in Nat
    /\ Data = 0..MaxWrites /\ ResetValue = 0
    /\ \A n \in 1..MaxWrites : AddrOf(n) \in Addr

\* For TLC: two registers, written in turn.
Alternating(n) == n % 2

VARIABLES
    axi_state,
    awready, wready, arready, bvalid, rvalid, bresp, rresp, rchannel,
    aw_latched, w_latched, req_sent, chan_timeout_cnt,
    aw_addr_reg, w_data_reg, ar_addr_reg, rdata_reg, resp_reg,
    bridge_req, bridge_rw, bridge_addr, bridge_wdata,
    channel_timeout_g,   \* the generic: a value that never changes
    \* the master: what it drives (bready and rready are one, for only one
    \* response is ever shown), the beats it has sent and the responses it has
    \* had, and the newest write answered OKAY when it asked to read
    awvalid, wvalid, arvalid, araddr, ready,
    aws, ws, bs, floor,
    okays,       \* the newest write answered OKAY, by address
    timed_out    \* a channel timeout has fired since reset

readyVars == <<awready, wready, arready>>
latchVars == <<aw_addr_reg, w_data_reg, ar_addr_reg>>
bridgeVars == <<bridge_req, bridge_rw, bridge_addr, bridge_wdata>>
wrapperVars == <<axi_state, readyVars, bvalid, rvalid, bresp, rresp, rchannel, aw_latched,
                 w_latched, req_sent, chan_timeout_cnt, latchVars, rdata_reg, resp_reg,
                 bridgeVars, timed_out>>
masterVars == <<awvalid, wvalid, arvalid, araddr, ready, aws, ws, bs, floor, okays>>
axiVars == <<atomicVars, wrapperVars, masterVars, channel_timeout_g>>

AxiStates == {"AXI_IDLE", "AXI_WRITE_BRIDGE", "AXI_WRITE_RESP", "AXI_READ_BRIDGE", "AXI_READ_RESP"}
Responses == {"OKAY", "SLVERR"}

awaddr == AddrOf(aws + 1)
wdata == ws + 1

AxiInit ==
    /\ AtomicInit
    /\ channel_timeout_g \in ChannelTimeouts
    /\ axi_state = "AXI_IDLE"
    /\ awready = FALSE /\ wready = FALSE /\ arready = FALSE
    /\ bvalid = FALSE /\ rvalid = FALSE /\ bresp = "OKAY" /\ rresp = "OKAY" /\ rchannel = 0
    /\ aw_latched = FALSE /\ w_latched = FALSE /\ req_sent = FALSE /\ chan_timeout_cnt = 0
    /\ aw_addr_reg = port_addr /\ w_data_reg = 0 /\ ar_addr_reg = port_addr
    /\ rdata_reg = 0 /\ resp_reg = "OKAY"
    /\ bridge_req = FALSE /\ bridge_rw = TRUE /\ bridge_addr = port_addr /\ bridge_wdata = 0
    /\ awvalid = FALSE /\ wvalid = FALSE /\ arvalid = FALSE /\ araddr = port_addr
    /\ ready = FALSE
    /\ aws = 0 /\ ws = 0 /\ bs = 0 /\ floor = 0 /\ okays = [a \in Addr |-> 0]
    /\ timed_out = FALSE

-----------------------------------------------------------------------------
(* The wrapper: p_axi *)

Goto(state) == axi_state' = state

\* What each state leaves alone or resets to its default.
NoRequest == bridge_req' = FALSE /\ UNCHANGED <<bridge_rw, bridge_addr, bridge_wdata>>
KeepsResponse == UNCHANGED <<bvalid, rvalid, bresp, rresp, rchannel, rdata_reg, resp_reg, timed_out>>
KeepsPairing == UNCHANGED <<aw_latched, w_latched, req_sent, chan_timeout_cnt>>

\* A channel is taken now: its ready is shown for one clock.
TakesAddress(now) ==
    /\ awready' = now
    /\ aw_addr_reg' = IF now THEN awaddr ELSE aw_addr_reg
TakesData(now) ==
    /\ wready' = now
    /\ w_data_reg' = IF now THEN wdata ELSE w_data_reg

\* Wrong variant, for mutation: the next access finds the request already sent.
RemembersRequest == UNCHANGED req_sent

ForgetsRequest == req_sent' = FALSE

\* Reads have priority; a write may begin with either of its channels.
AxiIdle ==
    /\ axi_state = "AXI_IDLE"
    /\ bvalid' = FALSE /\ rvalid' = FALSE
    /\ ForgetsRequest /\ chan_timeout_cnt' = 0
    /\ arready' = arvalid
    /\ ar_addr_reg' = IF arvalid THEN araddr ELSE ar_addr_reg
    /\ TakesAddress(~arvalid /\ awvalid) /\ TakesData(~arvalid /\ wvalid)
    /\ aw_latched' = (~arvalid /\ awvalid) /\ w_latched' = (~arvalid /\ wvalid)
    /\ Goto(IF arvalid THEN "AXI_READ_BRIDGE"
            ELSE IF awvalid \/ wvalid THEN "AXI_WRITE_BRIDGE" ELSE "AXI_IDLE")
    /\ NoRequest
    /\ UNCHANGED <<bresp, rresp, rchannel, rdata_reg, resp_reg, timed_out>>

\* The missing channel is looked for in every clock of this state.
AcceptsMissing ==
    /\ TakesAddress(~aw_latched /\ awvalid) /\ TakesData(~w_latched /\ wvalid)
    /\ arready' = FALSE /\ UNCHANGED ar_addr_reg

\* Wrong variant, for mutation: one channel is enough.
PairedByEither == aw_latched \/ w_latched

Paired == aw_latched /\ w_latched

\* Wrong variant, for mutation: an error of the port is not passed on.
AlwaysOkay == resp_reg' = "OKAY"

KeepsError == resp_reg' = IF error THEN "SLVERR" ELSE "OKAY"

WriteDone ==
    /\ done
    /\ KeepsError
    /\ Goto("AXI_WRITE_RESP")
    /\ aw_latched' = (aw_latched \/ awvalid) /\ w_latched' = (w_latched \/ wvalid)
    /\ NoRequest /\ UNCHANGED <<req_sent, chan_timeout_cnt, timed_out>>

\* Wrong variant, for mutation: asked in every clock.
WriteAskedAgain ==
    /\ ~done /\ Paired
    /\ bridge_req' = TRUE /\ bridge_rw' = FALSE
    /\ bridge_addr' = aw_addr_reg /\ bridge_wdata' = w_data_reg
    /\ req_sent' = TRUE
    /\ UNCHANGED <<axi_state, aw_latched, w_latched, chan_timeout_cnt, resp_reg, timed_out>>

WriteAsked ==
    /\ ~done /\ Paired /\ ~req_sent
    /\ bridge_req' = TRUE /\ bridge_rw' = FALSE
    /\ bridge_addr' = aw_addr_reg /\ bridge_wdata' = w_data_reg
    /\ req_sent' = TRUE
    /\ UNCHANGED <<axi_state, aw_latched, w_latched, chan_timeout_cnt, resp_reg, timed_out>>

TimesChannels == ~Paired /\ channel_timeout_g > 0

\* Wrong variant, for mutation: the counter runs past the generic.
LateByTwo == TimesChannels /\ chan_timeout_cnt = channel_timeout_g + 1

ChannelLate == TimesChannels /\ chan_timeout_cnt = channel_timeout_g - 1

\* The timeout looks at the latches as they were before this edge.
WriteTimedOut ==
    /\ ~done /\ ChannelLate
    /\ aw_latched' = TRUE /\ w_latched' = TRUE
    /\ resp_reg' = "SLVERR" /\ timed_out' = TRUE
    /\ Goto("AXI_WRITE_RESP")
    /\ NoRequest /\ UNCHANGED <<req_sent, chan_timeout_cnt>>

WriteWaits ==
    /\ ~done /\ (Paired => req_sent) /\ ~ChannelLate
    /\ chan_timeout_cnt' = IF TimesChannels THEN chan_timeout_cnt + 1 ELSE chan_timeout_cnt
    /\ aw_latched' = (aw_latched \/ awvalid) /\ w_latched' = (w_latched \/ wvalid)
    /\ NoRequest /\ UNCHANGED <<axi_state, req_sent, resp_reg, timed_out>>

AxiWriteBridge ==
    /\ axi_state = "AXI_WRITE_BRIDGE"
    /\ AcceptsMissing
    /\ WriteDone \/ WriteAsked \/ WriteTimedOut \/ WriteWaits
    /\ UNCHANGED <<bvalid, rvalid, bresp, rresp, rchannel, rdata_reg>>

NoChannel ==
    /\ awready' = FALSE /\ wready' = FALSE /\ arready' = FALSE
    /\ UNCHANGED latchVars

\* The response is over when the master was ready while it could see it.
AxiWriteResp ==
    /\ axi_state = "AXI_WRITE_RESP"
    /\ bresp' = resp_reg
    /\ bvalid' = ~(bvalid /\ ready)
    /\ Goto(IF bvalid /\ ready THEN "AXI_IDLE" ELSE axi_state)
    /\ NoChannel /\ NoRequest /\ KeepsPairing
    /\ UNCHANGED <<rvalid, rresp, rchannel, rdata_reg, resp_reg, timed_out>>

\* Wrong variant, for mutation: what was read is not kept.
KeepsOldData == rdata_reg' = rdata_reg

KeepsFetched == rdata_reg' = rdata

AxiReadBridge ==
    /\ axi_state = "AXI_READ_BRIDGE"
    /\ \/ /\ done
          /\ KeepsFetched /\ KeepsError
          /\ Goto("AXI_READ_RESP") /\ NoRequest /\ UNCHANGED req_sent
       \/ /\ ~done /\ ~req_sent
          /\ bridge_req' = TRUE /\ bridge_rw' = TRUE /\ bridge_addr' = ar_addr_reg
          /\ req_sent' = TRUE
          /\ UNCHANGED <<axi_state, bridge_wdata, rdata_reg, resp_reg>>
       \/ /\ ~done /\ req_sent
          /\ NoRequest /\ UNCHANGED <<axi_state, req_sent, rdata_reg, resp_reg>>
    /\ NoChannel
    /\ UNCHANGED <<aw_latched, w_latched, chan_timeout_cnt, bvalid, rvalid, bresp, rresp,
                   rchannel, timed_out>>

AxiReadResp ==
    /\ axi_state = "AXI_READ_RESP"
    /\ rchannel' = rdata_reg /\ rresp' = resp_reg
    /\ rvalid' = ~(rvalid /\ ready)
    /\ Goto(IF rvalid /\ ready THEN "AXI_IDLE" ELSE axi_state)
    /\ NoChannel /\ NoRequest /\ KeepsPairing
    /\ UNCHANGED <<bvalid, bresp, rdata_reg, resp_reg, timed_out>>

p_axi == AxiIdle \/ AxiWriteBridge \/ AxiWriteResp \/ AxiReadBridge \/ AxiReadResp

\* The registers the code leaves alone are dead until they are loaded again:
\* here they are cleared, which makes equivalent states equal.
AxiReset ==
    /\ Goto("AXI_IDLE")
    /\ bvalid' = FALSE /\ rvalid' = FALSE /\ bresp' = "OKAY" /\ rresp' = "OKAY"
    /\ aw_latched' = FALSE /\ w_latched' = FALSE /\ req_sent' = FALSE /\ chan_timeout_cnt' = 0
    /\ timed_out' = FALSE
    /\ awready' = FALSE /\ wready' = FALSE /\ arready' = FALSE /\ bridge_req' = FALSE
    /\ aw_addr_reg' = port_addr /\ w_data_reg' = 0 /\ ar_addr_reg' = port_addr
    /\ bridge_rw' = TRUE /\ bridge_addr' = port_addr /\ bridge_wdata' = 0
    /\ rchannel' = 0 /\ rdata_reg' = 0 /\ resp_reg' = "OKAY"

-----------------------------------------------------------------------------
(* The bridge's bus side, as AtomicPort promises it *)

BridgeEdge ==
    \/ port = "idle" /\ bridge_req /\ Ask(bridge_rw, bridge_addr, bridge_wdata)
    \/ port = "idle" /\ ~bridge_req /\ Pause
    \/ port \in {"asked", "served"} /\ Pause
    \/ Answer

CarryOut == (Serve \/ Fail) /\ UNCHANGED <<wrapperVars, masterVars, channel_timeout_g>>

-----------------------------------------------------------------------------
(* The master: valid stays until ready; ready may come and go; a channel is  *)
(* at most one beat ahead of the responses                                  *)

Held(valid, taken, may) == IF valid /\ ~taken THEN {TRUE} ELSE {FALSE, may}

WriteMaster ==
    /\ aws' = IF awvalid /\ awready THEN aws + 1 ELSE aws
    /\ ws' = IF wvalid /\ wready THEN ws + 1 ELSE ws
    /\ bs' = IF bvalid /\ ready THEN bs + 1 ELSE bs
    /\ awvalid' \in Held(awvalid, awready, aws' <= bs' /\ aws' < MaxWrites)
    /\ wvalid' \in Held(wvalid, wready, ws' <= bs' /\ ws' < MaxWrites)
    /\ okays' = IF bvalid /\ ready /\ bresp = "OKAY" /\ ~timed_out
                THEN [okays EXCEPT ![AddrOf(bs + 1)] = bs + 1] ELSE okays

\* One read at a time: the wrapper's state stands for the master's knowledge
\* that one is out.
ReadMaster ==
    \/ /\ arvalid /\ ~arready
       /\ UNCHANGED <<arvalid, araddr, floor>>
    \/ /\ arvalid => arready
       /\ arvalid' = FALSE
       /\ UNCHANGED <<araddr, floor>>
    \/ /\ ~arvalid
       /\ axi_state \notin {"AXI_READ_BRIDGE", "AXI_READ_RESP"}
       /\ arvalid' = TRUE /\ araddr' \in Addr /\ floor' = okays[araddr']

MasterEdge == WriteMaster /\ ReadMaster /\ ready' \in BOOLEAN

BusEdge ==
    /\ port # "resetting"
    /\ p_axi /\ BridgeEdge /\ MasterEdge
    /\ UNCHANGED channel_timeout_g

\* Reset drops everything; the master goes on with a write of its own.
AssertReset ==
    /\ MayReset /\ Reset
    /\ AxiReset
    /\ LET next == IF aws > ws THEN aws ELSE ws
       IN  /\ aws' = next /\ ws' = next /\ bs' = next
    /\ awvalid' = FALSE /\ wvalid' = FALSE /\ arvalid' = FALSE
    /\ okays' = [a \in Addr |-> 0] /\ floor' = 0
    /\ ready' = FALSE
    /\ araddr' = port_addr
    /\ UNCHANGED channel_timeout_g

ReleaseReset == Release /\ UNCHANGED <<wrapperVars, masterVars, channel_timeout_g>>

AxiNext == BusEdge \/ CarryOut \/ AssertReset \/ ReleaseReset

AxiSpec == AxiInit /\ [][AxiNext]_axiVars

\* The clock runs, the bridge answers, the reset ends, and the master is ready
\* again and again.  It need not ever send anything, the other half of a write
\* least of all.
PatientEdge ==
    BusEdge /\ ready' /\ (awvalid' => awvalid) /\ (wvalid' => wvalid) /\ (arvalid' => arvalid)

FairAxiSpec ==
    /\ AxiSpec
    /\ WF_axiVars(CarryOut) /\ WF_axiVars(ReleaseReset)
    /\ WF_axiVars(PatientEdge) /\ WF_axiVars(PatientEdge /\ Answer)

-----------------------------------------------------------------------------
(* Properties *)

\* Types; the timeout counter stays within its generic.
TypeOK ==
    /\ axi_state \in AxiStates /\ port \in {"idle", "asked", "served", "resetting"}
    /\ bresp \in Responses /\ rresp \in Responses /\ resp_reg \in Responses
    /\ {rchannel, rdata_reg, w_data_reg, bridge_wdata, port_wdata, fetched, rdata} \subseteq Data
    /\ {aw_addr_reg, ar_addr_reg, bridge_addr, port_addr, araddr} \subseteq Addr
    /\ registers \in [Addr -> Data]
    /\ chan_timeout_cnt \in 0..channel_timeout_g
    /\ {aws, ws, floor} \subseteq 0..MaxWrites

\* The bridge ignores a request that finds it busy, so the wrapper must never
\* raise one then: what BusBridge assumes of the host in front of it.
AsksOnlyIdlePort == bridge_req => port \in {"idle", "resetting"}

\* The address and the data of a write, arriving in any order and any number
\* of clocks apart, end up together: no register ever holds data that was
\* sent with another address, as long as no channel timeout has fired.
WrittenWhereSent ==
    ~timed_out /\ port # "resetting" =>
        \A a \in Addr : registers[a] # ResetValue => AddrOf(registers[a]) = a

\* A write answered OKAY is in its register when the master sees the answer,
\* and both of its channels have been taken.
OkayMeansWritten ==
    bvalid /\ bresp = "OKAY" /\ ~timed_out =>
        /\ bs < aws /\ bs < ws
        /\ registers[AddrOf(bs + 1)] = bs + 1

\* A read returns a value no older than the newest write answered OKAY before
\* the read was asked for.
ReadsSeeWrites == rvalid /\ rresp = "OKAY" /\ ~timed_out => rchannel >= floor

\* With the channel timeout on, a master that never sends the other half of a
\* write does not keep the reads from being answered.
ReadAnswered == arvalid /\ channel_timeout_g > 0 ~> rvalid \/ port = "resetting"

\* "Channel acceptance on the same cycle wins": a write whose two channels
\* have both been taken is carried out.
AcceptedMeansAsked ==
    [][axi_state = "AXI_WRITE_BRIDGE" /\ axi_state' = "AXI_WRITE_RESP" =>
          done \/ (aw_latched \/ awvalid) # (w_latched \/ wvalid)]_axiVars

=============================================================================
