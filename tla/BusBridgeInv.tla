---------------------------- MODULE BusBridgeInv ----------------------------
(***************************************************************************)
(* The inductive invariant of BusBridge: why its two clock domains agree   *)
(* about every request, and what that makes of the data and the errors;    *)
(* then its refinement mapping to AtomicPort.  BusBridgeProofs proves both.*)
(***************************************************************************)
EXTENDS BusBridge

\* What the argument needs: the FPU clock runs, the bus timeout is longer
\* than a transfer can take (11 FPU edges, and two bus edges for the answer
\* to come through the synchronizer), and a reset is long enough for the FPU
\* side to see it and for its acknowledge to come back.
Timely ==
    /\ ~FpuClkMayStop
    /\ BusTimeout > 11 * MaxLag + 2
    /\ ResetLength >= 3 * MaxLag + 2

-----------------------------------------------------------------------------
(* The port, while the FPU side is out of reset *)

\* The FPU side takes chip select away two clocks before it goes idle, and
\* the DSACK machine needs one of them to notice.
DsackQuiet ==
    /\ fpu_state \in {"FPU_IDLE", "FPU_SETUP", "FPU_ACK"} => ~cs
    /\ fpu_state \in {"FPU_IDLE", "FPU_SETUP"} =>
           ~dsack_active /\ dsack_state = "DSACK_IDLE"

\* During a bus cycle the strobes stay, so DSACK advances on every clock.
DsackAdvances ==
    /\ fpu_state = "FPU_STROBE" =>
           cs /\ as /\ ~dsack_active /\ dsack_state = "DSACK_IDLE"
    /\ fpu_state = "FPU_WAIT_DSACK" =>
           cs /\ as /\ ds /\ (dsack_active <=> dsack_state = "DSACK_ASSERTED")

PortInv == rst_ff2 => DsackQuiet /\ DsackAdvances

-----------------------------------------------------------------------------
(* Out of reset *)

\* A flip of req_toggle travels round req_ff1, req_ff2, ack_toggle, ack_ff1,
\* ack_ff2: each has it only if the one before has.
Ring ==
    /\ req_ff2 = req_toggle => req_ff1 = req_toggle
    /\ ack_toggle = req_toggle => req_ff2 = req_toggle
    /\ ack_ff1 = req_toggle => ack_toggle = req_toggle
    /\ ack_ff2 = req_toggle => ack_ff1 = req_toggle

\* The bus side is idle only when the flip has come all the way; the FPU side
\* is busy only while it holds the flip and has not passed it on.
Turns ==
    /\ bus_state = "BUS_IDLE" => ack_ff2 = req_toggle
    /\ fpu_state # "FPU_IDLE" =>
           /\ req_ff2 = req_toggle /\ ack_toggle # req_toggle
           /\ latched = <<req_rw, req_addr, req_wdata>>

\* The release of the reset travels ahead of the first request.
ReleaseLeads ==
    /\ rst_ff2 => rst_ff1
    /\ ~rst_ff2 => fpu_state = "FPU_IDLE" /\ ack_toggle = FALSE
    /\ req_ff1 = req_toggle /\ ack_toggle # req_toggle => rst_ff1
    /\ req_ff2 = req_toggle /\ ack_toggle # req_toggle => rst_ff2
    /\ bus_state = "BUS_WAIT_ACK" /\ ack_toggle = req_toggle => rst_ff2

\* The bus timer has counted no more than n FPU edges allow.
Within(n) == bus_timeout_cnt <= n * MaxLag + lag

\* n is the number of FPU edges a request has had, at least, when the FPU
\* side is where it is; after the acknowledge only bus edges count.
TimerKeepsUp ==
    bus_state = "BUS_WAIT_ACK" =>
        /\ ack_toggle # req_toggle =>
             /\ req_ff1 # req_toggle => Within(0)
             /\ req_ff1 = req_toggle /\ req_ff2 # req_toggle => Within(1)
             /\ req_ff2 = req_toggle =>
                  /\ fpu_state = "FPU_IDLE" => Within(2)
                  /\ fpu_state = "FPU_SETUP" => Within(3)
                  /\ fpu_state = "FPU_STROBE" => Within(4)
                  /\ fpu_state = "FPU_WAIT_DSACK" =>
                       /\ dsack_state = "DSACK_IDLE" => Within(5)
                       /\ dsack_state = "DSACK_WAIT_ASSERT" => Within(6)
                       /\ dsack_state = "DSACK_ASSERTED" => Within(7)
                  /\ fpu_state = "FPU_CAPTURE" => Within(8)
                  /\ fpu_state = "FPU_DEASSERT" => Within(9)
                  /\ fpu_state = "FPU_ACK" => Within(10)
        /\ ack_toggle = req_toggle /\ ack_ff1 # req_toggle =>
               bus_timeout_cnt <= 11 * MaxLag
        /\ ack_ff1 = req_toggle /\ ack_ff2 # req_toggle =>
               bus_timeout_cnt <= 11 * MaxLag + 1

Running == Ring /\ Turns /\ ReleaseLeads /\ TimerKeepsUp

-----------------------------------------------------------------------------
(* In reset *)

\* Whatever is not yet as the reset leaves it, the reset has not lasted long.
Resetting ==
    /\ req_toggle \/ bus_state # "BUS_IDLE" \/ bridge_done => held = 0
    /\ req_ff1 \/ rst_ff1 => held <= lag
    /\ req_ff2 \/ rst_ff2 => held <= MaxLag + lag
    /\ fpu_state # "FPU_IDLE" \/ ack_toggle => held <= 2 * MaxLag + lag
    /\ ack_ff1 => held <= 3 * MaxLag
    /\ ack_ff2 => held <= 3 * MaxLag + 1

Handshake == PortInv /\ IF bus_reset_n THEN Running ELSE Resetting

-----------------------------------------------------------------------------
(* Data *)

\* The transfer asked for was done; a read returned this value.
Served(value) == regs[req_addr] = IF req_rw THEN value ELSE req_wdata

\* The port is addressed with what the FPU side latched, and the data strobe
\* is gone before the address is.
Addressed ==
    /\ fpu_state \in {"FPU_STROBE", "FPU_WAIT_DSACK", "FPU_CAPTURE"} =>
           /\ rw = fpu_rw_r /\ a_in = fpu_addr_r
           /\ ~fpu_rw_r => d_in = fpu_wdata_r
    /\ fpu_state = "FPU_DEASSERT" => ~ds

\* Where the transfer stands on the FPU side, and on its way back.
Carried ==
    /\ fpu_state = "FPU_CAPTURE" => fpu_rw_r \/ regs[fpu_addr_r] = fpu_wdata_r
    /\ fpu_state \in {"FPU_DEASSERT", "FPU_ACK"} /\ ~fpu_error => Served(rdata_fpu)
    /\ bus_state = "BUS_WAIT_ACK" /\ ack_toggle = req_toggle /\ ~fpu_error =>
           Served(rdata_fpu)
    /\ bridge_done /\ ~bridge_error => Served(bridge_rdata)

\* The error flag arrives with the acknowledge it belongs to.
ErrorTravels ==
    bus_state = "BUS_WAIT_ACK" =>
        /\ ack_ff1 = req_toggle => err_ff1 = fpu_error
        /\ ack_ff2 = req_toggle => err_ff2 = fpu_error

\* A completion is shown while the port is out of reset and unselected.
DoneIsQuiet ==
    bridge_done => bus_state = "BUS_IDLE" /\ rst_ff2

DataInv ==
    bus_reset_n => Addressed /\ Carried /\ ErrorTravels /\ DoneIsQuiet

-----------------------------------------------------------------------------
(* Errors *)

\* The DSACK timeout is shorter than the FPU takes to answer.
TooShort(read) == dsack_timeout_g \in 1..(IF read THEN 2 ELSE 1)

\* The DSACK timer counts the steps of the DSACK machine: a write starts it
\* with the address, a read one clock later, with the data strobe.
TimerMatches ==
    /\ fpu_state \in {"FPU_SETUP", "FPU_STROBE"} => ~ds
    /\ fpu_state = "FPU_STROBE" => timeout_cnt = 0
    /\ fpu_state = "FPU_WAIT_DSACK" =>
         /\ dsack_state = "DSACK_IDLE" => fpu_rw_r /\ timeout_cnt = 0
         /\ dsack_state = "DSACK_WAIT_ASSERT" =>
                timeout_cnt = IF fpu_rw_r THEN 1 ELSE 0
         /\ dsack_state = "DSACK_ASSERTED" =>
                timeout_cnt = IF fpu_rw_r THEN 2 ELSE 1

\* The verdict on a transfer, from where it is reached to the host.
Verdict ==
    /\ fpu_state \in {"FPU_SETUP", "FPU_STROBE", "FPU_WAIT_DSACK", "FPU_CAPTURE"} =>
           ~fpu_error
    /\ fpu_state = "FPU_CAPTURE" => ~TooShort(fpu_rw_r)
    /\ fpu_state \in {"FPU_DEASSERT", "FPU_ACK"} => (fpu_error <=> TooShort(req_rw))
    /\ bus_state = "BUS_WAIT_ACK" /\ ack_toggle = req_toggle =>
           (fpu_error <=> TooShort(req_rw))
    /\ bridge_done => (bridge_error <=> TooShort(req_rw))

ErrorInv == bus_reset_n => TimerMatches /\ Verdict

-----------------------------------------------------------------------------
(* BusBridge implements AtomicPort: two clocks, four synchronizers, a      *)
(* handshake and a bus cycle of seven states look to the wrapper like one  *)
(* step.  That step is the FPU clock edge that loads the register written, *)
(* or latches the data read, or gives up waiting for DSACK.                *)

\* A write has taken effect by the edge that shows the port's DSACK; a read
\* when its data is latched.
CarriedOut ==
    \/ ack_toggle = req_toggle
    \/ fpu_state \in {"FPU_DEASSERT", "FPU_ACK"}
    \/ ~req_rw /\ fpu_state = "FPU_CAPTURE"
    \/ ~req_rw /\ fpu_state = "FPU_WAIT_DSACK" /\ dsack_state = "DSACK_ASSERTED"

PortState ==
    IF ~bus_reset_n THEN "resetting"
    ELSE IF bus_state = "BUS_IDLE" THEN "idle"
    ELSE IF CarriedOut THEN "served" ELSE "asked"

\* The wrapper sees one atomic step per request: no request is carried out
\* twice or answered with another one's result, whatever the drift of the
\* clocks, the DSACK timeout and the moment of a reset.
Atomic ==
    INSTANCE AtomicPort WITH
        port <- PortState,
        port_rw <- req_rw, port_addr <- req_addr, port_wdata <- req_wdata,
        fetched <- rdata_fpu,
        failed <- PortState = "served" /\ fpu_error,
        registers <- regs,
        done <- bridge_done, rdata <- bridge_rdata, error <- bridge_error

ImplementsAtomicPort == Atomic!AtomicSpec

-----------------------------------------------------------------------------
(* What the refinement rests on, beside the invariant above                *)

\* The port's reset lasts as long as the bridge's FPU side is in reset.
ResetClears == ~rst_ff2 => regs = [a \in Addr |-> ResetValue]

ErrorWithDone == bridge_error => bridge_done

\* The edge that shows DSACK has written: the ones after it write the same.
WriteTakesEffect ==
    bus_reset_n /\ fpu_state = "FPU_WAIT_DSACK" /\ dsack_state = "DSACK_ASSERTED" =>
        fpu_rw_r \/ regs[fpu_addr_r] = fpu_wdata_r

EffectInv == ResetClears /\ ErrorWithDone /\ WriteTakesEffect
=============================================================================
