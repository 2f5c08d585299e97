------------------------------- MODULE FpuPort -------------------------------
(***************************************************************************)
(* The bus port of the FPU core, mc68881_top.vhd: the strobe decoding, the *)
(* DSACK state machine, and the plain registers behind it (FPCR, FPIAR and *)
(* the like), which a bus write loads on every clock edge that finds the   *)
(* write strobes asserted and a bus read returns combinationally.          *)
(*                                                                         *)
(* The strobes cs_n, as_n, ds_n are active low in the code; here cs, as,   *)
(* ds are TRUE when asserted.  rw is TRUE for a read, as in the code.      *)
(* DSACK_ASSERT_CYCLES_READ and _WRITE are both 1, so dsack_count is       *)
(* always 0 and the counting branches of the process are unreachable.      *)
(***************************************************************************)
EXTENDS Naturals

CONSTANTS
    Addr,       \* addresses of the plain read/write registers
    Data,       \* register values
    ResetValue  \* what reset loads in every register

ASSUME PortAssumption == ResetValue \in Data /\ Addr # {}

VARIABLES
    cs, as, ds, \* chip select, address strobe, data strobe (asserted = TRUE)
    rw,         \* TRUE: read
    a_in, d_in, \* address and write data driven on the port
    dsack_state,
    dsack_active,
    regs        \* the registers themselves

strobeVars == <<cs, as, ds, rw, a_in, d_in>>
portVars == <<dsack_state, dsack_active, regs>>

PortFlagsOK ==
    /\ cs \in BOOLEAN /\ as \in BOOLEAN /\ ds \in BOOLEAN /\ rw \in BOOLEAN
    /\ dsack_active \in BOOLEAN

PortWordsOK ==
    /\ a_in \in Addr /\ d_in \in Data
    /\ dsack_state \in {"DSACK_IDLE", "DSACK_WAIT_ASSERT", "DSACK_ASSERTED"}
    /\ regs \in [Addr -> Data]

PortTypeOK == PortFlagsOK /\ PortWordsOK

bus_write == cs /\ as /\ ds /\ ~rw
start_access == cs /\ as /\ (rw => ds)

\* The value on d_out while a plain register is addressed.
d_out == regs[a_in]

PortInit ==
    /\ cs = FALSE /\ as = FALSE /\ ds = FALSE /\ rw = TRUE
    /\ a_in \in Addr /\ d_in = ResetValue
    /\ dsack_state = "DSACK_IDLE"
    /\ dsack_active = FALSE
    /\ regs = [a \in Addr |-> ResetValue]

\* Asynchronous reset of the port: wins over any clock edge.
\* Wrong variant, for mutation: the registers survive the reset.
PortResetKeepsRegisters ==
    /\ dsack_state' = "DSACK_IDLE"
    /\ dsack_active' = FALSE
    /\ UNCHANGED regs

PortReset ==
    /\ dsack_state' = "DSACK_IDLE"
    /\ dsack_active' = FALSE
    /\ regs' = [a \in Addr |-> ResetValue]

\* A clock edge loads the addressed register as long as the write strobes
\* are asserted, whatever the DSACK machine does.
RegisterEdge ==
    regs' = IF bus_write THEN [regs EXCEPT ![a_in] = d_in] ELSE regs

DsackIdle ==
    /\ dsack_state = "DSACK_IDLE"
    /\ dsack_active' = FALSE
    /\ dsack_state' = IF start_access THEN "DSACK_WAIT_ASSERT" ELSE "DSACK_IDLE"

DsackWaitAssert ==
    /\ dsack_state = "DSACK_WAIT_ASSERT"
    /\ dsack_active' = start_access
    /\ dsack_state' = IF start_access THEN "DSACK_ASSERTED" ELSE "DSACK_IDLE"

DsackAsserted ==
    /\ dsack_state = "DSACK_ASSERTED"
    /\ dsack_active' = start_access
    /\ dsack_state' = IF start_access THEN "DSACK_ASSERTED" ELSE "DSACK_IDLE"

DsackEdge == DsackIdle \/ DsackWaitAssert \/ DsackAsserted

\* One edge of the FPU clock seen by the port when it is not in reset.
PortEdge == RegisterEdge /\ DsackEdge

=============================================================================
