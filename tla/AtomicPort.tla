------------------------------ MODULE AtomicPort ------------------------------
(***************************************************************************)
(* What the bus bridge promises the wrapper in front of it: a request is    *)
(* carried out in one step, at most once, and answered with what that step  *)
(* found; a request that fails may or may not have written its register; a  *)
(* reset drops whatever is under way and leaves every register reset.       *)
(*                                                                         *)
(* BusBridge implements this (BusBridgeInv); the wrappers are built on it.  *)
(* port_rw is TRUE for a read.                                              *)
(***************************************************************************)
EXTENDS Naturals

CONSTANTS Addr, Data, ResetValue

ASSUME AtomicAssumption == ResetValue \in Data /\ Addr # {}

VARIABLES
    port,                           \* "idle", "asked", "served" or "resetting"
    port_rw, port_addr, port_wdata, \* the request
    fetched, failed,                \* what carrying it out gave; failed only until answered
    registers,
    done, rdata, error              \* the answer, shown for one clock

askedVars == <<port_rw, port_addr, port_wdata>>
servedVars == <<fetched, failed, registers>>
answerVars == <<done, rdata, error>>
atomicVars == <<port, askedVars, servedVars, answerVars>>

AtomicInit ==
    /\ port = "idle"
    /\ port_rw = TRUE /\ port_addr \in Addr /\ port_wdata = ResetValue
    /\ fetched = ResetValue /\ failed = FALSE
    /\ registers = [a \in Addr |-> ResetValue]
    /\ done = FALSE /\ rdata = ResetValue /\ error = FALSE

NoAnswer == done' = FALSE /\ error' = FALSE /\ UNCHANGED rdata

Ask(read, addr, data) ==
    /\ port = "idle" /\ port' = "asked"
    /\ port_rw' = read /\ port_addr' = addr /\ port_wdata' = data
    /\ NoAnswer
    /\ UNCHANGED servedVars

Written == [registers EXCEPT ![port_addr] = port_wdata]

\* What a write fetches is left open, and means nothing.
Serve ==
    /\ port = "asked" /\ port' = "served"
    /\ failed' = FALSE
    /\ registers' = IF port_rw THEN registers ELSE Written
    /\ fetched' \in IF port_rw THEN {registers[port_addr]} ELSE Data
    /\ UNCHANGED <<askedVars, answerVars>>

Fail ==
    /\ port = "asked" /\ port' = "served"
    /\ failed' = TRUE
    /\ registers' \in {registers} \cup (IF port_rw THEN {} ELSE {Written})
    /\ fetched' \in Data
    /\ UNCHANGED <<askedVars, answerVars>>

Answer ==
    /\ port = "served" /\ port' = "idle"
    /\ done' = TRUE /\ rdata' = fetched /\ error' = failed
    /\ failed' = FALSE
    /\ UNCHANGED <<askedVars, fetched, registers>>

\* A clock on which the port takes no request and gives no answer.
Pause == NoAnswer /\ UNCHANGED <<port, askedVars, servedVars>>

\* The reset input is asserted.  What is under way may still reach its
\* register until the reset has reached it too.
Reset ==
    /\ port # "resetting" /\ port' = "resetting"
    /\ failed' = FALSE
    /\ UNCHANGED <<askedVars, fetched, registers, answerVars>>

InReset ==
    /\ port = "resetting"
    /\ registers' \in [Addr -> Data] /\ fetched' \in Data
    /\ done' \in BOOLEAN /\ error' \in BOOLEAN
    /\ UNCHANGED <<port, askedVars, failed, rdata>>

Release ==
    /\ port = "resetting" /\ port' = "idle"
    /\ registers' = [a \in Addr |-> ResetValue]
    /\ done' = FALSE /\ error' = FALSE
    /\ UNCHANGED <<askedVars, rdata, fetched, failed>>

AtomicNext ==
    \/ \E read \in BOOLEAN, addr \in Addr, data \in Data : Ask(read, addr, data)
    \/ Serve \/ Fail \/ Answer \/ Pause
    \/ Reset \/ InReset \/ Release

AtomicSpec == AtomicInit /\ [][AtomicNext]_atomicVars
=============================================================================
