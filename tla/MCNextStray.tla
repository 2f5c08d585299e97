------------------------------ MODULE MCNextStray ------------------------------
(***************************************************************************)
(* The SCSI subsystem under a driver whose accesses are mixed with a few     *)
(* others, whatever they are: the guest is then free, and yet gets far.      *)
(***************************************************************************)
EXTENDS MCNextDriver

CONSTANT MaxStray \* bound on the accesses that are not the driver's

VARIABLE stray

Init == DriverInit /\ stray = 0

Stray ==
    /\ stray < MaxStray /\ stray' = stray + 1
    /\ Access /\ UNCHANGED <<pc, request, moved, result>>

Next ==
    \/ DriverNext /\ (pc = "idle" /\ pc' # "idle" => stray < MaxStray) /\ UNCHANGED stray
    \/ Stray

Spec == Init /\ [][Next]_<<driverVars, stray>>
=============================================================================
