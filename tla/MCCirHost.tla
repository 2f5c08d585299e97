------------------------------ MODULE MCCirHost ------------------------------
(***************************************************************************)
(* CirHost for TLC.  The registers are model values that Init orders by    *)
(* CHOOSE, so no symmetry is used; every bound is a constant of the .cfg:  *)
(* MaxInstr instructions in a run, the clocks a bus cycle shows its        *)
(* strobes for, and the least gap between two cycles.                      *)
(***************************************************************************)
EXTENDS CirHost, TLC

=============================================================================
