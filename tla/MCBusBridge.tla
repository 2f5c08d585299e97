----------------------------- MODULE MCBusBridge -----------------------------
(***************************************************************************)
(* BusBridge for TLC.  The registers are interchangeable, so are the data  *)
(* values other than ResetValue.                                           *)
(***************************************************************************)
EXTENDS BusBridgeInv, TLC

RegisterSymmetry == Permutations(Addr)

=============================================================================
