------------------------------ MODULE MCLedger ------------------------------
(***************************************************************************)
(* One record of each kind and two or three requests for TLC.              *)
(***************************************************************************)
EXTENDS Ledger, TLC

Symmetry == Permutations(Slot)
=============================================================================
