------------------------------ MODULE MCWaiting ------------------------------
(***************************************************************************)
(* A few accounts and moments for TLC.                                     *)
(***************************************************************************)
EXTENDS Waiting, TLC

Symmetry == Permutations(Key)
=============================================================================
