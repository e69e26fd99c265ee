---------------------------- MODULE MCWebPayments ----------------------------
(***************************************************************************)
(* A subscription or two and their events for TLC.                         *)
(***************************************************************************)
EXTENDS WebPayments, TLC

Symmetry == Permutations(Worker)
=============================================================================
