-------------------------- MODULE MCStorePurchases --------------------------
(***************************************************************************)
(* A purchase or two, a phone or two, for TLC.                             *)
(***************************************************************************)
EXTENDS StorePurchases, TLC

Symmetry == Permutations(Phone) \cup Permutations(Moment)
=============================================================================
