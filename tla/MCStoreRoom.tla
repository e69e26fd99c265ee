----------------------------- MODULE MCStoreRoom -----------------------------
(***************************************************************************)
(* Two journeys and a few periods for TLC.                                 *)
(***************************************************************************)
EXTENDS StoreRoom, TLC

Symmetry == Permutations(Journey) \cup Permutations(Slot)
=============================================================================
