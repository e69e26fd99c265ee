----------------------------- MODULE MCAccounts -----------------------------
(***************************************************************************)
(* Two people, their journeys and requests for TLC.                        *)
(***************************************************************************)
EXTENDS Accounts, TLC

Symmetry == Permutations(Person) \cup Permutations(Slot)
=============================================================================
