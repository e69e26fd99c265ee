----------------------------- MODULE MCResting ------------------------------
(***************************************************************************)
(* A few people, a payment on the web and one in a store for TLC.          *)
(***************************************************************************)
EXTENDS Resting, TLC

Symmetry == Permutations(Person)
=============================================================================
