------------------------------ MODULE MCSignIn ------------------------------
(***************************************************************************)
(* A few phones and tokens for TLC.                                        *)
(***************************************************************************)
EXTENDS SignIn, TLC

Symmetry == Permutations(PairId) \cup Permutations(Slot) \cup Permutations(Phone)
=============================================================================
