----------------------------- MODULE MCJourney -----------------------------
(***************************************************************************)
(* Small journeys for TLC.                                                 *)
(***************************************************************************)
EXTENDS Journey, TLC

\* Rows and slots are interchangeable; so are the people who are alike at the start.
Alike == Permutations(ProposalId) \cup Permutations(InvitationId) \cup Permutations(Slot)
Symmetry == Alike \cup Permutations(Founders \ {Creator}) \cup Permutations(Person \ Founders)
=============================================================================
