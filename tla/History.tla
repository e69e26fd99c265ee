------------------------------ MODULE History ------------------------------
(***************************************************************************)
(* What a journey's history promises to those who read it                  *)
(* (docs/ARCHITECTURE.md, server/platform.js): everything that happens to  *)
(* a record is told once, at the end, with what was there just before it.  *)
(***************************************************************************)
EXTENDS Naturals, Sequences

CONSTANT Record  \* what the history tells of

VARIABLES
  log,     \* what is told, oldest first
  current  \* the version of each record, or 0 while there is none

vars == <<log, current>>

Init ==
  /\ log = <<>>
  /\ current \in [Record -> {0, 1}]

\* A record goes on to its next version, or goes.
Happens(r) ==
  \E v \in {0, current[r] + 1} :
    /\ log' = Append(log, [record |-> r, before |-> current[r], after |-> v])
    /\ current' = [current EXCEPT ![r] = v]

Next == \E r \in Record : Happens(r)

Spec == Init /\ [][Next]_vars
=============================================================================
