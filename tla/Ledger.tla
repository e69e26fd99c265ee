------------------------------- MODULE Ledger -------------------------------
(***************************************************************************)
(* A journey's records and the history that tells of them                  *)
(* (server/platform.js): its settings and its owner, its entries (expenses *)
(* and concerns), its milestones, and the note that its resting changed.   *)
(*                                                                         *)
(* Every change is one transaction: it reads, waits for the journey's      *)
(* lock, writes its record and appends one event, and commits.  It reads   *)
(* the settings before it has the lock and everything else after.  A       *)
(* record is its version, an event's hash is the event it follows, and the *)
(* lock is held until the commit.  A sequence already taken fails the      *)
(* transaction (the primary key of journey_events).                        *)
(***************************************************************************)
EXTENDS Naturals, Sequences

CONSTANTS
  Settings,   \* the journey: updateJourney, transferOwnership
  Entry,      \* expenses and concerns
  Milestone,  \* milestones
  Note,       \* journeys_made_read_only
  Slot,       \* requests handled at once
  None,       \* nothing
  MaxEvents   \* bound: events written

ASSUME LedgerAssumption ==
  /\ Settings \cap Entry = {} /\ Settings \cap Milestone = {} /\ Settings \cap Note = {}
  /\ Entry \cap Milestone = {} /\ Entry \cap Note = {} /\ Milestone \cap Note = {}
  /\ MaxEvents \in Nat

Record == Settings \cup Entry \cup Milestone \cup Note

VARIABLES
  rows,     \* the version of each record; 0 while there is none
  events,   \* journey_events
  requests  \* requests under way

vars == <<rows, events, requests>>
-----------------------------------------------------------------------------
Events == [sequence : Nat, previous : Nat, record : Record, before : Nat, after : Nat]

\* A change to a record, once sent: with the version the phone has, what it has read of the record,
\* and the last event it has read.
Requests == [step : {"idle", "asked", "locked"}, kind : {"create", "update", "remove", "set", "note"},
             record : Record \cup {None}, version : Nat, base : Nat, last : Nat]

Idle == [step |-> "idle", kind |-> "set", record |-> None, version |-> 0, base |-> 0, last |-> 0]

\* The settings are written with the journey; the note waits to be recorded.
Init ==
  /\ rows = [r \in Record |-> IF r \in Settings THEN 1 ELSE 0]
  /\ events = <<>>
  /\ requests = [s \in Slot |-> Idle]

Step(s, step) == requests[s].step = step

Done(s) == requests' = [requests EXCEPT ![s] = Idle]

\* What can be asked of a record: an entry is added once, edited and removed; the settings are
\* edited, or their owner changed (who owns it is Journey's); a milestone is set; an
\* entry of a deleted account is edited by eraseAccount, which compares no version; the note is
\* taken when the server starts.
Kinds(r) ==
  {k \in {"create", "update", "remove", "set", "note"} :
     \/ k = "create" /\ r \in Entry
     \/ k = "update" /\ r \in Settings \cup Entry
     \/ k = "remove" /\ r \in Entry
     \/ k = "set" /\ r \in Settings \cup Entry \cup Milestone
     \/ k = "note" /\ r \in Note}
-----------------------------------------------------------------------------
\* The versions a phone may have.
Versions(r, k) == IF k \in {"update", "remove"} THEN 1 .. rows[r] ELSE {0}

\* Every entry added has an id of its own.
New(r) ==
  /\ \A k \in DOMAIN events : events[k].record # r
  /\ \A s \in Slot : requests[s].record # r

\* What is read before the lock: the settings (requireMember), with the membership.
Ask(s, r, k, v) ==
  /\ Step(s, "idle")
  /\ k = "create" => New(r)
  /\ Len(events) < MaxEvents
  /\ requests' = [requests EXCEPT ![s] =
       [step |-> "asked", kind |-> k, record |-> r, version |-> v, base |-> rows[r], last |-> 0]]
  /\ UNCHANGED <<rows, events>>

\* lockJourney, and again in appendEvent.
Holds(s) == \A t \in Slot \ {s} : ~Step(t, "locked")

\* Mutant of Lock: the events are counted from zero.
LockFromZero(s) ==
  /\ Step(s, "asked") /\ Holds(s)
  /\ requests' = [requests EXCEPT ![s].step = "locked", ![s].last = Len(events) - 1]
  /\ UNCHANGED <<rows, events>>

\* What is read under the lock: everything but the settings a person edits, and the last event.
Lock(s) ==
  LET request == requests[s] IN
    /\ Step(s, "asked") /\ Holds(s)
    /\ requests' = [requests EXCEPT ![s] =
         [request EXCEPT
            !.step = "locked",
            !.last = Len(events),
            !.base = IF request.kind = "update" /\ request.record \in Settings
                     THEN request.base ELSE rows[request.record]]]
    /\ UNCHANGED <<rows, events>>

\* What a change must find: an entry not yet added, or the version it was made from, or an entry or
\* settings that are there, or a note not yet taken.
Current(request) ==
  CASE request.kind = "create" -> request.base = 0
    [] request.kind \in {"update", "remove"} -> request.base # 0 /\ request.version = request.base
    [] request.kind = "set" -> request.record \in Milestone \/ request.base # 0
    [] request.kind = "note" -> request.base = 0

Following(request) == IF request.kind = "remove" THEN 0 ELSE request.base + 1

\* Mutant of Unmoved: the update of the settings compares no version.
UnmovedOrNot(request) == TRUE

\* The UPDATE of the settings names the version it read.
Unmoved(request) == rows[request.record] = request.base

\* Mutant of Appended: the hash before it is the one the last event follows, not its own.
AppendedBeside(request) ==
  events' = Append(events,
    [sequence |-> request.last + 1,
     previous |-> IF request.last = 0 THEN 0 ELSE events[request.last].previous,
     record |-> request.record, before |-> request.base, after |-> Following(request)])

\* appendEvent: after the last event read, with its sequence and its hash.
Appended(request) ==
  events' = Append(events,
    [sequence |-> request.last + 1, previous |-> request.last, record |-> request.record,
     before |-> request.base, after |-> Following(request)])

\* One change, its event and the commit.
Write(s) ==
  LET request == requests[s] IN
    /\ Step(s, "locked")
    /\ Current(request) /\ Unmoved(request)
    /\ \A k \in DOMAIN events : events[k].sequence # request.last + 1
    /\ rows' = [rows EXCEPT ![request.record] = Following(request)]
    /\ Appended(request)
    /\ Done(s)

\* A conflict, a record that is not there, or a request that is lost: nothing is written.
Refuse(s) ==
  /\ requests[s].step # "idle"
  /\ Done(s)
  /\ UNCHANGED <<rows, events>>
-----------------------------------------------------------------------------
Next ==
  \E s \in Slot :
    \/ \E r \in Record : \E k \in Kinds(r) : \E v \in Versions(r, k) : Ask(s, r, k, v)
    \/ Lock(s) \/ Write(s) \/ Refuse(s)

Spec == Init /\ [][Next]_vars
-----------------------------------------------------------------------------
\* Every row, event and request keeps its shape.
TypeOK ==
  /\ rows \in [Record -> Nat]
  /\ events \in Seq(Events)
  /\ requests \in [Slot -> Requests]

\* The chain every reader checks is never broken: the events are numbered without a gap and each
\* follows the one before it (snapshot, eventChainValid).
ChainUnbroken ==
  \A k \in DOMAIN events : events[k].sequence = k /\ events[k].previous = k - 1

\* The history implements what it promises: each change is told once, with what was there just
\* before it, whoever else was writing.  So no change is made from a version already replaced.
Told == INSTANCE History WITH
  log     <- [k \in DOMAIN events |->
                [record |-> events[k].record, before |-> events[k].before, after |-> events[k].after]],
  current <- rows

TellsEverything == Told!Spec
=============================================================================
