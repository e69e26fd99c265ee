------------------------------ MODULE Accounts ------------------------------
(***************************************************************************)
(* The people and the journeys they are in (server/platform.js), and the   *)
(* locks their requests wait for: two people, or one person's two phones,  *)
(* start, join, change and leave journeys, change their names and delete   *)
(* their accounts at once.                                                 *)
(*                                                                         *)
(* A request is one transaction.  It holds what it has locked until it     *)
(* commits, and nobody sees what it wrote before.  There is a lock on each *)
(* journey (lockJourney, appendEvent), a lock on what each person holds    *)
(* (journeysHeldBy), each membership's row, and each person's row: a row   *)
(* that references a person shares theirs (the foreign keys to users), who *)
(* selects it FOR UPDATE or changes its email address has it alone.        *)
(* Invitations, places and who owns a journey are Journey's.               *)
(***************************************************************************)
EXTENDS Naturals, Sequences, FiniteSets

CONSTANTS
  Person,
  Journey,  \* the ids of journeys, in their order
  Slot,     \* requests handled at once
  None,     \* nobody, no journey
  Limit     \* MAX_JOURNEYS_PER_PERSON

ASSUME AccountsAssumption ==
  /\ Journey \subseteq Nat /\ IsFiniteSet(Journey)
  /\ IsFiniteSet(Person)
  /\ None \notin Journey \cup Person
  /\ Limit \in Nat

VARIABLES
  members,  \* journey_members: who is in each journey; nobody before it is started and once deleted
  deleted,  \* accounts with users.deleted_at set
  held,     \* what each request has locked
  requests  \* requests under way

vars == <<members, deleted, held, requests>>
-----------------------------------------------------------------------------
JourneyLock(j) == [on |-> "journey", of |-> j, shared |-> FALSE]
PersonLock(p) == [on |-> "held by", of |-> p, shared |-> FALSE]
Membership(j, p) == [on |-> "member", of |-> j, who |-> p, shared |-> FALSE]
Named(p) == [on |-> "row", of |-> p, shared |-> TRUE]
Row(p) == [on |-> "row", of |-> p, shared |-> FALSE]

Locks == {JourneyLock(j) : j \in Journey} \cup {PersonLock(p) : p \in Person}
           \cup {Membership(j, p) : j \in Journey, p \in Person}
           \cup {Named(p) : p \in Person} \cup {Row(p) : p \in Person}

Kinds == {"create", "accept", "change", "leave", "order", "rename", "erase"}

\* A request: whose, about which journey, the locks ahead of it, whether it has read what it reads
\* under a lock, and, deleting an account, the journeys it is to take out of and those it found
\* nobody else in.
Requests ==
  [kind : Kinds \cup {"idle"}, person : Person \cup {None}, journey : Journey \cup {None},
   ahead : Seq(Locks), read : BOOLEAN, listed : SUBSET Journey, alone : SUBSET Journey]

Idle == [kind |-> "idle", person |-> None, journey |-> None, ahead |-> <<>>, read |-> FALSE,
         listed |-> {}, alone |-> {}]

JourneysOf(p) == {j \in Journey : p \in members[j]}

\* The orders a query may give journeys, or people, in.
Orders(J) == {f \in [1 .. Cardinality(J) -> J] : \A i, k \in DOMAIN f : i # k => f[i] # f[k]}

SortedOrders(J) == {f \in Orders(J) : \A i, k \in DOMAIN f : i < k => f[i] < f[k]}

Init ==
  /\ members = [j \in Journey |-> {}]
  /\ deleted = {}
  /\ held = [s \in Slot |-> {}]
  /\ requests = [s \in Slot |-> Idle]
-----------------------------------------------------------------------------
Conflict(l, m) ==
  /\ l.on = m.on /\ l.of = m.of
  /\ l.on = "member" => l.who = m.who
  /\ ~(l.shared /\ m.shared)

Ahead(s) == requests[s].ahead

\* The lock a request asks for next is another's.
WaitsFor(s, t) ==
  s # t /\ Ahead(s) # <<>> /\ \E m \in held[t] : Conflict(Head(Ahead(s)), m)

Waiting(s) == \E t \in Slot : WaitsFor(s, t)

\* Mutant of Begin: the deletion finds who else is in a journey before it has its lock.
BeginDecided(s, kind, p, j, ahead) ==
  /\ requests[s] = Idle
  /\ requests' = [requests EXCEPT ![s] =
       [kind |-> kind, person |-> p, journey |-> j, ahead |-> ahead,
        read |-> kind \in {"change", "leave", "order", "erase"},
        listed |-> IF kind = "erase" THEN JourneysOf(p) ELSE {},
        alone |-> IF kind = "erase" THEN {i \in Journey : members[i] = {p}} ELSE {}]]
  /\ UNCHANGED <<members, deleted, held>>

Begin(s, kind, p, j, ahead) ==
  /\ requests[s] = Idle
  /\ requests' = [requests EXCEPT ![s] =
       [kind |-> kind, person |-> p, journey |-> j, ahead |-> ahead,
        read |-> kind \in {"change", "leave", "order", "erase"},
        listed |-> IF kind = "erase" THEN JourneysOf(p) ELSE {}, alone |-> {}]]
  /\ UNCHANGED <<members, deleted, held>>

\* A new journey has an id of its own; one that nothing speaks of any more stands for it.
New(j) ==
  /\ members[j] = {}
  /\ \A s \in Slot : requests[s].journey # j /\ j \notin requests[s].listed /\ JourneyLock(j) \notin held[s]

\* Its own lock is left out: nobody else knows the id of a new journey before the commit.
Create(s, p, j) == New(j) /\ Begin(s, "create", p, j, <<PersonLock(p), Named(p)>>)

\* An invitation to the journey waits, or has been answered by the same person meanwhile.
Accept(s, p, j) ==
  members[j] # {} /\ Begin(s, "accept", p, j, <<JourneyLock(j), PersonLock(p), Named(p)>>)

\* Any other change by somebody in the journey.  The rows it writes reference people: everyone here
\* who is asked to agree, who pays, who asked and may have gone since.
Change(s, p, j) ==
  /\ p \in members[j]
  /\ \E people \in SUBSET Person : \E order \in Orders(people) :
       Begin(s, "change", p, j, <<JourneyLock(j)>> \o [k \in DOMAIN order |-> Named(order[k])])

\* The next owner's membership and row are selected together, then both memberships change.
Transfer(s, p, j) ==
  /\ p \in members[j]
  /\ \E q \in Person \ {p} :
       Begin(s, "change", p, j, <<JourneyLock(j), Membership(j, q), Row(q), Membership(j, p)>>)

\* Who leaves, by themselves or removed by the owner; their membership and row are selected together.
Leave(s, p, j) == Begin(s, "leave", p, j, <<JourneyLock(j), Membership(j, p), Row(p)>>)

\* setRestOrder: every membership is written before the event's lock is taken.
Order(s, p, j) ==
  /\ p \in members[j]
  /\ \E order \in Orders(members[j]) :
       Begin(s, "order", p, j, Append([k \in DOMAIN order |-> Membership(j, order[k])], JourneyLock(j)))

Rename(s, p) == Begin(s, "rename", p, None, <<Row(p)>>)

\* The journeys to take a person out of, in the order the query gives them, which it does not say;
\* of each its lock and their membership, and their row last.
Parting(p, order) ==
  [k \in 1 .. 2 * Len(order) |->
     IF k % 2 = 1 THEN JourneyLock(order[(k + 1) \div 2]) ELSE Membership(order[k \div 2], p)]

Erase(s, p) ==
  \E order \in Orders(JourneysOf(p)) : Begin(s, "erase", p, None, Append(Parting(p, order), Row(p)))
-----------------------------------------------------------------------------
\* The next lock is free.  A membership's row is locked while it is there.  A person's row is
\* referenced once what is read before has been read; the deletion finds who else is in a journey as
\* soon as it has its lock.
Take(s) ==
  LET request == requests[s]
      next == Head(request.ahead)
  IN
    /\ request.ahead # <<>> /\ ~Waiting(s)
    /\ next.on = "row" /\ next.shared => request.read
    /\ next.on = "member" => next.who \in members[next.of]
    /\ held' = [held EXCEPT ![s] = @ \cup {next}]
    /\ requests' = [requests EXCEPT ![s] =
         [request EXCEPT
            !.ahead = Tail(@),
            !.alone = IF request.kind = "erase" /\ next.on = "journey" /\ members[next.of] \subseteq {request.person}
                      THEN @ \cup {next.of} ELSE @]]
    /\ UNCHANGED <<members, deleted>>

\* A membership that is gone has no row to write or delete.  Who leaves, and the next owner, are
\* selected by it: without it they are refused.
Skip(s) ==
  LET request == requests[s]
      next == Head(request.ahead)
  IN
    /\ request.ahead # <<>> /\ next.on = "member" /\ next.who \notin members[next.of]
    /\ request.kind \in {"order", "erase"} \/ (request.kind = "change" /\ next.who = request.person)
    /\ requests' = [requests EXCEPT ![s].ahead = Tail(@)]
    /\ UNCHANGED <<members, deleted, held>>

\* Mutant of Count: it waits for no lock.
CountUnlocked(s) ==
  LET request == requests[s] IN
    /\ request.kind \in {"create", "accept"} /\ ~request.read
    /\ Cardinality(JourneysOf(request.person) \ {request.journey}) < Limit
    /\ requests' = [requests EXCEPT ![s].read = TRUE]
    /\ UNCHANGED <<members, deleted, held>>

\* journeysHeldBy: every journey the person is in, besides the one they join.
Count(s) ==
  LET request == requests[s] IN
    /\ request.kind \in {"create", "accept"} /\ ~request.read
    /\ PersonLock(request.person) \in held[s]
    /\ Cardinality(JourneysOf(request.person) \ {request.journey}) < Limit
    /\ requests' = [requests EXCEPT ![s].read = TRUE]
    /\ UNCHANGED <<members, deleted, held>>

\* Mutant of List: in the order the query gives them.
ListAnyOrder(s) ==
  LET request == requests[s] IN
    /\ request.kind = "rename" /\ ~request.read /\ request.ahead = <<>>
    /\ request.person \notin deleted
    /\ \E order \in Orders(JourneysOf(request.person)) :
         requests' = [requests EXCEPT ![s] =
           [request EXCEPT !.read = TRUE, !.ahead = [k \in DOMAIN order |-> JourneyLock(order[k])]]]
    /\ UNCHANGED <<members, deleted, held>>

\* changeDisplayName, its row changed: every journey the person is in is told, in order.
List(s) ==
  LET request == requests[s] IN
    /\ request.kind = "rename" /\ ~request.read /\ request.ahead = <<>>
    /\ request.person \notin deleted
    /\ \E order \in SortedOrders(JourneysOf(request.person)) :
         requests' = [requests EXCEPT ![s] =
           [request EXCEPT !.read = TRUE, !.ahead = [k \in DOMAIN order |-> JourneyLock(order[k])]]]
    /\ UNCHANGED <<members, deleted, held>>

\* Who is in each journey once a request has committed.  A deletion revokes the invitations to the
\* person's address, and takes with it a journey nobody else is in, with its invitations.
Joined(request) ==
  /\ request.kind = "accept" => request.person \notin deleted /\ members[request.journey] # {}
  /\ members' = [members EXCEPT ![request.journey] = @ \cup {request.person}]

Left(request) ==
  /\ request.person \in members[request.journey]
  /\ members[request.journey] # {request.person}
  /\ members' = [members EXCEPT ![request.journey] = @ \ {request.person}]

Erased(request) ==
  members' = [j \in Journey |->
    IF j \in request.alone THEN {}
    ELSE IF j \in request.listed THEN members[j] \ {request.person}
    ELSE members[j]]

\* Everything a request locked is let go of with its commit, and when it is rolled back.
Done(s) ==
  /\ held' = [held EXCEPT ![s] = {}]
  /\ requests' = [requests EXCEPT ![s] = Idle]

Commit(s) ==
  LET request == requests[s] IN
    /\ request.kind # "idle" /\ request.read /\ request.ahead = <<>>
    /\ CASE request.kind \in {"create", "accept"} -> Joined(request)
         [] request.kind = "leave" -> Left(request)
         [] request.kind = "erase" -> Erased(request)
         [] request.kind \in {"change", "order", "rename"} -> UNCHANGED members
    /\ deleted' = deleted \cup {p \in {request.person} : request.kind = "erase"}
    /\ Done(s)

\* Refused, given up by the database to end a deadlock, or its connection lost.
RollBack(s) ==
  /\ requests[s].kind # "idle"
  /\ Done(s)
  /\ UNCHANGED <<members, deleted>>
-----------------------------------------------------------------------------
\* Only being removed does not take an account that is not deleted.
Ask(s) ==
  \E p \in Person :
    \/ \E j \in Journey : Leave(s, p, j)
    \/ /\ p \notin deleted
       /\ \/ Rename(s, p) \/ Erase(s, p)
          \/ \E j \in Journey :
               Create(s, p, j) \/ Accept(s, p, j) \/ Change(s, p, j) \/ Transfer(s, p, j) \/ Order(s, p, j)

Next == \E s \in Slot : Ask(s) \/ Take(s) \/ Skip(s) \/ Count(s) \/ List(s) \/ Commit(s) \/ RollBack(s)

Spec == Init /\ [][Next]_vars
-----------------------------------------------------------------------------
\* Every membership, lock and request keeps its shape, and only a request under way holds a lock.
TypeOK ==
  /\ members \in [Journey -> SUBSET Person]
  /\ deleted \subseteq Person
  /\ held \in [Slot -> SUBSET Locks]
  /\ requests \in [Slot -> Requests]
  /\ \A s \in Slot : requests[s].kind = "idle" => held[s] = {}

\* Nobody is ever in more journeys than the limit, whatever they start and join at once
\* (journeysHeldBy).
WithinLimit == \A p \in Person : Cardinality(JourneysOf(p)) <= Limit

\* Requests that wait for each other for ever: each waits for another of them.
Deadlock(W) == W # {} /\ \A s \in W : \E t \in W : WaitsFor(s, t)

\* Whatever waits in a circle, one of those waiting locked a row before a journey: it deletes an
\* account, gives an order of rest, or changes the name of somebody whose row another of them waits
\* for.  Requests that lock their journey first never wait for each other in a circle, nor do changes
\* of names alone (changeDisplayName, ORDER BY journey_id).
OnlyRowsFirstMeet ==
  \A W \in SUBSET Slot : Deadlock(W) =>
    \/ \E s \in W : requests[s].kind \in {"erase", "order"}
    \/ \E s, t \in W :
         /\ requests[s].kind = "rename" /\ requests[t].kind # "rename"
         /\ WaitsFor(t, s) /\ Head(Ahead(t)).on = "row"

\* A deletion takes a journey with it only when nobody else is in it, however it was asked for
\* before (eraseAccount).
NobodyStranded ==
  [][\A j \in Journey : members[j] # {} /\ members'[j] = {} => Cardinality(members[j]) = 1]_vars
=============================================================================
