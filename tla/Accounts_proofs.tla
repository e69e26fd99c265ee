-------------------------- MODULE Accounts_proofs --------------------------
(***************************************************************************)
(* For any people, any finite set of journeys and any number of requests   *)
(* at once: nobody is ever in more journeys than the limit, and a deletion *)
(* takes no journey somebody else is in.  Both rest on locks held until    *)
(* the commit: what was read under one is still so when it is acted on.    *)
(* And whatever waits in a circle, one in it locked a row before a         *)
(* journey: the others take their locks in one order.                      *)
(***************************************************************************)
EXTENDS Accounts, FiniteSetTheorems, SequenceTheorems, WellFoundedInduction, TLAPS

Joins(request) == request.kind \in {"create", "accept"}

\* A request is somebody's, and about a journey if it changes one.
Whose ==
  \A s \in Slot :
    /\ requests[s].kind = "idle" => requests[s] = Idle
    /\ requests[s].kind # "idle" => requests[s].person \in Person
    /\ requests[s].kind \in {"create", "accept", "change", "leave"} => requests[s].journey \in Journey

\* A lock that is not shared has one holder.
OneHolder ==
  \A s, t \in Slot : \A l \in held[s] \cap held[t] : l.shared \/ s = t

\* Who joins, changes or leaves a journey that exists waits for its lock before any other.
LockFirst ==
  \A s \in Slot : requests[s].kind \in {"accept", "change", "leave"} =>
    \/ JourneyLock(requests[s].journey) \in held[s]
    \/ Ahead(s) # <<>> /\ Head(Ahead(s)) = JourneyLock(requests[s].journey)

\* A deletion locks the journeys it is to take the person out of, their memberships and their row.
LocksOf(p, listed) == {JourneyLock(j) : j \in listed} \cup {Membership(j, p) : j \in listed} \cup {Row(p)}

OnlyListed ==
  \A s \in Slot : requests[s].kind = "erase" =>
    Ahead(s) \in Seq(LocksOf(requests[s].person, requests[s].listed))

\* Who has counted a person's journeys holds the lock on them, and there is room for one more.
Counted ==
  \A s \in Slot : Joins(requests[s]) /\ requests[s].read =>
    /\ PersonLock(requests[s].person) \in held[s]
    /\ Cardinality(JourneysOf(requests[s].person) \ {requests[s].journey}) < Limit

\* A deletion that found nobody else in a journey holds its lock, and there is still nobody.
StillAlone ==
  \A s \in Slot : \A j \in requests[s].alone :
    /\ requests[s].kind = "erase" /\ j \in requests[s].listed
    /\ JourneyLock(j) \in held[s]
    /\ members[j] \subseteq {requests[s].person}

\* A journey being started is nobody else's business.
StillNew ==
  \A s \in Slot : requests[s].kind = "create" =>
    /\ members[requests[s].journey] = {}
    /\ \A t \in Slot \ {s} :
         /\ requests[s].journey \notin requests[t].listed
         /\ Joins(requests[t]) => requests[t].journey # requests[s].journey

IInv == TypeOK /\ Whose /\ OneHolder /\ LockFirst /\ OnlyListed /\ Counted /\ StillAlone /\ StillNew /\ WithinLimit

-----------------------------------------------------------------------------
\* A person is in finitely many journeys, and in no more of them when they are fewer.
LEMMA JourneysFinite ==
  ASSUME NEW A, A \subseteq Journey, NEW B, B \subseteq A
  PROVE  /\ IsFiniteSet(A) /\ IsFiniteSet(B)
         /\ Cardinality(A) \in Nat /\ Cardinality(B) \in Nat
         /\ Cardinality(B) <= Cardinality(A)
<1>1. IsFiniteSet(A)
  BY FS_Subset, AccountsAssumption
<1>2. IsFiniteSet(B) /\ Cardinality(B) <= Cardinality(A)
  BY <1>1, FS_Subset
<1> QED
  BY <1>1, <1>2, FS_CardinalityType

\* A request that begins holds nothing, and has read nothing yet that a lock must keep.
LEMMA BeginInvariant ==
  ASSUME IInv, NEW s \in Slot, NEW kind \in Kinds, NEW p \in Person,
         NEW j \in Journey \cup {None}, NEW ahead \in Seq(Locks),
         Begin(s, kind, p, j, ahead),
         kind \in {"create", "accept", "change", "leave"} => j \in Journey,
         kind = "create" => New(j),
         kind = "accept" => members[j] # {},
         kind \in {"accept", "change", "leave"} => ahead # <<>> /\ Head(ahead) = JourneyLock(j),
         kind = "erase" => ahead \in Seq(LocksOf(p, JourneysOf(p)))
  PROVE  IInv'
<1> DEFINE begun == [kind |-> kind, person |-> p, journey |-> j, ahead |-> ahead,
                     read |-> kind \in {"change", "leave", "order", "erase"},
                     listed |-> IF kind = "erase" THEN JourneysOf(p) ELSE {}, alone |-> {}]
<1>1. /\ requests[s] = Idle
      /\ requests' = [requests EXCEPT ![s] = begun]
      /\ UNCHANGED <<members, deleted, held>>
  BY DEF Begin
<1>2. /\ begun.kind = kind /\ begun.person = p /\ begun.journey = j /\ begun.ahead = ahead
      /\ begun.alone = {} /\ ~(Joins(begun) /\ begun.read)
      /\ begun.listed # {} => kind = "erase" /\ begun.listed = JourneysOf(p)
      /\ kind = "erase" => begun.listed = JourneysOf(p)
  BY DEF Joins
<1>3. begun \in Requests
  <2>1. (kind \in {"change", "leave", "order", "erase"}) \in BOOLEAN
    OBVIOUS
  <2>2. (IF kind = "erase" THEN JourneysOf(p) ELSE {}) \in SUBSET Journey
    BY DEF JourneysOf
  <2> QED
    BY <2>1, <2>2 DEF Requests
<1> HIDE DEF begun
<1>4. \A t \in Slot : requests'[t] = IF t = s THEN begun ELSE requests[t]
  BY <1>1 DEF IInv, TypeOK
<1>5. kind # "idle"
  BY DEF Kinds
<1>6. TypeOK'
  BY <1>1, <1>2, <1>3, <1>4, <1>5 DEF IInv, TypeOK
<1>7. Whose' /\ OneHolder'
  BY <1>1, <1>2, <1>4, <1>5 DEF IInv, Whose, OneHolder
<1>8. LockFirst'
  BY <1>1, <1>2, <1>4 DEF IInv, LockFirst, Ahead
<1>13. OnlyListed'
  BY <1>2, <1>4 DEF IInv, OnlyListed, Ahead
<1>9. Counted'
  <2>1. \A q : JourneysOf(q)' = JourneysOf(q)
    BY <1>1 DEF JourneysOf
  <2>2. \A t \in Slot : Joins(requests'[t]) /\ requests'[t].read => requests'[t] = requests[t]
    BY <1>2, <1>4
  <2> QED
    BY <1>1, <2>1, <2>2 DEF IInv, Counted, Joins
<1>10. StillAlone'
  BY <1>1, <1>2, <1>4 DEF IInv, StillAlone
<1>11. StillNew'
  <2>1. ASSUME NEW r \in Slot, requests'[r].kind = "create"
        PROVE  members[requests'[r].journey] = {}
    BY <2>1, <1>2, <1>4 DEF IInv, StillNew, New
  <2>2. ASSUME NEW r \in Slot, requests'[r].kind = "create", NEW t \in Slot \ {r}
        PROVE  /\ requests'[r].journey \notin requests'[t].listed
               /\ Joins(requests'[t]) => requests'[t].journey # requests'[r].journey
    <3>1. CASE r = s
      BY <2>2, <3>1, <1>2, <1>4 DEF New, Joins
    <3>2. CASE r # s /\ t # s
      BY <2>2, <3>2, <1>4 DEF IInv, StillNew
    <3>3. CASE r # s /\ t = s
      <4>1. requests'[r] = requests[r] /\ requests'[t] = begun
        BY <3>3, <1>4
      <4>2. members[requests[r].journey] = {}
        BY <2>2, <4>1 DEF IInv, StillNew
      <4>3. requests[r].journey \notin begun.listed
        BY <4>2, <1>2 DEF JourneysOf
      <4>4. Joins(begun) => j # requests[r].journey
        BY <4>2, <1>2, <3>3 DEF Joins, New
      <4> QED
        BY <4>1, <4>3, <4>4, <1>2
    <3> QED
      BY <3>1, <3>2, <3>3
  <2> QED
    BY <2>1, <2>2, <1>1 DEF StillNew, Joins
<1>12. WithinLimit'
  BY <1>1 DEF IInv, WithinLimit, JourneysOf
<1> QED
  BY <1>6, <1>7, <1>8, <1>9, <1>10, <1>11, <1>12, <1>13 DEF IInv

\* The orders of a finite set are sequences of it.
LEMMA OrderLists ==
  ASSUME NEW A, IsFiniteSet(A), NEW order \in Orders(A)
  PROVE  order \in Seq(A)
<1>1. Cardinality(A) \in Nat
  BY FS_CardinalityType
<1>2. order \in [1 .. Cardinality(A) -> A]
  BY DEF Orders
<1> QED
  BY <1>1, <1>2

\* What stands ahead of a request that begins is locks.
LEMMA LocksAhead ==
  ASSUME NEW p \in Person, NEW j \in Journey
  PROVE  /\ <<PersonLock(p), Named(p)>> \in Seq(Locks)
         /\ <<JourneyLock(j), PersonLock(p), Named(p)>> \in Seq(Locks)
         /\ <<JourneyLock(j), Membership(j, p), Row(p)>> \in Seq(Locks)
         /\ \A q \in Person : <<JourneyLock(j), Membership(j, q), Row(q), Membership(j, p)>> \in Seq(Locks)
<1>1. /\ JourneyLock(j) \in Locks /\ PersonLock(p) \in Locks
      /\ \A q \in Person : Named(q) \in Locks /\ Row(q) \in Locks /\ Membership(j, q) \in Locks
  BY DEF Locks
<1> QED
  BY <1>1

\* Of each list of journeys to part with there are the lock and the membership, and the row last.
LEMMA PartingLists ==
  ASSUME NEW p, NEW J, NEW order \in Seq(J)
  PROVE  Append(Parting(p, order), Row(p)) \in Seq(LocksOf(p, J))
<1>1. Len(order) \in Nat /\ \A k \in 1 .. Len(order) : order[k] \in J
  OBVIOUS
<1>2. ASSUME NEW k \in 1 .. 2 * Len(order)
      PROVE  (IF k % 2 = 1 THEN JourneyLock(order[(k + 1) \div 2]) ELSE Membership(order[k \div 2], p)) \in LocksOf(p, J)
  <2>1. CASE k % 2 = 1
    <3>1. (k + 1) \div 2 \in 1 .. Len(order)
      BY <1>1, <2>1
    <3> QED
      BY <1>1, <2>1, <3>1 DEF LocksOf
  <2>2. CASE k % 2 # 1
    <3>1. k \div 2 \in 1 .. Len(order)
      BY <1>1, <2>2
    <3> QED
      BY <1>1, <2>2, <3>1 DEF LocksOf
  <2> QED
    BY <2>1, <2>2
<1>3. 2 * Len(order) \in Nat
  BY <1>1
<1>4. Parting(p, order) \in [1 .. 2 * Len(order) -> LocksOf(p, J)]
  BY <1>2 DEF Parting
<1>5. Parting(p, order) \in Seq(LocksOf(p, J))
  BY <1>3, <1>4
<1>6. Row(p) \in LocksOf(p, J)
  BY DEF LocksOf
<1> QED
  BY <1>5, <1>6

\* Every request that begins is one of these.
LEMMA AskInvariant ==
  ASSUME IInv, NEW s \in Slot, Ask(s)
  PROVE  IInv'
<1> PICK p \in Person :
      \/ Rename(s, p) \/ Erase(s, p)
      \/ \E j \in Journey : \/ Create(s, p, j) \/ Accept(s, p, j) \/ Change(s, p, j)
                            \/ Transfer(s, p, j) \/ Leave(s, p, j) \/ Order(s, p, j)
  BY DEF Ask
<1>1. \A j \in Journey, q \in Person : Membership(j, q) \in Locks /\ JourneyLock(j) \in Locks /\ Named(q) \in Locks
  BY DEF Locks
<1>3. CASE Rename(s, p)
  <2>1. <<Row(p)>> \in Seq(Locks)
    BY DEF Locks
  <2> QED
    BY <1>3, <2>1, BeginInvariant DEF Rename, Kinds
<1>4. CASE Erase(s, p)
  <2> DEFINE J == JourneysOf(p)
  <2> PICK order \in Orders(J) : Begin(s, "erase", p, None, Append(Parting(p, order), Row(p)))
    BY <1>4 DEF Erase
  <2> DEFINE all == Append(Parting(p, order), Row(p))
  <2>1. J \subseteq Journey
    BY DEF JourneysOf
  <2>2. IsFiniteSet(J)
    BY <2>1, FS_Subset, AccountsAssumption
  <2>3. order \in Seq(J)
    <3> HIDE DEF J
    <3> QED
      BY <2>2, OrderLists
  <2>4. all \in Seq(LocksOf(p, J))
    <3> HIDE DEF J
    <3> QED
      BY <2>3, PartingLists
  <2>5. LocksOf(p, J) \subseteq Locks
    BY <2>1 DEF LocksOf, Locks
  <2>6. all \in Seq(Locks)
    <3> HIDE DEF all, J
    <3> QED
      BY <2>4, <2>5
  <2>7. Begin(s, "erase", p, None, all)
    OBVIOUS
  <2> HIDE DEF all
  <2> QED
    BY <2>4, <2>6, <2>7, BeginInvariant DEF Kinds
<1>5. ASSUME NEW j \in Journey, Create(s, p, j) PROVE IInv'
  BY <1>5, LocksAhead, BeginInvariant DEF Create, Kinds
<1>6. ASSUME NEW j \in Journey, Accept(s, p, j) PROVE IInv'
  <2> DEFINE locks == <<JourneyLock(j), PersonLock(p), Named(p)>>
  <2>1. locks \in Seq(Locks) /\ locks # <<>> /\ Head(locks) = JourneyLock(j)
    BY LocksAhead
  <2>2. Begin(s, "accept", p, j, locks) /\ members[j] # {}
    BY <1>6 DEF Accept
  <2> HIDE DEF locks
  <2> QED
    BY <2>1, <2>2, BeginInvariant DEF Kinds
<1>7. ASSUME NEW j \in Journey, Change(s, p, j) PROVE IInv'
  <2> PICK people \in SUBSET Person : \E order \in Orders(people) :
        Begin(s, "change", p, j, <<JourneyLock(j)>> \o [k \in DOMAIN order |-> Named(order[k])])
    BY <1>7 DEF Change
  <2> PICK order \in Orders(people) :
        Begin(s, "change", p, j, <<JourneyLock(j)>> \o [k \in DOMAIN order |-> Named(order[k])])
    OBVIOUS
  <2> DEFINE names == [k \in DOMAIN order |-> Named(order[k])]
             locks == <<JourneyLock(j)>> \o names
  <2>1. order \in Seq(people)
    BY FS_Subset, AccountsAssumption, OrderLists
  <2>2. names \in Seq(Locks)
    <3>1. names \in [1 .. Len(order) -> Locks] /\ Len(order) \in Nat
      BY <1>1, <2>1
    <3> QED
      BY <3>1
  <2> HIDE DEF names
  <2>3. locks \in Seq(Locks) /\ locks # <<>> /\ Head(locks) = JourneyLock(j)
    BY <1>1, <2>2
  <2>4. Begin(s, "change", p, j, locks)
    BY DEF names
  <2> HIDE DEF locks
  <2> QED
    BY <2>3, <2>4, BeginInvariant DEF Kinds
<1>8. ASSUME NEW j \in Journey, Transfer(s, p, j) PROVE IInv'
  <2> PICK q \in Person \ {p} :
        Begin(s, "change", p, j, <<JourneyLock(j), Membership(j, q), Row(q), Membership(j, p)>>)
    BY <1>8 DEF Transfer
  <2> DEFINE locks == <<JourneyLock(j), Membership(j, q), Row(q), Membership(j, p)>>
  <2>1. locks \in Seq(Locks) /\ locks # <<>> /\ Head(locks) = JourneyLock(j)
    BY LocksAhead
  <2>2. Begin(s, "change", p, j, locks)
    OBVIOUS
  <2> HIDE DEF locks
  <2> QED
    BY <2>1, <2>2, BeginInvariant DEF Kinds
<1>9. ASSUME NEW j \in Journey, Leave(s, p, j) PROVE IInv'
  <2> DEFINE locks == <<JourneyLock(j), Membership(j, p), Row(p)>>
  <2>1. locks \in Seq(Locks) /\ locks # <<>> /\ Head(locks) = JourneyLock(j)
    BY LocksAhead
  <2>2. Begin(s, "leave", p, j, locks)
    BY <1>9 DEF Leave
  <2> HIDE DEF locks
  <2> QED
    BY <2>1, <2>2, BeginInvariant DEF Kinds
<1>10. ASSUME NEW j \in Journey, Order(s, p, j) PROVE IInv'
  <2> PICK order \in Orders(members[j]) :
        Begin(s, "order", p, j, Append([k \in DOMAIN order |-> Membership(j, order[k])], JourneyLock(j)))
    BY <1>10 DEF Order
  <2> DEFINE all == [k \in DOMAIN order |-> Membership(j, order[k])]
             locks == Append(all, JourneyLock(j))
  <2>1. members[j] \subseteq Person
    BY DEF IInv, TypeOK
  <2>2. order \in Seq(members[j])
    BY <2>1, FS_Subset, AccountsAssumption, OrderLists
  <2>3. all \in Seq(Locks)
    <3>1. all \in [1 .. Len(order) -> Locks] /\ Len(order) \in Nat
      BY <1>1, <2>1, <2>2
    <3> QED
      BY <3>1
  <2>4. Begin(s, "order", p, j, locks)
    OBVIOUS
  <2> HIDE DEF all
  <2>5. locks \in Seq(Locks)
    BY <1>1, <2>3
  <2> HIDE DEF locks
  <2> QED
    BY <2>4, <2>5, BeginInvariant DEF Kinds
<1> QED
  BY <1>3, <1>4, <1>5, <1>6, <1>7, <1>8, <1>9, <1>10

\* A lock taken is nobody else's; a journey found empty but for the person deleted is locked.
LEMMA TakeInvariant ==
  ASSUME IInv, NEW s \in Slot, Take(s)
  PROVE  IInv'
<1> DEFINE request == requests[s]
           next == Head(request.ahead)
           found == request.kind = "erase" /\ next.on = "journey" /\ members[next.of] \subseteq {request.person}
           more == [request EXCEPT !.ahead = Tail(@),
                                   !.alone = IF found THEN @ \cup {next.of} ELSE @]
<1>1. /\ request.ahead # <<>> /\ ~Waiting(s)
      /\ held' = [held EXCEPT ![s] = @ \cup {next}]
      /\ requests' = [requests EXCEPT ![s] = more]
      /\ UNCHANGED <<members, deleted>>
  BY DEF Take
<1>2. request \in Requests /\ request.ahead \in Seq(Locks)
  BY DEF IInv, TypeOK, Requests
<1>3. next \in Locks /\ Tail(request.ahead) \in Seq(Locks)
  BY <1>1, <1>2
<1>4. /\ more.kind = request.kind /\ more.person = request.person /\ more.journey = request.journey
      /\ more.read = request.read /\ more.listed = request.listed
      /\ more.ahead = Tail(request.ahead)
      /\ more.alone = IF found THEN request.alone \cup {next.of} ELSE request.alone
  BY <1>2 DEF Requests
<1>5. next.on = "journey" => next.of \in Journey /\ next = JourneyLock(next.of)
  <2>1. ASSUME NEW l \in Locks, l.on = "journey" PROVE l.of \in Journey /\ l = JourneyLock(l.of)
    <3>1. /\ \A p \in Person : PersonLock(p).on # "journey" /\ Named(p).on # "journey" /\ Row(p).on # "journey"
          /\ \A j \in Journey, p \in Person : Membership(j, p).on # "journey"
      BY DEF PersonLock, Named, Row, Membership
    <3>2. PICK j \in Journey : l = JourneyLock(j)
      BY <2>1, <3>1 DEF Locks
    <3>3. l.of = j
      BY <3>2 DEF JourneyLock
    <3> QED
      BY <3>2, <3>3
  <2> QED
    BY <1>3, <2>1
<1>6. more \in Requests
  BY <1>2, <1>3, <1>5 DEF Requests
<1>7. request.kind # "idle"
  BY <1>1 DEF IInv, Whose, Idle
<1>8. \A t \in Slot : /\ requests'[t] = IF t = s THEN more ELSE requests[t]
                      /\ held'[t] = IF t = s THEN held[s] \cup {next} ELSE held[t]
  BY <1>1 DEF IInv, TypeOK
<1> HIDE DEF more
<1>9. TypeOK'
  <2>1. requests' \in [Slot -> Requests]
    BY <1>1, <1>6 DEF IInv, TypeOK
  <2>2. held' \in [Slot -> SUBSET Locks]
    BY <1>1, <1>3 DEF IInv, TypeOK
  <2>3. \A t \in Slot : requests'[t].kind = "idle" => held'[t] = {}
    BY <1>4, <1>7, <1>8 DEF IInv, TypeOK
  <2> QED
    BY <1>1, <2>1, <2>2, <2>3 DEF IInv, TypeOK
<1>10. Whose'
  BY <1>4, <1>7, <1>8 DEF IInv, Whose
<1>11. OneHolder'
  <2>1. \A t \in Slot : next \in held[t] /\ t # s => next.shared
    BY <1>1 DEF Waiting, WaitsFor, Ahead, Conflict
  <2> QED
    BY <1>8, <2>1 DEF IInv, OneHolder
<1>12. LockFirst'
  BY <1>4, <1>8 DEF IInv, LockFirst, Ahead
<1>17. OnlyListed'
  <2>1. request.kind = "erase" => Tail(request.ahead) \in Seq(LocksOf(request.person, request.listed))
    <3> DEFINE theirs == LocksOf(request.person, request.listed)
    <3>1. request.kind = "erase" => request.ahead \in Seq(theirs)
      BY DEF IInv, OnlyListed, Ahead
    <3> HIDE DEF theirs
    <3>2. request.kind = "erase" => Tail(request.ahead) \in Seq(theirs)
      BY <1>1, <3>1
    <3> QED
      BY <3>2 DEF theirs
  <2> QED
    BY <2>1, <1>4, <1>8 DEF IInv, OnlyListed, Ahead
<1>13. Counted'
  <2>1. \A q : JourneysOf(q)' = JourneysOf(q)
    BY <1>1 DEF JourneysOf
  <2>2. \A t \in Slot : held[t] \subseteq held'[t] /\ Joins(requests'[t]) = Joins(requests[t])
                       /\ requests'[t].read = requests[t].read /\ requests'[t].person = requests[t].person
                       /\ requests'[t].journey = requests[t].journey
    BY <1>4, <1>8 DEF Joins
  <2> QED
    BY <2>1, <2>2 DEF IInv, Counted
<1>14. StillAlone'
  <2> SUFFICES ASSUME NEW t \in Slot, NEW j \in requests'[t].alone
               PROVE  /\ requests'[t].kind = "erase" /\ j \in requests'[t].listed
                      /\ JourneyLock(j) \in held'[t]
                      /\ members[j] \subseteq {requests'[t].person}
    BY <1>1 DEF StillAlone
  <2>1. CASE j \in requests[t].alone
    BY <2>1, <1>4, <1>8 DEF IInv, StillAlone
  <2>2. CASE t = s /\ found /\ j = next.of
    <3>1. next \in LocksOf(request.person, request.listed)
      BY <2>2, <1>1 DEF IInv, OnlyListed, Ahead
    <3>2. /\ next = JourneyLock(next.of) /\ Row(request.person).on # "journey"
          /\ \A i : Membership(i, request.person).on # "journey"
      BY <2>2, <1>5 DEF Row, Membership
    <3>3. next.of \in request.listed
      BY <2>2, <3>1, <3>2 DEF LocksOf, JourneyLock
    <3> QED
      BY <2>2, <3>2, <3>3, <1>4, <1>8
  <2> QED
    BY <2>1, <2>2, <1>4, <1>8
<1>15. StillNew'
  BY <1>1, <1>4, <1>8 DEF IInv, StillNew, Joins
<1>16. WithinLimit'
  BY <1>1 DEF IInv, WithinLimit, JourneysOf
<1> QED
  BY <1>9, <1>10, <1>11, <1>12, <1>13, <1>14, <1>15, <1>16, <1>17 DEF IInv

\* A membership that is gone is asked for no more; nothing else changes.
LEMMA SkipInvariant ==
  ASSUME IInv, NEW s \in Slot, Skip(s)
  PROVE  IInv'
<1> DEFINE request == requests[s]
           more == [request EXCEPT !.ahead = Tail(@)]
<1>1. /\ request.ahead # <<>> /\ Head(request.ahead).on = "member"
      /\ requests' = [requests EXCEPT ![s] = more]
      /\ UNCHANGED <<members, deleted, held>>
  BY DEF Skip
<1>2. request \in Requests /\ request.ahead \in Seq(Locks)
  BY DEF IInv, TypeOK, Requests
<1>3. Tail(request.ahead) \in Seq(Locks)
  BY <1>1, <1>2
<1>4. /\ more \in Requests
      /\ more.kind = request.kind /\ more.person = request.person /\ more.journey = request.journey
      /\ more.read = request.read /\ more.listed = request.listed /\ more.alone = request.alone
      /\ more.ahead = Tail(request.ahead)
  BY <1>2, <1>3 DEF Requests
<1>5. request.kind # "idle"
  BY <1>1 DEF IInv, Whose, Idle
<1> HIDE DEF more
<1>6. \A t \in Slot : requests'[t] = IF t = s THEN more ELSE requests[t]
  BY <1>1 DEF IInv, TypeOK
<1>7. TypeOK' /\ OneHolder'
  BY <1>1, <1>4, <1>6 DEF IInv, TypeOK, OneHolder
<1>8. Whose'
  BY <1>4, <1>5, <1>6 DEF IInv, Whose
<1>9. LockFirst'
  <2>1. ASSUME NEW j PROVE Head(request.ahead) # JourneyLock(j)
    BY <1>1 DEF JourneyLock
  <2> QED
    BY <1>1, <1>4, <1>6, <2>1 DEF IInv, LockFirst, Ahead
<1>10. OnlyListed'
  <2>1. request.kind = "erase" => Tail(request.ahead) \in Seq(LocksOf(request.person, request.listed))
    <3> DEFINE theirs == LocksOf(request.person, request.listed)
    <3>1. request.kind = "erase" => request.ahead \in Seq(theirs)
      BY DEF IInv, OnlyListed, Ahead
    <3> HIDE DEF theirs
    <3>2. request.kind = "erase" => Tail(request.ahead) \in Seq(theirs)
      BY <1>1, <3>1
    <3> QED
      BY <3>2 DEF theirs
  <2> QED
    BY <2>1, <1>4, <1>6 DEF IInv, OnlyListed, Ahead
<1>11. \A q : JourneysOf(q)' = JourneysOf(q)
  BY <1>1 DEF JourneysOf
<1>12. Counted'
  BY <1>1, <1>4, <1>6, <1>11 DEF IInv, Counted, Joins
<1>13. StillAlone'
  BY <1>1, <1>4, <1>6 DEF IInv, StillAlone
<1>14. StillNew'
  BY <1>1, <1>4, <1>6 DEF IInv, StillNew, Joins
<1>15. WithinLimit'
  BY <1>11 DEF IInv, WithinLimit
<1> QED
  BY <1>7, <1>8, <1>9, <1>10, <1>12, <1>13, <1>14, <1>15 DEF IInv

\* Who counts holds the lock on what they count.
LEMMA CountInvariant ==
  ASSUME IInv, NEW s \in Slot, Count(s)
  PROVE  IInv'
<1> DEFINE request == requests[s]
           more == [request EXCEPT !.read = TRUE]
<1>1. /\ Joins(request)
      /\ PersonLock(request.person) \in held[s]
      /\ Cardinality(JourneysOf(request.person) \ {request.journey}) < Limit
      /\ requests' = [requests EXCEPT ![s] = more]
      /\ UNCHANGED <<members, deleted, held>>
  BY DEF Count, Joins
<1>2. request \in Requests
  BY DEF IInv, TypeOK
<1>3. /\ more \in Requests
      /\ more.kind = request.kind /\ more.person = request.person /\ more.journey = request.journey
      /\ more.listed = request.listed /\ more.ahead = request.ahead /\ more.alone = request.alone
  BY <1>2 DEF Requests
<1> HIDE DEF more
<1>4. \A t \in Slot : requests'[t] = IF t = s THEN more ELSE requests[t]
  BY <1>1 DEF IInv, TypeOK
<1>5. TypeOK' /\ OneHolder'
  BY <1>1, <1>3, <1>4 DEF IInv, TypeOK, OneHolder
<1>6. Whose'
  BY <1>1, <1>3, <1>4 DEF IInv, Whose, Joins
<1>7. LockFirst' /\ OnlyListed'
  BY <1>1, <1>3, <1>4 DEF IInv, LockFirst, OnlyListed, Ahead
<1>8. \A q : JourneysOf(q)' = JourneysOf(q)
  BY <1>1 DEF JourneysOf
<1>9. Counted'
  BY <1>1, <1>3, <1>4, <1>8 DEF IInv, Counted, Joins
<1>10. StillAlone' /\ StillNew'
  BY <1>1, <1>3, <1>4 DEF IInv, StillAlone, StillNew, Joins
<1>11. WithinLimit'
  BY <1>8 DEF IInv, WithinLimit
<1> QED
  BY <1>5, <1>6, <1>7, <1>9, <1>10, <1>11 DEF IInv

\* A change of a name reads whose journeys to tell, and asks for their locks.
LEMMA ListInvariant ==
  ASSUME IInv, NEW s \in Slot, List(s)
  PROVE  IInv'
<1> DEFINE request == requests[s]
<1> PICK order \in SortedOrders(JourneysOf(request.person)) :
      requests' = [requests EXCEPT ![s] =
        [request EXCEPT !.read = TRUE, !.ahead = [k \in DOMAIN order |-> JourneyLock(order[k])]]]
  BY DEF List
<1> DEFINE J == JourneysOf(request.person)
           locks == [k \in DOMAIN order |-> JourneyLock(order[k])]
           more == [request EXCEPT !.read = TRUE, !.ahead = locks]
<1>1. request.kind = "rename" /\ UNCHANGED <<members, deleted, held>>
  BY DEF List
<1>2. request \in Requests
  BY DEF IInv, TypeOK
<1>3. locks \in Seq(Locks)
  <2>1. J \subseteq Journey
    BY DEF JourneysOf
  <2>2. Cardinality(J) \in Nat
    BY <2>1, JourneysFinite
  <2>3. order \in [1 .. Cardinality(J) -> J]
    BY DEF Orders, SortedOrders
  <2> HIDE DEF J
  <2>4. locks \in [1 .. Cardinality(J) -> Locks]
    BY <2>1, <2>3 DEF Locks
  <2> QED
    BY <2>2, <2>4
<1> HIDE DEF locks
<1>4. requests' = [requests EXCEPT ![s] = more]
  BY DEF locks
<1>5. /\ more \in Requests
      /\ more.kind = "rename" /\ more.person = request.person /\ more.journey = request.journey
      /\ more.listed = request.listed /\ more.alone = request.alone
  BY <1>1, <1>2, <1>3 DEF Requests
<1> HIDE DEF more
<1>6. \A t \in Slot : requests'[t] = IF t = s THEN more ELSE requests[t]
  BY <1>4 DEF IInv, TypeOK
<1>7. TypeOK' /\ OneHolder'
  BY <1>1, <1>4, <1>5, <1>6 DEF IInv, TypeOK, OneHolder
<1>8. Whose'
  BY <1>1, <1>5, <1>6 DEF IInv, Whose
<1>9. LockFirst' /\ OnlyListed'
  BY <1>1, <1>5, <1>6 DEF IInv, LockFirst, OnlyListed, Ahead
<1>10. \A q : JourneysOf(q)' = JourneysOf(q)
  BY <1>1 DEF JourneysOf
<1>11. Counted'
  BY <1>1, <1>5, <1>6, <1>10 DEF IInv, Counted, Joins
<1>12. \A t \in Slot :
        /\ requests'[t].kind = requests[t].kind /\ requests'[t].person = requests[t].person
        /\ requests'[t].journey = requests[t].journey /\ requests'[t].listed = requests[t].listed
        /\ requests'[t].alone = requests[t].alone
  BY <1>1, <1>5, <1>6
<1>14. StillAlone' /\ StillNew'
  <2> HIDE DEF request
  <2>1. UNCHANGED members /\ UNCHANGED held
    BY <1>1
  <2>2. StillAlone'
    BY <1>12, <2>1 DEF IInv, StillAlone
  <2>3. StillNew'
    BY <1>12, <2>1 DEF IInv, StillNew, Joins
  <2> QED
    BY <2>2, <2>3
<1>13. WithinLimit'
  BY <1>10 DEF IInv, WithinLimit
<1> QED
  BY <1>7, <1>8, <1>9, <1>11, <1>13, <1>14 DEF IInv

\* A request that ends lets go of what it held.
LEMMA DoneInvariant ==
  ASSUME IInv, NEW s \in Slot, Done(s), members' \in [Journey -> SUBSET Person], deleted' \subseteq Person
  PROVE  /\ TypeOK' /\ Whose' /\ OneHolder' /\ LockFirst' /\ OnlyListed'
         /\ \A t \in Slot : /\ requests'[t] = IF t = s THEN Idle ELSE requests[t]
                            /\ held'[t] = IF t = s THEN {} ELSE held[t]
<1>1. \A t \in Slot : /\ requests'[t] = IF t = s THEN Idle ELSE requests[t]
                      /\ held'[t] = IF t = s THEN {} ELSE held[t]
  BY DEF Done, IInv, TypeOK
<1>2. Idle \in Requests /\ Idle.kind = "idle"
  BY DEF Idle, Requests
<1>3. requests' \in [Slot -> Requests] /\ held' \in [Slot -> SUBSET Locks]
  BY <1>2 DEF Done, IInv, TypeOK
<1>4. TypeOK'
  BY <1>1, <1>2, <1>3 DEF IInv, TypeOK
<1>5. Whose' /\ OneHolder'
  BY <1>1, <1>2 DEF IInv, Whose, OneHolder
<1>6. LockFirst' /\ OnlyListed'
  BY <1>1, <1>2 DEF IInv, LockFirst, OnlyListed, Ahead
<1> QED
  BY <1>1, <1>4, <1>5, <1>6

\* Who is taken out of journeys, and what is rolled back, leave every count as it was or less.
LEMMA FewerInvariant ==
  ASSUME IInv, NEW s \in Slot, Done(s), members' \in [Journey -> SUBSET Person], deleted' \subseteq Person,
         \A j \in Journey : members'[j] \subseteq members[j]
  PROVE  IInv'
<1>1. /\ TypeOK' /\ Whose' /\ OneHolder' /\ LockFirst' /\ OnlyListed'
      /\ \A t \in Slot : /\ requests'[t] = IF t = s THEN Idle ELSE requests[t]
                         /\ held'[t] = IF t = s THEN {} ELSE held[t]
  BY DoneInvariant
<1>2. Idle.kind = "idle" /\ Idle.alone = {} /\ Idle.listed = {} /\ ~Joins(Idle)
  BY DEF Idle, Joins
<1> DEFINE After(q) == {j \in Journey : q \in members'[j]}
<1>3. \A q : After(q) \subseteq JourneysOf(q) /\ JourneysOf(q) \subseteq Journey
  BY DEF JourneysOf
<1>4. WithinLimit'
  <2> SUFFICES ASSUME NEW p \in Person PROVE Cardinality(After(p)) <= Limit
    BY DEF WithinLimit, JourneysOf
  <2>1. /\ Cardinality(After(p)) \in Nat /\ Cardinality(JourneysOf(p)) \in Nat
        /\ Cardinality(After(p)) <= Cardinality(JourneysOf(p))
    BY <1>3, JourneysFinite
  <2> HIDE DEF After
  <2> QED
    BY <2>1, AccountsAssumption DEF IInv, WithinLimit
<1>5. Counted'
  <2> SUFFICES ASSUME NEW t \in Slot, Joins(requests'[t]), requests'[t].read
               PROVE  /\ PersonLock(requests'[t].person) \in held'[t]
                      /\ Cardinality(After(requests'[t].person) \ {requests'[t].journey}) < Limit
    BY DEF Counted, Joins, JourneysOf
  <2>1. requests'[t] = requests[t] /\ held'[t] = held[t]
    BY <1>1, <1>2
  <2> DEFINE A == JourneysOf(requests[t].person) \ {requests[t].journey}
             B == After(requests[t].person) \ {requests[t].journey}
  <2>2. PersonLock(requests[t].person) \in held[t] /\ Cardinality(A) < Limit
    BY <2>1 DEF IInv, Counted
  <2> HIDE DEF After
  <2>3. A \subseteq Journey /\ B \subseteq A
    BY <1>3
  <2> HIDE DEF A, B
  <2>4. Cardinality(A) \in Nat /\ Cardinality(B) \in Nat /\ Cardinality(B) <= Cardinality(A)
    BY <2>3, JourneysFinite
  <2>5. Cardinality(B) < Limit
    BY <2>2, <2>4, AccountsAssumption
  <2> QED
    BY <2>1, <2>2, <2>5 DEF B
<1>6. StillAlone'
  BY <1>1, <1>2 DEF IInv, StillAlone, TypeOK, Requests
<1>7. StillNew'
  BY <1>1, <1>2 DEF IInv, StillNew, Whose, Joins
<1> QED
  BY <1>1, <1>4, <1>5, <1>6, <1>7 DEF IInv

\* Who joins a journey had counted theirs, and the lock on them lets nobody else add to them.
LEMMA JoinedInvariant ==
  ASSUME IInv, NEW s \in Slot, Done(s), UNCHANGED deleted,
         Joins(requests[s]), requests[s].read, requests[s].ahead = <<>>, Joined(requests[s])
  PROVE  IInv'
<1> DEFINE p == requests[s].person
           j == requests[s].journey
           After(q) == {i \in Journey : q \in members'[i]}
<1>1. p \in Person /\ j \in Journey
  BY DEF IInv, Whose, Joins
<1>2. \A i \in Journey : members'[i] = IF i = j THEN members[i] \cup {p} ELSE members[i]
  BY DEF Joined, IInv, TypeOK
<1>3. members' \in [Journey -> SUBSET Person] /\ deleted' \subseteq Person
  BY <1>1 DEF Joined, IInv, TypeOK
<1>4. /\ TypeOK' /\ Whose' /\ OneHolder' /\ LockFirst' /\ OnlyListed'
      /\ \A t \in Slot : /\ requests'[t] = IF t = s THEN Idle ELSE requests[t]
                         /\ held'[t] = IF t = s THEN {} ELSE held[t]
  BY <1>3, DoneInvariant
<1>5. Idle.kind = "idle" /\ Idle.alone = {} /\ Idle.listed = {} /\ ~Joins(Idle)
  BY DEF Idle, Joins
<1>6. PersonLock(p) \in held[s] /\ Cardinality(JourneysOf(p) \ {j}) < Limit
  BY DEF IInv, Counted
<1>7. After(p) = (JourneysOf(p) \ {j}) \cup {j} /\ \A q : q # p => After(q) = JourneysOf(q)
  BY <1>1, <1>2 DEF JourneysOf
<1>8. WithinLimit'
  <2> SUFFICES ASSUME NEW q \in Person PROVE Cardinality(After(q)) <= Limit
    BY DEF WithinLimit, JourneysOf
  <2>1. CASE q = p
    <3> DEFINE A == JourneysOf(p) \ {j}
    <3>1. A \subseteq Journey /\ j \notin A
      BY DEF JourneysOf
    <3>2. After(p) = A \cup {j} /\ Cardinality(A) < Limit
      BY <1>6, <1>7
    <3> HIDE DEF A, After, j, p
    <3>3. IsFiniteSet(A) /\ Cardinality(A) \in Nat
      BY <3>1, JourneysFinite
    <3>4. Cardinality(A \cup {j}) = Cardinality(A) + 1
      BY <3>1, <3>3, FS_AddElement
    <3> QED
      BY <2>1, <3>2, <3>3, <3>4, AccountsAssumption
  <2>2. CASE q # p
    BY <2>2, <1>7 DEF IInv, WithinLimit
  <2> QED
    BY <2>1, <2>2
<1>9. Counted'
  <2> SUFFICES ASSUME NEW t \in Slot, Joins(requests'[t]), requests'[t].read
               PROVE  /\ PersonLock(requests'[t].person) \in held'[t]
                      /\ Cardinality(After(requests'[t].person) \ {requests'[t].journey}) < Limit
    BY DEF Counted, Joins, JourneysOf
  <2>1. t # s /\ requests'[t] = requests[t] /\ held'[t] = held[t]
    BY <1>4, <1>5
  <2>2. /\ PersonLock(requests[t].person) \in held[t]
        /\ Cardinality(JourneysOf(requests[t].person) \ {requests[t].journey}) < Limit
    BY <2>1 DEF IInv, Counted
  <2>3. requests[t].person # p
    <3>1. ~PersonLock(p).shared
      BY DEF PersonLock
    <3> QED
      BY <1>6, <2>1, <2>2, <3>1 DEF IInv, OneHolder
  <2> QED
    BY <1>7, <2>1, <2>2, <2>3
<1>10. StillAlone'
  <2> SUFFICES ASSUME NEW t \in Slot, NEW i \in requests'[t].alone
               PROVE  /\ requests'[t].kind = "erase" /\ i \in requests'[t].listed
                      /\ JourneyLock(i) \in held'[t]
                      /\ members'[i] \subseteq {requests'[t].person}
    BY DEF StillAlone
  <2>1. t # s /\ requests'[t] = requests[t] /\ held'[t] = held[t]
    BY <1>4, <1>5
  <2>2. /\ requests[t].kind = "erase" /\ i \in requests[t].listed /\ JourneyLock(i) \in held[t]
        /\ members[i] \subseteq {requests[t].person}
    BY <2>1 DEF IInv, StillAlone
  <2>3. i # j
    <3>1. CASE requests[s].kind = "create"
      BY <2>1, <2>2, <3>1 DEF IInv, StillNew
    <3>2. CASE requests[s].kind = "accept"
      <4>1. JourneyLock(j) \in held[s] /\ ~JourneyLock(j).shared
        BY <3>2 DEF IInv, LockFirst, Ahead, JourneyLock
      <4> QED
        BY <2>1, <2>2, <4>1 DEF IInv, OneHolder
    <3> QED
      BY <3>1, <3>2 DEF Joins
  <2>4. i \in Journey
    BY <2>2 DEF IInv, TypeOK, Requests
  <2> QED
    BY <1>2, <2>1, <2>2, <2>3, <2>4
<1>11. StillNew'
  <2>1. ASSUME NEW t \in Slot, requests'[t].kind = "create"
        PROVE  t # s /\ requests'[t] = requests[t] /\ members'[requests[t].journey] = {}
    <3>1. t # s /\ requests'[t] = requests[t]
      BY <2>1, <1>4, <1>5
    <3>2. members[requests[t].journey] = {} /\ j # requests[t].journey /\ requests[t].journey \in Journey
      BY <2>1, <3>1 DEF IInv, StillNew, Whose
    <3> QED
      BY <1>2, <3>1, <3>2
  <2> QED
    BY <2>1, <1>4, <1>5 DEF IInv, StillNew, Joins
<1> QED
  BY <1>4, <1>8, <1>9, <1>10, <1>11 DEF IInv

\* A commit: who joined, who left, who was deleted, or nothing but a record or a name.
LEMMA CommitInvariant ==
  ASSUME IInv, NEW s \in Slot, Commit(s)
  PROVE  IInv'
<1> DEFINE request == requests[s]
<1>1. /\ request.kind # "idle" /\ request.read /\ request.ahead = <<>> /\ Done(s)
      /\ deleted' = deleted \cup {p \in {request.person} : request.kind = "erase"}
  BY DEF Commit
<1>2. request \in Requests /\ request.person \in Person
  BY <1>1 DEF IInv, TypeOK, Whose
<1>3. deleted' \subseteq Person
  BY <1>1, <1>2 DEF IInv, TypeOK
<1>4. CASE Joins(request)
  <2>1. Joined(request) /\ UNCHANGED deleted
    BY <1>1, <1>4 DEF Commit, Joins
  <2> QED
    BY <1>1, <1>4, <2>1, JoinedInvariant
<1>5. CASE request.kind = "leave"
  <2>1. Left(request)
    BY <1>5 DEF Commit
  <2>2. members' \in [Journey -> SUBSET Person] /\ \A j \in Journey : members'[j] \subseteq members[j]
    BY <2>1 DEF Left, IInv, TypeOK
  <2> QED
    BY <1>1, <1>3, <2>2, FewerInvariant
<1>6. CASE request.kind = "erase"
  <2>1. Erased(request)
    BY <1>6 DEF Commit
  <2>2. members' \in [Journey -> SUBSET Person] /\ \A j \in Journey : members'[j] \subseteq members[j]
    BY <2>1 DEF Erased, IInv, TypeOK
  <2> QED
    BY <1>1, <1>3, <2>2, FewerInvariant
<1>7. CASE request.kind \in {"change", "order", "rename"}
  <2>1. UNCHANGED members
    BY <1>7 DEF Commit
  <2>2. members' \in [Journey -> SUBSET Person] /\ \A j \in Journey : members'[j] \subseteq members[j]
    BY <2>1 DEF IInv, TypeOK
  <2> QED
    BY <1>1, <1>3, <2>2, FewerInvariant
<1> QED
  BY <1>1, <1>2, <1>4, <1>5, <1>6, <1>7 DEF Requests, Kinds, Joins

\* Nobody is in a journey at first, nobody asks, and every step keeps the invariant: every state
\* of every behaviour satisfies it.
LEMMA Invariance == Spec => []IInv
<1>1. IInv /\ [Next]_vars => IInv'
  <2> SUFFICES ASSUME IInv, [Next]_vars PROVE IInv'
    OBVIOUS
  <2>1. CASE UNCHANGED vars
    <3>1. UNCHANGED members /\ UNCHANGED deleted /\ UNCHANGED held /\ UNCHANGED requests
      BY <2>1 DEF vars
    <3>2. TypeOK' /\ Whose' /\ OneHolder' /\ LockFirst' /\ OnlyListed'
      BY <3>1 DEF IInv, TypeOK, Whose, OneHolder, LockFirst, OnlyListed, Ahead
    <3>3. Counted' /\ StillAlone' /\ StillNew' /\ WithinLimit'
      BY <3>1 DEF IInv, Counted, StillAlone, StillNew, WithinLimit, JourneysOf
    <3> QED
      BY <3>2, <3>3 DEF IInv
  <2>2. CASE Next
    <3> PICK s \in Slot : Ask(s) \/ Take(s) \/ Skip(s) \/ Count(s) \/ List(s) \/ Commit(s) \/ RollBack(s)
      BY <2>2 DEF Next
    <3>1. CASE RollBack(s)
      <4>1. Done(s) /\ members' \in [Journey -> SUBSET Person] /\ deleted' \subseteq Person
            /\ \A j \in Journey : members'[j] \subseteq members[j]
        BY <3>1 DEF RollBack, IInv, TypeOK
      <4> QED
        BY <4>1, FewerInvariant
    <3> QED
      BY <3>1, AskInvariant, TakeInvariant, SkipInvariant, CountInvariant, ListInvariant, CommitInvariant
  <2> QED
    BY <2>1, <2>2
<1>2. Init => IInv
  <2> SUFFICES ASSUME Init PROVE IInv
    OBVIOUS
  <2>1. Idle \in Requests
    BY DEF Idle, Requests
  <2>2. TypeOK
    BY <2>1 DEF Init, TypeOK
  <2>3. \A s \in Slot : requests[s] = Idle /\ held[s] = {}
    BY DEF Init
  <2>4. WithinLimit
    <3> SUFFICES ASSUME NEW p \in Person PROVE Cardinality(JourneysOf(p)) <= Limit
      BY DEF WithinLimit
    <3>1. JourneysOf(p) = {}
      BY DEF Init, JourneysOf
    <3> QED
      BY <3>1, FS_EmptySet, AccountsAssumption
  <2>5. \A s \in Slot : requests[s].kind = "idle"
    BY <2>3 DEF Idle
  <2>6. Whose /\ OneHolder /\ LockFirst /\ OnlyListed
    BY <2>3, <2>5 DEF Whose, OneHolder, LockFirst, OnlyListed
  <2>7. Counted /\ StillAlone /\ StillNew
    BY <2>3 DEF Counted, StillAlone, StillNew, Joins, Idle
  <2> QED
    BY <2>2, <2>4, <2>6, <2>7 DEF IInv
<1> QED
  BY <1>1, <1>2, PTL DEF Spec
-----------------------------------------------------------------------------
\* Every membership, lock and request keeps its shape, and only a request under way holds a lock.
THEOREM AccountTypes == Spec => []TypeOK
<1>1. IInv => TypeOK
  BY DEF IInv
<1> QED
  BY <1>1, Invariance, PTL

\* Nobody is ever in more journeys than the limit, whatever they start and join at once
\* (journeysHeldBy).
THEOREM LimitKept == Spec => []WithinLimit
<1>1. IInv => WithinLimit
  BY DEF IInv
<1> QED
  BY <1>1, Invariance, PTL

\* A deletion takes a journey with it only when nobody else is in it, however it was asked for
\* before (eraseAccount).
THEOREM NobodyElseLosesTheirs == Spec => NobodyStranded
<1> DEFINE Stranded == \A j \in Journey : members[j] # {} /\ members'[j] = {} => Cardinality(members[j]) = 1
<1>1. IInv /\ [Next]_vars => [Stranded]_vars
  <2> SUFFICES ASSUME IInv, Next, NEW j \in Journey, members[j] # {}, members'[j] = {}
               PROVE  Cardinality(members[j]) = 1
    BY DEF vars
  <2> PICK s \in Slot : Ask(s) \/ Take(s) \/ Skip(s) \/ Count(s) \/ List(s) \/ Commit(s) \/ RollBack(s)
    BY DEF Next
  <2> DEFINE request == requests[s]
  <2>1. Commit(s)
    BY DEF Ask, Rename, Erase, Create, Accept, Change, Transfer, Leave, Order, Begin, Take, Skip, Count, List, RollBack
  <2>2. members[j] = {request.person}
    <3>1. request \in Requests /\ request.kind # "idle"
      BY <2>1 DEF IInv, TypeOK, Commit
    <3>2. CASE request.kind \in {"create", "accept"}
      <4>1. members' = [members EXCEPT ![request.journey] = @ \cup {request.person}]
        BY <2>1, <3>2 DEF Commit, Joined
      <4>2. members[j] \subseteq members'[j]
        BY <4>1 DEF IInv, TypeOK
      <4> QED
        BY <4>2
    <3>3. CASE request.kind = "leave"
      BY <2>1, <3>3 DEF Commit, Left, IInv, TypeOK
    <3>4. CASE request.kind = "erase"
      <4>1. Erased(request)
        BY <2>1, <3>4 DEF Commit
      <4>2. CASE j \in request.alone
        BY <4>2 DEF IInv, StillAlone
      <4>3. CASE j \notin request.alone
        BY <4>1, <4>3 DEF Erased
      <4> QED
        BY <4>2, <4>3
    <3>5. CASE request.kind \in {"change", "order", "rename"}
      BY <2>1, <3>5 DEF Commit
    <3> QED
      BY <3>1, <3>2, <3>3, <3>4, <3>5 DEF Requests, Kinds
  <2> QED
    BY <2>2, FS_Singleton
<1> QED
  BY <1>1, Invariance, PTL DEF Spec, NobodyStranded
-----------------------------------------------------------------------------
\* The order requests take their locks in, but for deletions and orders of rest.  A change of a name
\* has its row, then journeys, each after those of lower ids.  The others have their journey's lock
\* first; after the lock on what a person holds, or a row shared, they share rows; after a row of
\* their own they lock memberships.
Follows(kind, l, m) ==
  IF kind = "rename" THEN m.on = "journey" /\ (l.on = "journey" => l.of < m.of)
  ELSE /\ m.on # "journey"
       /\ l.on = "held by" => m.on = "row" /\ m.shared
       /\ l.on = "row" => IF l.shared THEN m.on = "row" /\ m.shared ELSE m.on = "member"

\* Which locks a request takes: memberships only of the journey it changes, and a change of a name
\* no journey before it has listed them.
Belongs(request, l) ==
  /\ request.kind = "rename" => IF l.on = "row" THEN ~l.shared ELSE l.on = "journey" /\ request.read
  /\ l.on = "member" => request.kind \in {"change", "leave"} /\ l.of = request.journey

Turn(request, locked) ==
  request.kind \notin {"order", "erase"} =>
    /\ \A l \in locked :
         Belongs(request, l) /\ \A k \in DOMAIN request.ahead : Follows(request.kind, l, request.ahead[k])
    /\ \A k \in DOMAIN request.ahead : Belongs(request, request.ahead[k])
    /\ \A i, k \in DOMAIN request.ahead : i < k => Follows(request.kind, request.ahead[i], request.ahead[k])

InTurn == \A s \in Slot : Turn(requests[s], held[s])

\* What each kind of lock is.
LEMMA LockFields ==
  /\ \A j : /\ JourneyLock(j).on = "journey" /\ JourneyLock(j).of = j /\ ~JourneyLock(j).shared
  /\ \A p : /\ PersonLock(p).on = "held by"
            /\ Named(p).on = "row" /\ Named(p).shared
            /\ Row(p).on = "row" /\ ~Row(p).shared
  /\ \A j : \A p : Membership(j, p).on = "member" /\ Membership(j, p).of = j
BY DEF JourneyLock, PersonLock, Named, Row, Membership

\* What a step of one request leaves alone is in turn as it was.
LEMMA OthersInTurn ==
  ASSUME InTurn, NEW s \in Slot,
         \A t \in Slot : t # s => requests'[t] = requests[t] /\ held'[t] = held[t],
         Turn(requests'[s], held'[s])
  PROVE  InTurn'
<1>1. ASSUME NEW t \in Slot PROVE Turn(requests'[t], held'[t])
  BY DEF InTurn
<1> QED
  BY <1>1 DEF InTurn

\* A request that begins has everything ahead of it, in its order.
LEMMA BeginInTurn ==
  ASSUME IInv, InTurn, NEW s \in Slot, NEW kind, NEW p, NEW j, NEW ahead,
         Begin(s, kind, p, j, ahead),
         kind \notin {"order", "erase"} =>
           /\ \A k \in DOMAIN ahead :
                /\ kind = "rename" => ahead[k].on = "row" /\ ~ahead[k].shared
                /\ ahead[k].on = "member" => kind \in {"change", "leave"} /\ ahead[k].of = j
           /\ \A i, k \in DOMAIN ahead : i < k => Follows(kind, ahead[i], ahead[k])
  PROVE  InTurn'
<1>1. requests \in [Slot -> Requests] /\ requests[s].kind = "idle" /\ held[s] = {}
  BY DEF Begin, Idle, IInv, TypeOK
<1>2. /\ requests'[s].kind = kind /\ requests'[s].journey = j /\ requests'[s].ahead = ahead
      /\ held'[s] = {}
      /\ \A t \in Slot : t # s => requests'[t] = requests[t] /\ held'[t] = held[t]
  BY <1>1 DEF Begin
<1>3. Turn(requests'[s], held'[s])
  BY <1>2 DEF Turn, Belongs
<1> QED
  BY <1>2, <1>3, OthersInTurn

LEMMA AskInTurn ==
  ASSUME IInv, InTurn, NEW s \in Slot, Ask(s)
  PROVE  InTurn'
<1> PICK p \in Person :
      \/ Rename(s, p) \/ Erase(s, p)
      \/ \E j \in Journey : \/ Create(s, p, j) \/ Accept(s, p, j) \/ Change(s, p, j)
                            \/ Transfer(s, p, j) \/ Leave(s, p, j) \/ Order(s, p, j)
  BY DEF Ask
<1>1. CASE Rename(s, p)
  <2> DEFINE ahead == <<Row(p)>>
  <2>1. DOMAIN ahead = {1} /\ ahead[1] = Row(p)
    OBVIOUS
  <2>2. Begin(s, "rename", p, None, ahead)
    BY <1>1 DEF Rename
  <2> HIDE DEF ahead
  <2>3. ahead[1].on = "row" /\ ~ahead[1].shared
    BY <2>1, LockFields
  <2> QED
    BY <2>1, <2>2, <2>3, BeginInTurn
<1>2. CASE Erase(s, p)
  BY <1>2, BeginInTurn DEF Erase
<1>3. ASSUME NEW j \in Journey, Create(s, p, j) PROVE InTurn'
  <2> DEFINE ahead == <<PersonLock(p), Named(p)>>
  <2>1. DOMAIN ahead = {1, 2} /\ ahead[1] = PersonLock(p) /\ ahead[2] = Named(p)
    OBVIOUS
  <2>2. Begin(s, "create", p, j, ahead)
    BY <1>3 DEF Create
  <2> HIDE DEF ahead
  <2>3. ahead[1].on = "held by" /\ ahead[2].on = "row" /\ ahead[2].shared
    BY <2>1, LockFields
  <2>4. Follows("create", ahead[1], ahead[2])
    BY <2>3 DEF Follows
  <2>5. \A i, k \in DOMAIN ahead : i < k => Follows("create", ahead[i], ahead[k])
    BY <2>1, <2>4
  <2>6. \A k \in DOMAIN ahead : ahead[k].on = "member" => "create" \in {"change", "leave"} /\ ahead[k].of = j
    BY <2>1, <2>3
  <2> QED
    BY <2>2, <2>5, <2>6, BeginInTurn
<1>4. ASSUME NEW j \in Journey, Accept(s, p, j) PROVE InTurn'
  <2> DEFINE ahead == <<JourneyLock(j), PersonLock(p), Named(p)>>
  <2>1. DOMAIN ahead = {1, 2, 3} /\ ahead[1] = JourneyLock(j) /\ ahead[2] = PersonLock(p) /\ ahead[3] = Named(p)
    OBVIOUS
  <2>2. Begin(s, "accept", p, j, ahead)
    BY <1>4 DEF Accept
  <2> HIDE DEF ahead
  <2>3. ahead[1].on = "journey" /\ ahead[2].on = "held by" /\ ahead[3].on = "row" /\ ahead[3].shared
    BY <2>1, LockFields
  <2>4. Follows("accept", ahead[1], ahead[2]) /\ Follows("accept", ahead[1], ahead[3]) /\ Follows("accept", ahead[2], ahead[3])
    BY <2>3 DEF Follows
  <2>5. \A i, k \in DOMAIN ahead : i < k => Follows("accept", ahead[i], ahead[k])
    BY <2>1, <2>4
  <2>6. \A k \in DOMAIN ahead : ahead[k].on = "member" => "accept" \in {"change", "leave"} /\ ahead[k].of = j
    BY <2>1, <2>3
  <2> QED
    BY <2>2, <2>5, <2>6, BeginInTurn
<1>5. ASSUME NEW j \in Journey, Change(s, p, j) PROVE InTurn'
  <2> PICK people \in SUBSET Person : \E order \in Orders(people) :
        Begin(s, "change", p, j, <<JourneyLock(j)>> \o [k \in DOMAIN order |-> Named(order[k])])
    BY <1>5 DEF Change
  <2> PICK order \in Orders(people) :
        Begin(s, "change", p, j, <<JourneyLock(j)>> \o [k \in DOMAIN order |-> Named(order[k])])
    OBVIOUS
  <2> DEFINE names == [k \in DOMAIN order |-> Named(order[k])]
             ahead == <<JourneyLock(j)>> \o names
  <2>1. order \in Seq(people)
    BY FS_Subset, AccountsAssumption, OrderLists
  <2>2. names \in Seq({Named(q) : q \in people})
    <3>1. names \in [1 .. Len(order) -> {Named(q) : q \in people}] /\ Len(order) \in Nat
      BY <2>1
    <3> QED
      BY <3>1
  <2>3. Begin(s, "change", p, j, ahead)
    OBVIOUS
  <2> HIDE DEF names
  <2>4. \A k \in DOMAIN ahead : k \in Nat /\ k >= 1 /\ (k = 1 => ahead[k] = JourneyLock(j))
                               /\ (k > 1 => ahead[k] \in {Named(q) : q \in people})
    BY <2>2
  <2> HIDE DEF ahead
  <2>5. \A k \in DOMAIN ahead :
          /\ k \in Nat /\ k >= 1 /\ ahead[k].on # "member"
          /\ k > 1 => ahead[k].on = "row" /\ ahead[k].shared
          /\ k = 1 => ahead[k].on = "journey"
    BY <2>4 DEF JourneyLock, Named
  <2>6. ASSUME NEW i \in DOMAIN ahead, NEW k \in DOMAIN ahead, i < k
        PROVE  Follows("change", ahead[i], ahead[k])
    <3>1. ahead[k].on = "row" /\ ahead[k].shared /\ ahead[i].on \in {"journey", "row"}
      BY <2>5, <2>6
    <3>2. ahead[i].on = "row" => ahead[i].shared
      BY <2>5
    <3> QED
      BY <3>1, <3>2 DEF Follows
  <2> QED
    BY <2>3, <2>5, <2>6, BeginInTurn
<1>6. ASSUME NEW j \in Journey, Transfer(s, p, j) PROVE InTurn'
  <2> PICK q \in Person \ {p} :
        Begin(s, "change", p, j, <<JourneyLock(j), Membership(j, q), Row(q), Membership(j, p)>>)
    BY <1>6 DEF Transfer
  <2> DEFINE ahead == <<JourneyLock(j), Membership(j, q), Row(q), Membership(j, p)>>
  <2>1. /\ DOMAIN ahead = {1, 2, 3, 4}
        /\ ahead[1] = JourneyLock(j) /\ ahead[2] = Membership(j, q)
        /\ ahead[3] = Row(q) /\ ahead[4] = Membership(j, p)
    OBVIOUS
  <2>2. Begin(s, "change", p, j, ahead)
    OBVIOUS
  <2> HIDE DEF ahead
  <2>3. /\ ahead[1].on = "journey" /\ ahead[2].on = "member" /\ ahead[2].of = j
        /\ ahead[3].on = "row" /\ ~ahead[3].shared /\ ahead[4].on = "member" /\ ahead[4].of = j
    <3>1. Membership(j, q).on = "member" /\ Membership(j, q).of = j /\ Membership(j, p).on = "member" /\ Membership(j, p).of = j
      BY LockFields
    <3>2. ahead[1].on = "journey" /\ ahead[3].on = "row" /\ ~ahead[3].shared
      BY <2>1, LockFields
    <3> QED
      BY <2>1, <3>1, <3>2
  <2>4. /\ Follows("change", ahead[1], ahead[2]) /\ Follows("change", ahead[1], ahead[3]) /\ Follows("change", ahead[1], ahead[4])
        /\ Follows("change", ahead[2], ahead[3]) /\ Follows("change", ahead[2], ahead[4]) /\ Follows("change", ahead[3], ahead[4])
    BY <2>3 DEF Follows
  <2>5. \A i, k \in DOMAIN ahead : i < k => Follows("change", ahead[i], ahead[k])
    BY <2>1, <2>4
  <2>6. \A k \in DOMAIN ahead : ahead[k].on = "member" => "change" \in {"change", "leave"} /\ ahead[k].of = j
    BY <2>1, <2>3
  <2> QED
    BY <2>2, <2>5, <2>6, BeginInTurn
<1>7. ASSUME NEW j \in Journey, Leave(s, p, j) PROVE InTurn'
  <2> DEFINE ahead == <<JourneyLock(j), Membership(j, p), Row(p)>>
  <2>1. DOMAIN ahead = {1, 2, 3} /\ ahead[1] = JourneyLock(j) /\ ahead[2] = Membership(j, p) /\ ahead[3] = Row(p)
    OBVIOUS
  <2>2. Begin(s, "leave", p, j, ahead)
    BY <1>7 DEF Leave
  <2> HIDE DEF ahead
  <2>3. /\ ahead[1].on = "journey" /\ ahead[2].on = "member" /\ ahead[2].of = j
        /\ ahead[3].on = "row" /\ ~ahead[3].shared
    <3>1. Membership(j, p).on = "member" /\ Membership(j, p).of = j
      BY LockFields
    <3>2. ahead[1].on = "journey" /\ ahead[3].on = "row" /\ ~ahead[3].shared
      BY <2>1, LockFields
    <3> QED
      BY <2>1, <3>1, <3>2
  <2>4. Follows("leave", ahead[1], ahead[2]) /\ Follows("leave", ahead[1], ahead[3]) /\ Follows("leave", ahead[2], ahead[3])
    BY <2>3 DEF Follows
  <2>5. \A i, k \in DOMAIN ahead : i < k => Follows("leave", ahead[i], ahead[k])
    BY <2>1, <2>4
  <2>6. \A k \in DOMAIN ahead : ahead[k].on = "member" => "leave" \in {"change", "leave"} /\ ahead[k].of = j
    BY <2>1, <2>3
  <2> QED
    BY <2>2, <2>5, <2>6, BeginInTurn
<1>8. ASSUME NEW j \in Journey, Order(s, p, j) PROVE InTurn'
  BY <1>8, BeginInTurn DEF Order
<1> QED
  BY <1>1, <1>2, <1>3, <1>4, <1>5, <1>6, <1>7, <1>8

\* A lock taken, or passed over, leaves the rest in turn.
LEMMA TailInTurn ==
  ASSUME NEW request, NEW rest, NEW locked, NEW more, Turn(request, locked),
         request.ahead \in Seq(Locks), request.ahead # <<>>,
         rest.kind = request.kind /\ rest.journey = request.journey /\ rest.read = request.read,
         rest.ahead = Tail(request.ahead),
         more = locked \/ more = locked \cup {Head(request.ahead)}
  PROVE  Turn(rest, more)
<1> SUFFICES ASSUME rest.kind \notin {"order", "erase"}
             PROVE  Turn(rest, more)
  BY DEF Turn
<1>1. /\ 1 \in DOMAIN request.ahead /\ Head(request.ahead) = request.ahead[1]
      /\ \A k \in DOMAIN rest.ahead :
           k \in Nat /\ 1 <= k /\ k + 1 \in DOMAIN request.ahead /\ rest.ahead[k] = request.ahead[k + 1]
  OBVIOUS
<1>2. \A l : Belongs(rest, l) <=> Belongs(request, l)
  BY DEF Belongs
<1>3. ASSUME NEW l \in more
      PROVE  Belongs(rest, l) /\ \A k \in DOMAIN rest.ahead : Follows(rest.kind, l, rest.ahead[k])
  <2>1. CASE l \in locked
    BY <2>1, <1>1, <1>2 DEF Turn
  <2>2. CASE l = request.ahead[1]
    <3>1. ASSUME NEW k \in DOMAIN rest.ahead PROVE 1 < k + 1 /\ k + 1 \in DOMAIN request.ahead
      BY <1>1
    <3> QED
      BY <2>2, <3>1, <1>1, <1>2 DEF Turn
  <2> QED
    BY <2>1, <2>2, <1>1
<1>4. \A k \in DOMAIN rest.ahead : Belongs(rest, rest.ahead[k])
  BY <1>1, <1>2 DEF Turn
<1>5. ASSUME NEW i \in DOMAIN rest.ahead, NEW k \in DOMAIN rest.ahead, i < k
      PROVE  Follows(rest.kind, rest.ahead[i], rest.ahead[k])
  <2>1. i + 1 < k + 1
    BY <1>1, <1>5
  <2> QED
    BY <2>1, <1>1 DEF Turn
<1> QED
  BY <1>3, <1>4, <1>5 DEF Turn

LEMMA TakeInTurn ==
  ASSUME IInv, InTurn, NEW s \in Slot, Take(s) \/ Skip(s)
  PROVE  InTurn'
<1>1. requests \in [Slot -> Requests] /\ held \in [Slot -> SUBSET Locks] /\ requests[s] \in Requests
      /\ requests[s].ahead \in Seq(Locks)
  BY DEF IInv, TypeOK, Requests
<1>2. /\ requests[s].ahead # <<>>
      /\ requests'[s].kind = requests[s].kind /\ requests'[s].journey = requests[s].journey
      /\ requests'[s].read = requests[s].read /\ requests'[s].ahead = Tail(requests[s].ahead)
      /\ held'[s] = held[s] \/ held'[s] = held[s] \cup {Head(requests[s].ahead)}
      /\ \A t \in Slot : t # s => requests'[t] = requests[t] /\ held'[t] = held[t]
  <2>1. CASE Take(s)
    BY <2>1, <1>1 DEF Take, Requests
  <2>2. CASE Skip(s)
    BY <2>2, <1>1 DEF Skip, Requests
  <2> QED
    BY <2>1, <2>2
<1>3. Turn(requests[s], held[s])
  BY DEF InTurn
<1>4. Turn(requests'[s], held'[s])
  BY <1>1, <1>2, <1>3, TailInTurn
<1> QED
  BY <1>2, <1>4, OthersInTurn

\* Who counts changes nothing about locks.
LEMMA CountInTurn ==
  ASSUME IInv, InTurn, NEW s \in Slot, Count(s)
  PROVE  InTurn'
<1>1. requests \in [Slot -> Requests] /\ requests[s] \in Requests
  BY DEF IInv, TypeOK
<1>2. /\ requests[s].kind \in {"create", "accept"}
      /\ requests' = [requests EXCEPT ![s].read = TRUE]
      /\ UNCHANGED held
  BY DEF Count
<1>3. /\ requests'[s].kind = requests[s].kind /\ requests'[s].journey = requests[s].journey
      /\ requests'[s].ahead = requests[s].ahead /\ held'[s] = held[s]
      /\ \A t \in Slot : t # s => requests'[t] = requests[t] /\ held'[t] = held[t]
  BY <1>1, <1>2 DEF Requests
<1>4. Turn(requests[s], held[s])
  BY DEF InTurn
<1>5. \A l : Belongs(requests[s], l) => Belongs(requests'[s], l)
  BY <1>2, <1>3 DEF Belongs
<1>6. Turn(requests'[s], held'[s])
  BY <1>3, <1>4, <1>5 DEF Turn
<1> QED
  BY <1>3, <1>6, OthersInTurn

\* Who changes their name holds their row and goes on to the journeys in their order.
LEMMA ListInTurn ==
  ASSUME IInv, InTurn, NEW s \in Slot, List(s)
  PROVE  InTurn'
<1> DEFINE J == JourneysOf(requests[s].person)
<1>1. requests \in [Slot -> Requests] /\ requests[s] \in Requests
  BY DEF IInv, TypeOK
<1>2. /\ requests[s].kind = "rename" /\ ~requests[s].read /\ requests[s].ahead = <<>>
      /\ UNCHANGED held
  BY DEF List
<1> PICK order \in SortedOrders(J) :
      requests' = [requests EXCEPT ![s] =
        [requests[s] EXCEPT !.read = TRUE, !.ahead = [k \in DOMAIN order |-> JourneyLock(order[k])]]]
  BY DEF List
<1> DEFINE locks == [k \in DOMAIN order |-> JourneyLock(order[k])]
<1>3. /\ requests'[s].kind = "rename" /\ requests'[s].journey = requests[s].journey
      /\ requests'[s].read /\ requests'[s].ahead = locks /\ held'[s] = held[s]
      /\ \A t \in Slot : t # s => requests'[t] = requests[t] /\ held'[t] = held[t]
  BY <1>1, <1>2 DEF Requests
<1>4. \A i, k \in DOMAIN order : i < k => order[i] < order[k]
  BY DEF SortedOrders
<1> HIDE DEF J
<1>5. /\ \A k \in DOMAIN locks : locks[k].on = "journey" /\ locks[k].of = order[k]
      /\ DOMAIN locks = DOMAIN order
  BY DEF JourneyLock
<1> HIDE DEF locks
<1>6. \A l \in held[s] : l.on = "row" /\ ~l.shared
  BY <1>2 DEF InTurn, Turn, Belongs
<1>7. ASSUME NEW l \in held'[s]
      PROVE  Belongs(requests'[s], l) /\ \A k \in DOMAIN locks : Follows(requests'[s].kind, l, locks[k])
  BY <1>3, <1>5, <1>6 DEF Belongs, Follows
<1>8. \A k \in DOMAIN locks : Belongs(requests'[s], locks[k])
  BY <1>3, <1>5 DEF Belongs
<1>9. \A i, k \in DOMAIN locks : i < k => Follows(requests'[s].kind, locks[i], locks[k])
  BY <1>3, <1>4, <1>5 DEF Follows
<1>10. Turn(requests'[s], held'[s])
  BY <1>3, <1>7, <1>8, <1>9 DEF Turn
<1> QED
  BY <1>3, <1>10, OthersInTurn

\* Nothing is ahead of a request that has ended.
LEMMA DoneInTurn ==
  ASSUME IInv, InTurn, NEW s \in Slot, Done(s)
  PROVE  InTurn'
<1>1. /\ requests'[s] = Idle /\ held'[s] = {}
      /\ \A t \in Slot : t # s => requests'[t] = requests[t] /\ held'[t] = held[t]
  BY DEF Done, IInv, TypeOK
<1>2. Turn(requests'[s], held'[s])
  BY <1>1 DEF Turn, Idle
<1> QED
  BY <1>1, <1>2, OthersInTurn

LEMMA AlwaysInTurn == Spec => []InTurn
<1>1. Init => InTurn
  <2> SUFFICES ASSUME Init, NEW s \in Slot PROVE Turn(requests[s], held[s])
    BY DEF InTurn
  <2> QED
    BY DEF Init, Turn, Idle
<1>2. IInv /\ InTurn /\ [Next]_vars => InTurn'
  <2> SUFFICES ASSUME IInv, InTurn, [Next]_vars PROVE InTurn'
    OBVIOUS
  <2>1. CASE UNCHANGED vars
    BY <2>1 DEF vars, InTurn
  <2>2. CASE Next
    <3> PICK s \in Slot : Ask(s) \/ Take(s) \/ Skip(s) \/ Count(s) \/ List(s) \/ Commit(s) \/ RollBack(s)
      BY <2>2 DEF Next
    <3>1. Commit(s) \/ RollBack(s) => Done(s)
      BY DEF Commit, RollBack
    <3> QED
      BY <3>1, AskInTurn, TakeInTurn, CountInTurn, ListInTurn, DoneInTurn
  <2> QED
    BY <2>1, <2>2
<1> QED
  BY <1>1, <1>2, Invariance, PTL DEF Spec

\* Every set of naturals with an element has a least one.
LEMMA LeastElement ==
  ASSUME NEW T \in SUBSET Nat, T # {}
  PROVE  \E n \in T : \A m \in T : n <= m
<1>1. IsWellFoundedOn(OpToRel(<, Nat), Nat)
  BY NatLessThanWellFounded, Zenon
<1>2. PICK n \in T : \A m \in T : ~ (<<m, n>> \in OpToRel(<, Nat))
  BY <1>1, WFMin, Zenon
<1>3. \A m \in T : ~ (m < n)
  BY <1>2, Zenon DEF OpToRel
<1> QED
  BY <1>3

\* No journey of a set of them comes before another of it for ever: there are finitely many.
LEMMA OneComesLast ==
  ASSUME NEW J \in SUBSET Journey, J # {}
  PROVE  \E j \in J : \A i \in J : i <= j
<1> DEFINE After(j) == {i \in J : i >= j}
           Sizes == {Cardinality(After(j)) : j \in J}
<1>1. \A j \in J : j \in Nat
  BY AccountsAssumption
<1>2. \A j \in J : After(j) \subseteq Journey
  OBVIOUS
<1>3. \A j \in J : IsFiniteSet(After(j)) /\ Cardinality(After(j)) \in Nat
  BY <1>2, JourneysFinite
<1> PICK n \in Sizes : \A m \in Sizes : n <= m
  <2>1. Sizes \in SUBSET Nat /\ Sizes # {}
    BY <1>3
  <2> HIDE DEF Sizes
  <2> QED
    BY <2>1, LeastElement
<1> PICK j \in J : n = Cardinality(After(j))
  OBVIOUS
<1>4. ASSUME NEW i \in J, i > j PROVE FALSE
  <2>1. After(i) \subseteq After(j)
    BY <1>1, <1>4
  <2>2. j \in After(j) /\ j \notin After(i)
    BY <1>1, <1>4
  <2>3. After(i) # After(j)
    BY <2>2
  <2>4. Cardinality(After(j)) <= Cardinality(After(i))
    OBVIOUS
  <2>5. /\ Cardinality(After(i)) <= Cardinality(After(j))
        /\ Cardinality(After(j)) = Cardinality(After(i)) => After(j) = After(i)
    <3> HIDE DEF After
    <3> QED
      BY <2>1, <1>3, FS_Subset
  <2> HIDE DEF After
  <2> QED
    BY <2>3, <2>4, <2>5, <1>3
<1> QED
  BY <1>1, <1>4

\* What a request that waits holds and waits for is in turn.
LEMMA WaitsInTurn ==
  ASSUME IInv, InTurn, NEW s \in Slot, requests[s].kind \notin {"order", "erase"}, Ahead(s) # <<>>
  PROVE  LET next == Head(Ahead(s)) IN
           /\ requests[s].kind # "idle"
           /\ next.on \in {"journey", "held by", "row", "member"}
           /\ next.on = "journey" => next.of \in Journey
           /\ Belongs(requests[s], next)
           /\ \A m \in held[s] : Belongs(requests[s], m) /\ Follows(requests[s].kind, m, next)
<1> DEFINE next == Head(Ahead(s))
<1>1. Ahead(s) \in Seq(Locks) /\ Ahead(s) = requests[s].ahead
  BY DEF IInv, TypeOK, Requests, Ahead
<1>2. 1 \in DOMAIN Ahead(s) /\ next = Ahead(s)[1] /\ next \in Locks
  BY <1>1
<1>3. Turn(requests[s], held[s])
  BY DEF InTurn
<1> HIDE DEF next
<1>4. next.on \in {"journey", "held by", "row", "member"} /\ (next.on = "journey" => next.of \in Journey)
  <2> DEFINE Members == {Membership(j, q) : j \in Journey, q \in Person}
             Fits(l) == l.on \in {"journey", "held by", "row", "member"} /\ (l.on = "journey" => l.of \in Journey)
  <2>1. \A j \in Journey : Fits(JourneyLock(j))
    BY LockFields
  <2>2. \A q \in Person : Fits(PersonLock(q)) /\ Fits(Named(q)) /\ Fits(Row(q))
    BY LockFields
  <2>3. ASSUME NEW l \in Members PROVE Fits(l)
    <3> PICK j \in Journey, q \in Person : l = Membership(j, q)
      OBVIOUS
    <3>1. Membership(j, q).on = "member"
      BY DEF Membership
    <3>2. l.on = "member"
      BY <3>1
    <3> QED
      BY <3>2
  <2>4. Locks = {JourneyLock(j) : j \in Journey} \cup {PersonLock(p) : p \in Person} \cup Members
                  \cup {Named(p) : p \in Person} \cup {Row(p) : p \in Person}
    BY DEF Locks
  <2> HIDE DEF Members, Fits
  <2>5. Fits(next)
    BY <1>2, <2>1, <2>2, <2>3, <2>4
  <2> QED
    BY <2>5 DEF Fits
<1>5. requests[s].kind # "idle"
  BY DEF IInv, Whose, Idle, Ahead
<1> QED
  BY <1>1, <1>2, <1>3, <1>4, <1>5 DEF Turn, next

\* Were there a circle of the others, nobody in it would wait for a membership, a row of somebody
\* who does not change their name, or what a person holds: somebody would wait for a journey, and
\* whoever has that one waits for a journey that comes later.  There is a last one.
LEMMA NoOtherCircle ==
  ASSUME IInv, InTurn, NEW W \in SUBSET Slot, Deadlock(W),
         \A s \in W : requests[s].kind \notin {"erase", "order"},
         \A s, t \in W : ~(/\ requests[s].kind = "rename" /\ requests[t].kind # "rename"
                           /\ WaitsFor(t, s) /\ Head(Ahead(t)).on = "row")
  PROVE  FALSE
<1> DEFINE next(s) == Head(Ahead(s))
           Renames(s) == requests[s].kind = "rename"
<1>1. \A s \in W : Ahead(s) # <<>>
  BY DEF Deadlock, WaitsFor
<1>2. ASSUME NEW s \in W
      PROVE  \E t \in W : /\ WaitsFor(s, t) /\ s # t
                          /\ \E m \in held[t] : /\ m.on = next(s).on /\ m.of = next(s).of
                                                /\ ~(next(s).shared /\ m.shared)
  BY DEF Deadlock, WaitsFor, Conflict
<1>3. \A s \in W :
        /\ requests[s].kind \notin {"idle", "order", "erase"}
        /\ next(s).on \in {"journey", "held by", "row", "member"}
        /\ next(s).on = "journey" => next(s).of \in Journey
        /\ Belongs(requests[s], next(s))
        /\ \A m \in held[s] : Belongs(requests[s], m) /\ Follows(requests[s].kind, m, next(s))
  BY <1>1, WaitsInTurn
<1>4. \A s \in W : next(s) = Head(Ahead(s))
  OBVIOUS
<1> HIDE DEF next
<1>5. ASSUME NEW s \in W, next(s).on = "member" PROVE FALSE
  <2> DEFINE lock == JourneyLock(next(s).of)
  <2> PICK t \in W : /\ s # t
                     /\ \E m \in held[t] : m.on = "member" /\ m.of = next(s).of
    BY <1>2, <1>5
  <2> PICK m \in held[t] : m.on = "member" /\ m.of = next(s).of
    OBVIOUS
  <2>1. requests[s].kind \in {"change", "leave"} /\ requests[s].journey = next(s).of
    BY <1>3, <1>5 DEF Belongs
  <2>2. requests[t].kind \in {"change", "leave"} /\ requests[t].journey = next(s).of
    BY <1>3 DEF Belongs
  <2>3. lock.on = "journey" /\ ~lock.shared
    BY DEF JourneyLock
  <2>4. lock \in held[s]
    BY <2>1, <2>3, <1>4, <1>5 DEF IInv, LockFirst
  <2>5. next(t).on # "journey"
    BY <2>2, <1>3 DEF Follows
  <2>6. lock \in held[t]
    BY <2>2, <2>3, <2>5, <1>4 DEF IInv, LockFirst
  <2> QED
    BY <2>3, <2>4, <2>6 DEF IInv, OneHolder
<1>6. ASSUME NEW t \in W, ~Renames(t), NEW m \in held[t], m.on = "row" PROVE m.shared
  BY <1>3, <1>5, <1>6 DEF Follows
<1>7. ASSUME NEW s \in W, ~Renames(s), next(s).on = "row" PROVE ~next(s).shared
  <2> SUFFICES ASSUME next(s).shared PROVE FALSE
    OBVIOUS
  <2> PICK t \in W : WaitsFor(s, t) /\ \E m \in held[t] : m.on = "row" /\ ~m.shared
    BY <1>2, <1>7
  <2>1. ~Renames(t)
    BY <1>4, <1>7
  <2> QED
    BY <2>1, <1>6
<1>8. ASSUME NEW t \in W, ~Renames(t), NEW m \in held[t], m.on \in {"row", "held by"} PROVE FALSE
  <2>1. m.on = "row" => m.shared
    BY <1>6, <1>8
  <2>2. next(t).on = "row" /\ next(t).shared
    BY <2>1, <1>3, <1>8 DEF Follows
  <2> QED
    BY <2>2, <1>7, <1>8
<1>9. ASSUME NEW s \in W, next(s).on = "row" PROVE Renames(s)
  <2> SUFFICES ASSUME ~Renames(s) PROVE FALSE
    OBVIOUS
  <2> PICK t \in W : WaitsFor(s, t) /\ \E m \in held[t] : m.on = "row"
    BY <1>2, <1>9
  <2>1. ~Renames(t)
    BY <1>4, <1>9
  <2> QED
    BY <2>1, <1>8
<1>10. ASSUME NEW s \in W PROVE next(s).on # "held by"
  <2> SUFFICES ASSUME next(s).on = "held by" PROVE FALSE
    OBVIOUS
  <2> PICK t \in W : \E m \in held[t] : m.on = "held by"
    BY <1>2
  <2>1. ~Renames(t)
    BY <1>3 DEF Belongs
  <2> QED
    BY <2>1, <1>8
<1>11. \E s \in W : next(s).on = "journey"
  <2> PICK s \in W : TRUE
    BY DEF Deadlock
  <2>1. CASE next(s).on = "journey"
    BY <2>1
  <2>2. CASE next(s).on = "row"
    <3> PICK t \in W : \E m \in held[t] : m.on = "row"
      BY <1>2, <2>2
    <3>1. Renames(t)
      BY <1>8
    <3> QED
      BY <3>1, <1>3 DEF Follows
  <2> QED
    BY <2>1, <2>2, <1>3, <1>5, <1>10
<1> DEFINE J == {j \in Journey : \E s \in W : next(s).on = "journey" /\ next(s).of = j}
<1>12. J # {}
  BY <1>3, <1>11
<1>13. ASSUME NEW j \in J PROVE \E i \in J : ~(i <= j)
  <2> PICK s \in W : next(s).on = "journey" /\ next(s).of = j
    OBVIOUS
  <2> PICK t \in W : \E m \in held[t] : m.on = "journey" /\ m.of = j
    BY <1>2
  <2> PICK m \in held[t] : m.on = "journey" /\ m.of = j
    OBVIOUS
  <2>1. Renames(t)
    <3> SUFFICES ASSUME ~Renames(t) PROVE FALSE
      OBVIOUS
    <3>1. next(t).on # "journey"
      BY <1>3 DEF Follows
    <3> QED
      BY <3>1, <1>3, <1>5, <1>9, <1>10
  <2>2. next(t).on = "journey" /\ j < next(t).of /\ next(t).of \in Journey
    BY <2>1, <1>3 DEF Follows
  <2>3. j \in Nat /\ next(t).of \in Nat
    BY <2>2, AccountsAssumption
  <2> QED
    BY <2>2, <2>3
<1> QED
  <2> HIDE DEF J
  <2>1. J \in SUBSET Journey
    BY DEF J
  <2> QED
    BY <2>1, <1>12, <1>13, OneComesLast

\* Whatever waits in a circle, one of those waiting locked a row before a journey: it deletes an
\* account, gives an order of rest, or changes the name of somebody whose row another of them waits
\* for.  Requests that lock their journey first never wait for each other in a circle, nor do changes
\* of names alone (changeDisplayName, ORDER BY journey_id).
THEOREM RowsFirstMeetAlone == Spec => []OnlyRowsFirstMeet
<1>1. IInv /\ InTurn => OnlyRowsFirstMeet
  BY NoOtherCircle DEF OnlyRowsFirstMeet
<1> QED
  BY <1>1, Invariance, AlwaysInTurn, PTL
=============================================================================
