------------------------------ MODULE Resting -------------------------------
(***************************************************************************)
(* Who rests in a journey whose room is not paid for, in what order, and   *)
(* the grace that comes first (server/platform.js: paymentFor, capacityFor,*)
(* restQueue, setRestOrder, requestMoreGrace).                             *)
(*                                                                         *)
(* A journey has room for two, and for as many more as its payments allow. *)
(* What a payment's row says is WebPayments' and StoreRoom's; here it      *)
(* changes as they may change it.  Nothing is written when a grace is over *)
(* or somebody rests: both are read from the rows whenever it is asked.    *)
(* Asking for another week is one transaction under the journey's lock.    *)
(* Joining waits for that lock, but counts from when it was begun (the     *)
(* default of joined_at); the order is read and checked before the lock.   *)
(***************************************************************************)
EXTENDS Naturals, FiniteSets, FiniteSetsExt

CONSTANTS
  Person,
  Web, Store,   \* what pays for room: subscriptions on the web, and in a store
  None,         \* nobody
  Included,     \* INCLUDED_JOURNEY_CAPACITY
  Quantity,     \* how much room a payment may be for
  Week,         \* BILLING_GRACE_DAYS and GRACE_REQUEST_DAYS, in units of time
  Period,       \* what is paid for at once
  Year,         \* a calendar year
  PerYear,      \* GRACE_REQUESTS_PER_YEAR
  Start,        \* the time when the journey is started
  MaxTime,      \* bound: the time that passes
  MaxPayments,  \* bound: what payments do
  MaxJoins      \* bound: people who begin to join

Row == Web \cup Store

ASSUME RestingAssumption ==
  /\ Web \cap Store = {} /\ None \notin Person
  /\ Quantity \subseteq Nat \ {0} /\ IsFiniteSet(Quantity)
  /\ {Included, Week, Period, Year, PerYear} \subseteq Nat \ {0}
  /\ Year > (2 * PerYear + 1) * Week
  /\ {Start, MaxTime, MaxPayments, MaxJoins} \subseteq Nat

VARIABLES
  now,       \* the time
  owner,     \* journeys.owner_user_id
  joined,    \* joined_at of everyone here, as the order they began to join in; 0 for the others
  place,     \* rest_order; 0 for those without a place
  joining,   \* requests to join under way: when each began
  ordering,  \* the places an owner is giving, not yet written
  rows,      \* billing_entitlements
  payments,  \* how often they have changed
  asked      \* journey_grace_requests

vars == <<now, owner, joined, place, joining, ordering, rows, payments, asked>>
people == <<owner, joined, place, joining, ordering>>
-----------------------------------------------------------------------------
Here == {p \in Person : joined[p] # 0}

YearOf(t) == t \div Year

NoRow == [state |-> "none", payer |-> None, quantity |-> 0, from |-> 0, ends |-> 0, replaced |-> FALSE]

Init ==
  /\ now = Start
  /\ owner \in Person
  /\ joined = [p \in Person |-> IF p = owner THEN 1 ELSE 0]
  /\ place = [p \in Person |-> 0]
  /\ joining = [p \in Person |-> 0]
  /\ ordering = None
  /\ rows = [r \in Row |-> NoRow]
  /\ payments = 0
  /\ asked = {}
-----------------------------------------------------------------------------
\* A store sends nothing when a room is not paid for again: its row, once over, is in grace for a
\* week from its end, unless another purchase replaced it.
Lapsed(r) == r \in Store /\ rows[r].state = "active" /\ ~rows[r].replaced /\ rows[r].ends <= now

InGrace(r) == rows[r].state = "grace" \/ Lapsed(r)

AutomaticEnd(r) == IF Lapsed(r) THEN rows[r].ends + Week ELSE rows[r].ends

\* A grace lasts until its automatic end, or the last week asked for from it.
Until(r) ==
  IF InGrace(r)
  THEN Max({AutomaticEnd(r)} \cup {a.until : a \in {b \in asked : b.basis = AutomaticEnd(r)}})
  ELSE rows[r].ends

Current(r) == rows[r].state \in {"active", "grace"} /\ rows[r].from <= now /\ now < Until(r)

Paid == {r \in Row : Current(r) /\ ~InGrace(r)}

Most(R) == {r \in R : \A o \in R : rows[o].quantity <= rows[r].quantity}

\* The most generous room that is paid for, or else the most generous in grace.
Live == IF Paid # {} THEN Most(Paid) ELSE Most({r \in Row : Current(r)})

\* The grace the journey is in; of two as generous, the one whose row changed last, which is left open.
Grace == {r \in Live : InGrace(r)}

Available == Included + Max({0} \cup {rows[r].quantity : r \in Live})

\* Mutant of RestsBefore: those without a place come last.
RestsBeforeLast(p, q) ==
  IF place[p] = 0 /\ place[q] = 0 THEN joined[p] > joined[q]
  ELSE place[p] # 0 /\ (place[q] = 0 \/ place[p] < place[q])

\* Those without a place come first, the newest first, then the others in the owner's order.
RestsBefore(p, q) ==
  IF place[p] = 0 /\ place[q] = 0 THEN joined[p] > joined[q] ELSE place[p] < place[q]

Queue == Here \ {owner}

\* restingMemberIds: as many from the front of the queue as there is no room for.
Resting == {p \in Queue : Cardinality({q \in Queue : RestsBefore(q, p)}) + Available < Cardinality(Here)}
-----------------------------------------------------------------------------
Tick ==
  /\ now < MaxTime
  /\ now' = now + 1
  /\ UNCHANGED <<people, rows, payments, asked>>

\* What a payment may do to its row.  On the web it is paid until an end, it fails, and a grace
\* already given holds still (graceExpiry); it ends, with a grace counted from its end
\* (endedRoomGraceExpiry) or with none, and is then as no row.  In a store it is paid until an end, now or when the one
\* before is over, ends sooner (a refund), or is replaced by another.
Paying(r) ==
  LET row == rows[r] IN
    /\ payments < MaxPayments
    /\ payments' = payments + 1
    /\ \/ \E p \in Here, q \in Quantity, from \in {now, now + Period} :
            /\ r \in Web => p = owner /\ from = now
            /\ rows' = [rows EXCEPT ![r] =
                 [state |-> "active", payer |-> p, quantity |-> q,
                  from |-> from, ends |-> from + Period, replaced |-> FALSE]]
       \/ /\ r \in Web /\ row.state \in {"active", "grace"}
          /\ rows' = [rows EXCEPT ![r].state = "grace",
                                  ![r].ends = IF row.state = "grace" THEN row.ends ELSE now + Week]
       \/ /\ r \in Web /\ row.state \in {"active", "grace"}
          /\ \E to \in {NoRow, [row EXCEPT !.state = "grace", !.ends = now + Week]} :
               /\ to.state = "grace" => row.state = "active"
               /\ rows' = [rows EXCEPT ![r] = to]
       \/ /\ r \in Store /\ row.state = "active" /\ now < row.ends
          /\ \E to \in {[row EXCEPT !.ends = now], [row EXCEPT !.replaced = TRUE]} :
               rows' = [rows EXCEPT ![r] = to]
    /\ UNCHANGED <<now, people, asked>>

\* Mutant of AskForMore: of any grace, over or not.
AskForMoreOver(p) ==
  \E r \in {o \in Row : InGrace(o)} :
    /\ p \in Here /\ rows[r].payer = p
    /\ LET used == Cardinality({a \in asked : a.year = YearOf(now)}) IN
         /\ used < PerYear
         /\ Until(r) <= now + Week
         /\ asked' = asked \cup {[year |-> YearOf(now), number |-> used + 1,
                                  basis |-> AutomaticEnd(r), until |-> Until(r) + Week]}
    /\ UNCHANGED <<now, people, rows, payments>>

\* Mutant of AskForMore: as often as is liked.
AskForMoreUncounted(p) ==
  \E r \in Grace :
    /\ p \in Here /\ rows[r].payer = p
    /\ LET used == Cardinality({a \in asked : a.year = YearOf(now)}) IN
         /\ Until(r) <= now + Week
         /\ asked' = asked \cup {[year |-> YearOf(now), number |-> used + 1,
                                  basis |-> AutomaticEnd(r), until |-> Until(r) + Week]}
    /\ UNCHANGED <<now, people, rows, payments>>

\* requestMoreGrace: while a grace goes on, by who pays, no more often than a year allows, and not
\* before the week waiting ahead has begun.
AskForMore(p) ==
  \E r \in Grace :
    /\ p \in Here /\ rows[r].payer = p
    /\ LET used == Cardinality({a \in asked : a.year = YearOf(now)}) IN
         /\ used < PerYear
         /\ Until(r) <= now + Week
         /\ asked' = asked \cup {[year |-> YearOf(now), number |-> used + 1,
                                  basis |-> AutomaticEnd(r), until |-> Until(r) + Week]}
    /\ UNCHANGED <<now, people, rows, payments>>
-----------------------------------------------------------------------------
\* acceptInvitation: begun, and once it has the journey's lock.
BeginToJoin(p) ==
  LET last == Max({joined[q] : q \in Person} \cup {joining[q] : q \in Person}) IN
    /\ p \notin Here /\ joining[p] = 0 /\ last < MaxJoins
    /\ joining' = [joining EXCEPT ![p] = last + 1]
    /\ UNCHANGED <<now, owner, joined, place, ordering, rows, payments, asked>>

Join(p) ==
  /\ joining[p] # 0
  /\ joined' = [joined EXCEPT ![p] = joining[p]]
  /\ joining' = [joining EXCEPT ![p] = 0]
  /\ UNCHANGED <<now, owner, place, ordering, rows, payments, asked>>

\* Left, or taken out; the place goes with the membership.
Leave(p) ==
  /\ p \in Queue
  /\ joined' = [joined EXCEPT ![p] = 0]
  /\ place' = [place EXCEPT ![p] = 0]
  /\ UNCHANGED <<now, owner, joining, ordering, rows, payments, asked>>

\* Not while a subscription on the web goes on.  Nobody's place changes.
TransferOwnership(p) ==
  /\ p \in Queue
  /\ \A r \in Web : rows[r].state # "active"
  /\ owner' = p
  /\ UNCHANGED <<now, joined, place, joining, ordering, rows, payments, asked>>

\* Places for some of the people here but the owner, each its own, from the first on.
PlacesFor(P) ==
  {f \in [Person -> 0 .. Cardinality(P)] :
     /\ \A p \in Person : f[p] # 0 <=> p \in P
     /\ \A p, q \in P : f[p] = f[q] => p = q}

\* setRestOrder: who owns the journey and who is here, read without the lock, and the places
\* written: everyone here loses the place they had.
AskOrder ==
  /\ ordering = None
  /\ \E P \in SUBSET Queue : ordering' \in PlacesFor(P)
  /\ UNCHANGED <<now, owner, joined, place, joining, rows, payments, asked>>

WriteOrder ==
  /\ ordering # None
  /\ place' = [p \in Person |-> IF p \in Here THEN ordering[p] ELSE 0]
  /\ ordering' = None
  /\ UNCHANGED <<now, owner, joined, joining, rows, payments, asked>>
-----------------------------------------------------------------------------
Next ==
  \/ Tick \/ AskOrder \/ WriteOrder
  \/ \E r \in Row : Paying(r)
  \/ \E p \in Person : AskForMore(p) \/ BeginToJoin(p) \/ Join(p) \/ Leave(p) \/ TransferOwnership(p)

Spec == Init /\ [][Next]_vars
-----------------------------------------------------------------------------
\* However it is asked for, and across the turn of a year, a payment that is not made keeps a
\* journey going for no longer than its automatic week and the weeks of two years
\* (requestMoreGrace).
GraceEnds ==
  \A r \in Row : InGrace(r) => Until(r) <= AutomaticEnd(r) + 2 * PerYear * Week

\* A grace that is over stays over until its payment says otherwise, whatever is asked for and
\* whatever else is paid for (paymentFor).
OverStaysOver ==
  [][\A r \in Row :
       InGrace(r) /\ Until(r) <= now /\ rows'[r] = rows[r] => InGrace(r)' /\ Until(r)' <= now']_vars

\* Somebody joining never makes a person rest whom the owner has given a place and who adds
\* (restQueue).
JoiningKeepsThePlaced ==
  [][\A p \in Here : Here \subseteq Here' /\ Here' # Here /\ place[p] # 0 /\ p \notin Resting => p \notin Resting']_vars
=============================================================================
