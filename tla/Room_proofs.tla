---------------------------- MODULE Room_proofs ----------------------------
(***************************************************************************)
(* What holds of the room that is paid for, for any people, payments,      *)
(* lengths of time and bounds.                                             *)
(*                                                                         *)
(* Of resting and of graces asked for (Resting): a grace ends, one that is *)
(* over stays over, and somebody joining makes nobody rest who has a place.*)
(* The first rests on counting: what was asked for of one grace lies       *)
(* within two years.                                                       *)
(*                                                                         *)
(* Of the room a subscription pays for (StoreRoom): it follows the last    *)
(* period paid for, and moves only with its days of grace left behind.     *)
(* The first rests on the last period held: the room is, after every step, *)
(* what that period makes of it, whatever came of the earlier ones.        *)
(***************************************************************************)
EXTENDS Resting, StoreRoom, FiniteSetTheorems, WellFoundedInduction, TLAPS

\* What was asked for of the grace that ends by itself at b, and in a year.
AskedOf(b) == {a \in asked : a.basis = b}

AskedIn(y) == {a \in asked : a.year = y}

\* Whoever is here or on the way is known by when they began; nobody has a place who is not here.
People ==
  /\ owner \in Person
  /\ joined \in [Person -> 0 .. MaxJoins + 1]
  /\ joining \in [Person -> 0 .. MaxJoins + 1]
  /\ place \in [Person -> Nat]
  /\ ordering = None \/ ordering \in [Person -> Nat]
  /\ owner \in Here
  /\ IsFiniteSet(Here)
  /\ \A p \in Person : joined[p] = 0 => place[p] = 0

Rows ==
  rows \in [Row -> [state : {"none", "active", "grace"}, payer : Person \cup {None},
                    quantity : Quantity \cup {0}, from : Nat, ends : Nat, replaced : BOOLEAN]]

Types ==
  /\ now \in Nat
  /\ Rows
  /\ IsFiniteSet(asked)
  /\ asked \subseteq [year : Nat, number : Nat, basis : Nat, until : Nat]

\* Every week asked for of a grace follows the one before.
OneByOne ==
  \A a \in asked :
    /\ a.basis + Week <= a.until
    /\ a.until <= a.basis + Week * Cardinality(AskedOf(a.basis))

\* It was asked for once the grace had begun, while it went on.
WhileItGoesOn ==
  \A a \in asked : \E t \in Nat :
    a.year = YearOf(t) /\ a.basis <= t + Week /\ t < a.basis + Week * (2 * PerYear)

YearsCounted == \A y \in Nat : Cardinality(AskedIn(y)) <= PerYear

Asks == OneByOne /\ WhileItGoesOn /\ YearsCounted

IInv == People /\ Types /\ Asks
-----------------------------------------------------------------------------
(***************************************************************************)
(* Numbers, and the largest of a set of them                               *)
(***************************************************************************)

\* Every set of naturals with an element has a least one.
LEMMA LeastElement ==
  ASSUME NEW T \in SUBSET Nat, T # {}
  PROVE  \E n \in T : \A m \in T : n <= m
<1>1. IsWellFoundedOn(OpToRel(<, Nat), Nat)
  BY NatLessThanWellFounded, Zenon
<1>2. PICK n \in T : \A m \in T : ~ (<<m, n>> \in OpToRel(<, Nat))
  BY <1>1, WFMin, Zenon
<1>3. \A m \in T : ~ (m < n)
  BY <1>2, Zenon DEF OpToRel
<1> QED
  BY <1>3

\* A finite set of naturals with an element has a largest: the one with the fewest after it.
LEMMA LargestElement ==
  ASSUME NEW T \in SUBSET Nat, T # {}, IsFiniteSet(T)
  PROVE  Max(T) \in T /\ Max(T) \in Nat /\ \A m \in T : Max(T) >= m
<1> DEFINE After(j) == {i \in T : i >= j}
           Sizes == {Cardinality(After(j)) : j \in T}
<1>1. \A j \in T : IsFiniteSet(After(j)) /\ Cardinality(After(j)) \in Nat
  BY FS_Subset, FS_CardinalityType
<1> PICK n \in Sizes : \A m \in Sizes : n <= m
  <2>1. Sizes \in SUBSET Nat /\ Sizes # {}
    BY <1>1
  <2> HIDE DEF Sizes
  <2> QED
    BY <2>1, LeastElement
<1> PICK j \in T : n = Cardinality(After(j))
  OBVIOUS
<1>2. ASSUME NEW i \in T, i > j PROVE FALSE
  <2>1. After(i) \subseteq After(j)
    BY <1>2
  <2>2. j \in After(j) /\ j \notin After(i)
    BY <1>2
  <2>3. After(i) # After(j)
    BY <2>2
  <2>4. Cardinality(After(j)) <= Cardinality(After(i))
    OBVIOUS
  <2>5. /\ Cardinality(After(i)) <= Cardinality(After(j))
        /\ Cardinality(After(j)) = Cardinality(After(i)) => After(j) = After(i)
    <3> HIDE DEF After
    <3> QED
      BY <2>1, <1>1, FS_Subset
  <2> HIDE DEF After
  <2> QED
    BY <2>3, <2>4, <2>5, <1>1
<1>3. \A m \in T : j >= m
  BY <1>2
<1>4. \E x \in T : \A y \in T : x >= y
  BY <1>3
<1> QED
  BY <1>4 DEF Max

\* Multiples, and the year of a time.
LEMMA Multiples ==
  ASSUME NEW n \in Nat, NEW m \in Nat, NEW w \in Nat
  PROVE  /\ w * n \in Nat
         /\ w * (n + 1) = w * n + w
         /\ n <= m => w * n <= w * m
OBVIOUS

LEMMA YearsOfTimes ==
  ASSUME NEW t \in Nat, NEW u \in Nat
  PROVE  YearOf(t) \in Nat /\ (u < t + Year => YearOf(u) <= YearOf(t) + 1)
<1>1. ASSUME NEW Y \in Nat, Y > 0
      PROVE  (t \div Y) \in Nat /\ (u < t + Y => (u \div Y) <= (t \div Y) + 1)
  <2>1. (t \div Y) \in Nat
    BY <1>1
  <2>2. ASSUME u < t + Y PROVE (u \div Y) <= (t \div Y) + 1
    BY <1>1, <2>2
  <2> QED
    BY <2>1, <2>2
<1>2. Year \in Nat /\ Year > 0
  BY RestingAssumption
<1> QED
  BY <1>1, <1>2 DEF YearOf

LEMMA Constants ==
  /\ Week \in Nat /\ Week > 0 /\ Period \in Nat /\ Period > 0 /\ PerYear \in Nat /\ PerYear > 0
  /\ Year \in Nat /\ Included \in Nat /\ MaxJoins \in Nat /\ Start \in Nat
  /\ Year > Week * (2 * PerYear) + Week
  /\ Week * (2 * PerYear) \in Nat
<1>1. /\ Week \in Nat /\ Week > 0 /\ Period \in Nat /\ Period > 0 /\ PerYear \in Nat /\ PerYear > 0
      /\ Year \in Nat /\ Included \in Nat /\ MaxJoins \in Nat /\ Start \in Nat
      /\ Year > (2 * PerYear + 1) * Week
  BY RestingAssumption
<1>2. ASSUME NEW w \in Nat, NEW n \in Nat PROVE (2 * n + 1) * w = w * (2 * n) + w /\ w * (2 * n) \in Nat
  OBVIOUS
<1> QED
  BY <1>1, <1>2

-----------------------------------------------------------------------------
(***************************************************************************)
(* How long a grace lasts                                                  *)
(***************************************************************************)

\* Those asked for are finitely many, of a grace and in a year.
LEMMA AskedFinite ==
  ASSUME Types
  PROVE  /\ \A b : IsFiniteSet(AskedOf(b)) /\ Cardinality(AskedOf(b)) \in Nat
         /\ \A y : IsFiniteSet(AskedIn(y)) /\ Cardinality(AskedIn(y)) \in Nat
<1>1. \A b : AskedOf(b) \in SUBSET asked
  BY DEF AskedOf
<1>2. \A y : AskedIn(y) \in SUBSET asked
  BY DEF AskedIn
<1>3. IsFiniteSet(asked)
  BY DEF Types
<1>4. \A b : IsFiniteSet(AskedOf(b))
  BY <1>1, <1>3, FS_Subset
<1>5. \A y : IsFiniteSet(AskedIn(y))
  BY <1>2, <1>3, FS_Subset
<1> QED
  BY <1>4, <1>5, FS_CardinalityType

\* What is asked for of one grace is asked for in at most two years, and so no more than twice
\* what a year allows.
LEMMA TwoYears ==
  ASSUME Types, Asks, NEW b \in Nat
  PROVE  Cardinality(AskedOf(b)) <= 2 * PerYear
<1>1. CASE AskedOf(b) = {}
  BY <1>1, FS_EmptySet, Constants
<1>2. CASE AskedOf(b) # {}
  <2> DEFINE years == {a.year : a \in AskedOf(b)}
  <2>1. years \in SUBSET Nat /\ years # {}
    BY <1>2 DEF AskedOf, Types
  <2> HIDE DEF years
  <2> PICK y \in years : \A z \in years : y <= z
    BY <2>1, LeastElement
  <2>2. PICK first \in AskedOf(b) : first.year = y
    BY DEF years
  <2>3. PICK t \in Nat : y = YearOf(t) /\ b <= t + Week
    BY <2>2 DEF Asks, WhileItGoesOn, AskedOf
  <2>4. ASSUME NEW a \in AskedOf(b) PROVE a.year = y \/ a.year = y + 1
    <3>1. PICK u \in Nat : a.year = YearOf(u) /\ u < b + Week * (2 * PerYear)
      BY DEF Asks, WhileItGoesOn, AskedOf
    <3>2. u < t + Year
      BY <2>3, <3>1, Constants
    <3>3. YearOf(u) \in Nat /\ YearOf(u) <= y + 1
      BY <2>3, <3>2, YearsOfTimes
    <3>4. a.year \in years
      BY DEF years
    <3>5. y <= a.year /\ y \in Nat
      BY <2>1, <3>4
    <3> QED
      BY <3>1, <3>3, <3>5
  <2>5. y \in Nat /\ y + 1 \in Nat
    BY <2>1
  <2> DEFINE A == AskedIn(y)
             B == AskedIn(y + 1)
  <2>6. AskedOf(b) \subseteq A \cup B
    BY <2>4 DEF AskedIn, AskedOf
  <2>7. IsFiniteSet(A) /\ Cardinality(A) \in Nat /\ IsFiniteSet(B) /\ Cardinality(B) \in Nat
    BY AskedFinite
  <2>8. Cardinality(A) <= PerYear /\ Cardinality(B) <= PerYear
    BY <2>5 DEF Asks, YearsCounted
  <2> HIDE DEF A, B
  <2>9. IsFiniteSet(A \cup B) /\ Cardinality(A \cup B) = Cardinality(A) + Cardinality(B) - Cardinality(A \cap B)
    BY <2>7, FS_Union
  <2>10. Cardinality(A \cap B) \in Nat
    <3>1. IsFiniteSet(A \cap B)
      BY <2>7, FS_Intersection
    <3> QED
      BY <3>1, FS_CardinalityType
  <2>11. Cardinality(AskedOf(b)) <= Cardinality(A \cup B) /\ Cardinality(AskedOf(b)) \in Nat
    BY <2>6, <2>9, FS_Subset, AskedFinite
  <2> QED
    BY <2>7, <2>8, <2>9, <2>10, <2>11, Constants
<1> QED
  BY <1>1, <1>2

\* The end of a grace: its own, or that of the last week asked for.
LEMMA GraceLasts ==
  ASSUME Types, NEW r \in Row, InGrace(r)
  PROVE  LET b == AutomaticEnd(r)
             U == Until(r)
         IN /\ b \in Nat /\ U \in Nat /\ b <= U
            /\ \A a \in asked : a.basis = b => a.until <= U
            /\ U = b \/ \E a \in AskedOf(b) : U = a.until
<1> DEFINE b == AutomaticEnd(r)
           untils == {a.until : a \in {c \in asked : c.basis = b}}
           T == {b} \cup untils
<1>1. b \in Nat
  BY Constants DEF AutomaticEnd, Types, Rows
<1>2. Until(r) = Max(T)
  BY DEF Until
<1>3. T \in SUBSET Nat /\ T # {}
  BY <1>1 DEF Types
<1>4. IsFiniteSet(T)
  <2>1. IsFiniteSet(AskedOf(b))
    BY AskedFinite
  <2> DEFINE f == [a \in AskedOf(b) |-> a.until]
  <2>2. f \in Surjection(AskedOf(b), untils)
    BY DEF Surjection, AskedOf
  <2>3. IsFiniteSet(untils)
    BY <2>1, <2>2, FS_Surjection DEF ExistsSurjection
  <2> HIDE DEF untils, b
  <2> QED
    BY <2>3, FS_AddElement
<1>5. Max(T) \in T /\ Max(T) \in Nat /\ \A m \in T : Max(T) >= m
  <2> HIDE DEF T
  <2> QED
    BY <1>3, <1>4, LargestElement
<1>6. \A a \in asked : a.basis = b => a.until \in T
  OBVIOUS
<1>7. Max(T) = b \/ \E a \in AskedOf(b) : Max(T) = a.until
  BY <1>5 DEF AskedOf
<1>8. b <= Max(T)
  BY <1>1, <1>5
<1>9. \A a \in asked : a.basis = b => a.until <= Max(T)
  BY <1>5, <1>6 DEF Types
<1> QED
  BY <1>1, <1>2, <1>5, <1>7, <1>8, <1>9

\* It is over by the weeks that were asked for.
LEMMA GraceCounted ==
  ASSUME Types, Asks, NEW r \in Row, InGrace(r)
  PROVE  Until(r) <= AutomaticEnd(r) + Week * Cardinality(AskedOf(AutomaticEnd(r)))
<1> DEFINE b == AutomaticEnd(r)
           n == Cardinality(AskedOf(b))
<1>1. /\ b \in Nat /\ Until(r) \in Nat
      /\ Until(r) = b \/ \E a \in AskedOf(b) : Until(r) = a.until
  BY GraceLasts
<1>2. n \in Nat
  BY AskedFinite
<1>3. \A a \in AskedOf(b) : a.until <= b + Week * n
  BY DEF Asks, OneByOne, AskedOf
<1> HIDE DEF b, n
<1>4. Week * n \in Nat
  BY <1>2, Constants, Multiples
<1> QED
  BY <1>1, <1>3, <1>4 DEF b, n

-----------------------------------------------------------------------------
(***************************************************************************)
(* Every step keeps what was counted                                       *)
(***************************************************************************)

\* Asking for more of a grace, which goes on and is not asked for too soon or too often.
LEMMA AskForMoreEffect ==
  ASSUME IInv, NEW p \in Person, AskForMore(p)
  PROVE  \E r \in Row :
           /\ InGrace(r) /\ now < Until(r) /\ Until(r) <= now + Week
           /\ Cardinality(AskedIn(YearOf(now))) < PerYear
           /\ asked' = asked \cup {[year |-> YearOf(now), number |-> Cardinality(AskedIn(YearOf(now))) + 1,
                                    basis |-> AutomaticEnd(r), until |-> Until(r) + Week]}
           /\ UNCHANGED <<now, people, rows, payments>>
<1> PICK r \in Grace :
      LET used == Cardinality({a \in asked : a.year = YearOf(now)}) IN
        /\ used < PerYear
        /\ Until(r) <= now + Week
        /\ asked' = asked \cup {[year |-> YearOf(now), number |-> used + 1,
                                 basis |-> AutomaticEnd(r), until |-> Until(r) + Week]}
        /\ UNCHANGED <<now, people, rows, payments>>
  BY DEF AskForMore
<1>1. r \in Live /\ InGrace(r)
  BY DEF Grace
<1>2. r \in Row /\ Current(r)
  BY <1>1 DEF Live, Most, Paid
<1>3. now < Until(r)
  BY <1>2 DEF Current
<1> QED
  BY <1>1, <1>2, <1>3 DEF AskedIn

LEMMA AskForMoreCounted ==
  ASSUME IInv, NEW p \in Person, AskForMore(p)
  PROVE  Asks' /\ IsFiniteSet(asked') /\ asked' \subseteq [year : Nat, number : Nat, basis : Nat, until : Nat]
<1> PICK r \in Row :
      /\ InGrace(r) /\ now < Until(r) /\ Until(r) <= now + Week
      /\ Cardinality(AskedIn(YearOf(now))) < PerYear
      /\ asked' = asked \cup {[year |-> YearOf(now), number |-> Cardinality(AskedIn(YearOf(now))) + 1,
                               basis |-> AutomaticEnd(r), until |-> Until(r) + Week]}
  BY AskForMoreEffect
<1> DEFINE b == AutomaticEnd(r)
           U == Until(r)
           y == YearOf(now)
           n == Cardinality(AskedOf(b))
           new == [year |-> y, number |-> Cardinality(AskedIn(y)) + 1, basis |-> b, until |-> U + Week]
<1>1. Types /\ Asks /\ now \in Nat
  BY DEF IInv, Types
<1>2. /\ b \in Nat /\ U \in Nat /\ b <= U
      /\ \A a \in asked : a.basis = b => a.until <= U
  BY <1>1, GraceLasts
<1>3. U <= b + Week * n
  BY <1>1, GraceCounted
<1>4. n \in Nat /\ Cardinality(AskedIn(y)) \in Nat /\ IsFiniteSet(AskedOf(b)) /\ IsFiniteSet(AskedIn(y))
  BY <1>1, AskedFinite
<1>5. n <= 2 * PerYear
  BY <1>1, <1>2, TwoYears
<1>6. y \in Nat
  BY <1>1, YearsOfTimes
<1>7. now < U /\ U <= now + Week /\ Cardinality(AskedIn(y)) < PerYear /\ asked' = asked \cup {new}
  OBVIOUS
<1>8. /\ new.year = y /\ new.basis = b /\ new.until = U + Week
      /\ U + Week \in Nat
      /\ new \in [year : Nat, number : Nat, basis : Nat, until : Nat]
  BY <1>2, <1>4, <1>6, Constants
<1> HIDE DEF b, U, y, n, new
<1>9. new \notin asked
  BY <1>2, <1>8, Constants
<1>10. IsFiniteSet(asked') /\ asked' \subseteq [year : Nat, number : Nat, basis : Nat, until : Nat]
  <2>1. IsFiniteSet(asked) /\ asked \subseteq [year : Nat, number : Nat, basis : Nat, until : Nat]
    BY <1>1 DEF Types
  <2>2. IsFiniteSet(asked \cup {new})
    BY <2>1, FS_AddElement
  <2> QED
    BY <2>1, <2>2, <1>7, <1>8
<1>11. /\ \A c : c # b => {a \in asked' : a.basis = c} = AskedOf(c)
       /\ {a \in asked' : a.basis = b} = AskedOf(b) \cup {new}
  BY <1>7, <1>8 DEF AskedOf
<1>12. Cardinality(AskedOf(b) \cup {new}) = n + 1
  BY <1>4, <1>9, FS_AddElement DEF n, AskedOf
<1> DEFINE Size(c) == Cardinality({a \in asked' : a.basis = c})
<1>13. Size(b) = n + 1 /\ \A c : c # b => Size(c) = Cardinality(AskedOf(c))
  BY <1>11, <1>12
<1>14. \A a \in asked' : a \in asked \/ a = new
  BY <1>7
<1> HIDE DEF Size
<1>15. Week * n \in Nat /\ Week * (n + 1) = Week * n + Week /\ Week * n <= Week * (2 * PerYear)
       /\ Week * (2 * PerYear) \in Nat
  BY <1>4, <1>5, Constants, Multiples
<1>16. ASSUME NEW a \in asked'
       PROVE  a.basis + Week <= a.until /\ a.until <= a.basis + Week * Size(a.basis)
  <2>1. CASE a = new
    <3>1. U + Week <= b + Week * (n + 1)
      BY <1>2, <1>3, <1>15, Constants
    <3>2. b + Week <= U + Week
      BY <1>2, Constants
    <3> QED
      BY <2>1, <3>1, <3>2, <1>8, <1>13
  <2>2. CASE a \in asked /\ a.basis = b
    <3>1. a.basis + Week <= a.until /\ a.until <= b + Week * n /\ a.until \in Nat
      BY <2>2, <1>1 DEF Asks, OneByOne, Types, n
    <3>2. a.until <= b + Week * (n + 1)
      BY <3>1, <1>2, <1>15, Constants
    <3> QED
      BY <2>2, <3>1, <3>2, <1>13
  <2>3. CASE a \in asked /\ a.basis # b
    BY <2>3, <1>1, <1>13 DEF Asks, OneByOne
  <2> QED
    BY <2>1, <2>2, <2>3, <1>14
<1>17. OneByOne'
  BY <1>16 DEF OneByOne, AskedOf, Size
<1>18. WhileItGoesOn'
  <2> SUFFICES ASSUME NEW a \in asked'
               PROVE  \E t \in Nat : a.year = YearOf(t) /\ a.basis <= t + Week /\ t < a.basis + Week * (2 * PerYear)
    BY DEF WhileItGoesOn, YearOf
  <2>1. CASE a \in asked
    BY <2>1, <1>1 DEF Asks, WhileItGoesOn
  <2>2. CASE a = new
    <3>1. b <= now + Week /\ now < b + Week * (2 * PerYear)
      BY <1>1, <1>2, <1>3, <1>7, <1>15, Constants
    <3> QED
      BY <2>2, <3>1, <1>1, <1>8 DEF y
  <2> QED
    BY <2>1, <2>2, <1>14
<1>19. YearsCounted'
  <2> SUFFICES ASSUME NEW z \in Nat PROVE Cardinality({a \in asked' : a.year = z}) <= PerYear
    BY DEF YearsCounted, AskedIn
  <2>1. CASE z = y
    <3>1. {a \in asked' : a.year = y} = AskedIn(y) \cup {new}
      BY <1>7, <1>8 DEF AskedIn
    <3>2. Cardinality(AskedIn(y) \cup {new}) = Cardinality(AskedIn(y)) + 1
      BY <1>4, <1>9, FS_AddElement DEF AskedIn
    <3>3. Cardinality(AskedIn(y)) + 1 <= PerYear
      BY <1>4, <1>7, Constants
    <3> QED
      BY <2>1, <3>1, <3>2, <3>3
  <2>2. CASE z # y
    <3>1. {a \in asked' : a.year = z} = AskedIn(z)
      BY <2>2, <1>7, <1>8 DEF AskedIn
    <3> QED
      BY <3>1, <1>1 DEF Asks, YearsCounted
  <2> QED
    BY <2>1, <2>2
<1> QED
  BY <1>10, <1>17, <1>18, <1>19 DEF Asks

\* What a payment does leaves a row.
LEMMA PayingTypes ==
  ASSUME IInv, NEW r \in Row, Paying(r)
  PROVE  Rows' /\ UNCHANGED <<now, people, asked>>
<1> DEFINE RowSet == [state : {"none", "active", "grace"}, payer : Person \cup {None},
                      quantity : Quantity \cup {0}, from : Nat, ends : Nat, replaced : BOOLEAN]
           row == rows[r]
<1>1. rows \in [Row -> RowSet] /\ row \in RowSet /\ now \in Nat
  BY DEF IInv, Types, Rows
<1>2. \A p \in Here : p \in Person
  BY DEF Here
<1>3. now + Week \in Nat /\ now + Period \in Nat /\ (now + Period) + Period \in Nat
  BY <1>1, Constants
<1>4. NoRow \in RowSet
  BY DEF NoRow
<1> SUFFICES \E new \in RowSet : rows' = [rows EXCEPT ![r] = new]
  BY <1>1 DEF Paying, Rows
<1>5. CASE \E p \in Here, q \in Quantity, from \in {now, now + Period} :
            rows' = [rows EXCEPT ![r] =
              [state |-> "active", payer |-> p, quantity |-> q,
               from |-> from, ends |-> from + Period, replaced |-> FALSE]]
  <2> PICK p \in Here, q \in Quantity, from \in {now, now + Period} :
            rows' = [rows EXCEPT ![r] =
              [state |-> "active", payer |-> p, quantity |-> q,
               from |-> from, ends |-> from + Period, replaced |-> FALSE]]
    BY <1>5
  <2>1. [state |-> "active", payer |-> p, quantity |-> q,
         from |-> from, ends |-> from + Period, replaced |-> FALSE] \in RowSet
    BY <1>1, <1>2, <1>3, Constants
  <2> QED
    BY <2>1
<1>6. CASE rows' = [rows EXCEPT ![r].state = "grace",
                                ![r].ends = IF row.state = "grace" THEN row.ends ELSE now + Week]
  <2> DEFINE new == [row EXCEPT !.state = "grace", !.ends = IF row.state = "grace" THEN row.ends ELSE now + Week]
  <2>1. new \in RowSet
    BY <1>1, <1>3
  <2>2. rows' = [rows EXCEPT ![r] = new]
    BY <1>1, <1>6
  <2> QED
    BY <2>1, <2>2
<1>7. CASE \E to \in {NoRow, [row EXCEPT !.state = "grace", !.ends = now + Week],
                      [row EXCEPT !.ends = now], [row EXCEPT !.replaced = TRUE]} :
             rows' = [rows EXCEPT ![r] = to]
  <2>1. [row EXCEPT !.state = "grace", !.ends = now + Week] \in RowSet
    BY <1>1, <1>3
  <2>2. [row EXCEPT !.ends = now] \in RowSet /\ [row EXCEPT !.replaced = TRUE] \in RowSet
    BY <1>1
  <2> QED
    BY <1>4, <1>7, <2>1, <2>2
<1> QED
  BY <1>5, <1>6, <1>7 DEF Paying

\* What leaves who is here alone.
LEMMA PeopleUnchanged ==
  ASSUME People, UNCHANGED people
  PROVE  People'
BY DEF People, people, Here

\* Beginning to join, joining, leaving, handing a journey over and ordering keep who is known, how
\* many, and that nobody else has a place.
LEMMA PeopleKept ==
  ASSUME IInv,
         NEW p \in Person,
         BeginToJoin(p) \/ Join(p) \/ Leave(p) \/ TransferOwnership(p) \/ AskOrder \/ WriteOrder
  PROVE  People'
<1> DEFINE Then == {q \in Person : joined'[q] # 0}
<1>1. /\ owner \in Person /\ joined \in [Person -> 0 .. MaxJoins + 1] /\ joining \in [Person -> 0 .. MaxJoins + 1]
      /\ place \in [Person -> Nat] /\ (ordering = None \/ ordering \in [Person -> Nat])
      /\ owner \in Here /\ IsFiniteSet(Here) /\ \A q \in Person : joined[q] = 0 => place[q] = 0
  BY DEF IInv, People
<1>2. MaxJoins \in Nat /\ MaxJoins + 1 \in Nat /\ 0 \in 0 .. MaxJoins + 1
  BY Constants
<1>3. CASE BeginToJoin(p)
  <2> DEFINE T == {joined[q] : q \in Person} \cup {joining[q] : q \in Person}
             last == Max(T)
  <2>1. joined[p] \in T /\ T \in SUBSET (0 .. MaxJoins + 1)
    BY <1>1
  <2>2. UNCHANGED <<owner, joined, place, ordering>> /\ last < MaxJoins
        /\ joining' = [joining EXCEPT ![p] = last + 1]
    BY <1>3 DEF BeginToJoin
  <2> HIDE DEF T
  <2>3. IsFiniteSet(T) /\ T \in SUBSET Nat /\ T # {}
    <3>1. IsFiniteSet(0 .. MaxJoins + 1)
      BY <1>2, FS_Interval
    <3>2. IsFiniteSet(T)
      BY <2>1, <3>1, FS_Subset
    <3> QED
      BY <2>1, <3>2, <1>2
  <2>4. last \in Nat
    BY <2>3, LargestElement
  <2> HIDE DEF last
  <2>5. last + 1 \in 0 .. MaxJoins + 1
    BY <2>2, <2>4, <1>2
  <2>6. joining' \in [Person -> 0 .. MaxJoins + 1]
    BY <2>2, <2>5, <1>1
  <2> QED
    BY <2>2, <2>6, <1>1 DEF People, Here
<1>4. CASE Join(p)
  <2>1. /\ UNCHANGED <<owner, place, ordering>> /\ joining[p] # 0
        /\ joined' = [joined EXCEPT ![p] = joining[p]]
        /\ joining' = [joining EXCEPT ![p] = 0]
    BY <1>4 DEF Join
  <2>2. joined' \in [Person -> 0 .. MaxJoins + 1] /\ joining' \in [Person -> 0 .. MaxJoins + 1]
    BY <2>1, <1>1, <1>2
  <2>3. Then = Here \cup {p}
    BY <2>1, <1>1 DEF Here
  <2>4. IsFiniteSet(Then)
    BY <2>3, <1>1, FS_AddElement
  <2>5. \A q \in Person : joined'[q] = 0 => place[q] = 0
    BY <2>1, <1>1
  <2> QED
    BY <2>1, <2>2, <2>3, <2>4, <2>5, <1>1 DEF People, Here
<1>5. CASE Leave(p)
  <2>1. /\ UNCHANGED <<owner, joining, ordering>> /\ p # owner
        /\ joined' = [joined EXCEPT ![p] = 0] /\ place' = [place EXCEPT ![p] = 0]
    BY <1>5 DEF Leave, Queue
  <2>2. joined' \in [Person -> 0 .. MaxJoins + 1] /\ place' \in [Person -> Nat]
    BY <2>1, <1>1, <1>2
  <2>3. Then \subseteq Here /\ owner \in Then
    BY <2>1, <1>1 DEF Here
  <2>4. IsFiniteSet(Then)
    BY <2>3, <1>1, FS_Subset
  <2>5. \A q \in Person : joined'[q] = 0 => place'[q] = 0
    BY <2>1, <1>1
  <2> QED
    BY <2>1, <2>2, <2>3, <2>4, <2>5, <1>1 DEF People, Here
<1>6. CASE TransferOwnership(p)
  <2>1. owner' = p /\ p \in Here /\ UNCHANGED <<joined, place, joining, ordering>>
    BY <1>6 DEF TransferOwnership, Queue
  <2> QED
    BY <2>1, <1>1 DEF People, Here
<1>7. CASE AskOrder
  <2> PICK P \in SUBSET Queue : ordering' \in PlacesFor(P)
    BY <1>7 DEF AskOrder
  <2>1. ordering' \in [Person -> Nat]
    BY DEF PlacesFor
  <2>2. UNCHANGED <<owner, joined, place, joining>>
    BY <1>7 DEF AskOrder
  <2> QED
    BY <2>1, <2>2, <1>1 DEF People, Here
<1>8. CASE WriteOrder
  <2>1. /\ ordering \in [Person -> Nat] /\ ordering' = None
        /\ place' = [q \in Person |-> IF q \in Here THEN ordering[q] ELSE 0]
        /\ UNCHANGED <<owner, joined, joining>>
    BY <1>8, <1>1 DEF WriteOrder
  <2>2. place' \in [Person -> Nat]
    BY <2>1
  <2>3. \A q \in Person : joined'[q] = 0 => place'[q] = 0
    BY <2>1 DEF Here
  <2> QED
    BY <2>1, <2>2, <2>3, <1>1 DEF People, Here
<1> QED
  BY <1>3, <1>4, <1>5, <1>6, <1>7, <1>8

\* What is asked for and the payments are left alone by everything else.
LEMMA CountedUnchanged ==
  ASSUME Types, Asks, now' \in Nat, UNCHANGED rows, UNCHANGED asked
  PROVE  Types' /\ Asks'
BY DEF Types, Rows, Asks, OneByOne, WhileItGoesOn, YearsCounted, AskedOf, AskedIn, YearOf

LEMMA GracesInOrder == Spec => []IInv
<1>1. Init => IInv
  <2> SUFFICES ASSUME Init PROVE IInv
    OBVIOUS
  <2>1. NoRow \in [state : {"none", "active", "grace"}, payer : Person \cup {None},
                   quantity : Quantity \cup {0}, from : Nat, ends : Nat, replaced : BOOLEAN]
    BY DEF NoRow
  <2>2. Types
    BY <2>1, FS_EmptySet, Constants DEF Init, Types, Rows
  <2>3. Asks
    <3>1. \A y : AskedIn(y) = {}
      BY DEF Init, AskedIn
    <3>2. YearsCounted
      BY <3>1, FS_EmptySet, Constants DEF YearsCounted
    <3> QED
      BY <3>2 DEF Init, Asks, OneByOne, WhileItGoesOn
  <2>4. People
    <3> USE DEF Init
    <3>1. joined \in [Person -> Nat] /\ Here = {owner}
      BY DEF Here
    <3>2. IsFiniteSet(Here)
      BY <3>1, FS_Singleton
    <3>3. place \in [Person -> Nat] /\ \A p \in Person : place[p] = 0
      OBVIOUS
    <3>4. 0 \in 0 .. MaxJoins + 1 /\ 1 \in 0 .. MaxJoins + 1
      BY Constants, RestingAssumption
    <3>5. joined \in [Person -> 0 .. MaxJoins + 1] /\ joining \in [Person -> 0 .. MaxJoins + 1]
      BY <3>4
    <3> QED
      BY <3>1, <3>2, <3>3, <3>5 DEF People
  <2> QED
    BY <2>2, <2>3, <2>4 DEF IInv
<1>2. IInv /\ [Next]_vars => IInv'
  <2> SUFFICES ASSUME IInv, [Next]_vars PROVE IInv'
    OBVIOUS
  <2>1. People /\ Types /\ Asks /\ now \in Nat
    BY DEF IInv, Types
  <2>2. CASE UNCHANGED vars
    <3>1. UNCHANGED people /\ UNCHANGED rows /\ UNCHANGED asked /\ now' = now
      BY <2>2 DEF vars, people
    <3> QED
      BY <2>1, <3>1, PeopleUnchanged, CountedUnchanged DEF IInv
  <2>3. CASE Tick
    <3>1. UNCHANGED people /\ UNCHANGED rows /\ UNCHANGED asked /\ now' = now + 1
      BY <2>3 DEF Tick
    <3>2. now' \in Nat
      BY <2>1, <3>1
    <3> QED
      BY <2>1, <3>1, <3>2, PeopleUnchanged, CountedUnchanged DEF IInv
  <2>4. ASSUME NEW r \in Row, Paying(r) PROVE IInv'
    <3>1. Rows' /\ now' = now /\ UNCHANGED people /\ UNCHANGED asked
      BY <2>4, PayingTypes
    <3>2. Types' /\ Asks'
      BY <2>1, <3>1 DEF Types, Asks, OneByOne, WhileItGoesOn, YearsCounted, AskedOf, AskedIn, YearOf
    <3> QED
      BY <2>1, <3>1, <3>2, PeopleUnchanged DEF IInv
  <2>5. ASSUME NEW p \in Person, AskForMore(p) PROVE IInv'
    <3>1. UNCHANGED people /\ UNCHANGED rows /\ now' = now
      BY <2>5, AskForMoreEffect
    <3>2. Asks' /\ IsFiniteSet(asked') /\ asked' \subseteq [year : Nat, number : Nat, basis : Nat, until : Nat]
      BY <2>5, AskForMoreCounted
    <3>3. Types'
      BY <2>1, <3>1, <3>2 DEF Types, Rows
    <3> QED
      BY <2>1, <3>1, <3>2, <3>3, PeopleUnchanged DEF IInv
  <2>6. ASSUME NEW p \in Person,
               BeginToJoin(p) \/ Join(p) \/ Leave(p) \/ TransferOwnership(p) \/ AskOrder \/ WriteOrder
        PROVE  IInv'
    <3>1. UNCHANGED rows /\ UNCHANGED asked /\ now' = now
      BY <2>6 DEF BeginToJoin, Join, Leave, TransferOwnership, AskOrder, WriteOrder
    <3>2. People'
      BY <2>6, PeopleKept
    <3> QED
      BY <2>1, <3>1, <3>2, CountedUnchanged DEF IInv
  <2>7. owner \in Person
    BY <2>1 DEF People
  <2> QED
    BY <2>2, <2>3, <2>4, <2>5, <2>6, <2>7 DEF Next
<1> QED
  BY <1>1, <1>2, PTL DEF Spec

-----------------------------------------------------------------------------
(***************************************************************************)
(* What follows                                                            *)
(***************************************************************************)

\* However it is asked for, and across the turn of a year, a payment that is not made keeps a
\* journey going for no longer than its automatic week and the weeks of two years
\* (requestMoreGrace).
THEOREM GraceIsBounded == Spec => []GraceEnds
<1>1. IInv => GraceEnds
  <2> SUFFICES ASSUME IInv, NEW r \in Row, InGrace(r)
               PROVE  Until(r) <= AutomaticEnd(r) + 2 * PerYear * Week
    BY DEF GraceEnds
  <2> DEFINE b == AutomaticEnd(r)
             n == Cardinality(AskedOf(b))
  <2>1. Types /\ Asks
    BY DEF IInv
  <2>2. b \in Nat /\ Until(r) \in Nat /\ Until(r) <= b + Week * n
    BY <2>1, GraceLasts, GraceCounted
  <2>3. n \in Nat /\ n <= 2 * PerYear
    BY <2>1, <2>2, AskedFinite, TwoYears
  <2> HIDE DEF b, n
  <2>4. Week * n \in Nat /\ Week * n <= Week * (2 * PerYear)
    BY <2>3, Constants, Multiples
  <2>5. Week * (2 * PerYear) = 2 * PerYear * Week
    BY Constants
  <2>6. Until(r) <= b + 2 * PerYear * Week
    BY <2>2, <2>4, <2>5, Constants
  <2> QED
    BY <2>6 DEF b
<1> QED
  BY <1>1, GracesInOrder, PTL

\* A grace that is over stays over until its payment says otherwise, whatever is asked for and
\* whatever else is paid for (paymentFor).
THEOREM OverIsOver == Spec => OverStaysOver
<1> DEFINE Over == \A r \in Row :
       InGrace(r) /\ Until(r) <= now /\ rows'[r] = rows[r] => InGrace(r)' /\ Until(r)' <= now'
<1>1. IInv /\ [Next]_vars => [Over]_vars
  <2> SUFFICES ASSUME IInv, Next, NEW r \in Row, InGrace(r), Until(r) <= now, rows'[r] = rows[r]
               PROVE  InGrace(r)' /\ Until(r)' <= now'
    BY DEF vars
  <2>1. Types /\ now \in Nat
    BY DEF IInv, Types
  <2>2. AutomaticEnd(r) \in Nat /\ Until(r) \in Nat
    BY <2>1, GraceLasts
  <2>3. now' \in Nat /\ now <= now'
    <3>1. CASE Tick
      BY <3>1, <2>1 DEF Tick
    <3>2. CASE ~Tick
      <4>1. \A o \in Person : AskForMore(o) => now' = now
        BY AskForMoreEffect
      <4>2. now' = now
        BY <3>2, <4>1 DEF Next, Paying, BeginToJoin, Join, Leave, TransferOwnership, AskOrder, WriteOrder
      <4> QED
        BY <4>2, <2>1
    <3> QED
      BY <3>1, <3>2
  <2>4. Lapsed(r) => Lapsed(r)'
    <3>1. Lapsed(r) => rows[r].ends \in Nat
      BY <2>1 DEF Types, Rows
    <3> QED
      BY <2>1, <2>3, <3>1 DEF Lapsed
  <2>5. InGrace(r)' /\ AutomaticEnd(r)' = AutomaticEnd(r)
    <3>1. CASE Lapsed(r)
      BY <2>4, <3>1 DEF InGrace, AutomaticEnd
    <3>2. CASE ~Lapsed(r)
      <4>1. rows[r].state = "grace" /\ ~Lapsed(r)'
        BY <3>2 DEF InGrace, Lapsed
      <4> QED
        BY <3>2, <4>1 DEF InGrace, AutomaticEnd
    <3> QED
      BY <3>1, <3>2
  <2>6. {a \in asked' : a.basis = AutomaticEnd(r)} = {a \in asked : a.basis = AutomaticEnd(r)}
    <3>1. CASE \E p \in Person : AskForMore(p)
      <4> PICK p \in Person : AskForMore(p)
        BY <3>1
      <4> PICK o \in Row :
            /\ InGrace(o) /\ now < Until(o)
            /\ asked' = asked \cup {[year |-> YearOf(now), number |-> Cardinality(AskedIn(YearOf(now))) + 1,
                                     basis |-> AutomaticEnd(o), until |-> Until(o) + Week]}
        BY AskForMoreEffect
      <4>1. AutomaticEnd(o) = AutomaticEnd(r) => Until(o) = Until(r)
        BY DEF Until
      <4>2. AutomaticEnd(o) # AutomaticEnd(r)
        BY <2>1, <2>2, <4>1
      <4> QED
        BY <4>2
    <3>2. CASE ~\E p \in Person : AskForMore(p)
      <4>1. UNCHANGED asked
        BY <3>2 DEF Next, Tick, Paying, BeginToJoin, Join, Leave, TransferOwnership, AskOrder, WriteOrder
      <4> QED
        BY <4>1
    <3> QED
      BY <3>1, <3>2
  <2>7. Until(r)' = Until(r)
    BY <2>5, <2>6 DEF Until
  <2> QED
    BY <2>1, <2>2, <2>3, <2>5, <2>7
<1> QED
  BY <1>1, GracesInOrder, PTL DEF Spec, OverStaysOver

\* Somebody joining never makes a person rest whom the owner has given a place and who adds
\* (restQueue).
THEOREM PlacedKeepAdding == Spec => JoiningKeepsThePlaced
<1> DEFINE Kept == \A p \in Here :
       Here \subseteq Here' /\ Here' # Here /\ place[p] # 0 /\ p \notin Resting => p \notin Resting'
<1>1. IInv /\ [Next]_vars => [Kept]_vars
  <2> SUFFICES ASSUME IInv, Next, NEW p \in Here, Here \subseteq Here', Here' # Here, place[p] # 0,
                      p \notin Resting, p \in Resting'
               PROVE  FALSE
    BY DEF vars
  <2>1. /\ owner \in Here /\ IsFiniteSet(Here) /\ place \in [Person -> Nat]
        /\ joined \in [Person -> 0 .. MaxJoins + 1] /\ p \in Person
        /\ \A q \in Person : joined[q] = 0 => place[q] = 0
    BY DEF IInv, People, Here
  <2>2. PICK q \in Person : Join(q)
    <3>1. \A o \in Person : ~Leave(o)
      <4> SUFFICES ASSUME NEW o \in Person, Leave(o) PROVE FALSE
        OBVIOUS
      <4>1. o \in Here /\ joined' = [joined EXCEPT ![o] = 0]
        BY DEF Leave, Queue
      <4>2. o \notin Here'
        BY <4>1, <2>1 DEF Here
      <4> QED
        BY <4>1, <4>2
    <3>2. joined' # joined
      BY DEF Here
    <3> QED
      BY <3>1, <3>2 DEF Next, Tick, Paying, AskForMore, BeginToJoin, TransferOwnership, AskOrder, WriteOrder, people
  <2>3. /\ joined' = [joined EXCEPT ![q] = joining[q]] /\ joining[q] # 0
        /\ UNCHANGED <<now, owner, place, ordering, rows, payments, asked>>
    BY <2>2 DEF Join
  <2>4. Here' = Here \cup {q}
    BY <2>1, <2>3 DEF Here
  <2>5. q \notin Here /\ joined[q] = 0 /\ place[q] = 0 /\ q # owner
    BY <2>1, <2>4 DEF Here
  <2>6. Available' = Available
    BY <2>3 DEF Available, Live, Paid, Most, Current, Until, AutomaticEnd, InGrace, Lapsed
  <2>7. Available \in Nat
    <3> DEFINE T == {0} \cup {rows[r].quantity : r \in Live}
    <3>1. \A r \in Live : r \in Row
      BY DEF Live, Most, Paid
    <3>2. T \subseteq Quantity \cup {0} /\ 0 \in T
      BY <3>1 DEF IInv, Types, Rows
    <3>3. IsFiniteSet(Quantity \cup {0}) /\ Quantity \cup {0} \subseteq Nat
      BY FS_AddElement, RestingAssumption
    <3> HIDE DEF T
    <3>4. IsFiniteSet(T) /\ T \in SUBSET Nat /\ T # {}
      BY <3>2, <3>3, FS_Subset
    <3>5. Max(T) \in Nat
      BY <3>4, LargestElement
    <3> QED
      BY <3>5, Constants DEF Available, T
  <2> DEFINE F == {o \in Queue : RestsBefore(o, p)}
             G == {o \in Here' \ {owner} : RestsBefore(o, p)'}
             x == Available
             h == Here
  <2>8. \A o \in Person : RestsBefore(o, p) <=> place[o] < place[p]
    BY <2>1 DEF RestsBefore
  <2>9. \A o \in Person : RestsBefore(o, p)' <=> place[o] < place[p]
    BY <2>1, <2>3 DEF RestsBefore
  <2>10. place[q] < place[p]
    BY <2>1, <2>5
  <2>11. G = F \cup {q}
    BY <2>4, <2>5, <2>8, <2>9, <2>10 DEF Queue, Here
  <2>12. p \in Queue
    BY <2>3 DEF Resting, Queue
  <2>13. ~(Cardinality(F) + x < Cardinality(h))
    BY <2>12 DEF Resting
  <2>14. Cardinality(G) + x < Cardinality(h \cup {q})
    BY <2>3, <2>4, <2>6 DEF Resting, Queue
  <2>15. F \subseteq h /\ q \notin F
    BY <2>5 DEF Queue
  <2> HIDE DEF F, G, x
  <2>16. IsFiniteSet(F) /\ Cardinality(F) \in Nat /\ Cardinality(h) \in Nat
    BY <2>1, <2>15, FS_Subset, FS_CardinalityType
  <2>17. Cardinality(F \cup {q}) = Cardinality(F) + 1 /\ Cardinality(h \cup {q}) = Cardinality(h) + 1
    BY <2>1, <2>5, <2>15, <2>16, FS_AddElement
  <2> QED
    BY <2>7, <2>11, <2>13, <2>14, <2>16, <2>17 DEF x
<1> QED
  BY <1>1, GracesInOrder, PTL DEF Spec, JoiningKeepsThePlaced
-----------------------------------------------------------------------------
(***************************************************************************)
(* The room a subscription pays for: what holds in every state.            *)
(***************************************************************************)
Heard(type, p) == Note(type, p) \in heard

\* Every purchase held is of a period paid for, and with the first comes the room.
Kept ==
  /\ \A p \in Periods : Held(p) => paid[p] # NULL
  /\ \A p \in Periods : ~Held(p) => ~purchases[p].revoked
  /\ \A p \in Periods : refunds[p] # NULL => paid[p] # NULL
  /\ room # NULL <=> \E p \in Periods : Held(p)

\* A request is about something paid for, or that Apple has said.
Known(what) == what \in Told \/ \E p \in Periods : paid[p] # NULL /\ what = Sent(p)

\* What a request has read was so: a purchase once held stays held, and the room there.
HasRead(s) ==
  /\ ~Step(s, "idle") => Known(requests[s].what)
  /\ Step(s, "reading") \/ Step(s, "read") =>
       /\ requests[s].row.journey = NULL => ~requests[s].row.revoked
       /\ requests[s].row.journey # NULL =>
            purchases[requests[s].what.period].journey = requests[s].row.journey
       /\ requests[s].base # NULL => room # NULL
  /\ Step(s, "read") =>
       /\ requests[s].base # NULL \/ requests[s].row.journey # NULL => requests[s].room # NULL
       /\ requests[s].room # NULL => room # NULL

\* A purchase is held as refunded from its refund to its reversal, in whatever order they come; one
\* that was not refunded is of the journey it was paid from.
Withdrawn(p) ==
  /\ purchases[p].revoked <=> Heard("refunded", p) /\ ~Heard("reinstated", p)
  /\ Held(p) /\ ~Heard("refunded", p) => purchases[p].journey = paid[p]

Top(m) == Held(m) /\ \A q \in Periods : Held(q) => q <= m

\* The room is what the last period held makes of it.
AsPaid(m) ==
  /\ room.until <= Ends(m)
  /\ ~Heard("refunded", m) => room.until = Ends(m) /\ room.journey = paid[m] /\ ~room.refunded
  /\ purchases[m].revoked => room.until <= refunds[m] \/ room.until <= Ends(m - 1)
  /\ m = 1 /\ Heard("refunded", m) =>
       IF purchases[m].revoked THEN room.refunded ELSE room.until = Ends(m)

RoomTypes == TypeOK /\ Kept /\ \A s \in Slot : HasRead(s)

Follows ==
  /\ \A p \in Periods : Withdrawn(p)
  /\ \A m \in Periods : Top(m) => AsPaid(m)

RoomInv == RoomTypes /\ (~amiss => Follows)
-----------------------------------------------------------------------------
(***************************************************************************)
(* Periods, requests and what is said of them.                             *)
(***************************************************************************)
\* What the assumptions say of the constants.
LEMMA RoomConstants ==
  /\ NULL \notin Journey /\ NULL \notin Nat /\ NULL \notin Rooms
  /\ Length \in Nat /\ Length > 0 /\ GraceLength \in Nat /\ MaxPeriod \in Nat /\ MaxClock \in Nat
  /\ Periods \subseteq Nat /\ \A p \in Periods : p >= 1
BY StoreRoomAssumption, RoomsAssumption DEF Periods

\* Periods follow each other in time.
LEMMA PeriodsInTime ==
  ASSUME NEW p \in Periods
  PROVE  /\ Ends(p) \in Nat /\ Ends(p - 1) \in Nat
         /\ \A q \in Periods : q < p => Ends(q) < Ends(p) /\ Ends(q) <= Ends(p - 1)
<1>1. ASSUME NEW n \in Nat, NEW m \in Nat, NEW w \in Nat, n <= m
      PROVE  n * w \in Nat /\ n * w <= m * w /\ (m + 1) * w = m * w + w
  BY <1>1
<1>2. p \in Nat /\ p - 1 \in Nat /\ Length \in Nat /\ Length > 0
  BY RoomConstants
<1>3. Ends(p) \in Nat /\ Ends(p - 1) \in Nat /\ Ends(p) = Ends(p - 1) + Length
  <2>1. p = (p - 1) + 1
    BY <1>2
  <2> QED
    BY <1>1, <1>2, <2>1 DEF Ends
<1>4. ASSUME NEW q \in Periods, q < p PROVE Ends(q) <= Ends(p - 1) /\ Ends(q) \in Nat
  <2>1. q \in Nat /\ q <= p - 1
    BY RoomConstants, <1>2, <1>4
  <2> QED
    BY <1>1, <1>2, <2>1 DEF Ends
<1> QED
  BY <1>2, <1>3, <1>4

\* Notifications that differ in what they say, or in the period, differ.
LEMMA NotesApart ==
  ASSUME NEW p \in Periods, NEW q \in Periods,
         NEW a \in {"renewed", "refunded", "reinstated"}, NEW b \in {"renewed", "refunded", "reinstated"}
  PROVE  /\ Note(a, p) \in Notes /\ Note(a, p).type = a /\ Note(a, p).period = p
         /\ Note(a, p) = Note(b, q) => a = b /\ p = q
         /\ Sent(p).type = "sent" /\ Sent(p).period = p
BY DEF Note, Notes, Sent

\* A notification is what it says, of a period.
LEMMA NotesAre ==
  ASSUME NEW n \in Notes
  PROVE  /\ n.period \in Periods /\ n.type \in {"renewed", "refunded", "reinstated"}
         /\ n = Note(n.type, n.period)
BY DEF Note, Notes

\* What Apple has said of a period.
LEMMA SaidOf ==
  ASSUME NEW p \in Periods
  PROVE  /\ Note("renewed", p) \in Told <=> p # 1 /\ paid[p] # NULL
         /\ Note("refunded", p) \in Told <=> refunds[p] # NULL
         /\ Note("reinstated", p) \in Told <=> p \in reversed
BY DEF Told, Note

\* Apple says nothing else.
LEMMA ToldNotes ==
  ASSUME reversed \subseteq Periods
  PROVE  Told \subseteq Notes
BY DEF Told, Note, Notes

\* The same after a step.
LEMMA SaidOfNext ==
  ASSUME NEW p \in Periods
  PROVE  /\ (Note("renewed", p) \in Told)' <=> p # 1 /\ paid'[p] # NULL
         /\ (Note("refunded", p) \in Told)' <=> refunds'[p] # NULL
         /\ (Note("reinstated", p) \in Told)' <=> p \in reversed'
BY DEF Told, Note

\* A request is about a period.
LEMMA AboutPeriod ==
  ASSUME TypeOK, NEW what, Known(what)
  PROVE  /\ what.period \in Periods
         /\ what.type \in {"sent", "renewed", "refunded", "reinstated"}
         /\ what \in Notes \cup {Sent(p) : p \in Periods}
         /\ what.type = "sent" => what = Sent(what.period) /\ paid[what.period] # NULL
         /\ what.type # "sent" => what \in Told /\ what = Note(what.type, what.period)
<1>1. CASE what \in Told
  BY <1>1, ToldNotes, NotesAre DEF TypeOK
<1>2. CASE \E p \in Periods : paid[p] # NULL /\ what = Sent(p)
  BY <1>2 DEF Sent
<1> QED
  BY <1>1, <1>2 DEF Known
-----------------------------------------------------------------------------
\* The last period held, if one is.
LEMMA SomeTop ==
  ASSUME \E p \in Periods : Held(p)
  PROVE  \E m \in Periods : Top(m)
<1> DEFINE H == {p \in Periods : Held(p)}
<1>1. H \in SUBSET Nat /\ H # {}
  BY RoomConstants
<1>2. IsFiniteSet(H)
  <2>1. IsFiniteSet(Periods)
    BY RoomConstants, FS_Interval DEF Periods
  <2> QED
    BY <2>1, FS_Subset
<1>3. Max(H) \in H /\ \A q \in H : Max(H) >= q
  BY <1>1, <1>2, LargestElement
<1>4. Max(H) \in Periods /\ Held(Max(H)) /\ \A q \in Periods : Held(q) => q <= Max(H)
  BY <1>3, RoomConstants
<1> QED
  BY <1>4 DEF Top
-----------------------------------------------------------------------------
(***************************************************************************)
(* Types.                                                                  *)
(***************************************************************************)
Request ==
  [step : {"idle", "arrived", "reading", "read"}, what : Notes \cup {Sent(p) : p \in Periods} \cup {NULL},
   lock : Journey \cup {NULL}, room : Rooms \cup {NULL}, row : Purchases,
   base : Journey \cup {NULL}, reversal : BOOLEAN]

\* What was paid for, held and said stays so.
Grows ==
  /\ Told \subseteq Told'
  /\ \A p \in Periods : paid[p] # NULL => paid'[p] # NULL
  /\ \A p \in Periods : Held(p) => purchases'[p].journey = purchases[p].journey
  /\ room # NULL => room' # NULL

\* A request that is over has read nothing.
LEMMA IdleIsRequest ==
  /\ Idle \in Request /\ NoPurchase \in Purchases /\ Idle.step = "idle"
  /\ NoPurchase.journey = NULL /\ NoPurchase.revoked = FALSE
BY DEF Idle, Request, NoPurchase, Purchases

\* What a request has read stays so, through the steps of the others.
LEMMA StaysRead ==
  ASSUME TypeOK, Grows, NEW s \in Slot, HasRead(s), requests'[s] = requests[s]
  PROVE  HasRead(s)'
<1> DEFINE what == requests[s].what
<1>1. ASSUME ~Step(s, "idle") PROVE Known(what) /\ Known(what)' /\ what.period \in Periods
  <2>1. Known(what)
    BY <1>1 DEF HasRead
  <2>2. Known(what)'
    BY <2>1 DEF Known, Grows
  <2> QED
    BY <2>1, <2>2, AboutPeriod
<1>2. ASSUME Step(s, "reading") \/ Step(s, "read"), requests[s].row.journey # NULL
      PROVE  purchases'[what.period].journey = requests[s].row.journey
  <2>1. what.period \in Periods /\ purchases[what.period].journey = requests[s].row.journey
    BY <1>1, <1>2 DEF HasRead, Step
  <2> QED
    BY <1>2, <2>1 DEF Grows, Held
<1> QED
  BY <1>1, <1>2 DEF HasRead, Step, Grows

\* A request that finishes leaves what the others have read.
LEMMA FinishedRead ==
  ASSUME RoomTypes, Grows, NEW s \in Slot, Finished(s)
  PROVE  requests' \in [Slot -> Request] /\ \A r \in Slot : HasRead(r)'
<1>1. requests \in [Slot -> Request]
  BY DEF RoomTypes, TypeOK, Request
<1>2. requests' \in [Slot -> Request] /\ requests'[s] = Idle /\ \A r \in Slot \ {s} : requests'[r] = requests[r]
  BY <1>1, IdleIsRequest DEF Finished
<1>3. HasRead(s)'
  BY <1>2, IdleIsRequest DEF HasRead, Step
<1> QED
  BY <1>2, <1>3, StaysRead DEF RoomTypes
-----------------------------------------------------------------------------
\* The invariant holds at the start.
LEMMA RoomStart ==
  ASSUME RoomInit PROVE RoomInv
<1>1. TypeOK
  <2>1. requests \in [Slot -> Request]
    BY IdleIsRequest DEF RoomInit
  <2>2. /\ purchases \in [Periods -> Purchases] /\ clock \in 0 .. MaxClock
        /\ paid \in [Periods -> Journey \cup {NULL}] /\ refunds \in [Periods -> Nat \cup {NULL}]
    BY RoomConstants, IdleIsRequest DEF RoomInit
  <2> QED
    BY <2>1, <2>2 DEF RoomInit, TypeOK, Request
<1>2. \A p \in Periods : paid[p] = NULL /\ refunds[p] = NULL /\ purchases[p] = NoPurchase /\ ~Held(p)
  BY IdleIsRequest DEF RoomInit, Held
<1>3. Kept
  BY <1>2, IdleIsRequest DEF Kept, RoomInit
<1>4. \A s \in Slot : HasRead(s)
  BY IdleIsRequest DEF RoomInit, HasRead, Step
<1>5. Follows
  BY <1>2, IdleIsRequest DEF Follows, Withdrawn, Heard, Top, RoomInit
<1> QED
  BY <1>1, <1>3, <1>4, <1>5 DEF RoomInv, RoomTypes

\* Apple's steps change neither what is held nor what is under way.
LEMMA AppleTypes ==
  ASSUME RoomTypes, AppStore
  PROVE  RoomTypes'
<1>1. /\ UNCHANGED <<heard, purchases, room, left, requests, amiss>>
      /\ clock' \in 0 .. MaxClock
      /\ paid' \in [Periods -> Journey \cup {NULL}] /\ \A p \in Periods : paid[p] # NULL => paid'[p] = paid[p]
      /\ refunds' \in [Periods -> Nat \cup {NULL}] /\ \A p \in Periods : refunds[p] # NULL => refunds'[p] = refunds[p]
      /\ \A p \in Periods : refunds'[p] # NULL => paid'[p] # NULL
      /\ reversed \subseteq reversed' /\ reversed' \subseteq Periods
  <2>0. TypeOK /\ Kept /\ clock \in Nat
    BY RoomConstants DEF RoomTypes, TypeOK
  <2>1. CASE \E p \in Periods : \E j \in Journey : Pay(p, j)
    BY <2>0, <2>1, RoomConstants DEF Pay, TypeOK, Kept
  <2>2. CASE \E p \in Periods : Refund(p)
    BY <2>0, <2>2, RoomConstants DEF Refund, TypeOK, Kept
  <2>3. CASE \E p \in Periods : Reverse(p)
    BY <2>0, <2>3 DEF Reverse, TypeOK, Kept
  <2>4. CASE ClockTick
    BY <2>0, <2>4, RoomConstants DEF ClockTick, apple, TypeOK, Kept
  <2> QED
    BY <2>1, <2>2, <2>3, <2>4 DEF AppStore
<1>2. Told \subseteq Told'
  BY <1>1 DEF Told
<1>3. Grows
  BY <1>1, <1>2 DEF Grows
<1>4. TypeOK'
  BY <1>1, <1>2 DEF RoomTypes, TypeOK
<1>5. Kept'
  BY <1>1 DEF RoomTypes, Kept, Held
<1>6. \A s \in Slot : HasRead(s)'
  BY <1>1, <1>3, StaysRead DEF RoomTypes
<1> QED
  BY <1>4, <1>5, <1>6 DEF RoomTypes
-----------------------------------------------------------------------------
\* The journey of the latest purchase held is one only if a purchase is held.
LEMMA BaseIs ==
  ASSUME TypeOK
  PROVE  Base \in Journey \cup {NULL} /\ (Base # NULL => \E p \in Periods : Held(p))
<1>1. CASE \A q \in Periods : ~Held(q)
  BY <1>1 DEF Base
<1>2. CASE \E q \in Periods : Held(q)
  <2> DEFINE latest == CHOOSE p \in Periods : Held(p) /\ \A q \in Periods : Held(q) => q <= p
  <2>1. latest \in Periods
    BY <1>2, SomeTop DEF Top
  <2>2. Base = purchases[latest].journey
    BY <1>2 DEF Base
  <2> HIDE DEF latest
  <2> QED
    BY <1>2, <2>1, <2>2 DEF TypeOK, Purchases
<1> QED
  BY <1>1, <1>2

\* A step that only notes what a request has come to.
LEMMA OnlyReads ==
  ASSUME RoomTypes, NEW s \in Slot, NEW new \in Request,
         UNCHANGED <<clock, apple, heard, purchases, room, left, amiss>>,
         requests' = [requests EXCEPT ![s] = new], HasRead(s)'
  PROVE  RoomTypes'
<1>1. Told' = Told
  BY DEF Told, apple
<1>2. Grows
  BY <1>1 DEF Grows, apple
<1>3. requests \in [Slot -> Request]
  BY DEF RoomTypes, TypeOK, Request
<1>4. requests' \in [Slot -> Request] /\ \A r \in Slot \ {s} : requests'[r] = requests[r]
  BY <1>3
<1>5. \A r \in Slot : HasRead(r)'
  BY <1>2, <1>4, StaysRead DEF RoomTypes
<1>6. TypeOK'
  BY <1>1, <1>4 DEF RoomTypes, TypeOK, Request, apple
<1>7. Kept'
  BY DEF RoomTypes, Kept, Held, apple
<1> QED
  BY <1>5, <1>6, <1>7 DEF RoomTypes

\* Sending, reading and giving up keep the types.
LEMMA ReadTypes ==
  ASSUME RoomTypes, NEW s \in Slot,
         \/ Read(s) \/ Lock(s) \/ Drop(s) \/ Fail(s)
         \/ (\E p \in Periods : Send(s, p)) \/ (\E n \in Notes : Notify(s, n))
  PROVE  RoomTypes'
<1>0. requests \in [Slot -> Request] /\ requests[s] \in Request /\ HasRead(s) /\ TypeOK
  BY DEF RoomTypes, TypeOK, Request
<1>1. ASSUME NEW p \in Periods, Send(s, p) PROVE RoomTypes'
  <2> DEFINE new == [Idle EXCEPT !.step = "arrived", !.what = Sent(p)]
  <2>1. new \in Request /\ new.step = "arrived" /\ new.what = Sent(p)
    BY DEF Idle, Request, NoPurchase, Purchases
  <2>2. requests' = [requests EXCEPT ![s] = new]
    BY <1>1 DEF Send
  <2> HIDE DEF new
  <2>3. requests'[s] = new
    BY <1>0, <2>2
  <2>4. Known(Sent(p))'
    BY <1>1 DEF Send, Known, apple
  <2>5. HasRead(s)'
    BY <2>1, <2>3, <2>4 DEF HasRead, Step
  <2> QED
    BY <1>1, <2>1, <2>2, <2>5, OnlyReads DEF Send
<1>2. ASSUME NEW n \in Notes, Notify(s, n) PROVE RoomTypes'
  <2> DEFINE new == [Idle EXCEPT !.step = "arrived", !.what = n]
  <2>1. new \in Request /\ new.step = "arrived" /\ new.what = n
    BY DEF Idle, Request, NoPurchase, Purchases
  <2>2. requests' = [requests EXCEPT ![s] = new]
    BY <1>2 DEF Notify
  <2> HIDE DEF new
  <2>3. requests'[s] = new
    BY <1>0, <2>2
  <2>4. Known(n)'
    BY <1>2 DEF Notify, Known, Told, apple
  <2>5. HasRead(s)'
    BY <2>1, <2>3, <2>4 DEF HasRead, Step
  <2> QED
    BY <1>2, <2>1, <2>2, <2>5, OnlyReads DEF Notify
<1>3. CASE Read(s)
  <2> DEFINE what == requests[s].what
             p    == what.period
             lock == CASE what.type = "sent" /\ Held(p) -> NULL
                       [] what.type = "sent" /\ ~Held(p) -> paid[p]
                       [] what.type # "sent" /\ room # NULL -> room.journey
                       [] OTHER -> NULL
             new == [requests[s] EXCEPT !.step = "reading", !.row = purchases[p], !.base = Base,
                       !.reversal = ReversedSince(p), !.lock = lock]
  <2>1. Known(what) /\ p \in Periods
    BY <1>0, <1>3, AboutPeriod DEF HasRead, Read, Step
  <2>2. lock \in Journey \cup {NULL}
    <3>1. paid[p] \in Journey \cup {NULL} /\ (room # NULL => room.journey \in Journey)
      BY <1>0, <2>1 DEF TypeOK, Rooms
    <3>2. CASE what.type = "sent" /\ Held(p)
      BY <3>2
    <3>3. CASE what.type = "sent" /\ ~Held(p)
      BY <3>1, <3>3
    <3>4. CASE what.type # "sent" /\ room # NULL
      BY <3>1, <3>4
    <3>5. CASE what.type # "sent" /\ room = NULL
      BY <3>5
    <3> QED
      BY <3>2, <3>3, <3>4, <3>5
  <2>3. /\ purchases[p] \in Purchases /\ Base \in Journey \cup {NULL} /\ ReversedSince(p) \in BOOLEAN
        /\ (Base # NULL => room # NULL) /\ (~Held(p) => ~purchases[p].revoked)
    BY <1>0, <2>1, BaseIs DEF TypeOK, ReversedSince, RoomTypes, Kept
  <2>4. requests' = [requests EXCEPT ![s] = new]
    BY <1>3 DEF Read
  <2> HIDE DEF lock
  <2>5. /\ new \in Request /\ new.step = "reading" /\ new.what = what
        /\ new.row = purchases[p] /\ new.base = Base
    BY <1>0, <2>2, <2>3 DEF Request
  <2> HIDE DEF new
  <2>6. requests'[s] = new
    BY <1>0, <2>4
  <2>7. Known(requests[s].what)'
    <3>1. Told' = Told /\ paid' = paid
      BY <1>3 DEF Read, apple, Told
    <3>2. requests'[s].what = requests[s].what
      BY <2>5, <2>6
    <3> QED
      BY <2>1, <3>1, <3>2 DEF Known
  <2>8. HasRead(s)'
    <3>1. purchases' = purchases /\ room' = room
      BY <1>3 DEF Read
    <3>2. new.row.journey = NULL => ~new.row.revoked
      BY <2>3, <2>5 DEF Held
    <3>3. purchases'[new.what.period].journey = new.row.journey
      BY <2>5, <3>1
    <3>4. new.base # NULL => room' # NULL
      BY <2>3, <2>5, <3>1
    <3> QED
      BY <2>5, <2>6, <2>7, <3>2, <3>3, <3>4 DEF HasRead, Step
  <2> QED
    BY <1>3, <2>4, <2>5, <2>8, OnlyReads DEF Read
<1>4. CASE Lock(s)
  <2> DEFINE new == [requests[s] EXCEPT !.step = "read", !.room = room]
  <2>1. /\ new \in Request /\ new.step = "read" /\ new.room = room /\ new.what = requests[s].what
        /\ new.row = requests[s].row /\ new.base = requests[s].base
    BY <1>0 DEF TypeOK, Request
  <2>2. requests' = [requests EXCEPT ![s] = new]
    BY <1>4 DEF Lock
  <2> HIDE DEF new
  <2>3. requests'[s] = new
    BY <1>0, <2>2
  <2>4. Known(requests[s].what) /\ Known(requests[s].what)' /\ requests[s].what.period \in Periods
    <3>1. Told' = Told /\ paid' = paid
      BY <1>4 DEF Lock, apple, Told
    <3> QED
      BY <1>0, <1>4, <3>1, AboutPeriod DEF Known, HasRead, Lock, Step
  <2>5. requests[s].row.journey # NULL => room # NULL
    BY <1>0, <1>4, <2>4 DEF RoomTypes, Kept, HasRead, Held, Lock, Step
  <2>6. HasRead(s)'
    BY <1>0, <1>4, <2>1, <2>3, <2>4, <2>5 DEF HasRead, Step, Lock
  <2> QED
    BY <1>4, <2>1, <2>2, <2>6, OnlyReads DEF Lock
<1>5. CASE Drop(s) \/ Fail(s)
  <2>1. requests' = [requests EXCEPT ![s] = Idle] /\ requests'[s] = Idle
    BY <1>0, <1>5 DEF Drop, Fail, Finished
  <2>2. HasRead(s)'
    BY <2>1, IdleIsRequest DEF HasRead, Step
  <2> QED
    BY <1>5, <2>1, <2>2, IdleIsRequest, OnlyReads DEF Drop, Fail
<1> QED
  BY <1>1, <1>2, <1>3, <1>4, <1>5

\* What a request that is about to write knows of its period, of the room and of its purchase.
LEMMA WhatIsRead ==
  ASSUME RoomTypes, NEW s \in Slot, Step(s, "read")
  PROVE  LET q == requests[s]
             p == q.what.period
         IN /\ p \in Periods /\ q \in Request /\ Known(q.what)
            /\ q.what.type = "sent" => q.what = Sent(p) /\ paid[p] # NULL
            /\ q.what.type # "sent" => q.what \in Told /\ q.what = Note(q.what.type, p)
            /\ q.row = NoPurchase \/ (q.row.journey \in Journey /\ Held(p) /\ purchases[p].journey = q.row.journey)
            /\ q.row # NoPurchase => q.room \in Rooms /\ room \in Rooms
            /\ q.base # NULL => q.room \in Rooms /\ room \in Rooms /\ q.base \in Journey
            /\ q.row.revoked => q.row # NoPurchase
<1> DEFINE q == requests[s]
           p == q.what.period
<1>1. q \in Request /\ HasRead(s) /\ TypeOK /\ Kept
  BY DEF RoomTypes, TypeOK, Request
<1>2. Known(q.what)
  BY <1>1 DEF HasRead, Step
<1>3. /\ p \in Periods
      /\ q.what.type = "sent" => q.what = Sent(p) /\ paid[p] # NULL
      /\ q.what.type # "sent" => q.what \in Told /\ q.what = Note(q.what.type, p)
  BY <1>1, <1>2, AboutPeriod
<1>4. /\ q.row \in Purchases /\ q.room \in Rooms \cup {NULL} /\ q.base \in Journey \cup {NULL}
      /\ room \in Rooms \cup {NULL}
  BY <1>1 DEF Request, TypeOK
<1>5. q.row.journey = NULL => q.row = NoPurchase
  <2>1. q.row.journey = NULL => q.row.revoked = FALSE
    BY <1>1, <1>4 DEF HasRead, Step, Purchases
  <2> QED
    BY <1>4, <2>1 DEF Purchases, NoPurchase
<1>6. q.row.journey # NULL => /\ q.row.journey \in Journey /\ Held(p) /\ purchases[p].journey = q.row.journey
                              /\ q.room # NULL /\ room # NULL
  BY <1>1, <1>3, <1>4 DEF HasRead, Step, Held, Kept, Purchases
<1>7. q.base # NULL => q.room # NULL /\ room # NULL
  BY <1>1 DEF HasRead, Step
<1> QED
  BY <1>1, <1>2, <1>3, <1>4, <1>5, <1>6, <1>7, IdleIsRequest

\* A grant leaves a room.
LEMMA GrantRoom ==
  ASSUME TypeOK, NEW held \in Rooms \cup {NULL}, NEW j \in Journey, NEW until \in Nat,
         room = NULL => held = NULL, GrantSubscription(held, j, until)
  PROVE  /\ room' \in Rooms /\ left' \subseteq [journey : Journey, until : Nat]
<1> DEFINE new == [journey |-> j, until |-> until, refunded |-> FALSE]
<1>1. new \in Rooms
  BY DEF Rooms
<1>2. room' = new \/ (room' = room /\ held # NULL)
  BY DEF GrantSubscription
<1>3. left' \subseteq [journey : Journey, until : Nat]
  <2>1. CASE left' = left
    BY <2>1 DEF TypeOK
  <2>2. CASE left' # left
    <3>1. held \in Rooms /\ left' = left \cup {[journey |-> held.journey, until |-> GraceLeftBehind(held)]}
      BY <2>2 DEF GrantSubscription
    <3>2. held.journey \in Journey /\ GraceLeftBehind(held) \in Nat
      BY <3>1, RoomConstants DEF GraceLeftBehind, Rooms, TypeOK
    <3> QED
      BY <3>1, <3>2 DEF TypeOK
  <2> QED
    BY <2>1, <2>2
<1> QED
  BY <1>1, <1>2, <1>3 DEF TypeOK

\* A step that writes: what it has to keep for the rest to keep its shape.
LEMMA Writes ==
  ASSUME RoomTypes, NEW s \in Slot, Finished(s), UNCHANGED <<clock, apple>>,
         amiss' \in BOOLEAN, heard' \subseteq Told,
         purchases' \in [Periods -> Purchases],
         room' \in Rooms \cup {NULL}, room # NULL => room' # NULL,
         room' # NULL <=> (\E p \in Periods : Held(p))',
         left' \subseteq [journey : Journey, until : Nat],
         \A p \in Periods : Held(p) => purchases'[p].journey = purchases[p].journey,
         \A p \in Periods : purchases'[p].journey # NULL => paid[p] # NULL,
         \A p \in Periods : purchases'[p].journey = NULL => ~purchases'[p].revoked
  PROVE  RoomTypes'
<1>1. Told' = Told
  BY DEF Told, apple
<1>2. Grows
  BY <1>1 DEF Grows, apple
<1>3. requests' \in [Slot -> Request] /\ \A r \in Slot : HasRead(r)'
  BY <1>2, FinishedRead
<1>4. TypeOK'
  BY <1>1, <1>3 DEF RoomTypes, TypeOK, Request, apple
<1>5. Kept'
  BY DEF RoomTypes, Kept, Held, apple
<1> QED
  BY <1>3, <1>4, <1>5 DEF RoomTypes

\* The requests that write keep the types: a purchase not held,
LEMMA GrantTypes ==
  ASSUME RoomTypes, NEW s \in Slot, Grant(s)
  PROVE  RoomTypes'
<1> DEFINE p == requests[s].what.period
<1>0. Step(s, "read") /\ TypeOK /\ Kept /\ p \in Periods /\ requests[s].what.type = "sent" /\ paid[p] # NULL
      /\ requests[s].room \in Rooms \cup {NULL}
  BY WhatIsRead DEF Grant, RoomTypes, Request
<1>1. /\ Finished(s) /\ UNCHANGED <<clock, apple>> /\ heard' \subseteq Told /\ amiss' \in BOOLEAN
  BY <1>0 DEF Grant, TypeOK, Amiss, Stale, ReversedSince
<1>2. CASE UNCHANGED <<purchases, room, left>>
  BY <1>0, <1>1, <1>2, Writes DEF TypeOK, Kept, Held
<1>3. CASE ~UNCHANGED <<purchases, room, left>>
  <2> DEFINE new == [NoPurchase EXCEPT !.journey = paid[p]]
  <2>1. /\ ~Held(p) /\ (requests[s].room # NULL \/ room = NULL)
        /\ purchases' = [purchases EXCEPT ![p] = new]
        /\ GrantSubscription(requests[s].room, paid[p], Ends(p))
    BY <1>3 DEF Grant
  <2>2. new \in Purchases /\ new.journey = paid[p] /\ paid[p] \in Journey /\ new.revoked = FALSE
    BY <1>0 DEF NoPurchase, Purchases, TypeOK
  <2> HIDE DEF new
  <2>3. room = NULL => requests[s].room = NULL
    BY <1>0 DEF RoomTypes, HasRead
  <2>4. room' \in Rooms /\ left' \subseteq [journey : Journey, until : Nat]
    BY <1>0, <2>1, <2>2, <2>3, GrantRoom, PeriodsInTime
  <2>5. /\ purchases' \in [Periods -> Purchases] /\ purchases'[p] = new
        /\ \A q \in Periods \ {p} : purchases'[q] = purchases[q]
    BY <1>0, <2>1, <2>2 DEF TypeOK
  <2> QED
    BY <1>0, <1>1, <2>1, <2>2, <2>4, <2>5, RoomConstants, Writes DEF Kept, Held
<1> QED
  BY <1>2, <1>3

\* one sent again,
LEMMA ReplayTypes ==
  ASSUME RoomTypes, NEW s \in Slot, Replay(s)
  PROVE  RoomTypes'
<1> DEFINE p == requests[s].what.period
           row == requests[s].row
<1>0. /\ Step(s, "read") /\ TypeOK /\ Kept /\ p \in Periods
      /\ requests[s].room \in Rooms /\ room \in Rooms /\ row.journey \in Journey
  BY WhatIsRead DEF Replay, RoomTypes
<1>1. Finished(s) /\ UNCHANGED <<clock, apple, purchases>> /\ heard' \subseteq Told /\ amiss' \in BOOLEAN
  BY <1>0 DEF Replay, TypeOK, Amiss, Stale, ReversedSince
<1>2. room' \in Rooms /\ left' \subseteq [journey : Journey, until : Nat]
  <2>1. CASE UNCHANGED <<room, left>>
    BY <1>0, <2>1 DEF TypeOK
  <2>2. CASE GrantSubscription(requests[s].room, row.journey, Ends(p))
    <3>1. room = NULL => requests[s].room = NULL
      BY <1>0, RoomConstants
    <3> QED
      BY <1>0, <2>2, <3>1, GrantRoom, PeriodsInTime
  <2> QED
    BY <2>1, <2>2 DEF Replay
<1> QED
  BY <1>0, <1>1, <1>2, RoomConstants, Writes DEF TypeOK, Kept, Held

\* Hearing a notification adds it to those heard.
LEMMA HearTypes ==
  ASSUME RoomTypes, NEW s \in Slot, NEW type \in {"renewed", "refunded", "reinstated"}, Hear(s, type)
  PROVE  LET p == requests[s].what.period
         IN /\ Step(s, "read") /\ p \in Periods /\ Finished(s) /\ UNCHANGED <<clock, apple, left>>
            /\ Note(type, p) \in Told /\ heard' = heard \cup {Note(type, p)} /\ heard' \subseteq Told
<1> DEFINE p == requests[s].what.period
<1>1. /\ Step(s, "read") /\ requests[s].what.type = type /\ Finished(s) /\ UNCHANGED <<clock, apple, left>>
      /\ heard' = heard \cup {requests[s].what}
  BY DEF Hear
<1>2. p \in Periods /\ requests[s].what \in Told /\ requests[s].what = Note(type, p)
  BY <1>1, WhatIsRead
<1> QED
  BY <1>1, <1>2 DEF RoomTypes, TypeOK

\* a notification about nothing held,
LEMMA UnknownTypes ==
  ASSUME RoomTypes, NEW s \in Slot, Unknown(s)
  PROVE  RoomTypes'
<1>1. PICK type \in {"renewed", "refunded", "reinstated"} : Hear(s, type)
  BY DEF Unknown
<1>2. Finished(s) /\ UNCHANGED <<clock, apple, left>> /\ heard' \subseteq Told
  BY <1>1, HearTypes
<1>3. UNCHANGED <<purchases, room>> /\ amiss' \in BOOLEAN
  BY DEF Unknown
<1> QED
  BY <1>2, <1>3, Writes DEF RoomTypes, TypeOK, Kept, Held

\* a renewal,
LEMMA RenewedTypes ==
  ASSUME RoomTypes, NEW s \in Slot, Renewed(s)
  PROVE  RoomTypes'
<1> DEFINE p == requests[s].what.period
           held == requests[s].room
           new == [journey |-> held.journey, revoked |-> FALSE]
<1>1. /\ Step(s, "read") /\ p \in Periods /\ Finished(s) /\ UNCHANGED <<clock, apple, left>>
      /\ Note("renewed", p) \in Told /\ heard' \subseteq Told
  BY HearTypes DEF Renewed
<1>2. held \in Rooms /\ room \in Rooms /\ TypeOK /\ Kept /\ paid[p] # NULL
  BY <1>1, WhatIsRead, SaidOf DEF Renewed, RoomTypes
<1>3. new \in Purchases /\ new.journey # NULL
  BY <1>2, RoomConstants DEF Purchases, Rooms
<1>4. UNCHANGED purchases \/ (~Held(p) /\ purchases' = [purchases EXCEPT ![p] = new])
  BY DEF Renewed, Recorded
<1>5. room' \in Rooms
  <2>1. Ends(p) \in Nat
    BY <1>1, PeriodsInTime
  <2>2. room' = room \/ room' = [room EXCEPT !.until = Ends(p), !.refunded = FALSE]
    BY DEF Renewed
  <2> QED
    BY <1>2, <2>1, <2>2 DEF Rooms
<1>6. amiss' \in BOOLEAN
  BY <1>2 DEF Renewed, Amiss, Stale, ReversedSince, TypeOK
<1> HIDE DEF new
<1>7. /\ purchases' \in [Periods -> Purchases] /\ \A q \in Periods \ {p} : purchases'[q] = purchases[q]
      /\ purchases'[p] = purchases[p] \/ (~Held(p) /\ purchases'[p] = new)
  BY <1>1, <1>2, <1>3, <1>4 DEF TypeOK
<1>8. \E q \in Periods : Held(q)
  BY <1>2, RoomConstants DEF Kept
<1> QED
  BY <1>1, <1>2, <1>3, <1>5, <1>6, <1>7, <1>8, RoomConstants, Writes DEF Kept, Held, TypeOK

\* a refund,
LEMMA RefundedTypes ==
  ASSUME RoomTypes, NEW s \in Slot, Refunded(s)
  PROVE  RoomTypes'
<1> DEFINE p == requests[s].what.period
           held == requests[s].room
           first == [journey |-> requests[s].base, revoked |-> TRUE]
           withdrawn == [purchases[p] EXCEPT !.revoked = TRUE]
           until == IF held.until < refunds[p] THEN held.until ELSE refunds[p]
<1>1. /\ Step(s, "read") /\ p \in Periods /\ Finished(s) /\ UNCHANGED <<clock, apple, left>>
      /\ Note("refunded", p) \in Told /\ heard' \subseteq Told
  BY HearTypes DEF Refunded
<1>2. /\ held \in Rooms /\ room \in Rooms /\ requests[s].base \in Journey
      /\ TypeOK /\ Kept /\ paid[p] # NULL /\ refunds[p] \in Nat
      /\ requests[s].row # NoPurchase => Held(p)
  BY <1>1, WhatIsRead, SaidOf DEF Refunded, RoomTypes, Kept, TypeOK
<1>3. room' \in Rooms
  <2>1. until \in Nat
    BY <1>2 DEF Rooms
  <2>2. room' = room \/ room' = [room EXCEPT !.until = until, !.refunded = TRUE]
    BY DEF Refunded
  <2> HIDE DEF until
  <2> QED
    BY <1>2, <2>1, <2>2 DEF Rooms
<1>4. /\ first \in Purchases /\ first.journey # NULL
      /\ withdrawn \in Purchases /\ withdrawn.journey = purchases[p].journey
  <2>1. purchases[p] \in Purchases
    BY <1>1, <1>2 DEF TypeOK
  <2>2. withdrawn \in Purchases /\ withdrawn.journey = purchases[p].journey
    BY <2>1 DEF Purchases
  <2>3. first \in Purchases /\ first.journey # NULL
    BY <1>2, RoomConstants DEF Purchases
  <2> QED
    BY <2>2, <2>3
<1>5. \/ UNCHANGED purchases
      \/ ~Held(p) /\ purchases' = [purchases EXCEPT ![p] = first]
      \/ Held(p) /\ purchases' = [purchases EXCEPT ![p] = withdrawn]
  <2>1. \/ purchases' = purchases
        \/ requests[s].row = NoPurchase /\ purchases' = Recorded(p, requests[s].base, TRUE)
        \/ requests[s].row # NoPurchase /\ purchases' = [purchases EXCEPT ![p] = withdrawn]
    BY DEF Refunded
  <2>2. Recorded(p, requests[s].base, TRUE) = IF Held(p) THEN purchases ELSE [purchases EXCEPT ![p] = first]
    BY DEF Recorded
  <2> HIDE DEF first, withdrawn
  <2> QED
    BY <1>2, <2>1, <2>2
<1>6. amiss' \in BOOLEAN
  BY <1>2 DEF Refunded, Amiss, Stale, ReversedSince, TypeOK
<1> HIDE DEF first, withdrawn
<1>7. /\ purchases' \in [Periods -> Purchases] /\ \A q \in Periods \ {p} : purchases'[q] = purchases[q]
      /\ \/ purchases'[p] = purchases[p]
         \/ ~Held(p) /\ purchases'[p] = first
         \/ Held(p) /\ purchases'[p].journey = purchases[p].journey
  BY <1>1, <1>2, <1>4, <1>5 DEF TypeOK
<1>8. \E q \in Periods : Held(q)
  BY <1>2, RoomConstants DEF Kept
<1> QED
  BY <1>1, <1>2, <1>3, <1>4, <1>6, <1>7, <1>8, RoomConstants, Writes DEF Kept, Held, TypeOK

\* and a reversal.
LEMMA ReinstatedTypes ==
  ASSUME RoomTypes, NEW s \in Slot, Reinstated(s)
  PROVE  RoomTypes'
<1> DEFINE p == requests[s].what.period
           held == requests[s].room
           until == IF held.until > Ends(p) THEN held.until ELSE Ends(p)
           back == [purchases[p] EXCEPT !.revoked = FALSE]
<1>1. /\ Step(s, "read") /\ p \in Periods /\ Finished(s) /\ UNCHANGED <<clock, apple, left>>
      /\ heard' \subseteq Told
  BY HearTypes DEF Reinstated
<1>2. held \in Rooms /\ room \in Rooms /\ TypeOK /\ Kept /\ (requests[s].row.revoked => Held(p))
  BY <1>1, WhatIsRead DEF Reinstated, RoomTypes
<1>3. room' \in Rooms
  <2>1. until \in Nat
    BY <1>1, <1>2, PeriodsInTime DEF Rooms
  <2>2. room' = room \/ room' = [room EXCEPT !.until = until, !.refunded = FALSE]
    BY DEF Reinstated
  <2> HIDE DEF until
  <2> QED
    BY <1>2, <2>1, <2>2 DEF Rooms
<1>4. amiss' \in BOOLEAN
  BY <1>2 DEF Reinstated, Amiss, Stale, ReversedSince, TypeOK
<1>5. UNCHANGED purchases \/ (Held(p) /\ purchases' = [purchases EXCEPT ![p] = back])
  BY <1>2 DEF Reinstated
<1>6. back \in Purchases /\ back.journey = purchases[p].journey
  BY <1>1, <1>2 DEF TypeOK, Purchases
<1> HIDE DEF back
<1>7. /\ purchases' \in [Periods -> Purchases] /\ \A q \in Periods \ {p} : purchases'[q] = purchases[q]
      /\ purchases'[p].journey = purchases[p].journey
      /\ purchases'[p] = purchases[p] \/ Held(p)
  BY <1>1, <1>2, <1>5, <1>6 DEF TypeOK
<1>8. \E q \in Periods : Held(q)
  BY <1>2, RoomConstants DEF Kept
<1> QED
  BY <1>1, <1>2, <1>3, <1>4, <1>7, <1>8, RoomConstants, Writes DEF Kept, Held, TypeOK

\* Every step keeps the types.
LEMMA StepTypes ==
  ASSUME RoomTypes, [RoomNext]_roomVars
  PROVE  RoomTypes'
<1>1. ASSUME NEW s \in Slot, Handling(s) PROVE RoomTypes'
  BY <1>1, ReadTypes, GrantTypes, ReplayTypes, UnknownTypes, RenewedTypes, RefundedTypes, ReinstatedTypes
     DEF Handling
<1>2. CASE UNCHANGED roomVars
  BY <1>2 DEF roomVars, apple, RoomTypes, TypeOK, Told, Kept, Held, HasRead, Step, Known
<1> QED
  BY <1>1, <1>2, AppleTypes, ReadTypes DEF RoomNext
-----------------------------------------------------------------------------
(***************************************************************************)
(* The room follows the last period held.                                  *)
(***************************************************************************)
\* A request that is not amiss has read what is so when it writes.
LEMMA Fresh ==
  ASSUME RoomTypes, NEW s \in Slot, Step(s, "read"), Amiss(s), ~amiss'
  PROVE  /\ ~amiss /\ requests[s].room = room
         /\ requests[s].row = purchases[requests[s].what.period]
         /\ requests[s].reversal = Heard("reinstated", requests[s].what.period)
BY DEF Amiss, Stale, ReversedSince, Heard

\* What is heard is what was heard before, and the one received.
LEMMA HeardNext ==
  ASSUME NEW a \in {"renewed", "refunded", "reinstated"}, NEW p \in Periods,
         heard' = heard \cup {Note(a, p)}
  PROVE  \A b \in {"renewed", "refunded", "reinstated"} : \A q \in Periods :
           Heard(b, q)' <=> Heard(b, q) \/ (a = b /\ p = q)
BY NotesApart DEF Heard

\* A refund that is heard of happened.
LEMMA HeardOf ==
  ASSUME TypeOK, NEW p \in Periods, Heard("refunded", p)
  PROVE  refunds[p] \in Nat
BY SaidOf DEF TypeOK, Heard

\* A purchase held has a journey, was paid for, and comes with a room.
LEMMA HeldTypes ==
  ASSUME RoomTypes, NEW p \in Periods
  PROVE  /\ purchases[p] \in Purchases
         /\ purchases[p] = NoPurchase <=> ~Held(p)
         /\ Held(p) => room \in Rooms /\ paid[p] \in Journey /\ purchases[p].journey \in Journey
<1>1. purchases[p] \in Purchases
  BY DEF RoomTypes, TypeOK
<1>2. ~Held(p) => purchases[p] = NoPurchase
  BY <1>1 DEF RoomTypes, Kept, Held, Purchases, NoPurchase
<1> QED
  BY <1>1, <1>2, IdleIsRequest DEF RoomTypes, TypeOK, Kept, Held, Purchases

\* Where there is a room, some period held is the last.
LEMMA TheTop ==
  ASSUME RoomTypes, room # NULL
  PROVE  \E t \in Periods : Top(t)
BY SomeTop DEF RoomTypes, Kept

\* There is one last period held.
LEMMA OneTop ==
  ASSUME NEW t \in Periods, NEW m \in Periods, Top(t), Top(m)
  PROVE  t = m
BY RoomConstants DEF Top

\* After a step about period p: the last period held is the one it was, or p.
LEMMA TopNext ==
  ASSUME NEW p \in Periods, NEW t \in Periods, Top(t), NEW m \in Periods, Top(m)',
         \A q \in Periods \ {p} : purchases'[q] = purchases[q],
         Held(p) => Held(p)'
  PROVE  /\ m = t \/ (m = p /\ p > t /\ ~Held(p) /\ Held(p)')
         /\ Held(p) => m = t /\ p <= t
         /\ p < t => m = t
BY RoomConstants DEF Top, Held

\* The room is to the end of the last period held, and not refunded.
LEMMA ToItsEnd ==
  ASSUME NEW m \in Periods, room' \in Rooms, room'.until = Ends(m), ~room'.refunded,
         ~Heard("refunded", m)' => room'.journey = paid'[m], ~purchases'[m].revoked
  PROVE  AsPaid(m)'
<1>1. Ends(m)' = Ends(m) /\ Ends(m) \in Nat
  BY PeriodsInTime DEF Ends
<1> QED
  BY <1>1 DEF AsPaid

\* What happens to an earlier period does no more than the last one's refund allows.
LEMMA AnEarlierOne ==
  ASSUME RoomTypes, NEW t \in Periods, NEW p \in Periods, p < t, AsPaid(t), room \in Rooms, room' \in Rooms,
         Heard("refunded", t)' <=> Heard("refunded", t), purchases'[t] = purchases[t],
         UNCHANGED apple, purchases[t].revoked => Heard("refunded", t),
         \/ room' = room
         \/ Heard("refunded", t) /\ (room'.until <= room.until \/ room'.until = Ends(p))
  PROVE  AsPaid(t)'
<1>1. /\ Ends(t) \in Nat /\ Ends(t - 1) \in Nat /\ Ends(p) \in Nat /\ Ends(p) < Ends(t) /\ Ends(p) <= Ends(t - 1)
      /\ t # 1
  BY PeriodsInTime, RoomConstants
<1>2. room.until \in Nat /\ room'.until \in Nat /\ paid'[t] = paid[t] /\ refunds'[t] = refunds[t]
  BY DEF Rooms, apple
<1>3. Heard("refunded", t) => refunds[t] \in Nat
  BY HeardOf DEF RoomTypes
<1>4. CASE room' = room
  BY <1>1, <1>2, <1>4 DEF AsPaid
<1>5. CASE Heard("refunded", t) /\ room'.until <= room.until
  <2>1. room'.until <= Ends(t)
    BY <1>1, <1>2, <1>5 DEF AsPaid
  <2>2. purchases[t].revoked => room'.until <= refunds[t] \/ room'.until <= Ends(t - 1)
    BY <1>1, <1>2, <1>3, <1>5 DEF AsPaid
  <2> QED
    BY <1>1, <1>2, <1>5, <2>1, <2>2 DEF AsPaid
<1>6. CASE Heard("refunded", t) /\ room'.until = Ends(p)
  BY <1>1, <1>2, <1>6 DEF AsPaid
<1> QED
  BY <1>4, <1>5, <1>6

\* Nothing happened to what was held.
LEMMA SameRoom ==
  ASSUME RoomTypes, Follows, UNCHANGED <<heard, purchases, room>>,
         \A p \in Periods : paid[p] # NULL => paid'[p] = paid[p],
         \A p \in Periods : refunds[p] # NULL => refunds'[p] = refunds[p]
  PROVE  Follows'
<1>1. ASSUME NEW p \in Periods PROVE Withdrawn(p)'
  BY <1>1 DEF Follows, Withdrawn, Held, Heard, RoomTypes, Kept
<1>2. ASSUME NEW m \in Periods, Top(m)' PROVE AsPaid(m)'
  <2>1. Top(m) /\ AsPaid(m) /\ paid'[m] = paid[m]
    BY <1>2 DEF Follows, Top, Held, RoomTypes, Kept
  <2>2. purchases[m].revoked => refunds'[m] = refunds[m]
    BY HeardOf, RoomConstants DEF Follows, Withdrawn, RoomTypes
  <2> QED
    BY <2>1, <2>2 DEF AsPaid, Heard
<1> QED
  BY <1>1, <1>2 DEF Follows

\* The room as it is granted for a period.
Granted(j, p) == [journey |-> j, until |-> Ends(p), refunded |-> FALSE]

\* Its parts.
LEMMA GrantedFields ==
  ASSUME NEW j \in Journey, NEW p \in Periods
  PROVE  /\ Granted(j, p) \in Rooms /\ Granted(j, p).journey = j
         /\ Granted(j, p).until = Ends(p) /\ Granted(j, p).refunded = FALSE
BY PeriodsInTime DEF Granted, Rooms

\* A grant leaves the room as it was, if that is longer, or makes it the one granted.
LEMMA GrantSays ==
  ASSUME NEW j \in Journey, NEW p \in Periods, room \in Rooms \cup {NULL}, GrantSubscription(room, j, Ends(p))
  PROVE  /\ room = NULL => room' = Granted(j, p)
         /\ room \in Rooms => /\ room' = room \/ room' = Granted(j, p)
                              /\ room' # room => Ends(p) >= room.until
                              /\ Ends(p) > room.until => room' = Granted(j, p)
<1>1. CASE room = NULL
  BY <1>1, RoomConstants DEF GrantSubscription, Granted
<1>2. CASE room \in Rooms
  <2>1. room # NULL /\ room.until \in Nat /\ Ends(p) \in Nat
    BY <1>2, RoomConstants, PeriodsInTime DEF Rooms
  <2>2. room' = IF Newer(room, j, Ends(p)) THEN Granted(j, p) ELSE room
    BY <2>1 DEF GrantSubscription, Granted
  <2> QED
    BY <2>1, <2>2 DEF Newer
<1> QED
  BY <1>1, <1>2

\* Not amiss, every request that writes leaves the room to the last period held: a purchase not held,
LEMMA GrantFollows ==
  ASSUME RoomTypes, Follows, NEW s \in Slot, Grant(s), ~amiss',
         NEW p \in Periods, requests[s].what.period = p
  PROVE  Follows'
<1> DEFINE new == [NoPurchase EXCEPT !.journey = paid[p]]
<1>1. /\ requests[s].room = room /\ ~Held(p) /\ purchases[p] = NoPurchase
      /\ room \in Rooms \cup {NULL} /\ paid[p] \in Journey
      /\ UNCHANGED <<clock, apple, heard>>
  <2>1. Step(s, "read") /\ paid[p] # NULL /\ TypeOK
    BY WhatIsRead DEF Grant, RoomTypes
  <2>2. requests[s].room = room /\ purchases[p] = NoPurchase
    BY <2>1, Fresh DEF Grant
  <2> QED
    BY <2>1, <2>2, HeldTypes DEF TypeOK, Grant
<1>2. purchases' = [purchases EXCEPT ![p] = new] /\ GrantSubscription(room, paid[p], Ends(p))
  BY <1>1 DEF Grant
<1>3. new \in Purchases /\ new.journey = paid[p] /\ new.revoked = FALSE
  BY <1>1 DEF NoPurchase, Purchases
<1> HIDE DEF new
<1>4. purchases'[p] = new /\ \A q \in Periods \ {p} : purchases'[q] = purchases[q]
  BY <1>1, <1>2 DEF RoomTypes, TypeOK
<1>5. /\ room = NULL => room' = Granted(paid[p], p)
      /\ room \in Rooms => /\ room' = room \/ room' = Granted(paid[p], p)
                           /\ room' # room => Ends(p) >= room.until
                           /\ Ends(p) > room.until => room' = Granted(paid[p], p)
  BY <1>1, <1>2, GrantSays
<1>6. ASSUME NEW q \in Periods PROVE Withdrawn(q)'
  <2>1. CASE q = p
    BY <1>1, <1>3, <1>4, <2>1, IdleIsRequest DEF Follows, Withdrawn, Heard, apple, Held
  <2>2. CASE q # p
    BY <1>1, <1>4, <2>2 DEF Follows, Withdrawn, Heard, apple, Held
  <2> QED
    BY <2>1, <2>2
<1>7. room' = Granted(paid[p], p) =>
        room' \in Rooms /\ room'.until = Ends(p) /\ ~room'.refunded /\ room'.journey = paid[p]
  <2>1. /\ Granted(paid[p], p) \in Rooms /\ Granted(paid[p], p).journey = paid[p]
        /\ Granted(paid[p], p).until = Ends(p) /\ Granted(paid[p], p).refunded = FALSE
    BY <1>1, GrantedFields
  <2> QED
    BY <2>1
<1>8. ASSUME room' = Granted(paid[p], p) PROVE AsPaid(p)'
  <2>1. paid' = paid /\ ~purchases'[p].revoked
    BY <1>1, <1>3, <1>4 DEF apple
  <2> QED
    BY <1>8, <1>7, <2>1, ToItsEnd
<1>9. ASSUME NEW m \in Periods, Top(m)' PROVE AsPaid(m)'
  <2>1. CASE room = NULL
    <3>1. \A q \in Periods : ~Held(q)
      BY <2>1 DEF RoomTypes, Kept
    <3>2. m = p
      BY <1>4, <1>9, <3>1 DEF Top, Held
    <3> QED
      BY <1>5, <1>8, <2>1, <3>2
  <2>2. CASE room # NULL
    <3>1. PICK t \in Periods : Top(t)
      BY <2>2, TheTop
    <3>2. AsPaid(t) /\ t # p /\ room \in Rooms /\ room.until \in Nat
      BY <1>1, <2>2, <3>1 DEF Follows, Top, Rooms
    <3>3. m = t \/ (m = p /\ p > t)
      BY <1>1, <1>4, <1>9, <3>1, TopNext
    <3>4. CASE p > t
      <4>1. Ends(p) > room.until
        BY <1>1, <3>2, <3>4, PeriodsInTime DEF AsPaid
      <4>2. m = p
        <5>1. Held(p)'
          BY <1>1, <1>3, <1>4, RoomConstants DEF Held
        <5> QED
          BY <1>1, <1>9, <3>3, <3>4, <5>1, RoomConstants DEF Top
      <4> QED
        BY <1>5, <1>8, <3>2, <4>1, <4>2
    <3>5. CASE p < t
      <4>1. m = t
        BY <3>3, <3>5, RoomConstants, <1>1
      <4>2. room' = room \/ (Heard("refunded", t) /\ room'.until = Ends(p))
        <5>1. ASSUME room' # room PROVE Heard("refunded", t) /\ room'.until = Ends(p)
          <6>1. room'.until = Ends(p) /\ Ends(p) >= room.until
            BY <1>5, <1>7, <3>2, <5>1
          <6>2. Ends(p) < Ends(t) /\ Ends(p) \in Nat /\ Ends(t) \in Nat
            BY <1>1, <3>5, PeriodsInTime
          <6> QED
            BY <3>2, <6>1, <6>2 DEF AsPaid
        <5> QED
          BY <5>1
      <4>3. room' \in Rooms
        BY <1>5, <1>7, <3>2
      <4> QED
        BY <1>1, <1>4, <3>2, <3>5, <4>1, <4>2, <4>3, AnEarlierOne DEF Follows, Withdrawn, Heard
    <3> QED
      BY <1>1, <3>2, <3>4, <3>5, RoomConstants
  <2> QED
    BY <2>1, <2>2
<1> QED
  BY <1>6, <1>9 DEF Follows

\* What is longer than the room and of an earlier period says that the last one was refunded.
LEMMA ShortenedRoom ==
  ASSUME NEW p \in Periods, NEW t \in Periods, p < t, AsPaid(t), room \in Rooms, Ends(p) >= room.until
  PROVE  Heard("refunded", t)
<1>1. Ends(p) < Ends(t) /\ Ends(p) \in Nat /\ Ends(t) \in Nat /\ room.until \in Nat
  BY PeriodsInTime DEF Rooms
<1> QED
  BY <1>1 DEF AsPaid

\* one sent again,
LEMMA ReplayFollows ==
  ASSUME RoomTypes, Follows, NEW s \in Slot, Replay(s), ~amiss',
         NEW p \in Periods, requests[s].what.period = p
  PROVE  Follows'
<1> DEFINE j == purchases[p].journey
<1>1. /\ requests[s].room = room /\ requests[s].row = purchases[p] /\ Held(p) /\ room \in Rooms /\ j \in Journey
      /\ UNCHANGED <<clock, apple, heard, purchases>>
  <2>1. Step(s, "read") /\ requests[s].row # NoPurchase /\ Amiss(s)
    BY DEF Replay
  <2>2. requests[s].room = room /\ requests[s].row = purchases[p]
    BY <2>1, Fresh
  <2> QED
    BY <2>1, <2>2, HeldTypes DEF Replay
<1>2. CASE room' = room
  BY <1>1, <1>2, SameRoom DEF apple
<1>3. CASE room' # room
  <2>1. ~purchases[p].revoked /\ GrantSubscription(room, j, Ends(p))
    BY <1>1, <1>3 DEF Replay
  <2>2. room' = Granted(j, p) /\ Ends(p) >= room.until
    BY <1>1, <1>3, <2>1, GrantSays
  <2>3. room' \in Rooms /\ room'.until = Ends(p) /\ ~room'.refunded /\ room'.journey = j
    <3>1. /\ Granted(j, p) \in Rooms /\ Granted(j, p).journey = j
          /\ Granted(j, p).until = Ends(p) /\ Granted(j, p).refunded = FALSE
      BY <1>1, GrantedFields
    <3> QED
      BY <2>2, <3>1
  <2>4. ASSUME NEW q \in Periods PROVE Withdrawn(q)'
    BY <1>1 DEF Follows, Withdrawn, Heard, Held, apple
  <2>5. ASSUME NEW m \in Periods, Top(m)' PROVE AsPaid(m)'
    <3>1. Top(m) /\ AsPaid(m) /\ p <= m
      BY <1>1, <2>5 DEF Follows, Top, Held
    <3>2. CASE p = m
      <4>1. ~Heard("refunded", m)' => room'.journey = paid'[m]
        BY <1>1, <2>3, <3>2 DEF Follows, Withdrawn, Heard, apple
      <4> QED
        BY <1>1, <2>1, <2>3, <3>2, <4>1, ToItsEnd
    <3>3. CASE p < m
      <4>1. Heard("refunded", m)
        BY <1>1, <2>2, <3>1, <3>3, ShortenedRoom
      <4> QED
        BY <1>1, <2>3, <3>1, <3>3, <4>1, AnEarlierOne DEF Heard
    <3> QED
      BY <3>1, <3>2, <3>3, RoomConstants
  <2> QED
    BY <2>4, <2>5 DEF Follows
<1> QED
  BY <1>2, <1>3

\* What a notification finds, in a request that is not amiss.
LEMMA HearFinds ==
  ASSUME RoomTypes, NEW s \in Slot, NEW type \in {"renewed", "refunded", "reinstated"}, Hear(s, type),
         requests[s].base # NULL, Amiss(s), ~amiss',
         NEW p \in Periods, requests[s].what.period = p
  PROVE  /\ requests[s].room = room /\ requests[s].row = purchases[p]
         /\ requests[s].reversal = Heard("reinstated", p)
         /\ room \in Rooms /\ requests[s].base \in Journey
         /\ UNCHANGED <<clock, apple, left>> /\ Note(type, p) \in Told /\ heard' = heard \cup {Note(type, p)}
         /\ \E t \in Periods : Top(t)
<1>1. Step(s, "read")
  BY DEF Hear
<1>2. /\ requests[s].room = room /\ requests[s].row = purchases[p]
      /\ requests[s].reversal = Heard("reinstated", p)
  BY <1>1, Fresh
<1>3. room \in Rooms /\ requests[s].base \in Journey
  BY <1>1, WhatIsRead
<1>4. UNCHANGED <<clock, apple, left>> /\ Note(type, p) \in Told /\ heard' = heard \cup {Note(type, p)}
  BY HearTypes
<1> QED
  BY <1>2, <1>3, <1>4, TheTop, RoomConstants

\* a renewal,
LEMMA RenewedFollows ==
  ASSUME RoomTypes, Follows, NEW s \in Slot, Renewed(s), ~amiss',
         NEW p \in Periods, requests[s].what.period = p
  PROVE  Follows'
<1> DEFINE new == [journey |-> room.journey, revoked |-> FALSE]
           acts == IF purchases[p] = NoPurchase THEN paid[p] = room.journey ELSE ~purchases[p].revoked
           longer == [room EXCEPT !.until = Ends(p), !.refunded = FALSE]
<1>1. /\ requests[s].room = room /\ requests[s].row = purchases[p] /\ room \in Rooms
      /\ UNCHANGED <<clock, apple>> /\ heard' = heard \cup {Note("renewed", p)}
      /\ \E t \in Periods : Top(t)
  BY HearFinds DEF Renewed
<1>2. \A q \in Periods : /\ Heard("refunded", q)' <=> Heard("refunded", q)
                         /\ Heard("reinstated", q)' <=> Heard("reinstated", q)
  BY <1>1, HeardNext
<1>3. /\ purchases' = IF acts THEN Recorded(p, room.journey, FALSE) ELSE purchases
      /\ room' = IF acts /\ Ends(p) > room.until THEN longer ELSE room
  BY <1>1 DEF Renewed
<1>4. /\ longer \in Rooms /\ longer.until = Ends(p) /\ longer.refunded = FALSE
      /\ longer.journey = room.journey /\ room' \in Rooms
  BY <1>1, <1>3, PeriodsInTime DEF Rooms
<1>5. new \in Purchases /\ new.journey = room.journey /\ new.journey # NULL /\ new.revoked = FALSE
  BY <1>1, RoomConstants DEF Rooms, Purchases
<1>6. /\ \A q \in Periods \ {p} : purchases'[q] = purchases[q]
      /\ Held(p) => purchases'[p] = purchases[p]
      /\ ~Held(p) => \/ purchases'[p] = purchases[p]
                     \/ purchases'[p] = new /\ paid[p] = room.journey
  <2>1. CASE purchases' = purchases
    BY <2>1
  <2>2. CASE purchases' # purchases
    <3>1. acts /\ ~Held(p) /\ purchases' = [purchases EXCEPT ![p] = new]
      BY <1>3, <2>2 DEF Recorded
    <3>2. paid[p] = room.journey
      BY <3>1, HeldTypes
    <3> HIDE DEF new, acts
    <3> QED
      BY <3>1, <3>2 DEF RoomTypes, TypeOK
  <2> QED
    BY <2>1, <2>2
<1>7. ASSUME NEW q \in Periods PROVE Withdrawn(q)'
  <2>1. CASE q = p
    <3>1. CASE purchases'[p] = purchases[p]
      BY <1>1, <1>2, <2>1, <3>1 DEF Follows, Withdrawn, apple, Held
    <3>2. CASE purchases'[p] = new /\ paid[p] = room.journey /\ ~Held(p)
      <4>1. ~purchases[p].revoked
        BY <3>2 DEF RoomTypes, Kept
      <4> QED
        BY <1>1, <1>2, <1>5, <2>1, <3>2, <4>1 DEF Follows, Withdrawn, apple, Held
    <3> QED
      BY <1>6, <3>1, <3>2
  <2>2. CASE q # p
    BY <1>1, <1>2, <1>6, <2>2 DEF Follows, Withdrawn, apple, Held
  <2> QED
    BY <2>1, <2>2
<1>8. ASSUME NEW m \in Periods, Top(m)' PROVE AsPaid(m)'
  <2>1. PICK t \in Periods : Top(t)
    BY <1>1
  <2>2. AsPaid(t) /\ paid' = paid /\ room.until \in Nat /\ Ends(p) \in Nat /\ Ends(t) \in Nat
    BY <1>1, <2>1, PeriodsInTime DEF Follows, apple, Rooms
  <2>3. (m = t \/ (m = p /\ p > t /\ ~Held(p) /\ Held(p)')) /\ (Held(p) => m = t /\ p <= t)
    BY <1>6, <1>8, <2>1, TopNext DEF Held
  <2>4. CASE m = p /\ p > t /\ ~Held(p) /\ Held(p)'
    <3>1. purchases'[p] = new /\ paid[p] = room.journey
      BY <1>6, <2>4 DEF Held
    <3>2. Ends(p) > room.until
      BY <2>2, <2>4, PeriodsInTime DEF AsPaid
    <3>3. acts
      BY <1>3, <1>5, <2>4, <3>1, HeldTypes
    <3>4. room' = longer
      BY <1>3, <3>2, <3>3
    <3> HIDE DEF longer, new, acts
    <3> QED
      BY <1>4, <1>5, <2>2, <2>4, <3>1, <3>4, ToItsEnd
  <2>5. CASE m = t /\ p < t
    <3>1. purchases'[t] = purchases[t]
      BY <1>6, <2>5, RoomConstants
    <3>2. room' = room \/ (Heard("refunded", t) /\ room'.until = Ends(p))
      <4>1. ASSUME room' # room PROVE Heard("refunded", t) /\ room'.until = Ends(p)
        <5>1. room' = longer /\ Ends(p) >= room.until
          BY <1>3, <2>2, <4>1
        <5> HIDE DEF longer
        <5> QED
          BY <1>1, <1>4, <2>2, <2>5, <5>1, ShortenedRoom
      <4> QED
        BY <4>1
    <3> QED
      BY <1>1, <1>2, <1>4, <2>2, <2>5, <3>1, <3>2, AnEarlierOne DEF Follows, Withdrawn
  <2>6. CASE m = t /\ p = t
    <3>1. Held(p) /\ purchases'[p] = purchases[p]
      BY <1>6, <2>1, <2>6 DEF Top
    <3>2. CASE room' = room
      BY <1>1, <1>2, <2>2, <2>6, <3>1, <3>2 DEF AsPaid, apple
    <3>3. CASE room' # room
      <4>1. room' = longer /\ Ends(p) > room.until /\ acts
        BY <1>3, <3>3
      <4>2. ~purchases[p].revoked
        BY <3>1, <4>1, HeldTypes
      <4>3. Heard("refunded", t)
        BY <2>2, <2>6, <4>1 DEF AsPaid
      <4> HIDE DEF longer, acts
      <4> QED
        BY <1>2, <1>4, <2>6, <3>1, <4>1, <4>2, <4>3, ToItsEnd
    <3> QED
      BY <3>2, <3>3
  <2>7. CASE m = t /\ p > t
    <3>1. ~Held(p) /\ ~Held(p)'
      BY <1>8, <2>1, <2>7, RoomConstants DEF Top
    <3>2. ~acts
      <4>1. ASSUME acts PROVE FALSE
        <5>1. purchases' = [purchases EXCEPT ![p] = new]
          BY <1>3, <3>1, <4>1 DEF Recorded
        <5> HIDE DEF new, acts
        <5>2. purchases'[p] = new
          BY <5>1 DEF RoomTypes, TypeOK
        <5> QED
          BY <1>5, <3>1, <5>2 DEF Held
      <4> QED
        BY <4>1
    <3>3. room' = room /\ purchases'[t] = purchases[t]
      BY <1>3, <3>2
    <3> QED
      BY <1>1, <1>2, <2>2, <2>7, <3>3 DEF AsPaid, apple
  <2> QED
    BY <2>3, <2>4, <2>5, <2>6, <2>7, RoomConstants
<1> QED
  BY <1>7, <1>8 DEF Follows

\* a refund,
LEMMA RefundedFollows ==
  ASSUME RoomTypes, Follows, NEW s \in Slot, Refunded(s), ~amiss',
         NEW p \in Periods, requests[s].what.period = p
  PROVE  Follows'
<1> DEFINE first == [journey |-> requests[s].base, revoked |-> TRUE]
           withdrawn == [purchases[p] EXCEPT !.revoked = TRUE]
           until == IF room.until < refunds[p] THEN room.until ELSE refunds[p]
           shorter == [room EXCEPT !.until = until, !.refunded = TRUE]
<1>1. /\ requests[s].room = room /\ requests[s].row = purchases[p] /\ room \in Rooms
      /\ requests[s].reversal = Heard("reinstated", p) /\ requests[s].base \in Journey
      /\ UNCHANGED <<clock, apple>> /\ heard' = heard \cup {Note("refunded", p)}
      /\ Note("refunded", p) \in Told
      /\ \E t \in Periods : Top(t)
  BY HearFinds DEF Refunded
<1>2. \A q \in Periods : /\ Heard("refunded", q)' <=> Heard("refunded", q) \/ q = p
                         /\ Heard("reinstated", q)' <=> Heard("reinstated", q)
  BY <1>1, HeardNext
<1>3. refunds[p] \in Nat /\ paid' = paid /\ refunds' = refunds
  BY <1>1, SaidOf DEF RoomTypes, TypeOK, apple
<1>4. ASSUME Heard("reinstated", p) PROVE Follows'
  <2>1. purchases' = purchases /\ room' = room
    BY <1>1, <1>4 DEF Refunded
  <2>2. ASSUME NEW q \in Periods PROVE Withdrawn(q)'
    BY <1>2, <1>3, <1>4, <2>1 DEF Follows, Withdrawn, Held
  <2>3. ASSUME NEW m \in Periods, Top(m)' PROVE AsPaid(m)'
    <3>1. Top(m) /\ AsPaid(m) /\ Withdrawn(m)
      BY <2>1, <2>3 DEF Follows, Top, Held
    <3> QED
      BY <1>2, <1>3, <1>4, <2>1, <3>1 DEF AsPaid, Withdrawn
  <2> QED
    BY <2>2, <2>3 DEF Follows
<1>5. ASSUME ~Heard("reinstated", p) PROVE Follows'
  <2>1. /\ purchases' = IF purchases[p] = NoPurchase THEN Recorded(p, requests[s].base, TRUE)
                        ELSE [purchases EXCEPT ![p] = withdrawn]
        /\ room' = IF Outlives(room, p) THEN room ELSE shorter
    BY <1>1, <1>5 DEF Refunded
  <2>2. /\ until \in Nat /\ until <= room.until /\ until <= refunds[p] /\ room.until \in Nat
        /\ shorter \in Rooms /\ shorter.until = until /\ shorter.refunded = TRUE
    <3>1. until \in Nat /\ until <= room.until /\ until <= refunds[p] /\ room.until \in Nat
      BY <1>1, <1>3 DEF Rooms
    <3> HIDE DEF until
    <3> QED
      BY <1>1, <3>1 DEF Rooms
  <2>3. /\ first.revoked = TRUE /\ first.journey # NULL
        /\ withdrawn.revoked = TRUE /\ withdrawn.journey = purchases[p].journey
    <3>1. purchases[p] \in Purchases
      BY HeldTypes
    <3>2. first.journey # NULL
      BY <1>1, RoomConstants
    <3> QED
      BY <3>1, <3>2 DEF Purchases
  <2>4. /\ \A q \in Periods \ {p} : purchases'[q] = purchases[q]
        /\ purchases'[p] = IF Held(p) THEN withdrawn ELSE first
    <3>1. purchases' = [purchases EXCEPT ![p] = IF Held(p) THEN withdrawn ELSE first]
      BY <2>1, HeldTypes DEF Recorded
    <3> HIDE DEF withdrawn, first
    <3> QED
      BY <3>1 DEF RoomTypes, TypeOK
  <2> HIDE DEF until, shorter, first, withdrawn
  <2>5. purchases'[p].revoked /\ purchases'[p].journey # NULL
    BY <2>3, <2>4 DEF Held
  <2>6. ASSUME NEW q \in Periods PROVE Withdrawn(q)'
    BY <1>2, <1>3, <1>5, <2>4, <2>5 DEF Follows, Withdrawn, Held
  <2>7. ASSUME NEW m \in Periods, Top(m)' PROVE AsPaid(m)'
    <3>1. PICK t \in Periods : Top(t)
      BY <1>1
    <3>2. AsPaid(t) /\ Withdrawn(t) /\ Ends(p) \in Nat /\ Ends(t) \in Nat
      BY <3>1, PeriodsInTime DEF Follows
    <3>3. /\ m = t \/ (m = p /\ p > t /\ ~Held(p) /\ Held(p)')
          /\ p > t => m = p
      <4>1. Held(p)'
        BY <2>5 DEF Held
      <4>2. m = t \/ (m = p /\ p > t /\ ~Held(p) /\ Held(p)')
        BY <2>4, <2>7, <3>1, <4>1, TopNext
      <4>3. p > t => m = p
        BY <2>7, <4>1, <4>2, RoomConstants DEF Top
      <4> QED
        BY <4>2, <4>3
    <3>4. CASE p >= t /\ m = p
      <4>1. room.until <= Ends(p)
        <5>1. t = p \/ Ends(t) < Ends(p)
          BY <3>4, PeriodsInTime, RoomConstants
        <5>2. room.until <= Ends(t)
          BY <3>2 DEF AsPaid
        <5> QED
          BY <2>2, <3>2, <5>1, <5>2
      <4>2. room' = shorter
        BY <2>1, <2>2, <3>2, <4>1 DEF Outlives
      <4>3. Ends(p)' = Ends(p) /\ until <= Ends(p)
        BY <2>2, <3>2, <4>1 DEF Ends
      <4> QED
        BY <1>2, <1>3, <2>2, <2>5, <3>4, <4>2, <4>3 DEF AsPaid
    <3>5. CASE p < t /\ m = t
      <4>1. room' \in Rooms /\ purchases'[t] = purchases[t]
        <5>1. t \in Periods \ {p}
          BY <3>5, RoomConstants
        <5>2. room' \in Rooms
          BY <1>1, <2>1, <2>2
        <5> QED
          BY <2>4, <5>1, <5>2
      <4>2. room' = room \/ (Heard("refunded", t) /\ room'.until <= room.until)
        <5>1. ASSUME room' # room PROVE Heard("refunded", t) /\ room'.until <= room.until
          <6>1. room' = shorter /\ Ends(p) >= room.until
            BY <2>1, <2>2, <3>2, <5>1 DEF Outlives
          <6> QED
            BY <1>1, <2>2, <3>2, <3>5, <6>1, ShortenedRoom
        <5> QED
          BY <5>1
      <4>3. Heard("refunded", t)' <=> Heard("refunded", t)
        <5>1. p # t
          BY <3>5, RoomConstants
        <5> QED
          BY <1>2, <5>1
      <4> QED
        BY <1>1, <3>2, <3>5, <4>1, <4>2, <4>3, AnEarlierOne DEF Withdrawn
    <3> QED
      BY <3>3, <3>4, <3>5, RoomConstants
  <2> QED
    BY <2>6, <2>7 DEF Follows
<1> QED
  BY <1>4, <1>5

\* and a reversal.
LEMMA ReinstatedFollows ==
  ASSUME RoomTypes, Follows, NEW s \in Slot, Reinstated(s), ~amiss',
         NEW p \in Periods, requests[s].what.period = p
  PROVE  Follows'
<1> DEFINE back == [purchases[p] EXCEPT !.revoked = FALSE]
           until == IF room.until > Ends(p) THEN room.until ELSE Ends(p)
           longer == [room EXCEPT !.until = until, !.refunded = FALSE]
<1>1. /\ requests[s].room = room /\ requests[s].row = purchases[p] /\ room \in Rooms
      /\ UNCHANGED <<clock, apple>> /\ heard' = heard \cup {Note("reinstated", p)}
  BY HearFinds DEF Reinstated
<1>2. \A q \in Periods : /\ Heard("refunded", q)' <=> Heard("refunded", q)
                         /\ Heard("reinstated", q)' <=> Heard("reinstated", q) \/ q = p
  BY <1>1, HeardNext
<1>3. paid' = paid /\ refunds' = refunds
  BY <1>1 DEF apple
<1>4. ASSUME ~purchases[p].revoked PROVE Follows'
  <2>1. purchases' = purchases /\ room' = room
    BY <1>1, <1>4 DEF Reinstated
  <2>2. ASSUME NEW q \in Periods PROVE Withdrawn(q)'
    BY <1>2, <1>3, <1>4, <2>1 DEF Follows, Withdrawn, Held
  <2>3. ASSUME NEW m \in Periods, Top(m)' PROVE AsPaid(m)'
    <3>1. Top(m) /\ AsPaid(m)
      BY <2>1, <2>3 DEF Follows, Top, Held
    <3> QED
      BY <1>2, <1>3, <2>1, <3>1 DEF AsPaid
  <2> QED
    BY <2>2, <2>3 DEF Follows
<1>5. ASSUME purchases[p].revoked PROVE Follows'
  <2>1. /\ purchases' = [purchases EXCEPT ![p] = back]
        /\ room' = IF room.refunded THEN longer ELSE room
    BY <1>1, <1>5 DEF Reinstated
  <2>2. /\ room.until \in Nat /\ Ends(p) \in Nat /\ until = (IF room.until > Ends(p) THEN room.until ELSE Ends(p))
        /\ longer \in Rooms /\ longer.until = until /\ longer.refunded = FALSE
    <3>1. until \in Nat /\ room.until \in Nat /\ Ends(p) \in Nat
      BY <1>1, PeriodsInTime DEF Rooms
    <3>2. until = IF room.until > Ends(p) THEN room.until ELSE Ends(p)
      OBVIOUS
    <3> HIDE DEF until
    <3> QED
      BY <1>1, <3>1, <3>2 DEF Rooms
  <2>3. back.revoked = FALSE /\ back.journey = purchases[p].journey /\ Held(p)
    BY <1>5, HeldTypes DEF Purchases, RoomTypes, Kept
  <2> HIDE DEF until, longer, back
  <2>4. /\ \A q \in Periods \ {p} : purchases'[q] = purchases[q]
        /\ purchases'[p] = back
    BY <2>1 DEF RoomTypes, TypeOK
  <2>5. Heard("refunded", p)
    BY <1>5 DEF Follows, Withdrawn
  <2>6. ASSUME NEW q \in Periods PROVE Withdrawn(q)'
    BY <1>2, <1>3, <2>3, <2>4 DEF Follows, Withdrawn, Held
  <2>7. ASSUME NEW m \in Periods, Top(m)' PROVE AsPaid(m)'
    <3>1. Top(m) /\ AsPaid(m) /\ Withdrawn(m) /\ p <= m
      <4>1. \A q \in Periods : Held(q) <=> Held(q)'
        BY <2>3, <2>4 DEF Held
      <4> QED
        BY <2>3, <2>7, <4>1 DEF Top, Follows
    <3>2. CASE ~room.refunded /\ p = m
      <4>1. m # 1 /\ room' = room
        BY <1>5, <2>1, <2>5, <3>1, <3>2 DEF AsPaid
      <4>2. Ends(m)' = Ends(m)
        BY DEF Ends
      <4> QED
        BY <1>2, <1>3, <2>3, <2>4, <2>5, <3>1, <3>2, <4>1, <4>2 DEF AsPaid
    <3>3. CASE room.refunded /\ p = m
      <4>1. room' = longer /\ room'.until = Ends(m)
        BY <2>1, <2>2, <3>1, <3>3 DEF AsPaid
      <4> QED
        BY <1>2, <2>2, <2>3, <2>4, <2>5, <3>3, <4>1, ToItsEnd
    <3>4. CASE p < m
      <4>1. purchases'[m] = purchases[m]
        <5>1. m \in Periods \ {p}
          BY <3>4, RoomConstants
        <5> QED
          BY <2>4, <5>1
      <4>2. room' = room \/ (Heard("refunded", m) /\ (room'.until <= room.until \/ room'.until = Ends(p)))
        BY <2>1, <2>2, <3>1 DEF AsPaid
      <4>3. room' \in Rooms
        BY <1>1, <2>1, <2>2
      <4> QED
        BY <1>1, <1>2, <3>1, <3>4, <4>1, <4>2, <4>3, AnEarlierOne DEF Withdrawn
    <3>5. p = m \/ p < m
      BY <3>1, RoomConstants
    <3> QED
      BY <3>2, <3>3, <3>4, <3>5
  <2> QED
    BY <2>6, <2>7 DEF Follows
<1> QED
  BY <1>4, <1>5
-----------------------------------------------------------------------------
\* Every step keeps the invariant.
LEMMA StepRoom ==
  ASSUME RoomInv, [RoomNext]_roomVars
  PROVE  RoomInv'
<1>1. RoomTypes /\ RoomTypes'
  BY StepTypes DEF RoomInv
<1>2. ASSUME ~amiss' PROVE Follows'
  <2>1. CASE UNCHANGED <<heard, purchases, room, paid, refunds, amiss>>
    BY <1>1, <1>2, <2>1, SameRoom DEF RoomInv
  <2>2. CASE AppStore
    <3>1. /\ UNCHANGED <<heard, purchases, room, amiss>>
          /\ \A p \in Periods : paid[p] # NULL => paid'[p] = paid[p]
          /\ \A p \in Periods : refunds[p] # NULL => refunds'[p] = refunds[p]
      <4>1. paid \in [Periods -> Journey \cup {NULL}] /\ refunds \in [Periods -> Nat \cup {NULL}]
        BY <1>1 DEF RoomTypes, TypeOK
      <4> QED
        BY <2>2, <4>1 DEF AppStore, Pay, Refund, Reverse, ClockTick, apple
    <3> QED
      BY <1>1, <1>2, <3>1, SameRoom DEF RoomInv
  <2>3. ASSUME NEW s \in Slot, Grant(s) \/ Replay(s) \/ Renewed(s) \/ Refunded(s) \/ Reinstated(s)
        PROVE  Follows'
    <3>1. Step(s, "read") /\ Amiss(s)
      BY <2>3 DEF Grant, Replay, Renewed, Refunded, Reinstated, Hear
    <3>2. ~amiss /\ requests[s].what.period \in Periods
      BY <1>1, <1>2, <3>1, Fresh, WhatIsRead
    <3>3. Follows
      BY <3>2 DEF RoomInv
    <3> QED
      BY <1>1, <1>2, <2>3, <3>2, <3>3, GrantFollows, ReplayFollows, RenewedFollows, RefundedFollows,
         ReinstatedFollows
  <2>4. ASSUME NEW s \in Slot, Unknown(s) PROVE Follows'
    BY <1>2, <2>4 DEF Unknown
  <2>5. ASSUME NEW s \in Slot,
               \/ Read(s) \/ Lock(s) \/ Drop(s) \/ Fail(s)
               \/ (\E p \in Periods : Send(s, p)) \/ (\E n \in Notes : Notify(s, n))
        PROVE  UNCHANGED <<heard, purchases, room, paid, refunds, amiss>>
    BY <2>5 DEF Read, Lock, Drop, Fail, Send, Notify, apple
  <2>6. UNCHANGED roomVars => UNCHANGED <<heard, purchases, room, paid, refunds, amiss>>
    BY DEF roomVars, apple
  <2> QED
    BY <2>1, <2>2, <2>3, <2>4, <2>5, <2>6 DEF RoomNext, Handling
<1> QED
  BY <1>1, <1>2 DEF RoomInv

\* So it holds in every state.
LEMMA RoomAlways == RoomSpec => []RoomInv
BY RoomStart, StepRoom, PTL DEF RoomSpec

\* Every purchase, room and request keeps its shape: a purchase held has its journey, and a room its end.
THEOREM RoomTypesAlways == RoomSpec => []TypeOK
BY RoomAlways, PTL DEF RoomInv, RoomTypes

\* However many periods, refunds, reversals and requests at once there are, of whatever length a
\* period is: once everything paid for is held and everything said is heard, the room is where the
\* last period paid for put it (grantSubscription, replay, appleNotificationEffect), unless a
\* request was amiss.
THEOREM RoomFollows == RoomSpec => []RoomFollowsStore
<1>1. ASSUME RoomInv, Settled, ~amiss
      PROVE  /\ room.until <= Ends(Last)
             /\ CASE refunds[Last] = NULL -> room.journey = paid[Last] /\ room.until = Ends(Last)
                  [] refunds[Last] # NULL /\ Last \in reversed -> Last = 1 => room.until = Ends(Last)
                  [] OTHER -> room.until <= refunds[Last] \/ room.until <= Ends(Last - 1)
  <2>1. RoomTypes /\ Follows /\ TypeOK /\ Kept
    BY <1>1 DEF RoomInv, RoomTypes
  <2>2. \A p \in Periods : Held(p) <=> paid[p] # NULL
    BY <1>1, <2>1 DEF Settled, Kept
  <2>3. PICK m \in Periods : Top(m)
    BY <1>1, <2>1, TheTop DEF Settled
  <2>4. Last = m
    <3>1. paid[m] # NULL /\ \A q \in Periods : paid[q] # NULL => q <= m
      BY <2>2, <2>3 DEF Top
    <3>2. \A n \in Periods : (paid[n] # NULL /\ \A q \in Periods : paid[q] # NULL => q <= n) => n = m
      BY <3>1, RoomConstants
    <3> QED
      BY <3>1, <3>2 DEF Last
  <2>5. /\ Heard("refunded", m) <=> refunds[m] # NULL
        /\ Heard("reinstated", m) <=> m \in reversed
    BY <1>1, SaidOf DEF Settled, Heard
  <2>6. AsPaid(m) /\ Withdrawn(m)
    BY <2>1, <2>3 DEF Follows
  <2>7. CASE refunds[m] = NULL
    BY <2>4, <2>5, <2>6, <2>7 DEF AsPaid
  <2>8. CASE refunds[m] # NULL /\ m \in reversed
    BY <2>4, <2>5, <2>6, <2>8 DEF AsPaid, Withdrawn
  <2>9. CASE refunds[m] # NULL /\ m \notin reversed
    BY <2>4, <2>5, <2>6, <2>9 DEF AsPaid, Withdrawn
  <2> QED
    BY <2>7, <2>8, <2>9
<1>2. RoomInv => RoomFollowsStore
  BY <1>1 DEF RoomFollowsStore
<1> QED
  BY <1>2, RoomAlways, PTL
-----------------------------------------------------------------------------
(***************************************************************************)
(* The graces of the journeys the room leaves.                             *)
(***************************************************************************)

\* A grant that moves the room leaves its days of grace behind, if there are days.
LEMMA LeavesGrace ==
  ASSUME GraceLength > 0, TypeOK, room \in Rooms, NEW k \in Journey, NEW until \in Nat,
         GrantSubscription(room, k, until),
         NEW j \in Journey, Has(j, room, left, clock), room'.journey # j
  PROVE  Has(j, room', left', clock)
<1>1. /\ room.until \in Nat /\ clock \in Nat /\ GraceLength \in Nat /\ room # NULL
  BY RoomConstants DEF TypeOK, Rooms
<1>2. left \subseteq left'
  BY <1>1 DEF GrantSubscription
<1>3. CASE \E g \in left : g.journey = j /\ g.until > clock
  BY <1>2, <1>3 DEF Has
<1>4. CASE room.journey = j /\ room.until + GraceLength > clock
  <2> DEFINE g == [journey |-> room.journey, until |-> GraceLeftBehind(room)]
  <2>1. room' # room /\ Newer(room, k, until) /\ room'.journey = k
    BY <1>1, <1>4 DEF GrantSubscription
  <2>2. GraceLeftBehind(room) > clock
    BY <1>1, <1>4 DEF GraceLeftBehind
  <2>3. left' = left \cup {g}
    BY <1>1, <1>4, <2>1, <2>2 DEF GrantSubscription
  <2>4. g.journey = j /\ g.until > clock
    BY <1>4, <2>2
  <2> HIDE DEF g
  <2> QED
    BY <2>3, <2>4 DEF Has
<1> QED
  BY <1>3, <1>4 DEF Has

\* No journey loses its room at once because another is paid from (moveRoom, graceLeftBehind), if
\* there are days of grace: with BILLING_GRACE_DAYS at none there are none to keep.
THEOREM LeavesWithGrace ==
  ASSUME GraceLength > 0
  PROVE  RoomSpec => LeftWithGrace
<1> DEFINE Stays == \A j \in Journey :
             room # NULL /\ room'.journey # j /\ Has(j, room, left, clock) /\ clock' = clock =>
               \/ Has(j, room', left', clock)
               \/ \E s \in Slot : Step(s, "read") /\ Step(s, "idle")' /\ Stale(s)
<1>1. ASSUME RoomTypes, RoomNext PROVE Stays
  <2> SUFFICES ASSUME NEW j \in Journey, room # NULL, room'.journey # j, Has(j, room, left, clock), clock' = clock,
                      ~ \E s \in Slot : Step(s, "read") /\ Step(s, "idle")' /\ Stale(s)
               PROVE  Has(j, room', left', clock)
    OBVIOUS
  <2>1. TypeOK /\ room \in Rooms /\ requests \in [Slot -> Request]
    BY <1>1 DEF RoomTypes, TypeOK, Request
  <2>2. CASE UNCHANGED <<room, left>>
    BY <2>2
  <2>3. CASE left' = left /\ room'.journey = room.journey
    BY <2>3 DEF Has
  <2>4. ASSUME NEW s \in Slot, Grant(s) \/ Replay(s) PROVE Has(j, room', left', clock)
    <3>1. requests'[s] = Idle /\ Step(s, "idle")' /\ Step(s, "read")
      BY <2>1, <2>4, IdleIsRequest DEF Grant, Replay, Finished, Step
    <3>2. ~Stale(s)
      BY <3>1
    <3>3. requests[s].room = room /\ requests[s].what.period \in Periods
      BY <1>1, <3>1, <3>2, WhatIsRead DEF Stale
    <3>4. \/ UNCHANGED <<room, left>>
          \/ \E k \in Journey : GrantSubscription(room, k, Ends(requests[s].what.period))
      <4>1. CASE Grant(s)
        <5>1. requests[s].what.type = "sent" /\ paid[requests[s].what.period] \in Journey
          BY <1>1, <2>1, <3>1, <4>1, WhatIsRead DEF Grant, TypeOK
        <5> QED
          BY <3>3, <4>1, <5>1 DEF Grant
      <4>2. CASE Replay(s)
        <5>1. requests[s].row.journey \in Journey
          BY <1>1, <3>1, <4>2, WhatIsRead DEF Replay
        <5> QED
          BY <3>3, <4>2, <5>1 DEF Replay
      <4> QED
        BY <2>4, <4>1, <4>2
    <3>5. Ends(requests[s].what.period) \in Nat
      BY <3>3, PeriodsInTime
    <3> QED
      BY <2>1, <2>2, <3>4, <3>5, LeavesGrace
  <2>5. ASSUME NEW s \in Slot, Renewed(s) \/ Refunded(s) \/ Reinstated(s)
        PROVE  left' = left /\ room'.journey = room.journey
    BY <2>1, <2>5 DEF Renewed, Refunded, Reinstated, Hear, Rooms
  <2>6. ASSUME NEW s \in Slot, Handling(s) \/ (\E p \in Periods : Send(s, p)) \/ (\E n \in Notes : Notify(s, n))
        PROVE  Has(j, room', left', clock)
    <3>1. CASE Unknown(s) \/ Read(s) \/ Lock(s) \/ Drop(s) \/ Fail(s)
               \/ (\E p \in Periods : Send(s, p)) \/ (\E n \in Notes : Notify(s, n))
      BY <2>2, <3>1 DEF Unknown, Hear, Read, Lock, Drop, Fail, Send, Notify
    <3> QED
      BY <2>3, <2>4, <2>5, <2>6, <3>1 DEF Handling
  <2>7. CASE AppStore
    BY <2>2, <2>7 DEF AppStore, Pay, Refund, Reverse, ClockTick
  <2> QED
    BY <1>1, <2>6, <2>7 DEF RoomNext
<1>2. RoomTypes /\ [RoomNext]_roomVars => [Stays]_roomVars
  BY <1>1
<1>3. RoomSpec => []RoomTypes
  BY RoomAlways, PTL DEF RoomInv
<1> QED
  BY <1>2, <1>3, PTL DEF RoomSpec, LeftWithGrace
=============================================================================
