---------------------------- MODULE Waiting_proofs ----------------------------
(***************************************************************************)
(* What holds of the moments waiting on a phone, for any accounts, keys    *)
(* and bounds.  The list of an account is taken apart and put together by  *)
(* Without, a recursive function: its properties are proved by induction   *)
(* over a set of naturals, which needs no operator as a parameter.         *)
(***************************************************************************)
EXTENDS Waiting, FiniteSetTheorems, WellFoundedInduction, TLAPS

(***************************************************************************)
(* Induction, and the lists                                                *)
(***************************************************************************)

\* Every set of naturals with an element has a least one.
LEMMA LeastElement ==
  ASSUME NEW T \in SUBSET Nat, T # {}
  PROVE  \E n \in T : \A m \in T : n <= m
PROOF
<1>1. IsWellFoundedOn(OpToRel(<, Nat), Nat)
  BY NatLessThanWellFounded, Zenon
<1>2. PICK n \in T : \A m \in T : ~ (<<m, n>> \in OpToRel(<, Nat))
  BY <1>1, WFMin, Zenon
<1>3. \A m \in T : ~ (m < n)
  BY <1>2, Zenon DEF OpToRel
<1> QED BY <1>3

\* A set of naturals that holds 0 and the successor of each of its elements is all of them.
LEMMA Induction ==
  ASSUME NEW G \in SUBSET Nat, 0 \in G, \A n \in G : n + 1 \in G
  PROVE  G = Nat
PROOF
<1>1. SUFFICES ASSUME Nat \ G # {} PROVE FALSE
  OBVIOUS
<1>2. PICK n \in Nat \ G : \A m \in Nat \ G : n <= m
  BY <1>1, LeastElement
<1>3. n # 0 /\ n - 1 \in Nat
  BY <1>2
<1>4. n - 1 \in G
  BY <1>2, <1>3
<1>5. (n - 1) + 1 \in G
  BY <1>4
<1> QED BY <1>5, <1>2

\* One step of Without: what is kept of the first n entries, given what is kept of fewer.
KeptOf(f, s, S, n) ==
  IF n = 0 THEN <<>>
  ELSE IF s[n] \in S THEN f[n - 1] ELSE Append(f[n - 1], s[n])

\* f says what is kept of every prefix up to m.
KeptUpTo(f, K, s, S, m) ==
  /\ f \in [0..m -> Seq(K)]
  /\ \A n \in 0..m : f[n] = KeptOf(f, s, S, n)

\* The recursion of Without has a solution for every list.
LEMMA KeptExists ==
  ASSUME NEW K, NEW s \in Seq(K), NEW S
  PROVE  \E f : f = [n \in 0..Len(s) |-> KeptOf(f, s, S, n)]
PROOF
<1> DEFINE G == {m \in Nat : m <= Len(s) => \E f : KeptUpTo(f, K, s, S, m)}
<1>1. 0 \in G
  <2> DEFINE z == [n \in 0..0 |-> <<>>]
  <2>1. z \in [0..0 -> Seq(K)]
    OBVIOUS
  <2>2. \A n \in 0..0 : z[n] = KeptOf(z, s, S, n)
    BY DEF KeptOf
  <2>3. KeptUpTo(z, K, s, S, 0)
    BY <2>1, <2>2 DEF KeptUpTo
  <2> QED BY <2>3
<1>2. ASSUME NEW m \in G PROVE m + 1 \in G
  <2> SUFFICES ASSUME m + 1 <= Len(s) PROVE \E f : KeptUpTo(f, K, s, S, m + 1)
    OBVIOUS
  <2>1. Len(s) \in Nat /\ m \in Nat /\ s[m + 1] \in K
    OBVIOUS
  <2>2. PICK f : KeptUpTo(f, K, s, S, m)
    BY <2>1
  <2>3. f \in [0..m -> Seq(K)] /\ \A n \in 0..m : f[n] = KeptOf(f, s, S, n)
    BY <2>2 DEF KeptUpTo
  <2> DEFINE x == IF s[m + 1] \in S THEN f[m] ELSE Append(f[m], s[m + 1])
             z == [n \in 0..(m + 1) |-> IF n <= m THEN f[n] ELSE x]
  <2>4. x \in Seq(K)
    <3>1. f[m] \in Seq(K)
      BY <2>1, <2>3
    <3> QED BY <2>1, <3>1
  <2> HIDE DEF x
  <2>5. z \in [0..(m + 1) -> Seq(K)]
    BY <2>1, <2>3, <2>4
  <2>6. ASSUME NEW n \in 0..m PROVE z[n] = KeptOf(z, s, S, n)
    <3>1. z[n] = f[n] /\ (n # 0 => z[n - 1] = f[n - 1])
      BY <2>1
    <3>2. f[n] = KeptOf(f, s, S, n)
      BY <2>3
    <3> HIDE DEF z
    <3>3. KeptOf(z, s, S, n) = KeptOf(f, s, S, n)
      BY <3>1 DEF KeptOf
    <3> QED BY <3>1, <3>2, <3>3
  <2>7. z[m + 1] = KeptOf(z, s, S, m + 1)
    <3>1. z[m + 1] = x /\ z[m] = f[m] /\ (m + 1) - 1 = m /\ m + 1 # 0
      BY <2>1
    <3> HIDE DEF z
    <3> QED BY <3>1 DEF KeptOf, x
  <2> HIDE DEF z
  <2>8. \A n \in 0..(m + 1) : z[n] = KeptOf(z, s, S, n)
    <3>1. \A n \in 0..(m + 1) : n \in 0..m \/ n = m + 1
      BY <2>1
    <3> QED BY <3>1, <2>6, <2>7
  <2>9. KeptUpTo(z, K, s, S, m + 1)
    BY <2>5, <2>8 DEF KeptUpTo
  <2> QED BY <2>9
<1>3. PICK f : KeptUpTo(f, K, s, S, Len(s))
  <2> HIDE DEF G
  <2>1. G \in SUBSET Nat
    BY DEF G
  <2>2. G = Nat
    BY <1>1, <1>2, <2>1, Induction
  <2>3. Len(s) \in G
    BY <2>2
  <2> QED BY <2>3 DEF G
<1>4. f = [n \in 0..Len(s) |-> KeptOf(f, s, S, n)]
  BY <1>3 DEF KeptUpTo
<1> QED BY <1>4

\* Without is what that recursion says.
LEMMA WithoutIsKept ==
  ASSUME NEW K, NEW s \in Seq(K), NEW S
  PROVE  \E f : f = [n \in 0..Len(s) |-> KeptOf(f, s, S, n)] /\ Without(s, S) = f[Len(s)]
PROOF
<1> DEFINE Solves(f) ==
             f = [n \in 0..Len(s) |->
                    IF n = 0 THEN <<>>
                    ELSE IF s[n] \in S THEN f[n - 1] ELSE Append(f[n - 1], s[n])]
           k == CHOOSE f : Solves(f)
<1>1. \E f : f = [n \in 0..Len(s) |-> KeptOf(f, s, S, n)]
  BY KeptExists
<1>2. \E f : Solves(f)
  BY <1>1, Zenon DEF KeptOf
<1>3. Solves(k)
  <2> HIDE DEF Solves
  <2> QED BY <1>2, Zenon
<1>4. Without(s, S) = k[Len(s)]
  BY Zenon DEF Without
<1> QED BY <1>3, <1>4, Zenon DEF KeptOf

\* x stands before y in s.
Before(s, x, y) == \E i, j \in DOMAIN s : i < j /\ s[i] = x /\ s[j] = y

\* t is what is kept of the first n entries of s: those not in S, in their order.
Keeps(t, K, s, S, n) ==
  /\ t \in Seq(K)
  /\ \A x : InList(t, x) <=> x \notin S /\ \E i \in 1..n : s[i] = x
  /\ \A x, y : Before(t, x, y) => \E i, j \in 1..n : i < j /\ s[i] = x /\ s[j] = y

\* An entry added at the end is the last of the list.
LEMMA Added ==
  ASSUME NEW K, NEW s \in Seq(K), NEW k \in K
  PROVE  /\ Append(s, k) \in Seq(K)
         /\ \A x : InList(Append(s, k), x) <=> InList(s, x) \/ x = k
         /\ \A x, y : Before(Append(s, k), x, y) => Before(s, x, y) \/ (InList(s, x) /\ y = k)
PROOF
<1> DEFINE t == Append(s, k)
<1>1. /\ t \in Seq(K) /\ Len(t) = Len(s) + 1 /\ Len(s) \in Nat
      /\ \A i \in 1..Len(s) : t[i] = s[i]
      /\ t[Len(s) + 1] = k
  OBVIOUS
<1>2. DOMAIN t = 1..(Len(s) + 1) /\ DOMAIN s = 1..Len(s)
  BY <1>1
<1> HIDE DEF t
<1>3. \A i \in DOMAIN t : i \in DOMAIN s \/ i = Len(s) + 1
  BY <1>1, <1>2
<1>4. ASSUME NEW x PROVE InList(t, x) <=> InList(s, x) \/ x = k
  <2>1. InList(s, x) => InList(t, x)
    BY <1>1, <1>2 DEF InList
  <2>2. InList(t, k)
    BY <1>1, <1>2 DEF InList
  <2>3. InList(t, x) => InList(s, x) \/ x = k
    BY <1>1, <1>2, <1>3 DEF InList
  <2> QED BY <2>1, <2>2, <2>3
<1>5. ASSUME NEW x, NEW y, Before(t, x, y) PROVE Before(s, x, y) \/ (InList(s, x) /\ y = k)
  <2>1. PICK i, j \in DOMAIN t : i < j /\ t[i] = x /\ t[j] = y
    BY <1>5 DEF Before
  <2>2. i \in DOMAIN s /\ s[i] = x
    BY <2>1, <1>1, <1>2
  <2>3. CASE j \in DOMAIN s
    BY <2>1, <2>2, <2>3, <1>1, <1>2 DEF Before
  <2>4. CASE j = Len(s) + 1
    BY <2>1, <2>2, <2>4, <1>1 DEF InList
  <2> QED BY <2>3, <2>4, <1>3
<1>6. \A x : InList(t, x) <=> InList(s, x) \/ x = k
  BY <1>4
<1>7. \A x, y : Before(t, x, y) => Before(s, x, y) \/ (InList(s, x) /\ y = k)
  BY <1>5
<1> QED BY <1>1, <1>6, <1>7 DEF t

\* Without takes out what is in S and keeps the rest in its order.
LEMMA WithoutKeeps ==
  ASSUME NEW K, NEW s \in Seq(K), NEW S
  PROVE  /\ Without(s, S) \in Seq(K)
         /\ \A x : InList(Without(s, S), x) <=> InList(s, x) /\ x \notin S
         /\ \A x, y : Before(Without(s, S), x, y) => Before(s, x, y)
PROOF
<1>1. PICK f : f = [n \in 0..Len(s) |-> KeptOf(f, s, S, n)] /\ Without(s, S) = f[Len(s)]
  BY WithoutIsKept
<1>2. Len(s) \in Nat /\ DOMAIN s = 1..Len(s)
  OBVIOUS
<1> DEFINE G == {m \in Nat : m <= Len(s) => Keeps(f[m], K, s, S, m)}
<1>3. 0 \in G
  <2>1. f[0] = <<>>
    BY <1>1, <1>2 DEF KeptOf
  <2>2. \A x : ~InList(<<>>, x)
    BY DEF InList
  <2>3. \A x, y : ~Before(<<>>, x, y)
    BY DEF Before
  <2>4. <<>> \in Seq(K) /\ \A i \in 1..0 : FALSE
    OBVIOUS
  <2>5. Keeps(<<>>, K, s, S, 0)
    BY <2>2, <2>3, <2>4, Zenon DEF Keeps
  <2> QED BY <2>1, <2>5
<1>4. ASSUME NEW m \in G PROVE m + 1 \in G
  <2> SUFFICES ASSUME m + 1 <= Len(s) PROVE Keeps(f[m + 1], K, s, S, m + 1)
    OBVIOUS
  <2>1. m \in Nat /\ s[m + 1] \in K /\ m + 1 \in 0..Len(s) /\ m + 1 # 0 /\ (m + 1) - 1 = m
    BY <1>2
  <2>2. Keeps(f[m], K, s, S, m)
    BY <1>2, <2>1
  <2>3. f[m + 1] = IF s[m + 1] \in S THEN f[m] ELSE Append(f[m], s[m + 1])
    <3>1. f[m + 1] = KeptOf(f, s, S, m + 1)
      BY <1>1, <2>1
    <3> QED BY <3>1, <2>1 DEF KeptOf
  <2> HIDE DEF G
  <2>4. \A i : i \in 1..(m + 1) <=> i \in 1..m \/ i = m + 1
    BY <2>1
  <2>5. m + 1 \in 1..(m + 1) /\ \A i \in 1..m : i < m + 1
    BY <2>1
  <2>6. CASE s[m + 1] \in S
    <3>1. f[m + 1] = f[m]
      BY <2>3, <2>6
    <3>2. ASSUME NEW x PROVE InList(f[m], x) <=> x \notin S /\ \E i \in 1..(m + 1) : s[i] = x
      BY <2>2, <2>4, <2>6 DEF Keeps
    <3>3. ASSUME NEW x, NEW y, Before(f[m], x, y)
          PROVE  \E i, j \in 1..(m + 1) : i < j /\ s[i] = x /\ s[j] = y
      BY <2>2, <2>4, <3>3 DEF Keeps
    <3> QED BY <2>2, <3>1, <3>2, <3>3 DEF Keeps
  <2>7. CASE s[m + 1] \notin S
    <3> DEFINE k == s[m + 1]
               t == Append(f[m], k)
    <3>1. f[m + 1] = t /\ f[m] \in Seq(K) /\ k \in K
      BY <2>1, <2>2, <2>3, <2>7 DEF Keeps
    <3>2. /\ t \in Seq(K)
          /\ \A x : InList(t, x) <=> InList(f[m], x) \/ x = k
          /\ \A x, y : Before(t, x, y) => Before(f[m], x, y) \/ (InList(f[m], x) /\ y = k)
      BY <3>1, Added
    <3> HIDE DEF t
    <3>3. ASSUME NEW x PROVE InList(t, x) <=> x \notin S /\ \E i \in 1..(m + 1) : s[i] = x
      <4>1. InList(t, x) <=> (x \notin S /\ \E i \in 1..m : s[i] = x) \/ x = k
        BY <3>2, <2>2 DEF Keeps
      <4> QED BY <4>1, <2>4, <2>5, <2>7
    <3>4. ASSUME NEW x, NEW y, Before(t, x, y)
          PROVE  \E i, j \in 1..(m + 1) : i < j /\ s[i] = x /\ s[j] = y
      <4>1. CASE Before(f[m], x, y)
        BY <4>1, <2>2, <2>4 DEF Keeps
      <4>2. CASE InList(f[m], x) /\ y = k
        <5>1. PICK i \in 1..m : s[i] = x
          BY <4>2, <2>2 DEF Keeps
        <5> QED BY <5>1, <4>2, <2>4, <2>5
      <4> QED BY <4>1, <4>2, <3>2, <3>4
    <3> QED BY <3>1, <3>2, <3>3, <3>4 DEF Keeps
  <2> QED BY <2>6, <2>7
<1>5. Keeps(f[Len(s)], K, s, S, Len(s))
  <2> HIDE DEF G
  <2>1. G \in SUBSET Nat
    BY DEF G
  <2>2. Len(s) \in G
    BY <1>2, <1>3, <1>4, <2>1, Induction
  <2> QED BY <1>2, <2>2 DEF G
<1>6. ASSUME NEW x PROVE InList(Without(s, S), x) <=> InList(s, x) /\ x \notin S
  BY <1>1, <1>2, <1>5 DEF Keeps, InList
<1>7. ASSUME NEW x, NEW y, Before(Without(s, S), x, y) PROVE Before(s, x, y)
  BY <1>1, <1>2, <1>5, <1>7 DEF Keeps, Before
<1> QED BY <1>1, <1>5, <1>6, <1>7 DEF Keeps

(***************************************************************************)
(* The inductive invariant                                                 *)
(***************************************************************************)

Rounding == run.step \in {"send", "asked", "answered"}
Asking   == run.step \in {"asked", "answered"}
Noted(k) == \E a \in Account : InList(notes[a], k)

\* The types, and that a request that was answered is the first of what is left.
Types == TypeOK /\ (run.step = "answered" => run.left # <<>>)

\* Every key is held once, by one account; what waits stands in the order it was held; what carries a
\* refusal was refused.
Listed ==
  /\ refused \subseteq balked
  /\ \A a \in Account : \A x : ~Before(notes[a], x, x)
  /\ \A a \in Account : \A x, y : Before(notes[a], x, y) => ~Before(notes[a], y, x)
  /\ \A a, b \in Account : \A x : InList(notes[a], x) /\ InList(notes[b], x) => a = b
  /\ \A a \in Account : \A x : InList(waiting[a], x) => InList(notes[a], x)
  /\ \A a \in Account : \A x, y : Before(waiting[a], x, y) => Before(notes[a], x, y)

\* What a round has left stands in the order it was held, and with an entry it has every older one
\* that waits and was never refused.
Sorted ==
  Rounding =>
    /\ \A x : InList(run.left, x) => InList(notes[run.for], x)
    /\ \A x, y : Before(run.left, x, y) => Before(notes[run.for], x, y)
    /\ \A x, y : /\ InList(run.left, y) /\ Before(notes[run.for], x, y)
                 /\ InList(waiting[run.for], x) /\ x \notin balked
                 => InList(run.left, x)

\* Nothing older than k, held by the same account and never refused, waits.
Clear(k) ==
  \A a \in Account : \A x : Before(notes[a], x, k) /\ InList(waiting[a], x) => x \in balked

\* A moment on its way, or arrived, was held here, and nothing older waits.
Flying ==
  /\ \A a \in Account, k \in Key : <<a, k>> \in late => Noted(k) /\ Clear(k)
  /\ Asking => Clear(Head(run.left))
  /\ \A i \in DOMAIN made : Noted(made[i][2]) /\ Clear(made[i][2])

\* A round nobody asked to follow by another is for the account confirmed, and has left every moment
\* of it that a form waits for.
Following ==
  run.step # "idle" /\ ~again /\ sender # None =>
    /\ run.for = sender
    /\ Rounding => \A k \in holding : InList(waiting[sender], k) => InList(run.left, k) \/ k \in refused

\* A row stands for a moment that was made, and "held" is said of one.
Backed ==
  /\ \A a \in Account, k \in Key : row[a][k] # "none" => Made(k)
  /\ run.step = "answered" /\ run.reply = "held" => Made(Head(run.left))

\* A key its author could still use has one moment less.
Counted ==
  \A a \in Account, k \in Key :
    /\ Times(a, k) <= 1 + returns[a]
    /\ a \in member /\ row[a][k] = "none" => Times(a, k) <= returns[a]

IInv == Types /\ Listed /\ Sorted /\ Flying /\ Following /\ Backed /\ Counted
-----------------------------------------------------------------------------
(***************************************************************************)
(* Lists                                                                   *)
(***************************************************************************)

\* What stands before another is in the list, and so is the other.
LEMMA BeforeIsIn ==
  ASSUME NEW s, NEW x, NEW y, Before(s, x, y)
  PROVE  InList(s, x) /\ InList(s, y)
PROOF BY DEF Before, InList

\* Of two entries one stands before the other.
LEMMA InLine ==
  ASSUME NEW K, NEW s \in Seq(K), NEW x, NEW y, InList(s, x), InList(s, y), x # y
  PROVE  Before(s, x, y) \/ Before(s, y, x)
PROOF
<1>1. PICK i \in DOMAIN s : s[i] = x
  BY DEF InList
<1>2. PICK j \in DOMAIN s : s[j] = y
  BY DEF InList
<1>3. i \in Int /\ j \in Int /\ i # j
  BY <1>1, <1>2
<1>4. i < j \/ j < i
  BY <1>3
<1> QED BY <1>1, <1>2, <1>4 DEF Before

\* The first entry stands before every other, and the rest keeps its order.
LEMMA HeadAndTail ==
  ASSUME NEW K, NEW s \in Seq(K), s # <<>>
  PROVE  /\ Head(s) \in K /\ InList(s, Head(s))
         /\ Tail(s) \in Seq(K)
         /\ \A x : InList(s, x) => x = Head(s) \/ InList(Tail(s), x)
         /\ \A x : InList(Tail(s), x) => InList(s, x)
         /\ \A x, y : Before(Tail(s), x, y) => Before(s, x, y)
         /\ \A x : InList(s, x) /\ x # Head(s) => Before(s, Head(s), x)
PROOF
<1>1. /\ Len(s) \in Nat /\ Len(s) # 0 /\ DOMAIN s = 1..Len(s)
      /\ Head(s) = s[1] /\ 1 \in DOMAIN s /\ Head(s) \in K
  OBVIOUS
<1>2. /\ Tail(s) \in Seq(K) /\ DOMAIN Tail(s) = 1..(Len(s) - 1)
      /\ \A i \in 1..(Len(s) - 1) : Tail(s)[i] = s[i + 1]
  OBVIOUS
<1>3. \A i \in DOMAIN Tail(s) : i \in Int /\ i + 1 \in DOMAIN s /\ Tail(s)[i] = s[i + 1]
  BY <1>1, <1>2
<1>4. \A i \in DOMAIN s : i \in Int /\ (i = 1 \/ (i - 1 \in DOMAIN Tail(s) /\ Tail(s)[i - 1] = s[i]))
  BY <1>1, <1>2
<1>5. ASSUME NEW x, InList(s, x) PROVE x = Head(s) \/ InList(Tail(s), x)
  BY <1>1, <1>4, <1>5 DEF InList
<1>6. ASSUME NEW x, InList(Tail(s), x) PROVE InList(s, x)
  BY <1>3, <1>6 DEF InList
<1>7. ASSUME NEW x, NEW y, Before(Tail(s), x, y) PROVE Before(s, x, y)
  <2>1. PICK i, j \in DOMAIN Tail(s) : i < j /\ Tail(s)[i] = x /\ Tail(s)[j] = y
    BY <1>7 DEF Before
  <2>2. i + 1 \in DOMAIN s /\ j + 1 \in DOMAIN s /\ i + 1 < j + 1 /\ s[i + 1] = x /\ s[j + 1] = y
    BY <1>3, <2>1
  <2> QED BY <2>2 DEF Before
<1>8. ASSUME NEW x, InList(s, x), x # Head(s) PROVE Before(s, Head(s), x)
  <2>1. PICK i \in DOMAIN s : s[i] = x
    BY <1>8 DEF InList
  <2>2. 1 < i
    BY <1>1, <1>8, <2>1
  <2> QED BY <1>1, <2>1, <2>2 DEF Before
<1>9. InList(s, Head(s))
  BY <1>1 DEF InList
<1> QED BY <1>1, <1>2, <1>5, <1>6, <1>7, <1>8, <1>9

(***************************************************************************)
(* The run                                                                 *)
(***************************************************************************)

RunSet ==
  [step : {"idle", "list", "send", "asked", "answered"},
   for : Maybe, left : Seq(Key), as : Maybe,
   reply : {"none", "held", "refused", "wait", "signed-out"}, renewed : BOOLEAN]

RunTyped(r) ==
  /\ r \in RunSet
  /\ r.step = "idle" <=> r.for = None
  /\ r.step = "asked" => r.as # None /\ r.left # <<>>
  /\ r.step = "answered" => r.left # <<>>

\* A run that is over, and one that begins.
LEMMA IdleTyped ==
  /\ RunTyped(Idle) /\ Idle.step = "idle" /\ Idle.for = None /\ Idle.left = <<>>
PROOF
<1>1. Idle.step = "idle" /\ Idle.for = None /\ Idle.left = <<>>
  BY DEF Idle
<1>2. Idle \in RunSet
  BY DEF Idle, RunSet, Maybe
<1> QED BY <1>1, <1>2 DEF RunTyped

LEMMA RoundTyped ==
  ASSUME NEW a \in Account
  PROVE  RunTyped(Round(a)) /\ Round(a).step = "list" /\ Round(a).for = a /\ Round(a).left = <<>>
PROOF
<1>1. Idle \in RunSet /\ Idle.left = <<>>
  BY IdleTyped DEF RunTyped
<1>2. Round(a) \in RunSet /\ Round(a).step = "list" /\ Round(a).for = a /\ Round(a).left = <<>>
  BY <1>1 DEF Round, RunSet, Maybe
<1>3. a # None
  BY WaitingAssumption
<1> QED BY <1>2, <1>3 DEF RunTyped

\* A round that sends an entry, hears the answer, or goes on.
LEMMA SendTyped ==
  ASSUME NEW r, RunTyped(r), r.step = "send", r.left # <<>>, NEW t \in Account,
         NEW n, n = [r EXCEPT !.step = "asked", !.as = t]
  PROVE  RunTyped(n) /\ n.step = "asked" /\ n.for = r.for /\ n.left = r.left
PROOF
<1>1. n \in RunSet /\ n.step = "asked" /\ n.for = r.for /\ n.left = r.left /\ n.as = t
  BY DEF RunTyped, RunSet, Maybe
<1>2. t # None
  BY WaitingAssumption
<1> QED BY <1>1, <1>2 DEF RunTyped

LEMMA RenewTyped ==
  ASSUME NEW r, RunTyped(r), r.step = "answered", NEW t \in Account,
         NEW n, n = [r EXCEPT !.step = "asked", !.as = t, !.reply = "none", !.renewed = TRUE]
  PROVE  RunTyped(n) /\ n.step = "asked" /\ n.for = r.for /\ n.left = r.left
PROOF
<1>1. n \in RunSet /\ n.step = "asked" /\ n.for = r.for /\ n.left = r.left /\ n.as = t
  BY DEF RunTyped, RunSet, Maybe
<1>2. t # None
  BY WaitingAssumption
<1> QED BY <1>1, <1>2 DEF RunTyped

LEMMA AnswerTyped ==
  ASSUME NEW r, RunTyped(r), r.step = "asked", NEW x \in {"held", "refused", "wait", "signed-out"},
         NEW n, n = [r EXCEPT !.step = "answered", !.reply = x]
  PROVE  RunTyped(n) /\ n.step = "answered" /\ n.for = r.for /\ n.left = r.left /\ n.reply = x
PROOF
<1>1. n \in RunSet /\ n.step = "answered" /\ n.for = r.for /\ n.left = r.left /\ n.reply = x
  BY DEF RunTyped, RunSet
<1> QED BY <1>1 DEF RunTyped

LEMMA LostTyped ==
  ASSUME NEW r, RunTyped(r), r.step = "answered", NEW n, n = [r EXCEPT !.reply = "wait"]
  PROVE  RunTyped(n) /\ n.step = "answered" /\ n.for = r.for /\ n.left = r.left /\ n.reply = "wait"
PROOF
<1>1. n \in RunSet /\ n.step = "answered" /\ n.for = r.for /\ n.left = r.left /\ n.reply = "wait"
  BY DEF RunTyped, RunSet
<1> QED BY <1>1 DEF RunTyped

LEMMA OnwardsTyped ==
  ASSUME RunTyped(run), run.step = "answered", NEW n, n = Onwards
  PROVE  RunTyped(n) /\ n.step = "send" /\ n.for = run.for /\ n.left = Tail(run.left)
PROOF
<1>1. run.left \in Seq(Key) /\ run.left # <<>>
  BY DEF RunTyped, RunSet
<1>2. Tail(run.left) \in Seq(Key)
  BY <1>1
<1>3. n \in RunSet /\ n.step = "send" /\ n.for = run.for /\ n.left = Tail(run.left)
  BY <1>2 DEF RunTyped, RunSet, Onwards, Maybe
<1> QED BY <1>3 DEF RunTyped
-----------------------------------------------------------------------------
(***************************************************************************)
(* What a step does                                                        *)
(***************************************************************************)

\* Entries leave the lists and none is added.
Shrunk ==
  /\ waiting' \in [Account -> Seq(Key)]
  /\ \A a \in Account : \A x : InList(waiting'[a], x) => InList(waiting[a], x)
  /\ \A a \in Account : \A x, y : Before(waiting'[a], x, y) => Before(waiting[a], x, y)

\* A key is added at the end of the sender's list.
Noting(k) ==
  /\ sender \in Account /\ \A a \in Account : ~InList(notes[a], k)
  /\ waiting' = [waiting EXCEPT ![sender] = Append(@, k)]
  /\ notes'   = [notes EXCEPT ![sender] = Append(@, k)]

\* What a step does to the lists.
Lists ==
  /\ balked \subseteq balked' /\ balked' \subseteq Key
  /\ refused' \subseteq Key /\ refused' \subseteq refused \cup balked' /\ holding' \subseteq Key
  /\ \/ Shrunk /\ notes' = notes
     \/ \E k \in Key : Noting(k)

\* What a step does to the run.
Course ==
  /\ RunTyped(run')
  /\ \/ run' = run
     \/ run'.step \in {"idle", "list"}
     \/ /\ run.step = "list" /\ run'.step = "send"
        /\ run'.for = run.for /\ run'.left = Without(waiting[run.for], refused)
        /\ waiting' = waiting /\ notes' = notes
     \/ /\ run.step = "send" /\ run'.step = "asked" /\ run.left # <<>>
        /\ run'.for = run.for /\ run'.left = run.left
        /\ waiting' = waiting /\ notes' = notes
     \/ /\ Asking /\ run'.step \in {"asked", "answered"}
        /\ run'.for = run.for /\ run'.left = run.left
     \/ /\ run.step = "answered" /\ run'.step = "send" /\ run.left # <<>>
        /\ run'.for = run.for /\ run'.left = Tail(run.left)
        /\ ~InList(waiting'[run.for], Head(run.left)) \/ Head(run.left) \in balked'
        /\ notes' = notes

\* What a step does to the journey.
Arrives(a, k) ==
  /\ a \in member /\ row[a][k] = "none"
  /\ <<a, k>> \in late \/ (run.step = "asked" /\ k = Head(run.left))
  /\ row' = [row EXCEPT ![a][k] = "moment"] /\ made' = Append(made, <<a, k>>)
  /\ UNCHANGED <<member, returns>>

Journeying ==
  \/ UNCHANGED <<member, row, returns, made>>
  \/ \E a \in Account, k \in Key :
       /\ row[a][k] = "moment" /\ row' = [row EXCEPT ![a][k] = "deleted"]
       /\ UNCHANGED <<member, returns, made>>
  \/ \E a \in Account : Left(a) /\ UNCHANGED <<returns, made>>
  \/ \E a \in Account :
       /\ a \notin member /\ returns[a] < MaxReturns
       /\ member' = member \cup {a} /\ returns' = [returns EXCEPT ![a] = @ + 1]
       /\ UNCHANGED <<row, made>>
  \/ \E a \in Account, k \in Key : Arrives(a, k)

\* A request on its way was, or is the one the phone had under way.
Sending ==
  \/ late' \subseteq late
  \/ run.step = "asked" /\ late' = late \cup {<<run.as, Head(run.left)>>}

\* "held" is said by the server alone.
Told ==
  run'.step = "answered" /\ run'.reply = "held" => run' = run \/ \E k \in Key : Serve(k)

Rest ==
  /\ tokens' \in Maybe /\ sender' \in Maybe /\ again' \in BOOLEAN
  /\ run'.step = "idle" => holding' = {} /\ ~again'
  /\ live' \subseteq Account /\ mishaps' \in 0..MaxMishaps

Effect == Lists /\ Course /\ Journeying /\ Sending /\ Told /\ Rest

\* Lists that stay as they are.
LEMMA ListsSame ==
  ASSUME TypeOK, waiting' = waiting, notes' = notes,
         balked' = balked, refused' \subseteq refused, holding' \subseteq Key
  PROVE  Lists
PROOF
<1>1. Shrunk
  BY DEF Shrunk, TypeOK
<1> QED BY <1>1 DEF Lists, TypeOK

\* One entry taken off a list.
LEMMA ShrunkByOne ==
  ASSUME TypeOK, NEW a \in Account, NEW k, waiting' = [waiting EXCEPT ![a] = Without(@, {k})]
  PROVE  Shrunk /\ ~InList(waiting'[a], k)
PROOF
<1>1. waiting \in [Account -> Seq(Key)] /\ waiting[a] \in Seq(Key)
  BY DEF TypeOK
<1>2. /\ Without(waiting[a], {k}) \in Seq(Key)
      /\ \A x : InList(Without(waiting[a], {k}), x) <=> InList(waiting[a], x) /\ x \notin {k}
      /\ \A x, y : Before(Without(waiting[a], {k}), x, y) => Before(waiting[a], x, y)
  BY <1>1, WithoutKeeps
<1>3. /\ waiting' \in [Account -> Seq(Key)]
      /\ waiting'[a] = Without(waiting[a], {k})
      /\ \A b \in Account : b # a => waiting'[b] = waiting[b]
  BY <1>1, <1>2
<1>4. \A b \in Account : \A x : InList(waiting'[b], x) => InList(waiting[b], x)
  BY <1>2, <1>3, Zenon
<1>5. \A b \in Account : \A x, y : Before(waiting'[b], x, y) => Before(waiting[b], x, y)
  BY <1>2, <1>3, Zenon
<1>6. ~InList(waiting'[a], k)
  BY <1>2, <1>3
<1> QED BY <1>3, <1>4, <1>5, <1>6 DEF Shrunk

\* A list emptied.
LEMMA ShrunkByEmpty ==
  ASSUME TypeOK, NEW a \in Account, Emptied(a)
  PROVE  Shrunk /\ waiting'[a] = <<>> /\ refused' \subseteq refused
PROOF
<1>1. waiting \in [Account -> Seq(Key)]
  BY DEF TypeOK
<1>2. /\ waiting' \in [Account -> Seq(Key)] /\ waiting'[a] = <<>>
      /\ \A b \in Account : b # a => waiting'[b] = waiting[b]
  BY <1>1 DEF Emptied
<1>3. \A x, y : ~InList(<<>>, x) /\ ~Before(<<>>, x, y)
  BY DEF InList, Before
<1>4. \A b \in Account : \A x : InList(waiting'[b], x) => InList(waiting[b], x)
  BY <1>2, <1>3, Zenon
<1>5. \A b \in Account : \A x, y : Before(waiting'[b], x, y) => Before(waiting[b], x, y)
  BY <1>2, <1>3, Zenon
<1> QED BY <1>2, <1>4, <1>5 DEF Shrunk, Emptied

\* The run ends: entries refused go back to their forms.
LEMMA ShrunkByEnd ==
  ASSUME TypeOK, RunEnds
  PROVE  /\ Shrunk /\ refused' \subseteq refused /\ holding' = {} /\ ~again' /\ again' \in BOOLEAN
         /\ run' = Idle
         /\ \A a \in Account : \A x :
              InList(waiting[a], x) => InList(waiting'[a], x) \/ x \in refused
PROOF
<1> DEFINE back == holding \cap refused
<1>1. waiting \in [Account -> Seq(Key)]
  BY DEF TypeOK
<1>2. /\ waiting' = [a \in Account |-> Without(waiting[a], back)]
      /\ refused' = refused \ back /\ holding' = {} /\ ~again' /\ again' \in BOOLEAN
      /\ run' = Idle
  BY DEF RunEnds
<1>3. ASSUME NEW a \in Account
      PROVE  /\ waiting'[a] \in Seq(Key)
             /\ \A x : InList(waiting'[a], x) <=> InList(waiting[a], x) /\ x \notin back
             /\ \A x, y : Before(waiting'[a], x, y) => Before(waiting[a], x, y)
  <2>1. waiting[a] \in Seq(Key) /\ waiting'[a] = Without(waiting[a], back)
    BY <1>1, <1>2
  <2> HIDE DEF back
  <2> QED BY <2>1, WithoutKeeps
<1>4. waiting' \in [Account -> Seq(Key)]
  BY <1>2, <1>3
<1> QED BY <1>2, <1>3, <1>4 DEF Shrunk
-----------------------------------------------------------------------------
(***************************************************************************)
(* What each action does                                                   *)
(***************************************************************************)

\* A step that is not the server's.
LEMMA Apart ==
  ASSUME UNCHANGED <<late, member, row, returns, made>>
  PROVE  Journeying /\ Sending
PROOF BY DEF Journeying, Sending

\* Drain starts a round, or asks for another.
LEMMA DrainGoes ==
  ASSUME Types, NEW s \in Maybe, Drain(s)
  PROVE  /\ Course /\ Told /\ again' \in BOOLEAN
         /\ run.step # "idle" => run' = run /\ again' = TRUE
         /\ run.step = "idle" =>
              /\ again' = again /\ ~again' /\ holding = {}
              /\ s = None => run' = Idle
              /\ s # None => run'.step = "list" /\ run'.for = s
PROOF
<1>1. RunTyped(run) /\ again \in BOOLEAN /\ (run.step = "idle" => holding = {} /\ ~again)
  BY DEF Types, TypeOK, RunTyped, RunSet
<1>2. CASE run.step # "idle"
  <2>1. run' = run /\ again' = TRUE
    BY <1>2 DEF Drain
  <2> QED BY <1>1, <1>2, <2>1 DEF Course, Told
<1>3. CASE run.step = "idle" /\ s = None
  <2>1. run' = Idle /\ again' = again
    BY <1>3 DEF Drain
  <2>2. RunTyped(run') /\ run'.step = "idle"
    BY <2>1, IdleTyped
  <2> QED BY <1>1, <1>3, <2>1, <2>2 DEF Course, Told
<1>4. CASE run.step = "idle" /\ s # None
  <2>1. run' = Round(s) /\ again' = again /\ s \in Account
    BY <1>4 DEF Drain, Maybe
  <2>2. RunTyped(run') /\ run'.step = "list" /\ run'.for = s
    BY <2>1, RoundTyped
  <2> QED BY <1>1, <1>4, <2>1, <2>2 DEF Course, Told
<1> QED BY <1>2, <1>3, <1>4

\* A run that ends is over.
LEMMA EndGoes ==
  ASSUME Types, RunEnds, notes' = notes, balked' = balked
  PROVE  Lists /\ Course /\ Told /\ run'.step = "idle" /\ holding' = {} /\ ~again' /\ again' \in BOOLEAN
PROOF
<1>1. TypeOK
  BY DEF Types
<1>2. Shrunk /\ refused' \subseteq refused /\ holding' = {} /\ ~again' /\ again' \in BOOLEAN /\ run' = Idle
  BY <1>1, ShrunkByEnd
<1>3. RunTyped(run') /\ run'.step = "idle"
  BY <1>2, IdleTyped
<1> QED BY <1>1, <1>2, <1>3 DEF Lists, Course, Told, TypeOK

\* A round that ends goes over to another or ends the run.
LEMMA RoundGoes ==
  ASSUME Types, EndRound, notes' = notes, balked' = balked
  PROVE  /\ Lists /\ Course /\ Told /\ again' \in BOOLEAN /\ ~again'
         /\ run'.step = "idle" => holding' = {}
         /\ again /\ sender # None => run'.step = "list" /\ run'.for = sender
         /\ ~(again /\ sender # None) => RunEnds /\ run'.step = "idle"
PROOF
<1>1. TypeOK /\ sender \in Maybe
  BY DEF Types, TypeOK
<1>2. CASE again /\ sender # None
  <2>1. run' = Round(sender) /\ again' = FALSE /\ UNCHANGED <<waiting, refused, holding>> /\ sender \in Account
    BY <1>1, <1>2 DEF EndRound, Maybe
  <2>2. RunTyped(run') /\ run'.step = "list" /\ run'.for = sender
    BY <2>1, RoundTyped
  <2>3. refused' \subseteq refused /\ holding' \subseteq Key
    BY <1>1, <2>1 DEF TypeOK
  <2>4. Lists
    BY <1>1, <2>1, <2>3, ListsSame
  <2> QED BY <1>2, <2>1, <2>2, <2>4 DEF Course, Told
<1>3. CASE ~(again /\ sender # None)
  <2>1. RunEnds
    BY <1>3 DEF EndRound
  <2> QED BY <1>3, <2>1, EndGoes
<1> QED BY <1>2, <1>3

\* The list of the account is read.
LEMMA ListDoes ==
  ASSUME Types, List
  PROVE  Effect
PROOF
<1>1. TypeOK /\ RunTyped(run) /\ run.step = "list" /\ refused \subseteq Key /\ holding \subseteq Key
  BY DEF Types, TypeOK, List, RunTyped, RunSet
<1>2. run.for \in Account
  BY <1>1 DEF RunTyped, RunSet, Maybe
<1> DEFINE l == Without(waiting[run.for], refused)
<1>3. l \in Seq(Key)
  <2>1. waiting[run.for] \in Seq(Key)
    BY <1>1, <1>2 DEF TypeOK
  <2> QED BY <2>1, WithoutKeeps
<1> DEFINE n == [run EXCEPT !.step = "send", !.left = l]
<1>4. run' = n
  BY DEF List
<1> HIDE DEF l
<1>5. RunTyped(n) /\ n.step = "send" /\ n.for = run.for /\ n.left = l
  <2>1. n \in RunSet /\ n.step = "send" /\ n.for = run.for /\ n.left = l
    BY <1>1, <1>3 DEF RunTyped, RunSet
  <2> QED BY <1>1, <2>1 DEF RunTyped
<1>6. UNCHANGED <<waiting, refused, tokens, sender, again, holding, late, live, member, row, returns, made, notes, balked, mishaps>>
  BY DEF List, Kept, server, history
<1>7. Course /\ Told
  BY <1>1, <1>4, <1>5, <1>6 DEF Course, Told, l
<1>8. Lists
  BY <1>1, <1>6, ListsSame
<1>9. Journeying /\ Sending
  BY <1>6, Apart
<1>10. Rest
  BY <1>1, <1>4, <1>5, <1>6 DEF Rest, TypeOK
<1> QED BY <1>7, <1>8, <1>9, <1>10 DEF Effect

\* An entry is sent.
LEMMA SendDoes ==
  ASSUME Types, NEW k \in Key, Send(k)
  PROVE  Effect
PROOF
<1>1. TypeOK /\ RunTyped(run) /\ run.step = "send" /\ run.left # <<>> /\ refused \subseteq Key /\ holding \subseteq Key
  BY DEF Types, TypeOK, Send, RunTyped, RunSet
<1>2. tokens \in Account
  BY <1>1 DEF TypeOK, Maybe, Send
<1> DEFINE n == [run EXCEPT !.step = "asked", !.as = tokens]
<1>4. run' = n
  BY DEF Send
<1>5. RunTyped(n) /\ n.step = "asked" /\ n.for = run.for /\ n.left = run.left
  BY <1>1, <1>2, SendTyped
<1> HIDE DEF n
<1>6. UNCHANGED <<waiting, refused, tokens, sender, again, holding, late, live, member, row, returns, made, notes, balked, mishaps>>
  BY DEF Send, Kept, server, history
<1>7. Course /\ Told
  BY <1>1, <1>4, <1>5, <1>6 DEF Course, Told
<1>8. Lists
  BY <1>1, <1>6, ListsSame
<1>9. Journeying /\ Sending
  BY <1>6, Apart
<1>10. Rest
  BY <1>1, <1>4, <1>5, <1>6 DEF Rest, TypeOK
<1> QED BY <1>7, <1>8, <1>9, <1>10 DEF Effect

\* The sign-in was refused: the run ends.
LEMMA SignedOutEnds ==
  ASSUME Types, NEW t \in Maybe, EndSignedOut(t), UNCHANGED <<late, server, notes, balked, mishaps>>
  PROVE  Effect
PROOF
<1>1. RunEnds /\ tokens' = t /\ sender' = (IF t = None THEN None ELSE sender)
  BY DEF EndSignedOut
<1>2. UNCHANGED <<late, live, member, row, returns, made, notes, balked, mishaps>>
  BY DEF server
<1>3. Lists /\ Course /\ Told /\ run'.step = "idle" /\ holding' = {} /\ ~again' /\ again' \in BOOLEAN
  BY <1>1, <1>2, EndGoes
<1>4. Journeying /\ Sending
  BY <1>2, Apart
<1>5. tokens' \in Maybe /\ sender' \in Maybe
  BY <1>1 DEF Types, TypeOK, Maybe
<1>6. Rest
  BY <1>2, <1>3, <1>5 DEF Rest, Types, TypeOK
<1> QED BY <1>3, <1>4, <1>6 DEF Effect

LEMMA SendWithoutTokensDoes ==
  ASSUME Types, SendWithoutTokens
  PROVE  Effect
PROOF
<1>1. None \in Maybe /\ EndSignedOut(None) /\ UNCHANGED <<late, server, notes, balked, mishaps>>
  BY DEF SendWithoutTokens, Maybe
<1> QED BY <1>1, SignedOutEnds

LEMMA RenewalRefusedDoes ==
  ASSUME Types, RenewalRefused
  PROVE  Effect
PROOF
<1>1. None \in Maybe /\ tokens \in Maybe
  BY DEF Types, TypeOK, Maybe
<1>2. EndSignedOut(None) \/ EndSignedOut(tokens)
  BY DEF RenewalRefused
<1>3. UNCHANGED <<late, server, notes, balked, mishaps>>
  BY DEF RenewalRefused
<1> QED BY <1>1, <1>2, <1>3, SignedOutEnds

\* The round ends.
LEMMA RoundEnds ==
  ASSUME Types, EndRound, UNCHANGED <<tokens, sender, late, server, notes, balked, mishaps>>
  PROVE  Effect
PROOF
<1>1. UNCHANGED <<tokens, sender, late, live, member, row, returns, made, notes, balked, mishaps>>
  BY DEF server
<1>2. Lists /\ Course /\ Told /\ again' \in BOOLEAN /\ ~again' /\ (run'.step = "idle" => holding' = {})
  BY <1>1, RoundGoes
<1>3. Journeying /\ Sending
  BY <1>1, Apart
<1>4. Rest
  BY <1>1, <1>2 DEF Rest, Types, TypeOK
<1> QED BY <1>2, <1>3, <1>4 DEF Effect

LEMMA RoundDoneDoes ==
  ASSUME Types, RoundDone
  PROVE  Effect
PROOF BY RoundEnds DEF RoundDone

LEMMA HearNothingDoes ==
  ASSUME Types, HearNothing
  PROVE  Effect
PROOF BY RoundEnds DEF HearNothing

LEMMA RenewalUnreachedDoes ==
  ASSUME Types, RenewalUnreached
  PROVE  Effect
PROOF BY RoundEnds DEF RenewalUnreached

\* The answer is heard: the entry is done with.
LEMMA HearHeldDoes ==
  ASSUME Types, NEW k \in Key, HearHeld(k)
  PROVE  Effect
PROOF
<1>1. TypeOK /\ RunTyped(run) /\ run.step = "answered" /\ run.left # <<>> /\ Head(run.left) = k
  BY DEF Types, TypeOK, HearHeld, RunTyped, RunSet
<1>2. run.for \in Account
  BY <1>1 DEF RunTyped, RunSet, Maybe
<1>3. Shrunk /\ ~InList(waiting'[run.for], k)
  <2>1. waiting' = [waiting EXCEPT ![run.for] = Without(@, {k})]
    BY DEF HearHeld
  <2> QED BY <1>1, <1>2, <2>1, ShrunkByOne
<1>4. run' = Onwards
  BY DEF HearHeld
<1>5. RunTyped(run') /\ run'.step = "send" /\ run'.for = run.for /\ run'.left = Tail(run.left)
  BY <1>1, <1>4, OnwardsTyped
<1>6. UNCHANGED <<refused, tokens, sender, again, holding, late, live, member, row, returns, made, notes, balked, mishaps>>
  BY DEF HearHeld, Kept, server, history
<1>7. Course /\ Told
  BY <1>1, <1>3, <1>5, <1>6 DEF Course, Told
<1>8. Lists
  BY <1>1, <1>3, <1>6 DEF Lists, TypeOK
<1>9. Journeying /\ Sending
  BY <1>6, Apart
<1>10. Rest
  BY <1>1, <1>5, <1>6 DEF Rest, TypeOK
<1> QED BY <1>7, <1>8, <1>9, <1>10 DEF Effect

LEMMA HearRefusedDoes ==
  ASSUME Types, NEW k \in Key, HearRefused(k)
  PROVE  Effect
PROOF
<1>1. TypeOK /\ RunTyped(run) /\ run.step = "answered" /\ run.left # <<>> /\ Head(run.left) = k
  BY DEF Types, TypeOK, HearRefused, RunTyped, RunSet
<1>2. refused' \subseteq Key /\ refused' \subseteq refused \cup balked' /\ balked \subseteq balked' /\ balked' \subseteq Key /\ k \in balked'
  BY <1>1 DEF HearRefused, TypeOK
<1>4. run' = Onwards
  BY DEF HearRefused
<1>5. RunTyped(run') /\ run'.step = "send" /\ run'.for = run.for /\ run'.left = Tail(run.left)
  BY <1>1, <1>4, OnwardsTyped
<1>6. UNCHANGED <<waiting, tokens, sender, again, holding, late, live, member, row, returns, made, notes, mishaps>>
  BY DEF HearRefused, server
<1>7. Course /\ Told
  BY <1>1, <1>2, <1>5, <1>6 DEF Course, Told
<1>8. Lists
  BY <1>1, <1>2, <1>6 DEF Lists, Shrunk, TypeOK
<1>9. Journeying /\ Sending
  BY <1>6, Apart
<1>10. Rest
  BY <1>1, <1>5, <1>6 DEF Rest, TypeOK
<1> QED BY <1>7, <1>8, <1>9, <1>10 DEF Effect

\* The request is sent again with tokens renewed.
LEMMA RenewDoes ==
  ASSUME Types, Renew
  PROVE  Effect
PROOF
<1>1. TypeOK /\ RunTyped(run) /\ run.step = "answered" /\ tokens \in Account
  BY DEF Types, TypeOK, Renew, RunTyped, RunSet
<1> DEFINE n == [run EXCEPT !.step = "asked", !.as = tokens, !.reply = "none", !.renewed = TRUE]
<1>4. run' = n
  BY DEF Renew
<1>5. RunTyped(n) /\ n.step = "asked" /\ n.for = run.for /\ n.left = run.left
  BY <1>1, RenewTyped
<1> HIDE DEF n
<1>6. UNCHANGED <<waiting, refused, tokens, sender, again, holding, late, live, member, row, returns, made, notes, balked, mishaps>>
  BY DEF Renew, Kept, server, history
<1>7. Course /\ Told
  BY <1>1, <1>4, <1>5, <1>6 DEF Course, Told, Asking
<1>8. Lists
  <2>1. refused' \subseteq refused /\ holding' \subseteq Key
    BY <1>1, <1>6 DEF TypeOK
  <2> QED BY <1>1, <1>6, <2>1, ListsSame
<1>9. Journeying /\ Sending
  BY <1>6, Apart
<1>10. Rest
  BY <1>1, <1>4, <1>5, <1>6 DEF Rest, TypeOK
<1> QED BY <1>7, <1>8, <1>9, <1>10 DEF Effect

\* What the server does with a moment sent.
LEMMA HoldsDoes ==
  ASSUME TypeOK, NEW a, NEW k \in Key, NEW reply, Holds(a, k, reply),
         UNCHANGED <<live, member, returns>>,
         <<a, k>> \in late \/ (run.step = "asked" /\ k = Head(run.left))
  PROVE  /\ Journeying
         /\ reply = "held" =>
              \/ a \in Account /\ row[a][k] = "moment" /\ made' = made
              \/ made' = Append(made, <<a, k>>)
PROOF
<1>1. CASE UNCHANGED <<row, made>>
  <2>1. Journeying
    BY <1>1 DEF Journeying
  <2>2. reply = "held" => \/ a \in Account /\ row[a][k] = "moment" /\ made' = made
                          \/ made' = Append(made, <<a, k>>)
    BY <1>1 DEF Holds, TypeOK
  <2> QED BY <2>1, <2>2
<1>2. CASE /\ a \in live \cap member /\ row[a][k] = "none" /\ reply = "held"
           /\ row' = [row EXCEPT ![a][k] = "moment"] /\ made' = Append(made, <<a, k>>)
  <2>1. a \in Account
    BY <1>2 DEF TypeOK
  <2>2. Arrives(a, k)
    BY <1>2 DEF Arrives
  <2>3. Journeying
    BY <2>1, <2>2 DEF Journeying
  <2> QED BY <1>2, <2>3
<1> QED BY <1>1, <1>2 DEF Holds

LEMMA ServeDoes ==
  ASSUME Types, NEW k \in Key, Serve(k)
  PROVE  Effect
PROOF
<1>1. TypeOK /\ RunTyped(run) /\ run.step = "asked" /\ k = Head(run.left)
  BY DEF Types, TypeOK, Serve, RunTyped, RunSet
<1>2. PICK reply \in {"held", "refused", "signed-out"} :
        Holds(run.as, k, reply) /\ run' = [run EXCEPT !.step = "answered", !.reply = reply]
  BY DEF Serve
<1> DEFINE n == [run EXCEPT !.step = "answered", !.reply = reply]
<1>3. run' = n
  BY <1>2
<1>5. RunTyped(n) /\ n.step = "answered" /\ n.for = run.for /\ n.left = run.left
  <2>1. n \in RunSet /\ n.step = "answered" /\ n.for = run.for /\ n.left = run.left
    BY <1>1 DEF RunTyped, RunSet
  <2> QED BY <1>1, <2>1 DEF RunTyped
<1> HIDE DEF n
<1>6. UNCHANGED <<waiting, refused, tokens, sender, again, holding, late, live, member, returns, notes, balked, mishaps>>
  BY DEF Serve, Kept, history
<1>7. Course /\ Told
  <2>1. Course
    BY <1>1, <1>3, <1>5, <1>6 DEF Course, Asking
  <2> QED BY <2>1 DEF Told
<1>8. Lists
  <2>1. refused' \subseteq refused /\ holding' \subseteq Key
    BY <1>1, <1>6 DEF TypeOK
  <2> QED BY <1>1, <1>6, <2>1, ListsSame
<1>9. Journeying
  BY <1>1, <1>2, <1>6, HoldsDoes
<1>10. Sending
  BY <1>6 DEF Sending
<1>11. Rest
  BY <1>1, <1>3, <1>5, <1>6 DEF Rest, TypeOK
<1> QED BY <1>7, <1>8, <1>9, <1>10, <1>11 DEF Effect

\* The request fails, its answer is lost, or it arrives late.
LEMMA FailDoes ==
  ASSUME Types, Fail
  PROVE  Effect
PROOF
<1>1. TypeOK /\ RunTyped(run) /\ run.step = "asked"
  BY DEF Types, TypeOK, Fail, RunTyped, RunSet
<1> DEFINE n == [run EXCEPT !.step = "answered", !.reply = "wait"]
<1>3. run' = n
  BY DEF Fail
<1>5. RunTyped(n) /\ n.step = "answered" /\ n.for = run.for /\ n.left = run.left /\ n.reply = "wait"
  BY <1>1, AnswerTyped
<1> HIDE DEF n
<1>6. UNCHANGED <<waiting, refused, tokens, sender, again, holding, live, member, row, returns, made, notes, balked>>
  BY DEF Fail, Kept, server, history
<1>7. Course /\ Told
  BY <1>1, <1>3, <1>5, <1>6 DEF Course, Told, Asking
<1>8. Lists
  <2>1. refused' \subseteq refused /\ holding' \subseteq Key
    BY <1>1, <1>6 DEF TypeOK
  <2> QED BY <1>1, <1>6, <2>1, ListsSame
<1>9. Journeying
  BY <1>6 DEF Journeying
<1>10. Sending
  BY <1>1 DEF Sending, Fail
<1>11. mishaps' \in 0..MaxMishaps
  BY <1>1, WaitingAssumption DEF Fail, Mishap, TypeOK
<1>12. Rest
  BY <1>1, <1>3, <1>5, <1>6, <1>11 DEF Rest, TypeOK
<1> QED BY <1>7, <1>8, <1>9, <1>10, <1>12 DEF Effect

LEMMA AnswerLostDoes ==
  ASSUME Types, AnswerLost
  PROVE  Effect
PROOF
<1>1. TypeOK /\ RunTyped(run) /\ run.step = "answered"
  BY DEF Types, TypeOK, AnswerLost, RunTyped, RunSet
<1> DEFINE n == [run EXCEPT !.reply = "wait"]
<1>3. run' = n
  BY DEF AnswerLost
<1>5. RunTyped(n) /\ n.step = "answered" /\ n.for = run.for /\ n.left = run.left /\ n.reply = "wait"
  BY <1>1, LostTyped
<1> HIDE DEF n
<1>6. UNCHANGED <<waiting, refused, tokens, sender, again, holding, late, live, member, row, returns, made, notes, balked>>
  BY DEF AnswerLost, Kept, server, history
<1>7. Course /\ Told
  BY <1>1, <1>3, <1>5, <1>6 DEF Course, Told, Asking
<1>8. Lists
  <2>1. refused' \subseteq refused /\ holding' \subseteq Key
    BY <1>1, <1>6 DEF TypeOK
  <2> QED BY <1>1, <1>6, <2>1, ListsSame
<1>9. Journeying /\ Sending
  BY <1>6, Apart
<1>11. mishaps' \in 0..MaxMishaps
  BY <1>1, WaitingAssumption DEF AnswerLost, Mishap, TypeOK
<1>12. Rest
  BY <1>1, <1>3, <1>5, <1>6, <1>11 DEF Rest, TypeOK
<1> QED BY <1>7, <1>8, <1>9, <1>12 DEF Effect

\* A step the phone takes no part in.
LEMMA PhoneStays ==
  ASSUME Types, UNCHANGED <<phone, history>>
  PROVE  Lists /\ Course /\ Told /\ (live' \subseteq Account /\ mishaps' \in 0..MaxMishaps => Rest)
PROOF
<1>1. TypeOK /\ RunTyped(run) /\ refused \subseteq Key /\ holding \subseteq Key
  BY DEF Types, TypeOK, RunTyped, RunSet
<1>2. UNCHANGED <<waiting, refused, tokens, sender, run, again, holding, notes, balked>>
  BY DEF phone, history
<1>3. Lists
  BY <1>1, <1>2, ListsSame
<1>4. Course /\ Told
  BY <1>1, <1>2 DEF Course, Told
<1>5. live' \subseteq Account /\ mishaps' \in 0..MaxMishaps => Rest
  BY <1>1, <1>2 DEF Rest, TypeOK
<1> QED BY <1>3, <1>4, <1>5

LEMMA LateArrivesDoes ==
  ASSUME Types, NEW a \in Account, NEW k \in Key, LateArrives(a, k)
  PROVE  Effect
PROOF
<1>1. UNCHANGED <<phone, history>> /\ UNCHANGED <<live, member, returns, mishaps>> /\ <<a, k>> \in late
      /\ late' = late \ {<<a, k>>}
  BY DEF LateArrives
<1>2. TypeOK /\ live \subseteq Account /\ mishaps \in 0..MaxMishaps
  BY DEF Types, TypeOK
<1>3. PICK reply \in {"held", "refused", "signed-out"} : Holds(a, k, reply)
  BY DEF LateArrives
<1>4. Journeying
  BY <1>1, <1>2, <1>3, HoldsDoes
<1>5. Sending
  BY <1>1 DEF Sending
<1>6. Lists /\ Course /\ Told /\ (live' \subseteq Account /\ mishaps' \in 0..MaxMishaps => Rest)
  BY <1>1, PhoneStays
<1> QED BY <1>1, <1>2, <1>4, <1>5, <1>6 DEF Effect

\* A moment is deleted; a person leaves, is removed, comes back; a sign-in ends elsewhere.
LEMMA DeleteDoes ==
  ASSUME Types, NEW a \in Account, NEW k \in Key, Delete(a, k)
  PROVE  Effect
PROOF
<1>1. UNCHANGED <<phone, history>> /\ UNCHANGED <<live, mishaps, late>>
  BY DEF Delete
<1>2. live \subseteq Account /\ mishaps \in 0..MaxMishaps
  BY DEF Types, TypeOK
<1>3. Journeying
  BY DEF Journeying, Delete
<1>4. Lists /\ Course /\ Told /\ (live' \subseteq Account /\ mishaps' \in 0..MaxMishaps => Rest)
  BY <1>1, PhoneStays
<1>5. Sending
  BY <1>1 DEF Sending
<1> QED BY <1>1, <1>2, <1>3, <1>4, <1>5 DEF Effect

LEMMA RemovedDoes ==
  ASSUME Types, NEW a \in Account, Removed(a)
  PROVE  Effect
PROOF
<1>1. UNCHANGED <<phone, history>> /\ UNCHANGED <<live, mishaps, late>>
  BY DEF Removed
<1>2. live \subseteq Account /\ mishaps \in 0..MaxMishaps
  BY DEF Types, TypeOK
<1>3. Journeying
  BY DEF Journeying, Removed
<1>4. Lists /\ Course /\ Told /\ (live' \subseteq Account /\ mishaps' \in 0..MaxMishaps => Rest)
  BY <1>1, PhoneStays
<1>5. Sending
  BY <1>1 DEF Sending
<1> QED BY <1>1, <1>2, <1>3, <1>4, <1>5 DEF Effect

LEMMA ReturnDoes ==
  ASSUME Types, NEW a \in Account, Return(a)
  PROVE  Effect
PROOF
<1>1. UNCHANGED <<phone, history>> /\ UNCHANGED <<live, mishaps, late>>
  BY DEF Return
<1>2. live \subseteq Account /\ mishaps \in 0..MaxMishaps
  BY DEF Types, TypeOK
<1>3. Journeying
  BY DEF Journeying, Return
<1>4. Lists /\ Course /\ Told /\ (live' \subseteq Account /\ mishaps' \in 0..MaxMishaps => Rest)
  BY <1>1, PhoneStays
<1>5. Sending
  BY <1>1 DEF Sending
<1> QED BY <1>1, <1>2, <1>3, <1>4, <1>5 DEF Effect

LEMMA EndedElsewhereDoes ==
  ASSUME Types, NEW a \in Account, EndedElsewhere(a)
  PROVE  Effect
PROOF
<1>1. UNCHANGED <<phone, history>> /\ UNCHANGED <<late, member, row, returns, made>>
  BY DEF EndedElsewhere
<1>2. live' \subseteq Account
  BY DEF Types, TypeOK, EndedElsewhere
<1>3. mishaps' \in 0..MaxMishaps
  BY WaitingAssumption DEF Types, TypeOK, EndedElsewhere, Mishap
<1>4. Lists /\ Course /\ Told /\ (live' \subseteq Account /\ mishaps' \in 0..MaxMishaps => Rest)
  BY <1>1, PhoneStays
<1>5. Journeying /\ Sending
  BY <1>1, Apart
<1> QED BY <1>2, <1>3, <1>4, <1>5 DEF Effect

\* The app is closed and opened.
LEMMA RestartDoes ==
  ASSUME Types, Restart
  PROVE  Effect
PROOF
<1>1. TypeOK
  BY DEF Types
<1>2. /\ run' = Idle /\ again' = FALSE /\ holding' = {} /\ sender' = None
      /\ UNCHANGED <<waiting, refused, tokens, live, member, row, returns, made, notes, balked>>
  BY DEF Restart, server, history
<1>3. RunTyped(run') /\ run'.step = "idle"
  BY <1>2, IdleTyped
<1>4. Course /\ Told
  BY <1>3 DEF Course, Told
<1>5. Lists
  <2>1. refused' \subseteq refused /\ holding' \subseteq Key
    BY <1>1, <1>2 DEF TypeOK
  <2> QED BY <1>1, <1>2, <2>1, ListsSame
<1>6. Journeying
  BY <1>2 DEF Journeying
<1>7. Sending
  BY DEF Sending, Restart
<1>8. mishaps' \in 0..MaxMishaps
  BY <1>1, WaitingAssumption DEF Restart, Mishap, TypeOK
<1>9. Rest
  BY <1>1, <1>2, <1>8 DEF Rest, TypeOK, Maybe
<1> QED BY <1>4, <1>5, <1>6, <1>7, <1>9 DEF Effect

\* A sign-in, and a session checked: what waits is sent.
LEMMA SignInDoes ==
  ASSUME Types, NEW a \in Account, SignIn(a)
  PROVE  Effect
PROOF
<1>1. TypeOK /\ a \in Maybe /\ Drain(a) /\ a # None
  BY WaitingAssumption DEF Types, SignIn, Maybe
<1>2. /\ tokens' = a /\ sender' = a /\ live' = live \cup {a}
      /\ UNCHANGED <<waiting, refused, holding, late, member, row, returns, made, notes, balked, mishaps>>
  BY DEF SignIn, history
<1>3. /\ Course /\ Told /\ again' \in BOOLEAN
      /\ run.step # "idle" => run' = run
      /\ run.step = "idle" => run'.step = "list"
  BY <1>1, DrainGoes
<1>4. Lists
  <2>1. refused' \subseteq refused /\ holding' \subseteq Key
    BY <1>1, <1>2 DEF TypeOK
  <2> QED BY <1>1, <1>2, <2>1, ListsSame
<1>5. Journeying /\ Sending
  BY <1>2, Apart
<1>6. Rest
  BY <1>1, <1>2, <1>3 DEF Rest, TypeOK, Maybe
<1> QED BY <1>3, <1>4, <1>5, <1>6 DEF Effect

LEMMA WakeDoes ==
  ASSUME Types, Wake
  PROVE  Effect
PROOF
<1>1. TypeOK
  BY DEF Types
<1>2. tokens' \in Maybe /\ sender' \in Maybe
  BY <1>1 DEF Wake, TypeOK, Maybe
<1>3. PICK s \in Maybe : s = sender'
  BY <1>2
<1>4. Drain(s)
  BY <1>3 DEF Wake, Drain
<1>5. UNCHANGED <<waiting, refused, holding, late, live, member, row, returns, made, notes, balked, mishaps>>
  BY DEF Wake, server, history
<1>6. /\ Course /\ Told /\ again' \in BOOLEAN
      /\ run.step # "idle" => run' = run
      /\ run.step = "idle" => ~again' /\ holding = {}
  BY <1>4, DrainGoes
<1>7. Lists
  <2>1. refused' \subseteq refused /\ holding' \subseteq Key
    BY <1>1, <1>5 DEF TypeOK
  <2> QED BY <1>1, <1>5, <2>1, ListsSame
<1>8. Journeying /\ Sending
  BY <1>5, Apart
<1>9. Rest
  BY <1>1, <1>2, <1>5, <1>6 DEF Rest, TypeOK
<1> QED BY <1>6, <1>7, <1>8, <1>9 DEF Effect

\* A moment is held, asked for again, or what waits is sent.
LEMMA HoldDoes ==
  ASSUME Types, NEW k \in Key, Hold(k)
  PROVE  Effect
PROOF
<1>1. TypeOK /\ sender \in Maybe /\ sender # None /\ sender \in Account /\ Drain(sender)
  BY DEF Types, TypeOK, Hold, Maybe
<1>2. /\ holding' = holding \cup {k}
      /\ UNCHANGED <<refused, tokens, sender, late, live, member, row, returns, made, balked, mishaps>>
  BY DEF Hold, server
<1>3. /\ Course /\ Told /\ again' \in BOOLEAN
      /\ run.step # "idle" => run' = run
      /\ run.step = "idle" => run'.step = "list"
  BY <1>1, DrainGoes
<1>4. Noting(k)
  BY <1>1 DEF Hold, Noting
<1>5. Lists
  <2>1. refused' \subseteq Key /\ refused' \subseteq refused /\ holding' \subseteq Key /\ balked \subseteq balked' /\ balked' \subseteq Key
    BY <1>1, <1>2 DEF TypeOK
  <2> QED BY <1>4, <2>1 DEF Lists
<1>6. Journeying /\ Sending
  BY <1>2, Apart
<1>7. Rest
  BY <1>1, <1>2, <1>3 DEF Rest, TypeOK
<1> QED BY <1>3, <1>5, <1>6, <1>7 DEF Effect

LEMMA SendNowDoes ==
  ASSUME Types, SendNow
  PROVE  Effect
PROOF
<1>1. TypeOK /\ sender \in Maybe /\ sender # None /\ Drain(sender)
  BY DEF Types, TypeOK, SendNow
<1>2. UNCHANGED <<waiting, refused, tokens, sender, holding, late, live, member, row, returns, made, notes, balked, mishaps>>
  BY DEF SendNow, Kept, server, history
<1>3. /\ Course /\ Told /\ again' \in BOOLEAN
      /\ run.step # "idle" => run' = run
      /\ run.step = "idle" => run'.step = "list"
  BY <1>1, DrainGoes
<1>5. Lists
  <2>1. refused' \subseteq refused /\ holding' \subseteq Key
    BY <1>1, <1>2 DEF TypeOK
  <2> QED BY <1>1, <1>2, <2>1, ListsSame
<1>6. Journeying /\ Sending
  BY <1>2, Apart
<1>7. Rest
  BY <1>1, <1>2, <1>3 DEF Rest, TypeOK
<1> QED BY <1>3, <1>5, <1>6, <1>7 DEF Effect

LEMMA RetryDoes ==
  ASSUME Types, NEW k \in Key, Retry(k)
  PROVE  Effect
PROOF
<1>1. TypeOK /\ sender \in Maybe /\ sender # None /\ Drain(sender)
  BY DEF Types, TypeOK, Retry
<1>2. /\ UNCHANGED <<waiting, tokens, sender, holding, late, live, member, row, returns, made, notes, balked, mishaps>>
      /\ refused' = refused \ {k}
  BY DEF Retry, server, history
<1>3. /\ Course /\ Told /\ again' \in BOOLEAN
      /\ run.step # "idle" => run' = run
      /\ run.step = "idle" => run'.step = "list"
  BY <1>1, DrainGoes
<1>5. Lists
  <2>1. refused' \subseteq refused /\ holding' \subseteq Key
    BY <1>1, <1>2 DEF TypeOK
  <2> QED BY <1>1, <1>2, <2>1, ListsSame
<1>6. Journeying /\ Sending
  BY <1>2, Apart
<1>7. Rest
  BY <1>1, <1>2, <1>3 DEF Rest, TypeOK
<1> QED BY <1>3, <1>5, <1>6, <1>7 DEF Effect

\* The person takes a refused moment off the list, signs out, or leaves the journey.
LEMMA DiscardDoes ==
  ASSUME Types, NEW k \in Key, Discard(k)
  PROVE  Effect
PROOF
<1>1. TypeOK /\ RunTyped(run) /\ Shown \in Account
  BY DEF Types, TypeOK, Discard, Shown, Maybe, RunTyped, RunSet
<1>2. /\ UNCHANGED <<tokens, sender, run, again, holding, late, live, member, row, returns, made, notes, balked, mishaps>>
      /\ refused' = refused \ {k}
  BY DEF Discard, server
<1>3. Shrunk
  <2>1. waiting' = [waiting EXCEPT ![Shown] = Without(@, {k})]
    BY DEF Discard
  <2> QED BY <1>1, <2>1, ShrunkByOne
<1>4. Lists
  BY <1>1, <1>2, <1>3 DEF Lists, TypeOK
<1>5. Course /\ Told
  BY <1>1, <1>2 DEF Course, Told
<1>6. Journeying /\ Sending
  BY <1>2, Apart
<1>7. Rest
  BY <1>1, <1>2 DEF Rest, TypeOK
<1> QED BY <1>4, <1>5, <1>6, <1>7 DEF Effect

LEMMA SignOutDoes ==
  ASSUME Types, SignOut
  PROVE  Effect
PROOF
<1>1. TypeOK /\ RunTyped(run) /\ sender \in Account
  BY DEF Types, TypeOK, SignOut, Maybe, RunTyped, RunSet
<1>2. /\ UNCHANGED <<run, again, holding, late, member, row, returns, made, notes, balked, mishaps>>
      /\ tokens' = None /\ sender' = None /\ Emptied(sender) /\ live' \subseteq live
  BY DEF SignOut
<1>3. Shrunk /\ refused' \subseteq refused
  BY <1>1, <1>2, ShrunkByEmpty
<1>4. Lists
  BY <1>1, <1>2, <1>3 DEF Lists, TypeOK
<1>5. Course /\ Told
  BY <1>1, <1>2 DEF Course, Told
<1>6. Journeying /\ Sending
  BY <1>2, Apart
<1>7. Rest
  BY <1>1, <1>2 DEF Rest, TypeOK, Maybe
<1> QED BY <1>4, <1>5, <1>6, <1>7 DEF Effect

LEMMA LeaveDoes ==
  ASSUME Types, Leave
  PROVE  Effect
PROOF
<1>1. TypeOK /\ RunTyped(run) /\ sender \in Account /\ tokens \in Account
  BY DEF Types, TypeOK, Leave, Maybe, RunTyped, RunSet
<1>2. /\ UNCHANGED <<tokens, sender, run, again, holding, late, live, returns, made, notes, balked, mishaps>>
      /\ Left(tokens) /\ Emptied(sender)
  BY DEF Leave
<1>3. Shrunk /\ refused' \subseteq refused
  BY <1>1, <1>2, ShrunkByEmpty
<1>4. Lists
  BY <1>1, <1>2, <1>3 DEF Lists, TypeOK
<1>5. Course /\ Told
  BY <1>1, <1>2 DEF Course, Told
<1>6. Journeying
  BY <1>1, <1>2 DEF Journeying
<1>7. Sending
  BY <1>2 DEF Sending
<1>8. Rest
  BY <1>1, <1>2 DEF Rest, TypeOK
<1> QED BY <1>4, <1>5, <1>6, <1>7, <1>8 DEF Effect

\* A step that changes nothing.
LEMMA StutterDoes ==
  ASSUME Types, UNCHANGED vars
  PROVE  Effect
PROOF
<1>1. UNCHANGED <<phone, history>> /\ UNCHANGED <<late, live, member, row, returns, made, mishaps>>
  BY DEF vars, server
<1>2. live' \subseteq Account /\ mishaps' \in 0..MaxMishaps
  BY <1>1 DEF Types, TypeOK
<1>3. Lists /\ Course /\ Told /\ (live' \subseteq Account /\ mishaps' \in 0..MaxMishaps => Rest)
  BY <1>1, PhoneStays
<1>4. Journeying /\ Sending
  BY <1>1, Apart
<1> QED BY <1>2, <1>3, <1>4 DEF Effect

\* Every step.
LEMMA EveryStep ==
  ASSUME Types, [Next]_vars
  PROVE  Effect
PROOF
<1>1. CASE RunStep
  BY <1>1, ListDoes, SendWithoutTokensDoes, RoundDoneDoes, HearNothingDoes, RenewDoes,
     RenewalRefusedDoes, RenewalUnreachedDoes, SendDoes, HearHeldDoes, HearRefusedDoes, Zenon DEF RunStep
<1>2. CASE Outside
  BY <1>2, WakeDoes, FailDoes, AnswerLostDoes, RestartDoes, ServeDoes, LateArrivesDoes, DeleteDoes,
     RemovedDoes, ReturnDoes, EndedElsewhereDoes, Zenon DEF Outside
<1>3. CASE PersonStep
  BY <1>3, SignInDoes, HoldDoes, RetryDoes, DiscardDoes, SendNowDoes, SignOutDoes, LeaveDoes, Zenon
     DEF PersonStep
<1>4. CASE UNCHANGED vars
  BY <1>4, StutterDoes
<1> QED BY <1>1, <1>2, <1>3, <1>4 DEF Next
-----------------------------------------------------------------------------
(***************************************************************************)
(* The invariant is kept                                                   *)
(***************************************************************************)

\* The journey's part of the types.
JourneyTyped ==
  /\ member \subseteq Account
  /\ row \in [Account -> [Key -> {"none", "moment", "deleted"}]]
  /\ returns \in [Account -> 0..MaxReturns]
  /\ made \in Seq(Account \X Key)

LEMMA JourneyKept ==
  ASSUME JourneyTyped, Journeying
  PROVE  JourneyTyped'
PROOF
<1>1. CASE UNCHANGED <<member, row, returns, made>>
  BY <1>1 DEF JourneyTyped
<1>2. ASSUME NEW a \in Account, NEW k \in Key,
             row' = [row EXCEPT ![a][k] = "deleted"], UNCHANGED <<member, returns, made>>
      PROVE  JourneyTyped'
  BY <1>2 DEF JourneyTyped
<1>3. ASSUME NEW a \in Account, Left(a), UNCHANGED <<returns, made>>
      PROVE  JourneyTyped'
  BY <1>3 DEF JourneyTyped, Left
<1>4. ASSUME NEW a \in Account, returns[a] < MaxReturns,
             member' = member \cup {a}, returns' = [returns EXCEPT ![a] = @ + 1],
             UNCHANGED <<row, made>>
      PROVE  JourneyTyped'
  <2>1. returns[a] + 1 \in 0..MaxReturns
    BY <1>4, WaitingAssumption DEF JourneyTyped
  <2> QED BY <1>4, <2>1 DEF JourneyTyped
<1>5. ASSUME NEW a \in Account, NEW k \in Key, Arrives(a, k)
      PROVE  JourneyTyped'
  <2>1. made' \in Seq(Account \X Key)
    BY <1>5 DEF JourneyTyped, Arrives
  <2> QED BY <1>5, <2>1 DEF JourneyTyped, Arrives
<1> QED BY <1>1, <1>2, <1>3, <1>4, <1>5 DEF Journeying

LEMMA TypesKept ==
  ASSUME Types, Effect
  PROVE  Types'
PROOF
<1>1. TypeOK /\ RunTyped(run) /\ JourneyTyped
  BY DEF Types, TypeOK, RunTyped, RunSet, JourneyTyped
<1>2. JourneyTyped'
  BY <1>1, JourneyKept DEF Effect
<1>3. late' \subseteq Account \X Key
  <2>1. CASE late' \subseteq late
    BY <1>1, <2>1 DEF TypeOK
  <2>2. CASE run.step = "asked" /\ late' = late \cup {<<run.as, Head(run.left)>>}
    <3>1. run.as \in Account /\ run.left \in Seq(Key) /\ run.left # <<>>
      BY <1>1, <2>2 DEF RunTyped, RunSet, Maybe
    <3>2. Head(run.left) \in Key
      BY <3>1
    <3> QED BY <1>1, <2>2, <3>1, <3>2 DEF TypeOK
  <2> QED BY <2>1, <2>2 DEF Effect, Sending
<1>4. waiting' \in [Account -> Seq(Key)] /\ notes' \in [Account -> Seq(Key)]
  <2>1. CASE Shrunk /\ notes' = notes
    BY <1>1, <2>1 DEF Shrunk, TypeOK
  <2>2. ASSUME NEW k \in Key, Noting(k) PROVE waiting' \in [Account -> Seq(Key)] /\ notes' \in [Account -> Seq(Key)]
    <3>1. waiting[sender] \in Seq(Key) /\ notes[sender] \in Seq(Key)
      BY <1>1, <2>2 DEF Noting, TypeOK
    <3>2. Append(waiting[sender], k) \in Seq(Key) /\ Append(notes[sender], k) \in Seq(Key)
      BY <3>1
    <3> QED BY <1>1, <2>2, <3>2 DEF Noting, TypeOK
  <2> QED BY <2>1, <2>2 DEF Effect, Lists
<1>5. RunTyped(run')
  BY DEF Effect, Course
<1>6. /\ run' \in RunSet
      /\ run'.step = "idle" <=> run'.for = None
      /\ run'.step = "asked" => run'.as # None /\ run'.left # <<>>
      /\ run'.step = "answered" => run'.left # <<>>
  BY <1>5 DEF RunTyped
<1>7. Rest /\ refused' \subseteq Key /\ holding' \subseteq Key /\ balked' \subseteq Key
  BY DEF Effect, Lists
<1> QED BY <1>2, <1>3, <1>4, <1>6, <1>7 DEF Types, TypeOK, JourneyTyped, RunSet, Rest

\* What a key added means for what was held and what waits.
LEMMA NotingAdds ==
  ASSUME TypeOK, NEW k \in Key, Noting(k)
  PROVE  /\ \A a \in Account : \A x : InList(notes[a], x) => InList(notes'[a], x)
         /\ \A a \in Account : \A x : InList(notes'[a], x) => InList(notes[a], x) \/ (a = sender /\ x = k)
         /\ \A a \in Account : \A x : InList(waiting'[a], x) => InList(waiting[a], x) \/ (a = sender /\ x = k)
         /\ \A a \in Account : \A x, y : Before(notes'[a], x, y) =>
              Before(notes[a], x, y) \/ (InList(notes[a], x) /\ y = k)
         /\ \A a \in Account : \A x, y : Before(waiting'[a], x, y) =>
              Before(waiting[a], x, y) \/ (InList(waiting[a], x) /\ a = sender /\ y = k)
         /\ \A x : InList(notes[sender], x) => Before(notes'[sender], x, k)
         /\ \A a \in Account : \A x, y : Before(notes[a], x, y) => Before(notes'[a], x, y)
PROOF
<1>1. /\ sender \in Account
      /\ waiting \in [Account -> Seq(Key)] /\ notes \in [Account -> Seq(Key)]
  BY DEF TypeOK, Noting
<1>2. /\ waiting[sender] \in Seq(Key) /\ notes[sender] \in Seq(Key)
      /\ waiting'[sender] = Append(waiting[sender], k) /\ notes'[sender] = Append(notes[sender], k)
      /\ \A a \in Account : a # sender => waiting'[a] = waiting[a] /\ notes'[a] = notes[a]
  BY <1>1 DEF Noting
<1>3. /\ \A x : InList(waiting'[sender], x) <=> InList(waiting[sender], x) \/ x = k
      /\ \A x, y : Before(waiting'[sender], x, y) =>
           Before(waiting[sender], x, y) \/ (InList(waiting[sender], x) /\ y = k)
  BY <1>2, Added
<1>4. /\ \A x : InList(notes'[sender], x) <=> InList(notes[sender], x) \/ x = k
      /\ \A x, y : Before(notes'[sender], x, y) =>
           Before(notes[sender], x, y) \/ (InList(notes[sender], x) /\ y = k)
  BY <1>2, Added
<1> DEFINE s == notes[sender]
           t == notes'[sender]
<1>5. /\ Len(s) \in Nat /\ DOMAIN s = 1..Len(s) /\ DOMAIN t = 1..(Len(s) + 1)
      /\ \A i \in 1..Len(s) : t[i] = s[i]
      /\ t[Len(s) + 1] = k
  BY <1>2
<1>6. ASSUME NEW x, InList(s, x) PROVE Before(t, x, k)
  <2> HIDE DEF s, t
  <2>1. PICK i \in DOMAIN s : s[i] = x
    BY <1>6 DEF InList
  <2>2. i \in DOMAIN t /\ Len(s) + 1 \in DOMAIN t /\ i < Len(s) + 1 /\ t[i] = x
    BY <1>5, <2>1
  <2> QED BY <1>5, <2>2 DEF Before
<1>7. ASSUME NEW x, NEW y, Before(s, x, y) PROVE Before(t, x, y)
  <2> HIDE DEF s, t
  <2>1. PICK i, j \in DOMAIN s : i < j /\ s[i] = x /\ s[j] = y
    BY <1>7 DEF Before
  <2>2. i \in DOMAIN t /\ j \in DOMAIN t /\ t[i] = x /\ t[j] = y
    BY <1>5, <2>1
  <2> QED BY <2>1, <2>2 DEF Before
<1> HIDE DEF s, t
<1>a. \A a \in Account : \A x : InList(notes[a], x) => InList(notes'[a], x)
  BY <1>2, <1>4, Zenon
<1>b. \A a \in Account : \A x : InList(notes'[a], x) => InList(notes[a], x) \/ (a = sender /\ x = k)
  BY <1>2, <1>4, Zenon
<1>c. \A a \in Account : \A x : InList(waiting'[a], x) => InList(waiting[a], x) \/ (a = sender /\ x = k)
  BY <1>2, <1>3, Zenon
<1>d. \A a \in Account : \A x, y : Before(notes'[a], x, y) =>
        Before(notes[a], x, y) \/ (InList(notes[a], x) /\ y = k)
  BY <1>2, <1>4, Zenon
<1>e. \A a \in Account : \A x, y : Before(waiting'[a], x, y) =>
        Before(waiting[a], x, y) \/ (InList(waiting[a], x) /\ a = sender /\ y = k)
  BY <1>2, <1>3, Zenon
<1>f. \A x : InList(notes[sender], x) => Before(notes'[sender], x, k)
  BY <1>6 DEF s, t
<1>g. \A a \in Account : \A x, y : Before(notes[a], x, y) => Before(notes'[a], x, y)
  <2>1. \A x, y : Before(notes[sender], x, y) => Before(notes'[sender], x, y)
    BY <1>7 DEF s, t
  <2> QED BY <1>2, <2>1, Zenon
<1> QED BY <1>a, <1>b, <1>c, <1>d, <1>e, <1>f, <1>g

LEMMA ListedKept ==
  ASSUME Types, Listed, Lists
  PROVE  Listed'
PROOF
<1>1. TypeOK
  BY DEF Types
<1>4. refused' \subseteq balked'
  BY DEF Lists, Listed
<1>2. CASE Shrunk /\ notes' = notes
  <2>1. /\ \A a \in Account : \A x : InList(waiting'[a], x) => InList(notes[a], x)
        /\ \A a \in Account : \A x, y : Before(waiting'[a], x, y) => Before(notes[a], x, y)
    BY <1>2, Zenon DEF Listed, Shrunk
  <2> QED BY <1>2, <1>4, <2>1, Zenon DEF Listed
<1>3. ASSUME NEW k \in Key, Noting(k) PROVE Listed'
  <2>1. \A a \in Account : ~InList(notes[a], k)
    BY <1>3 DEF Noting
  <2>2. \A a \in Account : \A x, y : Before(notes[a], x, y) => InList(notes[a], x) /\ InList(notes[a], y)
    BY BeforeIsIn
  <2>3. \A a \in Account : \A x, y : Before(notes'[a], x, y) =>
          Before(notes[a], x, y) \/ (InList(notes[a], x) /\ y = k)
    BY <1>1, <1>3, NotingAdds
  <2>4. \A a \in Account : \A x : InList(notes'[a], x) => InList(notes[a], x) \/ (a = sender /\ x = k)
    BY <1>1, <1>3, NotingAdds
  <2>5. \A a \in Account : \A x : InList(waiting'[a], x) => InList(waiting[a], x) \/ (a = sender /\ x = k)
    BY <1>1, <1>3, NotingAdds
  <2>6. \A a \in Account : \A x, y : Before(waiting'[a], x, y) =>
          Before(waiting[a], x, y) \/ (InList(waiting[a], x) /\ a = sender /\ y = k)
    BY <1>1, <1>3, NotingAdds
  <2>7. \A a \in Account : \A x : InList(notes[a], x) => InList(notes'[a], x)
    BY <1>1, <1>3, NotingAdds
  <2>8. \A x : InList(notes[sender], x) => Before(notes'[sender], x, k)
    BY <1>1, <1>3, NotingAdds
  <2>9. InList(notes'[sender], k)
    BY <1>1, <1>3, Added DEF Noting, TypeOK
  <2>10. \A a \in Account : \A x, y : Before(notes[a], x, y) => Before(notes'[a], x, y)
    BY <1>1, <1>3, NotingAdds
  <2>11. ASSUME NEW a \in Account, NEW x, Before(notes'[a], x, x) PROVE FALSE
    <3>1. ~Before(notes[a], x, x) /\ ~InList(notes[a], k)
      BY <2>1 DEF Listed
    <3> QED BY <2>3, <2>11, <3>1
  <2>12. ASSUME NEW a \in Account, NEW x, NEW y, Before(notes'[a], x, y), Before(notes'[a], y, x)
         PROVE  FALSE
    <3>1. ~Before(notes[a], x, y) \/ ~Before(notes[a], y, x)
      BY DEF Listed
    <3>2. ~InList(notes[a], k)
      BY <2>1
    <3>3. (Before(notes[a], x, y) \/ (InList(notes[a], x) /\ y = k)) /\ (Before(notes[a], y, x) \/ (InList(notes[a], y) /\ x = k))
      BY <2>3, <2>12
    <3>4. /\ Before(notes[a], x, y) => InList(notes[a], x) /\ InList(notes[a], y)
          /\ Before(notes[a], y, x) => InList(notes[a], x) /\ InList(notes[a], y)
      BY <2>2
    <3> QED BY <3>1, <3>2, <3>3, <3>4
  <2>13. ASSUME NEW a \in Account, NEW b \in Account, NEW x, InList(notes'[a], x), InList(notes'[b], x)
         PROVE  a = b
    <3>1. InList(notes[a], x) /\ InList(notes[b], x) => a = b
      BY DEF Listed
    <3> QED BY <2>1, <2>4, <2>13, <3>1
  <2>14. \A a \in Account : \A x : InList(waiting'[a], x) => InList(notes'[a], x)
    BY <2>5, <2>7, <2>9, Zenon DEF Listed
  <2>15. ASSUME NEW a \in Account, NEW x, NEW y, Before(waiting'[a], x, y) PROVE Before(notes'[a], x, y)
    <3>1. /\ Before(waiting[a], x, y) => Before(notes[a], x, y)
          /\ InList(waiting[a], x) => InList(notes[a], x)
      BY DEF Listed
    <3>2. Before(waiting[a], x, y) \/ (InList(waiting[a], x) /\ a = sender /\ y = k)
      BY <2>6, <2>15
    <3> QED BY <2>8, <2>10, <3>1, <3>2
  <2> QED BY <1>4, <2>11, <2>12, <2>13, <2>14, <2>15 DEF Listed
<1> QED BY <1>2, <1>3 DEF Lists

\* What a step leaves of the order.
LEMMA OrderStays ==
  ASSUME Types, Listed, Lists
  PROVE  /\ \A a \in Account : \A x : InList(notes[a], x) => InList(notes'[a], x)
         /\ \A a \in Account : \A x, y : Before(notes[a], x, y) => Before(notes'[a], x, y)
         /\ \A a \in Account : \A x, y :
              Before(notes'[a], x, y) /\ Noted(y) => Before(notes[a], x, y)
         /\ \A a \in Account : \A x : InList(waiting'[a], x) /\ InList(notes[a], x) => InList(waiting[a], x)
         /\ balked \subseteq balked'
PROOF
<1>1. TypeOK /\ balked \subseteq balked'
  BY DEF Types, Lists
<1>2. CASE Shrunk /\ notes' = notes
  BY <1>1, <1>2, Zenon DEF Shrunk
<1>3. ASSUME NEW k \in Key, Noting(k)
      PROVE  /\ \A a \in Account : \A x : InList(notes[a], x) => InList(notes'[a], x)
             /\ \A a \in Account : \A x, y : Before(notes[a], x, y) => Before(notes'[a], x, y)
             /\ \A a \in Account : \A x, y :
                  Before(notes'[a], x, y) /\ Noted(y) => Before(notes[a], x, y)
             /\ \A a \in Account : \A x : InList(waiting'[a], x) /\ InList(notes[a], x) => InList(waiting[a], x)
  <2>1. ~Noted(k) /\ \A a \in Account : ~InList(notes[a], k)
    BY <1>3 DEF Noting, Noted
  <2>2. \A a \in Account : \A x, y : Before(notes'[a], x, y) =>
          Before(notes[a], x, y) \/ (InList(notes[a], x) /\ y = k)
    BY <1>1, <1>3, NotingAdds
  <2>3. \A a \in Account : \A x : InList(waiting'[a], x) => InList(waiting[a], x) \/ (a = sender /\ x = k)
    BY <1>1, <1>3, NotingAdds
  <2>4. \A a \in Account : \A x : InList(notes[a], x) => InList(notes'[a], x)
    BY <1>1, <1>3, NotingAdds
  <2>5. \A a \in Account : \A x, y : Before(notes[a], x, y) => Before(notes'[a], x, y)
    BY <1>1, <1>3, NotingAdds
  <2>6. ASSUME NEW a \in Account, NEW x, NEW y, Before(notes'[a], x, y), Noted(y)
        PROVE  Before(notes[a], x, y)
    BY <2>1, <2>2, <2>6
  <2>7. ASSUME NEW a \in Account, NEW x, InList(waiting'[a], x), InList(notes[a], x)
        PROVE  InList(waiting[a], x)
    BY <2>1, <2>3, <2>7
  <2> QED BY <2>4, <2>5, <2>6, <2>7
<1> QED BY <1>1, <1>2, <1>3 DEF Lists

\* What was clear of older moments stays clear.
LEMMA ClearStays ==
  ASSUME Types, Listed, Lists, NEW k, Noted(k), Clear(k)
  PROVE  Noted(k)' /\ Clear(k)'
PROOF
<1>1. Noted(k)'
  BY OrderStays DEF Noted
<1>2. ASSUME NEW a \in Account, NEW x, Before(notes'[a], x, k), InList(waiting'[a], x)
      PROVE  x \in balked'
  <2>1. Before(notes[a], x, k)
    BY <1>2, OrderStays
  <2>2. InList(notes[a], x)
    BY <2>1, BeforeIsIn
  <2>3. InList(waiting[a], x)
    BY <1>2, <2>2, OrderStays
  <2>4. x \in balked
    BY <2>1, <2>3 DEF Clear
  <2> QED BY <2>4, OrderStays
<1> QED BY <1>1, <1>2 DEF Clear

\* The entry a round sends next is clear of older ones.
LEMMA FirstIsClear ==
  ASSUME Types, Listed, Sorted, Rounding, run.left # <<>>
  PROVE  Head(run.left) \in Key /\ Noted(Head(run.left)) /\ Clear(Head(run.left))
PROOF
<1> DEFINE k == Head(run.left)
<1>1. run.for \in Account /\ run.left \in Seq(Key)
  BY DEF Types, TypeOK, Rounding, Maybe
<1>2. k \in Key /\ InList(run.left, k) /\ \A x : InList(run.left, x) /\ x # k => Before(run.left, k, x)
  BY <1>1, HeadAndTail
<1> HIDE DEF k
<1>3. InList(notes[run.for], k)
  BY <1>2 DEF Sorted
<1>4. ASSUME NEW a \in Account, NEW x, Before(notes[a], x, k), InList(waiting[a], x), x \notin balked
      PROVE  FALSE
  <2>1. InList(notes[a], k)
    BY <1>4, BeforeIsIn
  <2>2. a = run.for
    BY <1>1, <1>3, <2>1 DEF Listed
  <2>3. InList(run.left, x)
    BY <1>2, <1>4, <2>2 DEF Sorted
  <2>4. x # k
    BY <1>4 DEF Listed
  <2>5. Before(run.left, k, x)
    BY <1>2, <2>3, <2>4
  <2>6. Before(notes[a], k, x)
    BY <2>2, <2>5 DEF Sorted
  <2> QED BY <1>4, <2>6 DEF Listed
<1>5. Clear(k)
  BY <1>4 DEF Clear
<1>6. Noted(k)
  BY <1>1, <1>3 DEF Noted
<1> QED BY <1>2, <1>5, <1>6 DEF k

LEMMA FlyingKept ==
  ASSUME Types, Listed, Sorted, Flying, Effect
  PROVE  Flying'
PROOF
<1>1. Lists /\ Course /\ Journeying /\ Sending
  BY DEF Effect
<1>2. RunTyped(run) /\ TypeOK
  BY DEF Types, TypeOK, RunTyped, RunSet
<1>3. Asking => Rounding /\ run.left # <<>>
  BY DEF Asking, Rounding, Types, TypeOK
<1>4. Asking => Head(run.left) \in Key /\ Noted(Head(run.left)) /\ Clear(Head(run.left))
  BY <1>3, FirstIsClear
<1>5. ASSUME NEW a \in Account, NEW k \in Key, <<a, k>> \in late' PROVE Noted(k)' /\ Clear(k)'
  <2>1. <<a, k>> \in late \/ (Asking /\ k = Head(run.left))
    BY <1>1, <1>5 DEF Sending, Asking
  <2>2. Noted(k) /\ Clear(k)
    BY <1>4, <2>1 DEF Flying
  <2> QED BY <1>1, <2>2, ClearStays
<1>6. ASSUME Asking' PROVE Clear(Head(run.left))'
  <2>1. CASE run' = run
    <3>1. Asking
      BY <1>6, <2>1 DEF Asking
    <3>2. PICK k : k = Head(run.left)
      OBVIOUS
    <3>3. Noted(k) /\ Clear(k)
      BY <1>4, <3>1, <3>2
    <3>4. Clear(k)'
      BY <1>1, <3>3, ClearStays
    <3>5. k = Head(run'.left)
      BY <2>1, <3>2
    <3> QED BY <3>4, <3>5 DEF Clear
  <2>2. CASE run.step = "send" /\ run'.step = "asked" /\ run.left # <<>> /\ run'.left = run.left
    <3>1. Rounding
      BY <2>2 DEF Rounding
    <3>2. PICK k : k = Head(run.left)
      OBVIOUS
    <3>3. Noted(k) /\ Clear(k)
      BY <2>2, <3>1, <3>2, FirstIsClear
    <3>4. Clear(k)'
      BY <1>1, <3>3, ClearStays
    <3>5. k = Head(run'.left)
      BY <2>2, <3>2
    <3> QED BY <3>4, <3>5 DEF Clear
  <2>3. CASE Asking /\ run'.left = run.left
    <3>2. PICK k : k = Head(run.left)
      OBVIOUS
    <3>3. Noted(k) /\ Clear(k)
      BY <1>4, <2>3, <3>2
    <3>4. Clear(k)'
      BY <1>1, <3>3, ClearStays
    <3>5. k = Head(run'.left)
      BY <2>3, <3>2
    <3> QED BY <3>4, <3>5 DEF Clear
  <2> QED BY <1>1, <1>6, <2>1, <2>2, <2>3 DEF Course, Asking
<1>7. ASSUME NEW i \in DOMAIN made' PROVE Noted(made[i][2])' /\ Clear(made[i][2])'
  <2>1. CASE made' = made
    <3>1. PICK k : k = made[i][2]
      OBVIOUS
    <3>2. Noted(k) /\ Clear(k)
      BY <1>7, <2>1, <3>1 DEF Flying
    <3>3. Noted(k)' /\ Clear(k)'
      BY <1>1, <3>2, ClearStays
    <3> QED BY <2>1, <3>1, <3>3 DEF Clear, Noted
  <2>2. ASSUME NEW a \in Account, NEW k \in Key, Arrives(a, k)
        PROVE  Noted(made[i][2])' /\ Clear(made[i][2])'
    <3>1. made \in Seq(Account \X Key) /\ made' = Append(made, <<a, k>>)
      BY <1>2, <2>2 DEF TypeOK, Arrives
    <3>2. (i \in DOMAIN made /\ made'[i] = made[i]) \/ made'[i] = <<a, k>>
      BY <1>7, <3>1
    <3>3. Noted(k) /\ Clear(k)
      BY <1>4, <2>2 DEF Arrives, Flying, Asking
    <3>4. PICK l : l = made'[i][2]
      OBVIOUS
    <3>5. Noted(l) /\ Clear(l)
      BY <3>2, <3>3, <3>4 DEF Flying
    <3>6. Noted(l)' /\ Clear(l)'
      BY <1>1, <3>5, ClearStays
    <3> QED BY <3>4, <3>6 DEF Clear, Noted
  <2> QED BY <1>1, <2>1, <2>2 DEF Journeying
<1> QED BY <1>5, <1>6, <1>7 DEF Flying

\* The order of what a round has left, for the entries l of the account f.
SortedFor(l, f) ==
  /\ \A x : InList(l, x) => InList(notes[f], x)
  /\ \A x, y : Before(l, x, y) => Before(notes[f], x, y)
  /\ \A x, y : InList(l, y) /\ Before(notes[f], x, y) /\ InList(waiting[f], x) /\ x \notin balked
       => InList(l, x)

LEMMA SortedStays ==
  ASSUME Types, Listed, Lists, NEW l, NEW f \in Account, SortedFor(l, f)
  PROVE  SortedFor(l, f)'
PROOF
<1>1. ASSUME NEW x, NEW y, InList(l, y), Before(notes'[f], x, y), InList(waiting'[f], x), x \notin balked'
      PROVE  InList(l, x)
  <2>1. Noted(y)
    BY <1>1 DEF SortedFor, Noted
  <2>2. Before(notes[f], x, y)
    BY <1>1, <2>1, OrderStays
  <2>3. InList(waiting[f], x)
    BY <1>1, <2>2, BeforeIsIn, OrderStays
  <2>4. x \notin balked
    BY <1>1, OrderStays
  <2> QED BY <1>1, <2>2, <2>3, <2>4 DEF SortedFor
<1>2. \A x : InList(l, x) => InList(notes'[f], x)
  BY OrderStays DEF SortedFor
<1>3. \A x, y : Before(l, x, y) => Before(notes'[f], x, y)
  BY OrderStays DEF SortedFor
<1> QED BY <1>1, <1>2, <1>3 DEF SortedFor

LEMMA SortedKept ==
  ASSUME Types, Listed, Sorted, Effect
  PROVE  Sorted'
PROOF
<1> SUFFICES ASSUME Rounding' PROVE SortedFor(run.left, run.for)'
  BY DEF Sorted, SortedFor
<1>1. Lists /\ Course /\ TypeOK
  BY DEF Effect, Types
<1>2. Rounding => run.for \in Account /\ run.left \in Seq(Key) /\ SortedFor(run.left, run.for)
  BY DEF Sorted, SortedFor, Types, TypeOK, Rounding, Maybe
<1>3. CASE run' = run
  <2>1. Rounding
    BY <1>3 DEF Rounding
  <2>2. PICK l, f : l = run.left /\ f = run.for
    OBVIOUS
  <2>3. SortedFor(l, f)'
    BY <1>1, <1>2, <2>1, <2>2, SortedStays
  <2> QED BY <1>3, <2>2, <2>3 DEF SortedFor
<1>4. CASE Rounding /\ run'.for = run.for /\ run'.left = run.left
  <2>2. PICK l, f : l = run.left /\ f = run.for
    OBVIOUS
  <2>3. SortedFor(l, f)'
    BY <1>1, <1>2, <1>4, <2>2, SortedStays
  <2> QED BY <1>4, <2>2, <2>3 DEF SortedFor
<1>5. CASE /\ run.step = "list" /\ run'.for = run.for
           /\ run'.left = Without(waiting[run.for], refused)
           /\ waiting' = waiting /\ notes' = notes
  <2> DEFINE f == run.for
             w == waiting[f]
             l == Without(w, refused)
  <2>1. f \in Account /\ w \in Seq(Key) /\ notes[f] \in Seq(Key)
    BY <1>1, <1>5 DEF TypeOK, Maybe
  <2>2. /\ l \in Seq(Key)
        /\ \A x : InList(l, x) <=> InList(w, x) /\ x \notin refused
        /\ \A x, y : Before(l, x, y) => Before(w, x, y)
    <3> HIDE DEF w, f
    <3> QED BY <2>1, WithoutKeeps
  <2>3. /\ \A x : InList(w, x) => InList(notes[f], x)
        /\ \A x, y : Before(w, x, y) => Before(notes[f], x, y)
        /\ refused \subseteq balked
    BY <2>1 DEF Listed
  <2>4. run'.for = f /\ run'.left = l /\ waiting'[f] = w /\ notes'[f] = notes[f] /\ balked \subseteq balked'
    BY <1>1, <1>5 DEF Lists
  <2> HIDE DEF f, w, l
  <2>5. \A x : InList(l, x) => InList(notes[f], x)
    BY <2>2, <2>3
  <2>6. \A x, y : Before(l, x, y) => Before(notes[f], x, y)
    BY <2>2, <2>3
  <2>7. ASSUME NEW x, InList(w, x), x \notin balked' PROVE InList(l, x)
    BY <2>2, <2>3, <2>4, <2>7
  <2> QED BY <2>4, <2>5, <2>6, <2>7 DEF SortedFor
<1>6. CASE /\ run.step = "answered" /\ run.left # <<>>
           /\ run'.for = run.for /\ run'.left = Tail(run.left)
           /\ ~InList(waiting'[run.for], Head(run.left)) \/ Head(run.left) \in balked'
  <2>1. Rounding
    BY <1>6 DEF Rounding
  <2>2. PICK l, f : l = run.left /\ f = run.for
    OBVIOUS
  <2>3. l \in Seq(Key) /\ l # <<>> /\ SortedFor(l, f)'
    BY <1>1, <1>2, <1>6, <2>1, <2>2, SortedStays
  <2>4. /\ \A x : InList(l, x) => x = Head(l) \/ InList(Tail(l), x)
        /\ \A x : InList(Tail(l), x) => InList(l, x)
        /\ \A x, y : Before(Tail(l), x, y) => Before(l, x, y)
    BY <2>3, HeadAndTail
  <2>5. run'.for = f /\ run'.left = Tail(l) /\ (~InList(waiting'[f], Head(l)) \/ Head(l) \in balked')
    BY <1>6, <2>2
  <2>6. \A x : InList(Tail(l), x) => InList(notes'[f], x)
    BY <2>3, <2>4 DEF SortedFor
  <2>7. \A x, y : Before(Tail(l), x, y) => Before(notes'[f], x, y)
    BY <2>3, <2>4 DEF SortedFor
  <2>8. ASSUME NEW x, NEW y, InList(Tail(l), y), Before(notes'[f], x, y), InList(waiting'[f], x), x \notin balked'
        PROVE  InList(Tail(l), x)
    <3>1. InList(l, x)
      BY <2>3, <2>4, <2>8 DEF SortedFor
    <3>2. x # Head(l)
      BY <2>5, <2>8
    <3> QED BY <2>4, <3>1, <3>2
  <2> QED BY <2>5, <2>6, <2>7, <2>8 DEF SortedFor
<1>7. run'.step \notin {"idle", "list"}
  BY DEF Rounding
<1> QED BY <1>1, <1>3, <1>4, <1>5, <1>6, <1>7 DEF Course, Rounding, Asking

\* A row, and a reply, stand for a moment made.
LEMMA BackedKept ==
  ASSUME Types, Backed, Effect
  PROVE  Backed'
PROOF
<1>1. TypeOK /\ Journeying /\ Told /\ RunTyped(run)
  BY DEF Effect, Types, TypeOK, RunTyped, RunSet
<1>2. made \in Seq(Account \X Key) /\ row \in [Account -> [Key -> {"none", "moment", "deleted"}]]
  BY <1>1 DEF TypeOK
<1>3. ASSUME NEW k, Made(k) PROVE Made(k)'
  <2>1. CASE made' = made
    BY <1>3, <2>1 DEF Made
  <2>2. ASSUME NEW b, NEW l, made' = Append(made, <<b, l>>) PROVE Made(k)'
    <3>1. PICK i \in DOMAIN made : made[i][2] = k
      BY <1>3 DEF Made
    <3>2. i \in DOMAIN made' /\ made'[i] = made[i]
      BY <1>2, <2>2
    <3> QED BY <3>1, <3>2 DEF Made
  <2> QED BY <1>1, <2>1, <2>2 DEF Journeying, Arrives
<1>4. ASSUME NEW b, NEW k, made' = Append(made, <<b, k>>) PROVE Made(k)'
  <2>1. Len(made) + 1 \in DOMAIN made' /\ made'[Len(made) + 1] = <<b, k>>
    BY <1>2, <1>4
  <2> QED BY <2>1 DEF Made
<1>5. ASSUME NEW a \in Account, NEW k \in Key, row'[a][k] # "none" PROVE Made(k)'
  <2>1. CASE row[a][k] # "none"
    BY <1>3, <2>1 DEF Backed
  <2>2. CASE row[a][k] = "none"
    <3>1. ASSUME NEW b \in Account, NEW l \in Key, row[b][l] = "moment", row' = [row EXCEPT ![b][l] = "deleted"]
          PROVE  FALSE
      BY <1>2, <1>5, <2>2, <3>1
    <3>2. ASSUME NEW b \in Account, Left(b) PROVE FALSE
      BY <1>2, <1>5, <2>2, <3>2 DEF Left
    <3>3. ASSUME NEW b \in Account, NEW l \in Key, Arrives(b, l) PROVE Made(k)'
      <4>1. row' = [row EXCEPT ![b][l] = "moment"] /\ made' = Append(made, <<b, l>>)
        BY <3>3 DEF Arrives
      <4>2. k = l
        BY <1>2, <1>5, <2>2, <4>1
      <4> QED BY <1>4, <4>1, <4>2
    <3> QED BY <1>1, <1>5, <2>2, <3>1, <3>2, <3>3 DEF Journeying
  <2> QED BY <2>1, <2>2
<1>6. ASSUME run'.step = "answered", run'.reply = "held" PROVE Made(Head(run.left))'
  <2>1. CASE run' = run
    <3>1. PICK k : k = Head(run.left)
      OBVIOUS
    <3>2. Made(k)
      BY <1>6, <2>1, <3>1 DEF Backed
    <3>3. Made(k)' /\ k = Head(run'.left)
      BY <1>3, <2>1, <3>1, <3>2
    <3> QED BY <3>3 DEF Made
  <2>2. ASSUME NEW k \in Key, Serve(k) PROVE Made(Head(run.left))'
    <3>1. PICK reply \in {"held", "refused", "signed-out"} :
            Holds(run.as, k, reply) /\ run' = [run EXCEPT !.step = "answered", !.reply = reply]
      BY <2>2 DEF Serve
    <3>2. reply = "held" /\ run'.left = run.left /\ k = Head(run.left)
      BY <1>1, <1>6, <2>2, <3>1 DEF RunTyped, RunSet, Serve
    <3>3. UNCHANGED <<live, member, returns>> /\ run.step = "asked"
      BY <2>2 DEF Serve
    <3>4. (run.as \in Account /\ row[run.as][k] = "moment" /\ made' = made) \/ made' = Append(made, <<run.as, k>>)
      BY <1>1, <3>1, <3>2, <3>3, HoldsDoes
    <3>5. Made(k)'
      BY <1>3, <1>4, <3>4 DEF Backed
    <3> QED BY <3>2, <3>5 DEF Made
  <2> QED BY <1>1, <1>6, <2>1, <2>2 DEF Told
<1> QED BY <1>5, <1>6 DEF Backed

\* One moment more in the journey.
LEMMA OneMore ==
  ASSUME made \in Seq(Account \X Key), NEW a, NEW k, NEW b \in Account, NEW l \in Key,
         made' = Append(made, <<b, l>>)
  PROVE  Times(a, k)' = IF <<a, k>> = <<b, l>> THEN Times(a, k) + 1 ELSE Times(a, k)
PROOF
<1> DEFINE At  == {i \in DOMAIN made : made[i] = <<a, k>>}
           Now == {i \in DOMAIN made' : made'[i] = <<a, k>>}
           n   == Len(made) + 1
<1>1. /\ Len(made) \in Nat /\ DOMAIN made = 1..Len(made) /\ DOMAIN made' = 1..n /\ n \in Nat
      /\ \A i \in 1..Len(made) : made'[i] = made[i]
      /\ made'[n] = <<b, l>>
  OBVIOUS
<1>2. IsFiniteSet(At) /\ n \notin At
  <2>1. IsFiniteSet(1..Len(made))
    BY <1>1, FS_Interval
  <2>2. At \subseteq 1..Len(made)
    BY <1>1
  <2> QED BY <1>1, <2>1, <2>2, FS_Subset
<1>3. CASE <<a, k>> = <<b, l>>
  <2>1. Now = At \cup {n}
    BY <1>1, <1>3
  <2>2. Cardinality(At \cup {n}) = Cardinality(At) + 1
    <3> HIDE DEF At, n
    <3> QED BY <1>2, FS_AddElement
  <2> QED BY <1>3, <2>1, <2>2 DEF Times
<1>4. CASE <<a, k>> # <<b, l>>
  <2>1. Now = At
    BY <1>1, <1>4
  <2> QED BY <1>4, <2>1 DEF Times
<1> QED BY <1>3, <1>4

LEMMA TimesNat ==
  ASSUME made \in Seq(Account \X Key), NEW a, NEW k
  PROVE  Times(a, k) \in Nat
PROOF
<1>1. IsFiniteSet(1..Len(made)) /\ DOMAIN made = 1..Len(made)
  BY FS_Interval
<1>2. IsFiniteSet({i \in DOMAIN made : made[i] = <<a, k>>})
  BY <1>1, FS_Subset
<1> QED BY <1>2, FS_CardinalityType DEF Times

LEMMA CountedKept ==
  ASSUME Types, Counted, Effect
  PROVE  Counted'
PROOF
<1>1. /\ Journeying
      /\ made \in Seq(Account \X Key) /\ row \in [Account -> [Key -> {"none", "moment", "deleted"}]]
      /\ returns \in [Account -> 0..MaxReturns]
  BY DEF Effect, Types, TypeOK
<1>2. \A a, k : Times(a, k) \in Nat
  BY <1>1, TimesNat
<1>3. \A a \in Account : returns[a] \in Nat
  BY <1>1, WaitingAssumption
<1> SUFFICES ASSUME NEW a \in Account, NEW k \in Key
             PROVE  /\ Times(a, k)' <= 1 + returns'[a]
                    /\ a \in member' /\ row'[a][k] = "none" => Times(a, k)' <= returns'[a]
  BY DEF Counted
<1>4. /\ Times(a, k) \in Nat /\ returns[a] \in Nat /\ Times(a, k) <= 1 + returns[a]
      /\ a \in member /\ row[a][k] = "none" => Times(a, k) <= returns[a]
  BY <1>2, <1>3 DEF Counted
<1>5. CASE UNCHANGED <<member, row, returns, made>>
  BY <1>4, <1>5 DEF Times
<1>6. ASSUME NEW b \in Account, NEW l \in Key, row[b][l] = "moment", row' = [row EXCEPT ![b][l] = "deleted"],
             UNCHANGED <<member, returns, made>>
      PROVE  /\ Times(a, k)' <= 1 + returns'[a]
             /\ a \in member' /\ row'[a][k] = "none" => Times(a, k)' <= returns'[a]
  <2>1. Times(a, k)' = Times(a, k)
    BY <1>6 DEF Times
  <2>2. row'[a][k] = "none" => row[a][k] = "none"
    BY <1>1, <1>6
  <2> QED BY <1>4, <1>6, <2>1, <2>2
<1>7. ASSUME NEW b \in Account, Left(b), UNCHANGED <<returns, made>>
      PROVE  /\ Times(a, k)' <= 1 + returns'[a]
             /\ a \in member' /\ row'[a][k] = "none" => Times(a, k)' <= returns'[a]
  <2>1. Times(a, k)' = Times(a, k)
    BY <1>7 DEF Times
  <2>2. a \in member' => a \in member /\ row'[a] = row[a]
    BY <1>1, <1>7 DEF Left
  <2> QED BY <1>4, <1>7, <2>1, <2>2
<1>8. ASSUME NEW b \in Account, b \notin member, member' = member \cup {b},
             returns' = [returns EXCEPT ![b] = @ + 1], UNCHANGED <<row, made>>
      PROVE  /\ Times(a, k)' <= 1 + returns'[a]
             /\ a \in member' /\ row'[a][k] = "none" => Times(a, k)' <= returns'[a]
  <2>1. Times(a, k)' = Times(a, k)
    BY <1>8 DEF Times
  <2>2. returns'[a] = IF a = b THEN returns[a] + 1 ELSE returns[a]
    BY <1>1, <1>8
  <2>3. a # b => (a \in member' <=> a \in member)
    BY <1>8
  <2> QED BY <1>4, <1>8, <2>1, <2>2, <2>3
<1>9. ASSUME NEW b \in Account, NEW l \in Key, Arrives(b, l)
      PROVE  /\ Times(a, k)' <= 1 + returns'[a]
             /\ a \in member' /\ row'[a][k] = "none" => Times(a, k)' <= returns'[a]
  <2>1. /\ b \in member /\ row[b][l] = "none" /\ row' = [row EXCEPT ![b][l] = "moment"]
        /\ made' = Append(made, <<b, l>>) /\ member' = member /\ returns' = returns
    BY <1>9 DEF Arrives
  <2>2. CASE a = b /\ k = l
    <3>1. Times(a, k)' = Times(a, k) + 1
      BY <1>1, <2>1, <2>2, OneMore
    <3>2. row'[a][k] = "moment"
      BY <1>1, <2>1, <2>2
    <3> QED BY <1>4, <2>1, <2>2, <3>1, <3>2
  <2>3. CASE ~(a = b /\ k = l)
    <3>1. Times(a, k)' = Times(a, k)
      BY <1>1, <2>1, <2>3, OneMore
    <3>2. row'[a][k] = row[a][k]
      BY <1>1, <2>1, <2>3
    <3> QED BY <1>4, <2>1, <3>1, <3>2
  <2> QED BY <2>2, <2>3
<1> QED BY <1>1, <1>5, <1>6, <1>7, <1>8, <1>9 DEF Journeying

\* A drain that is asked for is for the account confirmed then.
LEMMA DrainFollows ==
  ASSUME Types, NEW s \in Maybe, Drain(s), sender' = s
  PROVE  Following'
PROOF
<1>1. /\ run.step # "idle" => run' = run /\ again' = TRUE
      /\ run.step = "idle" =>
           /\ s = None => run' = Idle
           /\ s # None => run'.step = "list" /\ run'.for = s
  BY DrainGoes
<1>2. Idle.step = "idle"
  BY IdleTyped
<1>3. CASE again' = TRUE
  BY <1>3 DEF Following
<1>4. CASE run'.step = "idle"
  BY <1>4 DEF Following
<1>5. CASE run'.step = "list" /\ run'.for = s
  BY <1>5 DEF Following, Rounding
<1> QED BY <1>1, <1>2, <1>3, <1>4, <1>5

\* A run that is over follows nobody.
LEMMA OverFollows ==
  ASSUME run'.step = "idle"
  PROVE  Following'
PROOF BY DEF Following

\* A round in which only what is left may change keeps the moments waited for.
LEMMA SameFollows ==
  ASSUME Following, Rounding, Rounding', run'.for = run.for, run'.left = run.left,
         UNCHANGED <<waiting, refused, sender, again, holding>>
  PROVE  Following'
PROOF
<1>1. run.step # "idle"
  BY DEF Rounding
<1> QED BY <1>1 DEF Following

LEMMA StillFollows ==
  ASSUME Following, UNCHANGED <<waiting, refused, sender, run, again, holding>>
  PROVE  Following'
PROOF BY DEF Following, Rounding

LEMMA RoundFollows ==
  ASSUME Types, EndRound, notes' = notes, balked' = balked, sender' = sender
  PROVE  Following'
PROOF
<1>1. /\ again /\ sender # None => run'.step = "list" /\ run'.for = sender
      /\ ~(again /\ sender # None) => run'.step = "idle"
  BY RoundGoes
<1> QED BY <1>1 DEF Following, Rounding

LEMMA FollowingInRun ==
  ASSUME Types, Following, RunStep
  PROVE  Following'
PROOF
<1>1. TypeOK /\ RunTyped(run)
  BY DEF Types, TypeOK, RunTyped, RunSet
<1>2. CASE List
  <2>1. run.step = "list" /\ UNCHANGED <<waiting, refused, sender, again, holding>>
    BY <1>2 DEF List, Kept
  <2>2. run'.for = run.for /\ run'.left = Without(waiting[run.for], refused)
    BY <1>1, <1>2 DEF List, RunTyped, RunSet
  <2>3. CASE again \/ sender = None
    BY <2>1, <2>3 DEF Following
  <2>4. CASE ~again /\ sender # None
    <3>1. run.for = sender /\ sender \in Account
      BY <1>1, <2>1, <2>4 DEF Following, TypeOK, Maybe
    <3>2. waiting[sender] \in Seq(Key)
      BY <1>1, <3>1 DEF TypeOK
    <3>3. \A x : InList(Without(waiting[sender], refused), x) <=> InList(waiting[sender], x) /\ x \notin refused
      BY <3>2, WithoutKeeps
    <3> QED BY <2>1, <2>2, <3>1, <3>3 DEF Following
  <2> QED BY <2>3, <2>4
<1>3. CASE SendWithoutTokens \/ RenewalRefused
  <2>1. RunEnds
    BY <1>3 DEF SendWithoutTokens, RenewalRefused, EndSignedOut
  <2>2. run'.step = "idle"
    BY <2>1, IdleTyped DEF RunEnds
  <2> QED BY <2>2, OverFollows
<1>4. CASE RoundDone \/ HearNothing \/ RenewalUnreached
  BY <1>4, RoundFollows DEF RoundDone, HearNothing, RenewalUnreached
<1>5. CASE Renew
  <2>1. run'.step = "asked" /\ run.step = "answered" /\ run'.for = run.for /\ run'.left = run.left
    BY <1>1, <1>5 DEF Renew, RunTyped, RunSet
  <2>2. UNCHANGED <<waiting, refused, sender, again, holding>>
    BY <1>5 DEF Renew, Kept
  <2> QED BY <2>1, <2>2, SameFollows DEF Rounding
<1>6. ASSUME NEW k \in Key, Send(k) PROVE Following'
  <2>1. run'.step = "asked" /\ run.step = "send" /\ run'.for = run.for /\ run'.left = run.left
    BY <1>1, <1>6 DEF Send, RunTyped, RunSet
  <2>2. UNCHANGED <<waiting, refused, sender, again, holding>>
    BY <1>6 DEF Send, Kept
  <2> QED BY <2>1, <2>2, SameFollows DEF Rounding
<1>7. ASSUME NEW k \in Key, HearHeld(k) PROVE Following'
  <2>1. /\ run.step = "answered" /\ Head(run.left) = k /\ run' = Onwards
        /\ waiting' = [waiting EXCEPT ![run.for] = Without(@, {k})]
        /\ UNCHANGED <<refused, sender, again, holding>>
    BY <1>7 DEF HearHeld, Kept
  <2>2. /\ run'.step = "send" /\ run'.for = run.for /\ run'.left = Tail(run.left)
        /\ run.for \in Account /\ run.left \in Seq(Key) /\ run.left # <<>>
    BY <1>1, <2>1, OnwardsTyped DEF RunTyped, RunSet, Maybe
  <2>3. Shrunk /\ ~InList(waiting'[run.for], k)
    BY <1>1, <2>1, <2>2, ShrunkByOne
  <2>4. \A x : InList(run.left, x) => x = k \/ InList(Tail(run.left), x)
    BY <2>1, <2>2, HeadAndTail
  <2>5. CASE again \/ sender = None
    BY <2>1, <2>5 DEF Following
  <2>6. CASE ~again /\ sender # None
    <3>1. run.for = sender /\ \A x \in holding : InList(waiting[sender], x) => InList(run.left, x) \/ x \in refused
      BY <2>1, <2>6 DEF Following, Rounding
    <3>2. ASSUME NEW x \in holding, InList(waiting'[sender], x) PROVE InList(Tail(run.left), x) \/ x \in refused
      <4>1. InList(waiting[sender], x) /\ x # k
        BY <2>2, <2>3, <3>1, <3>2 DEF Shrunk
      <4> QED BY <2>4, <3>1, <4>1
    <3> QED BY <2>1, <2>2, <3>1, <3>2 DEF Following
  <2> QED BY <2>5, <2>6
<1>8. ASSUME NEW k \in Key, HearRefused(k) PROVE Following'
  <2>1. /\ run.step = "answered" /\ Head(run.left) = k /\ run' = Onwards
        /\ refused' = refused \cup ({k} \cap KeysOf(waiting[run.for]))
        /\ UNCHANGED <<waiting, sender, again, holding>>
    BY <1>8 DEF HearRefused
  <2>2. /\ run'.step = "send" /\ run'.for = run.for /\ run'.left = Tail(run.left)
        /\ run.for \in Account /\ run.left \in Seq(Key) /\ run.left # <<>>
    BY <1>1, <2>1, OnwardsTyped DEF RunTyped, RunSet, Maybe
  <2>4. \A x : InList(run.left, x) => x = k \/ InList(Tail(run.left), x)
    BY <2>1, <2>2, HeadAndTail
  <2>5. CASE again \/ sender = None
    BY <2>1, <2>5 DEF Following
  <2>6. CASE ~again /\ sender # None
    <3>1. run.for = sender /\ \A x \in holding : InList(waiting[sender], x) => InList(run.left, x) \/ x \in refused
      BY <2>1, <2>6 DEF Following, Rounding
    <3>2. ASSUME NEW x \in holding, InList(waiting[sender], x) PROVE InList(Tail(run.left), x) \/ x \in refused'
      <4>1. x \in KeysOf(waiting[run.for])
        BY <3>1, <3>2 DEF InList, KeysOf
      <4> QED BY <2>1, <2>4, <3>1, <3>2, <4>1
    <3> QED BY <2>1, <2>2, <3>1, <3>2 DEF Following
  <2> QED BY <2>5, <2>6
<1> QED BY <1>2, <1>3, <1>4, <1>5, <1>6, <1>7, <1>8 DEF RunStep

LEMMA FollowingOutside ==
  ASSUME Types, Following, Outside
  PROVE  Following'
PROOF
<1>1. TypeOK /\ RunTyped(run)
  BY DEF Types, TypeOK, RunTyped, RunSet
<1>2. CASE Wake
  <2>1. sender' \in Maybe
    BY <1>1, <1>2 DEF Wake, TypeOK, Maybe
  <2>2. PICK s \in Maybe : s = sender'
    BY <2>1
  <2>3. Drain(s)
    BY <1>2, <2>2 DEF Wake, Drain
  <2> QED BY <2>2, <2>3, DrainFollows
<1>3. CASE Fail
  <2>1. run'.step = "answered" /\ run.step = "asked" /\ run'.for = run.for /\ run'.left = run.left
    BY <1>1, <1>3 DEF Fail, RunTyped, RunSet
  <2>2. UNCHANGED <<waiting, refused, sender, again, holding>>
    BY <1>3 DEF Fail, Kept
  <2> QED BY <2>1, <2>2, SameFollows DEF Rounding
<1>4. CASE AnswerLost
  <2>1. run'.step = "answered" /\ run.step = "answered" /\ run'.for = run.for /\ run'.left = run.left
    BY <1>1, <1>4 DEF AnswerLost, RunTyped, RunSet
  <2>2. UNCHANGED <<waiting, refused, sender, again, holding>>
    BY <1>4 DEF AnswerLost, Kept
  <2> QED BY <2>1, <2>2, SameFollows DEF Rounding
<1>5. CASE Restart
  <2>1. run'.step = "idle"
    BY <1>5, IdleTyped DEF Restart
  <2> QED BY <2>1, OverFollows
<1>6. ASSUME NEW k \in Key, Serve(k) PROVE Following'
  <2>1. run'.step = "answered" /\ run.step = "asked" /\ run'.for = run.for /\ run'.left = run.left
    BY <1>1, <1>6 DEF Serve, RunTyped, RunSet
  <2>2. UNCHANGED <<waiting, refused, sender, again, holding>>
    BY <1>6 DEF Serve, Kept
  <2> QED BY <2>1, <2>2, SameFollows DEF Rounding
<1>7. CASE \/ \E a \in Account, k \in Key : LateArrives(a, k) \/ Delete(a, k)
           \/ \E a \in Account : Removed(a) \/ Return(a) \/ EndedElsewhere(a)
  <2>1. UNCHANGED <<waiting, refused, sender, run, again, holding>>
    BY <1>7 DEF LateArrives, Delete, Removed, Return, EndedElsewhere, phone
  <2> QED BY <2>1, StillFollows
<1> QED BY <1>2, <1>3, <1>4, <1>5, <1>6, <1>7, Zenon DEF Outside

LEMMA FollowingByPerson ==
  ASSUME Types, Following, PersonStep
  PROVE  Following'
PROOF
<1>1. TypeOK /\ sender \in Maybe /\ tokens \in Maybe
  BY DEF Types, TypeOK
<1>2. ASSUME NEW a \in Account, SignIn(a) PROVE Following'
  <2>1. a \in Maybe /\ Drain(a) /\ sender' = a
    BY <1>2 DEF SignIn, Maybe
  <2> QED BY <2>1, DrainFollows
<1>3. ASSUME NEW k \in Key, Hold(k) PROVE Following'
  <2>1. Drain(sender) /\ sender' = sender
    BY <1>3 DEF Hold
  <2> QED BY <1>1, <2>1, DrainFollows
<1>4. ASSUME NEW k \in Key, Retry(k) PROVE Following'
  <2>1. Drain(sender) /\ sender' = sender
    BY <1>4 DEF Retry
  <2> QED BY <1>1, <2>1, DrainFollows
<1>5. CASE SendNow
  <2>1. Drain(sender) /\ sender' = sender
    BY <1>5 DEF SendNow, Kept
  <2> QED BY <1>1, <2>1, DrainFollows
<1>6. ASSUME NEW k \in Key, Discard(k) PROVE Following'
  <2>1. /\ waiting' = [waiting EXCEPT ![Shown] = Without(@, {k})] /\ refused' = refused \ {k}
        /\ UNCHANGED <<sender, run, again, holding>> /\ Shown \in Account
    BY <1>1, <1>6 DEF Discard, Shown, Maybe
  <2>2. Shrunk /\ ~InList(waiting'[Shown], k)
    BY <1>1, <2>1, ShrunkByOne
  <2>3. CASE sender # None
    <3>1. sender \in Account /\ Shown = sender
      BY <1>1, <2>3 DEF Shown, Maybe
    <3>2. \A x : InList(waiting'[sender], x) => InList(waiting[sender], x) /\ x # k
      BY <2>2, <3>1 DEF Shrunk
    <3> QED BY <2>1, <2>3, <3>2 DEF Following, Rounding
  <2>4. CASE sender = None
    BY <2>1, <2>4 DEF Following
  <2> QED BY <2>3, <2>4
<1>7. CASE SignOut
  BY <1>7 DEF SignOut, Following
<1>8. CASE Leave
  <2>1. Emptied(sender) /\ UNCHANGED <<sender, run, again, holding>> /\ sender \in Account
    BY <1>1, <1>8 DEF Leave, Maybe
  <2>2. waiting'[sender] = <<>>
    BY <1>1, <2>1, ShrunkByEmpty
  <2>3. \A x : ~InList(waiting'[sender], x)
    BY <2>2 DEF InList
  <2> QED BY <2>1, <2>3 DEF Following, Rounding
<1> QED BY <1>2, <1>3, <1>4, <1>5, <1>6, <1>7, <1>8 DEF PersonStep
-----------------------------------------------------------------------------
(***************************************************************************)
(* The theorems                                                            *)
(***************************************************************************)

LEMMA InitIInv == Init => IInv
PROOF
<1> SUFFICES ASSUME Init PROVE IInv
  OBVIOUS
<1>1. \A x, y : ~InList(<<>>, x) /\ ~Before(<<>>, x, y)
  BY DEF InList, Before
<1>2. RunTyped(Idle) /\ run = Idle /\ run.step = "idle" /\ again = FALSE
  BY IdleTyped DEF Init
<1>3. Types
  <2>1. /\ run \in RunSet /\ (run.step = "idle" <=> run.for = None)
    BY <1>2 DEF RunTyped
  <2>2. <<>> \in Seq(Key) /\ <<>> \in Seq(Account \X Key) /\ 0 \in 0..MaxReturns /\ 0 \in 0..MaxMishaps
    BY WaitingAssumption
  <2>3. /\ waiting \in [Account -> Seq(Key)] /\ notes \in [Account -> Seq(Key)]
        /\ returns \in [Account -> 0..MaxReturns] /\ made \in Seq(Account \X Key) /\ mishaps \in 0..MaxMishaps
        /\ row \in [Account -> [Key -> {"none", "moment", "deleted"}]]
    BY <2>2 DEF Init
  <2>4. /\ refused = {} /\ holding = {} /\ balked = {} /\ tokens \in Maybe /\ sender \in Maybe
        /\ late = {} /\ live = {} /\ member = Account
    BY DEF Init, Maybe
  <2> QED BY <1>2, <2>1, <2>3, <2>4 DEF Types, TypeOK, RunSet
<1>4. \A a \in Account : waiting[a] = <<>> /\ notes[a] = <<>>
  BY DEF Init
<1>5. Listed
  BY <1>1, <1>4 DEF Listed, Init
<1>6. Sorted /\ Following
  BY <1>2 DEF Sorted, Following, Rounding
<1>7. Flying
  <2>1. late = {} /\ made = <<>> /\ DOMAIN made = {}
    BY DEF Init
  <2> QED BY <1>2, <2>1 DEF Flying, Asking
<1>8. Backed
  BY <1>2 DEF Backed, Init
<1>9. Counted
  <2>1. \A a, k : Times(a, k) = 0
    <3>1. ASSUME NEW a, NEW k PROVE {i \in DOMAIN made : made[i] = <<a, k>>} = {}
      BY DEF Init
    <3> QED BY <3>1, FS_EmptySet DEF Times
  <2>2. \A a \in Account : returns[a] = 0
    BY DEF Init
  <2> QED BY <2>1, <2>2 DEF Counted
<1> QED BY <1>3, <1>5, <1>6, <1>7, <1>8, <1>9 DEF IInv

LEMMA NextIInv == IInv /\ [Next]_vars => IInv'
PROOF
<1> SUFFICES ASSUME IInv, [Next]_vars PROVE IInv'
  OBVIOUS
<1>1. Types /\ Listed /\ Sorted /\ Flying /\ Following /\ Backed /\ Counted
  BY DEF IInv
<1>2. Effect /\ Lists
  BY <1>1, EveryStep DEF Effect
<1>3. Types' /\ Listed' /\ Sorted' /\ Flying' /\ Backed' /\ Counted'
  BY <1>1, <1>2, TypesKept, ListedKept, SortedKept, FlyingKept, BackedKept, CountedKept
<1>4. Following'
  <2>1. CASE UNCHANGED vars
    BY <1>1, <2>1, StillFollows DEF vars, phone
  <2> QED BY <1>1, <2>1, FollowingInRun, FollowingOutside, FollowingByPerson DEF Next
<1> QED BY <1>3, <1>4 DEF IInv

\* The phone and the journey stay in order: what waits, what is on its way and what was made agree.
THEOREM WaitingInOrder == Spec => []IInv
PROOF
<1>1. Init => IInv
  BY InitIInv
<1>2. IInv /\ [Next]_vars => IInv'
  BY NextIInv
<1> QED BY <1>1, <1>2, PTL DEF Spec

\* Lists, run, rows and moments have their types, and a run is under way for somebody.
THEOREM WaitingTypes == Spec => []TypeOK
PROOF
<1>1. IInv => TypeOK
  BY DEF IInv, Types
<1> QED BY <1>1, WaitingInOrder, PTL

\* However often a key is sent, it makes one moment for each time its author is in the journey.
THEOREM OnceEachStay == Spec => []HeldOncePerStay
PROOF
<1>1. IInv => HeldOncePerStay
  BY DEF IInv, Counted, HeldOncePerStay
<1> QED BY <1>1, WaitingInOrder, PTL

\* Moments arrive in the order they were held: nothing arrives while an older one waits.
THEOREM ArrivesInOrder == Spec => []SentInOrder
PROOF
<1>1. IInv => SentInOrder
  <2> SUFFICES ASSUME IInv, NEW a \in Account, NEW i \in DOMAIN notes[a], NEW j \in DOMAIN notes[a],
                      i < j, Made(notes[a][j]), InList(waiting[a], notes[a][i])
               PROVE  notes[a][i] \in balked
    BY DEF SentInOrder
  <2>1. Before(notes[a], notes[a][i], notes[a][j])
    BY DEF Before
  <2>2. Clear(notes[a][j])
    BY DEF IInv, Flying, Made
  <2> QED BY <2>1, <2>2 DEF Clear
<1> QED BY <1>1, WaitingInOrder, PTL

\* A moment leaves the phone only once the journey has had it, unless it was refused, or its account
\* signed out or left.
THEOREM NothingLost == Spec => KeptUntilHeld
PROOF
<1> DEFINE Stays ==
      \A a \in Account : \A k \in KeysOf(waiting[a]) \ KeysOf(waiting'[a]) :
        \/ Made(k)
        \/ k \in refused
        \/ run' = run /\ (tokens' # tokens \/ member' # member)
<1>1. ASSUME IInv, [Next]_vars PROVE Stays
  <2> SUFFICES ASSUME NEW a \in Account, NEW k, InList(waiting[a], k), ~InList(waiting'[a], k)
               PROVE  \/ Made(k)
                      \/ k \in refused
                      \/ run' = run /\ (tokens' # tokens \/ member' # member)
    BY DEF KeysOf, InList
  <2>1. Types /\ TypeOK /\ RunTyped(run) /\ Backed
    BY <1>1 DEF IInv, Types, TypeOK, RunTyped, RunSet
  <2>2. waiting \in [Account -> Seq(Key)] /\ waiting' # waiting
    BY <2>1 DEF TypeOK
  <2>3. ASSUME RunEnds PROVE k \in refused
    BY <2>1, <2>3, ShrunkByEnd
  <2>4. ASSUME NEW b \in Account, NEW l, waiting' = [waiting EXCEPT ![b] = Without(@, {l})]
        PROVE  k = l
    <3>1. waiting[b] \in Seq(Key) /\ waiting'[b] = Without(waiting[b], {l}) /\ (a # b => waiting'[a] = waiting[a])
      BY <2>2, <2>4
    <3>2. \A x : InList(Without(waiting[b], {l}), x) <=> InList(waiting[b], x) /\ x \notin {l}
      BY <3>1, WithoutKeeps
    <3> QED BY <3>1, <3>2
  <2>5. CASE RunStep
    <3>1. CASE SendWithoutTokens \/ RenewalRefused
      BY <2>3, <3>1 DEF SendWithoutTokens, RenewalRefused, EndSignedOut
    <3>2. CASE RoundDone \/ HearNothing \/ RenewalUnreached
      <4>1. EndRound
        BY <3>2 DEF RoundDone, HearNothing, RenewalUnreached
      <4> QED BY <2>2, <2>3, <4>1 DEF EndRound
    <3>3. ASSUME NEW l \in Key, HearHeld(l) PROVE Made(k)
      <4>1. /\ run.for \in Account /\ waiting' = [waiting EXCEPT ![run.for] = Without(@, {l})]
            /\ run.step = "answered" /\ run.reply = "held" /\ Head(run.left) = l
        BY <2>1, <3>3 DEF HearHeld, RunTyped, RunSet, Maybe
      <4>2. k = l
        BY <2>4, <4>1
      <4> QED BY <2>1, <4>1, <4>2 DEF Backed
    <3>4. CASE List \/ Renew \/ \E l \in Key : Send(l) \/ HearRefused(l)
      BY <2>2, <3>4 DEF List, Renew, Send, HearRefused
    <3> QED BY <2>5, <3>1, <3>2, <3>3, <3>4, Zenon DEF RunStep
  <2>6. CASE Outside
    BY <2>2, <2>6 DEF Outside, Wake, Fail, AnswerLost, Restart, Serve, LateArrives, Delete, Removed, Return,
       EndedElsewhere, phone
  <2>7. CASE PersonStep
    <3>1. CASE \E b \in Account : SignIn(b)
      BY <2>2, <3>1 DEF SignIn
    <3>2. ASSUME NEW l \in Key, Hold(l) PROVE FALSE
      <4>1. sender \in Account /\ waiting' = [waiting EXCEPT ![sender] = Append(@, l)]
        BY <2>1, <3>2 DEF Hold, TypeOK, Maybe
      <4>2. waiting[sender] \in Seq(Key) /\ waiting'[sender] = Append(waiting[sender], l)
            /\ (a # sender => waiting'[a] = waiting[a])
        BY <2>2, <4>1
      <4>3. \A x : InList(Append(waiting[sender], l), x) <=> InList(waiting[sender], x) \/ x = l
        BY <4>2, Added
      <4> QED BY <4>2, <4>3
    <3>3. CASE SendNow \/ \E l \in Key : Retry(l)
      BY <2>2, <3>3 DEF SendNow, Retry
    <3>4. ASSUME NEW l \in Key, Discard(l) PROVE k \in refused
      <4>1. Shown \in Account /\ waiting' = [waiting EXCEPT ![Shown] = Without(@, {l})] /\ l \in refused
        BY <2>1, <3>4 DEF Discard, Shown, TypeOK, Maybe
      <4> QED BY <2>4, <4>1
    <3>5. CASE SignOut
      BY <3>5 DEF SignOut
    <3>6. CASE Leave
      <4>1. run' = run /\ tokens \in member /\ member' = member \ {tokens}
        BY <3>6 DEF Leave, Left
      <4> QED BY <4>1
    <3> QED BY <2>7, <3>1, <3>2, <3>3, <3>4, <3>5, <3>6 DEF PersonStep
  <2>8. CASE UNCHANGED vars
    BY <2>2, <2>8 DEF vars, phone
  <2> QED BY <1>1, <2>5, <2>6, <2>7, <2>8 DEF Next
<1>2. ASSUME IInv, [Next]_vars PROVE [Stays]_vars
  BY <1>1, <1>2
<1> QED BY <1>2, WaitingInOrder, PTL DEF Spec, KeptUntilHeld

\* When the rounds end by having sent what there was, no form's moment is left behind.
THEOREM NoneLeftBehind == Spec => NotLeftBehind
PROOF
<1> DEFINE Sees ==
      \A a \in Account, k \in Key :
        /\ k \in holding /\ InList(waiting[a], k)
        /\ run.step = "send" /\ run.left = <<>> /\ run'.step = "idle"
        /\ tokens = a /\ sender' = a
        => k \in refused
<1>1. ASSUME IInv, [Next]_vars PROVE Sees
  <2> SUFFICES ASSUME NEW a \in Account, NEW k \in Key, k \in holding, InList(waiting[a], k),
                      run.step = "send", run.left = <<>>, run'.step = "idle", tokens = a, sender' = a
               PROVE  k \in refused
    OBVIOUS
  <2>1. Types /\ TypeOK /\ RunTyped(run) /\ Following /\ a # None
    BY <1>1, WaitingAssumption DEF IInv, Types, TypeOK, RunTyped, RunSet
  <2>2. ~InList(run.left, k)
    BY DEF InList
  <2>3. ASSUME sender = a, ~again PROVE k \in refused
    BY <2>1, <2>2, <2>3 DEF Following, Rounding
  <2>4. CASE RunStep
    <3>1. CASE RoundDone
      <4>1. EndRound /\ sender' = sender /\ notes' = notes /\ balked' = balked
        BY <3>1 DEF RoundDone
      <4>2. ~(again /\ sender # None)
        BY <2>1, <4>1, RoundGoes
      <4> QED BY <2>1, <2>3, <4>1, <4>2
    <3>2. CASE List \/ SendWithoutTokens \/ HearNothing \/ Renew \/ RenewalRefused \/ RenewalUnreached
      BY <3>2 DEF List, SendWithoutTokens, HearNothing, Renew, RenewalRefused, RenewalUnreached
    <3>3. CASE \E l \in Key : Send(l) \/ HearHeld(l) \/ HearRefused(l)
      BY <3>3 DEF Send, HearHeld, HearRefused
    <3> QED BY <2>4, <3>1, <3>2, <3>3, Zenon DEF RunStep
  <2>5. CASE run' = run
    BY <2>5
  <2>6. CASE Outside
    <3>1. CASE Wake
      <4>1. sender' \in Maybe
        BY <2>1, <3>1 DEF Wake, TypeOK, Maybe
      <4>2. PICK s \in Maybe : s = sender'
        BY <4>1
      <4>3. Drain(s)
        BY <3>1, <4>2 DEF Wake, Drain
      <4>4. run' = run
        BY <2>1, <4>3, DrainGoes
      <4> QED BY <4>4
    <3>2. CASE Restart
      BY <2>1, <3>2 DEF Restart
    <3>3. CASE Fail \/ AnswerLost \/ \E l \in Key : Serve(l)
      BY <3>3 DEF Fail, AnswerLost, Serve
    <3>4. CASE \/ \E b \in Account, l \in Key : LateArrives(b, l) \/ Delete(b, l)
               \/ \E b \in Account : Removed(b) \/ Return(b) \/ EndedElsewhere(b)
      BY <2>5, <3>4 DEF LateArrives, Delete, Removed, Return, EndedElsewhere, phone
    <3> QED BY <2>6, <3>1, <3>2, <3>3, <3>4, Zenon DEF Outside
  <2>7. CASE PersonStep
    <3>1. ASSUME NEW s \in Maybe, Drain(s) PROVE run' = run
      BY <2>1, <3>1, DrainGoes
    <3>2. CASE \E b \in Account : SignIn(b)
      <4>1. PICK b \in Account : SignIn(b)
        BY <3>2
      <4>2. b \in Maybe /\ Drain(b)
        BY <4>1 DEF SignIn, Maybe
      <4> QED BY <2>5, <3>1, <4>2
    <3>3. CASE SendNow \/ \E l \in Key : Hold(l) \/ Retry(l)
      <4>1. sender \in Maybe /\ Drain(sender)
        BY <2>1, <3>3 DEF SendNow, Hold, Retry, TypeOK
      <4> QED BY <2>5, <3>1, <4>1
    <3>4. CASE SignOut \/ Leave \/ \E l \in Key : Discard(l)
      BY <2>5, <3>4 DEF SignOut, Leave, Discard
    <3> QED BY <2>7, <3>2, <3>3, <3>4, Zenon DEF PersonStep
  <2>8. CASE UNCHANGED vars
    BY <2>5, <2>8 DEF vars, phone
  <2> QED BY <1>1, <2>4, <2>6, <2>7, <2>8 DEF Next
<1>2. ASSUME IInv, [Next]_vars PROVE [Sees]_vars
  BY <1>1, <1>2
<1> QED BY <1>2, WaitingInOrder, PTL DEF Spec, NotLeftBehind
=============================================================================
