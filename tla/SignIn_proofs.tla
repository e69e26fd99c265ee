--------------------------- MODULE SignIn_proofs ---------------------------
(***************************************************************************)
(* For any phones, pairs and requests at once, however they cross: a       *)
(* sign-in has one pair that works at most, and a phone that never stopped *)
(* waiting is told it is signed out only once it is.                       *)
(***************************************************************************)
EXTENDS SignIn, FiniteSetTheorems, TLAPS

Renewal(s) == requests[s].what = "renew"

\* What a request has at each step.
ShapeOf(s) ==
  /\ Step(s, "idle") => requests[s] = Idle
  /\ ~Step(s, "idle") => requests[s].phone \in Phone
  /\ requests[s].step \in {"sent", "rotating", "replacing", "retiring", "refused"} =>
       Renewal(s) /\ requests[s].pair \in PairId
  /\ Step(s, "checked") => requests[s].what = "sign-in" /\ requests[s].pair = None
  /\ Step(s, "answered") => requests[s].what \in {"sign-in", "renew"} /\ requests[s].pair \in PairId
  /\ requests[s].step \in Asking =>
       requests[s].what \in {"use", "logout", "everywhere", "password"} /\ requests[s].pair \in PairId
  /\ requests[s].step \notin {"rotating", "replacing", "answered"} => requests[s].made = None

Shape == \A s \in Slot : ShapeOf(s)

\* A pair in use belongs to a sign-in, with the pair it was issued for.
RowOf(p) ==
  /\ pairs[p].status = "none" => pairs[p] = NoPair
  /\ pairs[p].status # "none" =>
       /\ pairs[p].family \in Known
       /\ pairs[p].by # None => pairs[p].by \in Known /\ pairs[p].family = pairs[pairs[p].by].family
  /\ pairs[p].status = "issuing" => ~pairs[p].used
  /\ p \in expired => p \in Known
  /\ p \in Live => Issued(p) = {}

Rows == \A p \in PairId : RowOf(p)

\* No row is locked by two transactions.
Locked == \A s, t \in Slot : s # t => requests[s].locks \cap requests[t].locks = {}

\* What a transaction has locked is as it was when it decided.
DecidedOf(s) ==
  LET r == requests[s].pair
      p == requests[s].made
  IN
  /\ requests[s].step \in {"rotating", "replacing"} =>
       /\ p \in PairId /\ pairs[p].status = "issuing" /\ pairs[p].by = r
       /\ r \in requests[s].locks
  /\ Step(s, "rotating") => r \in Live /\ requests[s].locks = {r}
  /\ Step(s, "replacing") =>
       /\ r \notin Live
       /\ Issued(r) \subseteq requests[s].locks
       /\ \E c \in Issued(r) : c \in Live
       /\ \A c \in Issued(r) : ~pairs[c].used

Decided == \A s \in Slot : DecidedOf(s)

\* What is presented, locked, answered and seen of a family has been committed.
SeenOf(s) ==
  /\ requests[s].pair \in Known \cup {None} /\ requests[s].locks \subseteq Known
  /\ Step(s, "answered") => requests[s].made \in Known
  /\ requests[s].step \in {"retiring", "ending"} => requests[s].seen \subseteq Known
  /\ Step(s, "retiring") =>
       \A p \in requests[s].seen : pairs[p].family = pairs[requests[s].pair].family

Seen ==
  /\ \A s \in Slot : SeenOf(s)
  /\ \A f \in Phone : held[f] \in Known \cup {None}

Server == TypeOK /\ Shape /\ Rows /\ Locked /\ Decided /\ Seen /\ OneLivePair /\ ReplacedUnseen

Refers(f, p) == held[f] = p \/ \E s \in Slot : requests[s].phone = f /\ requests[s].pair = p

\* A sign-in is one phone's.
OnePhone ==
  \A f, g \in Phone : \A p, q \in Known :
    Refers(f, p) /\ Refers(g, q) /\ pairs[p].family = pairs[q].family => f = g

\* A pair on its way to a phone is nobody's yet, and has issued nothing.
OnItsWayOf(s) ==
  Step(s, "answered") =>
    LET p == requests[s].made IN
      /\ p \in Known /\ pairs[p].family = pairs[requests[s].pair].family
      /\ pairs[p].by = IF Renewal(s) THEN requests[s].pair ELSE None
      /\ requests[s].what = "sign-in" => requests[s].pair = p
      /\ \A f \in Phone : held[f] # p
      /\ \A t \in Slot \ {s} : requests[t].pair # p /\ requests[t].made # p
      /\ \A q \in PairId : pairs[q].by # p

OnItsWay == \A s \in Slot : OnItsWayOf(s)

Awaited(s) == Renewal(s) /\ requests[s].awaited

\* A phone waits for one renewal, unless it ever stopped waiting for one.
OneRenewal ==
  /\ \A s, t \in Slot : Awaited(s) /\ Awaited(t) /\ requests[s].phone = requests[t].phone => s = t
  /\ \A s \in Slot : Renewal(s) => Awaited(s) \/ requests[s].phone \in late
  /\ \A s \in Slot : requests[s].what = "sign-in" => requests[s].awaited

\* A phone that has a pair neither keeps nor presents the one it was issued for.
MovedOn ==
  \A f \in Phone, p \in Known : Refers(f, p) /\ pairs[p].by # None =>
    /\ \A g \in Phone : held[g] # pairs[p].by
    /\ \A s \in Slot : Awaited(s) => requests[s].pair # pairs[p].by

Client == OnePhone /\ OnItsWay /\ OneRenewal /\ MovedOn

SignInOver(p) == pairs[p].family \in ended \/ \E q \in expired : pairs[q].family = pairs[p].family

\* A pair was issued for this one that works, and none issued for it was ever used.
Recoverable(p) == (\E c \in Issued(p) : c \in Live) /\ \A c \in Issued(p) : ~pairs[c].used

InStanding(p) == SignInOver(p) \/ p \in Live \/ Recoverable(p)

\* What a phone keeps, presents and is given works, or can be had again, while its sign-in lasts.
StandingOf(s) ==
  requests[s].awaited /\ requests[s].phone \notin late =>
    /\ Step(s, "sent") => InStanding(requests[s].pair)
    /\ requests[s].step \in {"retiring", "refused"} => SignInOver(requests[s].pair)
    /\ Step(s, "answered") => SignInOver(requests[s].made) \/ requests[s].made \in Live

Standing ==
  /\ \A f \in Phone \ late : held[f] # None => InStanding(held[f])
  /\ \A s \in Slot : StandingOf(s)

IInv == Server /\ Client /\ Standing

-----------------------------------------------------------------------------

\* The shape of a pair in use.
InUse == [status : {"issuing", "live", "retired", "replaced"},
          family : PairId, by : PairId \cup {None}, used : BOOLEAN]

\* A pair in use has every field of one.
LEMMA PairType ==
  ASSUME TypeOK, NEW p \in PairId
  PROVE  /\ pairs[p] \in Pairs
         /\ pairs[p].used \in BOOLEAN
         /\ pairs[p].family \in PairId \cup {None} /\ pairs[p].by \in PairId \cup {None}
         /\ pairs[p].status # "none" =>
              pairs[p] \in InUse /\ pairs[p].family \in PairId
<1>1. pairs[p] \in Pairs
  BY DEF TypeOK
<1>2. CASE pairs[p] = NoPair
  BY <1>1, <1>2 DEF NoPair
<1>3. CASE pairs[p] # NoPair
  BY <1>1, <1>3 DEF Pairs, InUse
<1> QED
  BY <1>2, <1>3

\* Retiring, replacing, publishing and marking a pair in use keep its shape, and the rest of it.
LEMMA RowLive ==
  ASSUME NEW row \in InUse
  PROVE  /\ [row EXCEPT !.status = "live"] \in Pairs
         /\ [row EXCEPT !.status = "live"].status = "live"
         /\ [row EXCEPT !.status = "live"].family = row.family
         /\ [row EXCEPT !.status = "live"].by = row.by
         /\ [row EXCEPT !.status = "live"].used = row.used
<1>1. [row EXCEPT !.status = "live"] \in InUse
  BY DEF InUse
<1>2. InUse \subseteq Pairs
  BY DEF InUse, Pairs
<1> QED
  BY <1>1, <1>2 DEF InUse

LEMMA RowRetired ==
  ASSUME NEW row \in InUse
  PROVE  /\ [row EXCEPT !.status = "retired"] \in Pairs
         /\ [row EXCEPT !.status = "retired"].status = "retired"
         /\ [row EXCEPT !.status = "retired"].family = row.family
         /\ [row EXCEPT !.status = "retired"].by = row.by
         /\ [row EXCEPT !.status = "retired"].used = row.used
<1>1. [row EXCEPT !.status = "retired"] \in InUse
  BY DEF InUse
<1>2. InUse \subseteq Pairs
  BY DEF InUse, Pairs
<1> QED
  BY <1>1, <1>2 DEF InUse

LEMMA RowReplaced ==
  ASSUME NEW row \in InUse
  PROVE  /\ [row EXCEPT !.status = "replaced"] \in Pairs
         /\ [row EXCEPT !.status = "replaced"].status = "replaced"
         /\ [row EXCEPT !.status = "replaced"].family = row.family
         /\ [row EXCEPT !.status = "replaced"].by = row.by
         /\ [row EXCEPT !.status = "replaced"].used = row.used
<1>1. [row EXCEPT !.status = "replaced"] \in InUse
  BY DEF InUse
<1>2. InUse \subseteq Pairs
  BY DEF InUse, Pairs
<1> QED
  BY <1>1, <1>2 DEF InUse

LEMMA RowUsed ==
  ASSUME NEW row \in InUse, NEW b \in BOOLEAN
  PROVE  /\ [row EXCEPT !.used = b] \in InUse /\ [row EXCEPT !.used = b] \in Pairs
         /\ [row EXCEPT !.used = b].status = row.status
         /\ [row EXCEPT !.used = b].family = row.family
         /\ [row EXCEPT !.used = b].by = row.by
         /\ [row EXCEPT !.used = b].used = b
<1>1. [row EXCEPT !.used = b] \in InUse
  BY DEF InUse
<1>2. InUse \subseteq Pairs
  BY DEF InUse, Pairs
<1> QED
  BY <1>1, <1>2 DEF InUse

LEMMA RowSpent ==
  ASSUME NEW row \in InUse, NEW b \in BOOLEAN
  PROVE  /\ [row EXCEPT !.status = "retired", !.used = b] \in Pairs
         /\ [row EXCEPT !.status = "retired", !.used = b].status = "retired"
         /\ [row EXCEPT !.status = "retired", !.used = b].family = row.family
         /\ [row EXCEPT !.status = "retired", !.used = b].by = row.by
<1>1. [row EXCEPT !.status = "retired", !.used = b] \in InUse
  BY DEF InUse
<1>2. InUse \subseteq Pairs
  BY DEF InUse, Pairs
<1> QED
  BY <1>1, <1>2 DEF InUse

AllSteps == {"idle", "checked"} \cup Renewing \cup Asking
AllWhats == {"none", "sign-in", "renew", "use", "logout", "everywhere", "password"}

\* A step of one request: the others stay as they are.
Only(s) ==
  /\ requests' \in [Slot -> Requests]
  /\ \A t \in Slot \ {s} : requests'[t] = requests[t]

SameRequest(s) ==
  /\ requests'[s].what = requests[s].what /\ requests'[s].phone = requests[s].phone
  /\ requests'[s].pair = requests[s].pair /\ requests'[s].awaited = requests[s].awaited

\* What is put in the place of a request.
LEMMA Replaced ==
  ASSUME TypeOK, NEW s \in Slot, NEW new \in Requests, requests' = [requests EXCEPT ![s] = new]
  PROVE  Only(s) /\ requests'[s] = new
  BY DEF TypeOK, Only

LEMMA IdleType == Idle \in Requests
  BY DEF Idle, Requests

LEMMA IdleFields ==
  /\ Idle.step = "idle" /\ Idle.what = "none" /\ Idle.phone = None /\ Idle.pair = None
  /\ Idle.made = None /\ Idle.locks = {} /\ Idle.seen = {} /\ Idle.awaited = FALSE
  BY DEF Idle

LEMMA FinishedEffect ==
  ASSUME TypeOK, NEW s \in Slot, Finished(s)
  PROVE  Only(s) /\ requests'[s] = Idle
  BY IdleType, Replaced DEF Finished

\* A sign-in whose password is right.
LEMMA CheckedEffect ==
  ASSUME TypeOK, NEW s \in Slot, NEW f \in Phone, SignInChecked(s, f)
  PROVE  /\ Only(s) /\ UNCHANGED <<pairs, expired, password, held, ended, late>>
         /\ requests'[s].step = "checked" /\ requests'[s].what = "sign-in" /\ requests'[s].phone = f
         /\ requests'[s].pair = None /\ requests'[s].made = None /\ requests'[s].awaited
         /\ requests'[s].locks = {} /\ password \in Nat
<1> DEFINE half == [Idle EXCEPT !.step = "checked", !.what = "sign-in", !.phone = f]
           new  == [half EXCEPT !.password = password, !.awaited = TRUE]
<1>1. /\ Idle \in Requests /\ Idle.locks = {} /\ Idle.made = None
      /\ Idle.pair = None /\ password \in Nat /\ password \in Nat
  BY IdleType DEF Idle, TypeOK
<1>2. /\ half \in Requests
      /\ half.step = "checked" /\ half.what = "sign-in" /\ half.phone = f
      /\ half.pair = None /\ half.made = None /\ half.locks = {}
  BY <1>1 DEF Requests
<1> HIDE DEF half
<1>3. new \in Requests
  BY <1>1, <1>2 DEF Requests
<1>4. /\ new.step = "checked" /\ new.what = "sign-in" /\ new.phone = f /\ new.pair = None /\ new.awaited
      /\ new.made = None /\ new.locks = {}
  BY <1>1, <1>2 DEF Requests
<1>5. requests' = [requests EXCEPT ![s] = new]
  BY DEF SignInChecked, new, half
<1> HIDE DEF new
<1>6. Only(s) /\ requests'[s] = new
  BY <1>3, <1>5, Replaced
<1> QED
  BY <1>1, <1>4, <1>6 DEF SignInChecked

\* A phone that renews what it keeps.
LEMMA RenewEffect ==
  ASSUME TypeOK, NEW s \in Slot, NEW f \in Phone, Renew(s, f)
  PROVE  /\ Only(s) /\ UNCHANGED <<pairs, expired, password, held, ended, late>>
         /\ requests'[s].step = "sent" /\ requests'[s].what = "renew" /\ requests'[s].phone = f
         /\ requests'[s].pair = held[f] /\ requests'[s].made = None /\ requests'[s].awaited
         /\ requests'[s].locks = {} /\ held[f] \in PairId
<1> DEFINE half == [Idle EXCEPT !.step = "sent", !.what = "renew", !.phone = f]
           new  == [half EXCEPT !.pair = held[f], !.awaited = TRUE]
<1>1. /\ Idle \in Requests /\ Idle.locks = {} /\ Idle.made = None
      /\ Idle.pair = None /\ password \in Nat /\ held[f] \in PairId
  BY IdleType DEF Idle, TypeOK, Renew
<1>2. /\ half \in Requests
      /\ half.step = "sent" /\ half.what = "renew" /\ half.phone = f
      /\ half.pair = None /\ half.made = None /\ half.locks = {}
  BY <1>1 DEF Requests, Renewing
<1> HIDE DEF half
<1>3. new \in Requests
  BY <1>1, <1>2 DEF Requests
<1>4. /\ new.step = "sent" /\ new.what = "renew" /\ new.phone = f /\ new.pair = held[f] /\ new.awaited
      /\ new.made = None /\ new.locks = {}
  BY <1>1, <1>2 DEF Requests
<1>5. requests' = [requests EXCEPT ![s] = new]
  BY DEF Renew, new, half
<1> HIDE DEF new
<1>6. Only(s) /\ requests'[s] = new
  BY <1>3, <1>5, Replaced
<1> QED
  BY <1>1, <1>4, <1>6 DEF Renew

\* A request with the access token a phone keeps.
LEMMA AskEffect ==
  ASSUME TypeOK, NEW s \in Slot, NEW f \in Phone, NEW what \in {"use"} \cup Ends, Ask(s, f, what)
  PROVE  /\ Only(s) /\ UNCHANGED <<pairs, expired, password, held, ended, late>>
         /\ requests'[s].step = "asked" /\ requests'[s].what = what /\ requests'[s].phone = f
         /\ requests'[s].pair = held[f] /\ requests'[s].made = None /\ requests'[s].awaited
         /\ requests'[s].locks = {} /\ held[f] \in PairId /\ what \in {"use", "logout", "everywhere", "password"}
<1> DEFINE half == [Idle EXCEPT !.step = "asked", !.what = what, !.phone = f]
           new  == [half EXCEPT !.pair = held[f], !.password = password, !.awaited = TRUE]
<1>1. /\ Idle \in Requests /\ Idle.locks = {} /\ Idle.made = None
      /\ Idle.pair = None /\ password \in Nat /\ held[f] \in PairId /\ what \in {"use", "logout", "everywhere", "password"}
  BY IdleType, SignInAssumption DEF Idle, TypeOK, Ask
<1>2. /\ half \in Requests
      /\ half.step = "asked" /\ half.what = what /\ half.phone = f
      /\ half.pair = None /\ half.made = None /\ half.locks = {}
  BY <1>1 DEF Requests, Asking
<1> HIDE DEF half
<1>3. new \in Requests
  BY <1>1, <1>2 DEF Requests
<1>4. /\ new.step = "asked" /\ new.what = what /\ new.phone = f /\ new.pair = held[f] /\ new.awaited
      /\ new.made = None /\ new.locks = {}
  BY <1>1, <1>2 DEF Requests
<1>5. requests' = [requests EXCEPT ![s] = new]
  BY DEF Ask, new, half
<1> HIDE DEF new
<1>6. Only(s) /\ requests'[s] = new
  BY <1>3, <1>5, Replaced
<1> QED
  BY <1>1, <1>4, <1>6 DEF Ask

\* A transaction that lets go of its rows.
LEMMA GoesEffect ==
  ASSUME TypeOK, NEW s \in Slot, NEW step \in AllSteps, Goes(s, step)
  PROVE  /\ Only(s) /\ SameRequest(s)
         /\ requests'[s].step = step /\ requests'[s].locks = {}
         /\ requests'[s].made = requests[s].made
         /\ requests'[s].seen = requests[s].seen
<1> DEFINE new == [requests[s] EXCEPT !.step = step, !.locks = {}]
<1>1. requests[s] \in Requests
  BY DEF TypeOK
<1>2. new \in Requests
  BY <1>1 DEF Requests, AllSteps
<1>3. requests' = [requests EXCEPT ![s] = new]
  BY DEF Goes, TypeOK
<1>4. Only(s) /\ requests'[s] = new
  BY <1>2, <1>3, Replaced
<1> QED
  BY <1>1, <1>4 DEF Requests, SameRequest

\* A transaction that is to retire the rows of a family it has seen.
LEMMA RetireFamilyEffect ==
  ASSUME TypeOK, Shape, NEW s \in Slot, RetireFamily(s)
  PROVE  /\ Only(s) /\ SameRequest(s) /\ UNCHANGED <<pairs, expired, password, held, ended, late>>
         /\ requests'[s].step = "retiring" /\ requests'[s].made = requests[s].made
         /\ requests'[s].seen = Family(pairs[requests[s].pair].family)
         /\ \A t \in Slot \ {s} : requests'[s].locks \cap requests[t].locks = {}
         /\ requests'[s].locks \subseteq {requests[s].pair} \cup Issued(requests[s].pair)
<1> DEFINE r == requests[s].pair
           rows == {r} \cup (IF r \in expired THEN {} ELSE Issued(r))
           seen == Family(pairs[r].family)
           new == [requests[s] EXCEPT !.step = "retiring", !.locks = rows, !.seen = seen]
<1>1. requests[s] \in Requests /\ r \in PairId
  BY DEF TypeOK, Shape, ShapeOf, Step, RetireFamily
<1>2. rows \in SUBSET PairId /\ seen \in SUBSET PairId
  BY <1>1 DEF Issued, Known, Family, Live
<1>3. rows \subseteq {r} \cup Issued(r) /\ \A t \in Slot \ {s} : rows \cap requests[t].locks = {}
  BY DEF RetireFamily, Unlocked
<1>4. requests' = [requests EXCEPT ![s] = new] /\ UNCHANGED <<pairs, expired, password, held, ended, late>>
  BY DEF RetireFamily, TypeOK
<1> HIDE DEF rows, r, seen
<1>5. new \in Requests
  BY <1>1, <1>2 DEF Requests, Renewing
<1>6. /\ new.step = "retiring" /\ new.made = requests[s].made /\ new.seen = seen /\ new.locks = rows
      /\ new.what = requests[s].what /\ new.phone = requests[s].phone
      /\ new.pair = requests[s].pair /\ new.awaited = requests[s].awaited
  BY <1>1 DEF Requests
<1> HIDE DEF new
<1>7. Only(s) /\ requests'[s] = new
  BY <1>4, <1>5, Replaced
<1> QED
  BY <1>3, <1>4, <1>6, <1>7 DEF SameRequest, r, seen

\* A request that ends sign-ins, and has seen the pairs of them.
LEMMA EndBeginsEffect ==
  ASSUME TypeOK, NEW s \in Slot, EndBegins(s)
  PROVE  /\ Only(s) /\ SameRequest(s) /\ UNCHANGED <<pairs, expired, password, held, ended, late>>
         /\ requests'[s].step = "ending" /\ requests'[s].made = requests[s].made
         /\ requests'[s].locks = requests[s].locks
         /\ requests'[s].seen = {p \in Live : pairs[p].family \in Ending(s)}
<1> DEFINE seen == {p \in Live : pairs[p].family \in Ending(s)}
           new == [requests[s] EXCEPT !.step = "ending", !.seen = seen]
<1>1. requests[s] \in Requests
  BY DEF TypeOK
<1>2. seen \in SUBSET PairId
  BY DEF Live
<1>4. requests' = [requests EXCEPT ![s] = new] /\ UNCHANGED <<pairs, expired, password, held, ended, late>>
  BY DEF EndBegins, TypeOK
<1> HIDE DEF seen
<1>5. new \in Requests
  BY <1>1, <1>2 DEF Requests, Asking
<1>6. /\ new.step = "ending" /\ new.made = requests[s].made /\ new.locks = requests[s].locks
      /\ new.seen = seen
      /\ new.what = requests[s].what /\ new.phone = requests[s].phone
      /\ new.pair = requests[s].pair /\ new.awaited = requests[s].awaited
  BY <1>1 DEF Requests
<1> HIDE DEF new
<1>7. Only(s) /\ requests'[s] = new
  BY <1>4, <1>5, Replaced
<1> QED
  BY <1>4, <1>6, <1>7 DEF SameRequest, seen

\* A phone that stops waiting.
LEMMA GiveUpEffect ==
  ASSUME TypeOK, NEW s \in Slot, GiveUp(s)
  PROVE  /\ Only(s) /\ UNCHANGED <<pairs, expired, password, held, ended>>
         /\ late' = late \cup {requests[s].phone}
         /\ Awaited(s) /\ ~requests'[s].awaited
         /\ requests'[s].step = requests[s].step /\ requests'[s].what = requests[s].what
         /\ requests'[s].phone = requests[s].phone /\ requests'[s].pair = requests[s].pair
         /\ requests'[s].made = requests[s].made /\ requests'[s].locks = requests[s].locks
         /\ requests'[s].seen = requests[s].seen
<1> DEFINE new == [requests[s] EXCEPT !.awaited = FALSE]
<1>1. requests[s] \in Requests
  BY DEF TypeOK
<1>4. requests' = [requests EXCEPT ![s] = new]
  BY DEF GiveUp, TypeOK
<1>5. new \in Requests
  BY <1>1 DEF Requests
<1>6. /\ ~new.awaited
      /\ new.step = requests[s].step /\ new.what = requests[s].what
      /\ new.phone = requests[s].phone /\ new.pair = requests[s].pair
      /\ new.made = requests[s].made /\ new.locks = requests[s].locks
      /\ new.seen = requests[s].seen
  BY <1>1 DEF Requests
<1> HIDE DEF new
<1>7. Only(s) /\ requests'[s] = new
  BY <1>4, <1>5, Replaced
<1> QED
  BY <1>6, <1>7 DEF GiveUp, Awaited, Renewal

\* A sign-in's first pair.
LEMMA SignedInEffect ==
  ASSUME TypeOK, NEW s \in Slot, NEW p \in PairId, SignedIn(s, p)
  PROVE  /\ Only(s) /\ UNCHANGED <<expired, password, held, ended, late>>
         /\ requests'[s].step = "answered" /\ requests'[s].pair = p /\ requests'[s].made = p
         /\ requests'[s].what = requests[s].what /\ requests'[s].phone = requests[s].phone
         /\ requests'[s].awaited = requests[s].awaited /\ requests'[s].locks = requests[s].locks
         /\ pairs' \in [PairId -> Pairs]
         /\ pairs[p].status = "none"
         /\ pairs'[p].status = "live" /\ pairs'[p].family = p /\ pairs'[p].by = None /\ ~pairs'[p].used
         /\ \A q \in PairId \ {p} : pairs'[q] = pairs[q]
<1> DEFINE new == [requests[s] EXCEPT !.step = "answered", !.pair = p, !.made = p]
           row == [NoPair EXCEPT !.status = "live", !.family = p]
<1>1. requests[s] \in Requests
  BY DEF TypeOK
<1>2. row.status = "live" /\ row.family = p /\ row.by = None /\ ~row.used /\ row \in Pairs
  BY DEF NoPair, Pairs
<1>3. requests' = [requests EXCEPT ![s] = new]
  BY DEF SignedIn, TypeOK
<1>4. pairs' = [pairs EXCEPT ![p] = row]
  BY DEF SignedIn
<1>5. new \in Requests
  BY <1>1 DEF Requests, Renewing
<1>6. /\ new.step = "answered" /\ new.pair = p /\ new.made = p
      /\ new.what = requests[s].what /\ new.phone = requests[s].phone
      /\ new.awaited = requests[s].awaited /\ new.locks = requests[s].locks
  BY <1>1 DEF Requests
<1> HIDE DEF new, row
<1>7. Only(s) /\ requests'[s] = new
  BY <1>3, <1>5, Replaced
<1>8. pairs' \in [PairId -> Pairs] /\ pairs'[p] = row /\ \A q \in PairId \ {p} : pairs'[q] = pairs[q]
  BY <1>2, <1>4 DEF TypeOK
<1> QED
  BY <1>2, <1>6, <1>7, <1>8 DEF SignedIn

\* A pair written by a renewal and not yet seen by anybody.
LEMMA IssueEffect ==
  ASSUME TypeOK, Shape, Rows, NEW s \in Slot, NEW p \in PairId, NEW rows \in SUBSET PairId,
         NEW step \in {"rotating", "replacing"},
         Step(s, "sent"), pairs[requests[s].pair].status # "none", Issue(s, p, rows, step)
  PROVE  /\ Only(s) /\ SameRequest(s) /\ UNCHANGED <<expired, password, held, ended, late>>
         /\ requests'[s].step = step /\ requests'[s].made = p
         /\ requests'[s].locks = {requests[s].pair} \cup rows
         /\ \A t \in Slot \ {s} : requests'[s].locks \cap requests[t].locks = {}
         /\ pairs' \in [PairId -> Pairs]
         /\ pairs[p].status = "none"
         /\ pairs'[p].status = "issuing" /\ pairs'[p].family = pairs[requests[s].pair].family
         /\ pairs'[p].by = requests[s].pair /\ ~pairs'[p].used
         /\ \A q \in PairId \ {p} : pairs'[q] = pairs[q]
<1> DEFINE r == requests[s].pair
           locks == {r} \cup rows
           new == [requests[s] EXCEPT !.step = step, !.made = p, !.locks = locks]
           row == [NoPair EXCEPT !.status = "issuing", !.family = pairs[r].family, !.by = r]
<1>1. requests[s] \in Requests /\ r \in PairId /\ pairs[r].family \in PairId
  BY PairType DEF TypeOK, Shape, ShapeOf, Step
<1>2. row.status = "issuing" /\ row.family = pairs[r].family /\ row.by = r /\ ~row.used /\ row \in Pairs
  BY <1>1 DEF NoPair, Pairs
<1>3. requests' = [requests EXCEPT ![s] = new] /\ pairs' = [pairs EXCEPT ![p] = row]
  BY DEF Issue, TypeOK
<1>4. locks \in SUBSET PairId /\ \A t \in Slot \ {s} : locks \cap requests[t].locks = {}
  BY <1>1 DEF Issue, Unlocked
<1> HIDE DEF row, locks, r
<1>5. new \in Requests
  BY <1>1, <1>4 DEF Requests, Renewing
<1>6. /\ new.step = step /\ new.made = p /\ new.locks = locks
      /\ new.what = requests[s].what /\ new.phone = requests[s].phone
      /\ new.pair = requests[s].pair /\ new.awaited = requests[s].awaited
  BY <1>1 DEF Requests
<1> HIDE DEF new
<1>7. Only(s) /\ requests'[s] = new
  BY <1>3, <1>5, Replaced
<1>8. pairs' \in [PairId -> Pairs] /\ pairs'[p] = row /\ \A q \in PairId \ {p} : pairs'[q] = pairs[q]
  BY <1>2, <1>3 DEF TypeOK
<1> QED
  BY <1>2, <1>4, <1>6, <1>7, <1>8 DEF Issue, SameRequest, locks, r

\* Rows that keep their sign-in and the pair they were issued for.
SameLine == \A q \in PairId : pairs'[q].family = pairs[q].family /\ pairs'[q].by = pairs[q].by

\* A statement that retires the rows it has seen.
LEMMA RetireSeenEffect ==
  ASSUME TypeOK, NEW s \in Slot, RetireSeen(s)
  PROVE  /\ pairs' \in [PairId -> Pairs] /\ SameLine
         /\ \A t \in Slot \ {s} : requests[t].locks \cap requests[s].seen = {}
         /\ \A q \in PairId :
              /\ pairs'[q].used = pairs[q].used
              /\ pairs'[q].status = IF q \in requests[s].seen \cap Live THEN "retired" ELSE pairs[q].status
<1> DEFINE retires(q) == q \in requests[s].seen \cap Live
<1>1. \A q \in PairId : pairs'[q] = IF retires(q) THEN [pairs[q] EXCEPT !.status = "retired"] ELSE pairs[q]
  BY DEF RetireSeen
<1>2. ASSUME NEW q \in PairId
      PROVE  /\ pairs'[q] \in Pairs
             /\ pairs'[q].family = pairs[q].family /\ pairs'[q].by = pairs[q].by
             /\ pairs'[q].used = pairs[q].used
             /\ pairs'[q].status = IF retires(q) THEN "retired" ELSE pairs[q].status
  <2>1. CASE retires(q)
    <3>1. pairs[q] \in InUse
      BY <2>1, PairType DEF Live
    <3> QED
      BY <1>1, <2>1, <3>1, RowRetired
  <2>2. CASE ~retires(q)
    BY <1>1, <2>2, PairType
  <2> QED
    BY <2>1, <2>2
<1>3. pairs' \in [PairId -> Pairs]
  BY <1>2 DEF RetireSeen
<1> QED
  BY <1>2, <1>3 DEF SameLine, RetireSeen, Unlocked

\* A pair published in the place of the one spent.
LEMMA CommitRotationEffect ==
  ASSUME TypeOK, Shape, Rows, Decided, NEW s \in Slot, CommitRotation(s)
  PROVE  /\ Only(s) /\ SameRequest(s) /\ UNCHANGED <<expired, password, held, ended, late>>
         /\ requests'[s].step = "answered" /\ requests'[s].made = requests[s].made
         /\ requests'[s].locks = {}
         /\ pairs' \in [PairId -> Pairs] /\ SameLine
         /\ requests[s].pair \in Live /\ requests[s].made \in PairId
         /\ pairs'[requests[s].pair].status = "retired"
         /\ pairs[requests[s].made].status = "issuing" /\ pairs'[requests[s].made].status = "live"
         /\ ~pairs'[requests[s].made].used
         /\ \A q \in PairId \ {requests[s].pair, requests[s].made} : pairs'[q] = pairs[q]
<1> DEFINE r == requests[s].pair
           p == requests[s].made
<1>1. Only(s) /\ SameRequest(s) /\ requests'[s].step = "answered" /\ requests'[s].made = p
      /\ requests'[s].locks = {} /\ UNCHANGED <<expired, password, held, ended, late>>
  BY GoesEffect DEF CommitRotation, AllSteps, Renewing
<1>2. /\ r \in Live /\ r \in PairId /\ requests[s].locks = {r}
      /\ p \in PairId /\ pairs[p].status = "issuing" /\ p # r /\ ~pairs[p].used
  BY DEF Decided, DecidedOf, CommitRotation, Step, Live, Rows, RowOf
<1>3. \A q \in PairId :
        pairs'[q] = IF q = r THEN [pairs[r] EXCEPT !.status = "retired", !.used = pairs[r].used \/ r = r]
                    ELSE IF q = p THEN [pairs[p] EXCEPT !.status = "live"] ELSE pairs[q]
  BY <1>2 DEF CommitRotation, Live
<1>4. pairs[r].status # "none" /\ pairs[p].status # "none"
  BY <1>2 DEF Live
<1>5. /\ pairs'[r] \in Pairs /\ pairs'[r].status = "retired"
      /\ pairs'[r].family = pairs[r].family /\ pairs'[r].by = pairs[r].by
  <2>1. pairs'[r] = [pairs[r] EXCEPT !.status = "retired", !.used = TRUE]
    BY <1>2, <1>3
  <2>2. pairs[r] \in InUse
    BY <1>2, <1>4, PairType
  <2> QED
    BY <2>1, <2>2, RowSpent
<1>6. /\ pairs'[p] \in Pairs /\ pairs'[p].status = "live" /\ ~pairs'[p].used
      /\ pairs'[p].family = pairs[p].family /\ pairs'[p].by = pairs[p].by
  <2>1. pairs'[p] = [pairs[p] EXCEPT !.status = "live"]
    BY <1>2, <1>3
  <2>2. pairs[p] \in InUse
    BY <1>2, <1>4, PairType
  <2> QED
    BY <1>2, <2>1, <2>2, RowLive
<1>7. \A q \in PairId \ {r, p} : pairs'[q] = pairs[q]
  BY <1>3
<1>8. pairs' \in [PairId -> Pairs]
  <2>1. \A q \in PairId : pairs'[q] \in Pairs
    BY <1>5, <1>6, <1>7, PairType
  <2> QED
    BY <2>1 DEF CommitRotation
<1> QED
  BY <1>1, <1>2, <1>5, <1>6, <1>7, <1>8 DEF SameLine

\* A pair published in the place of one that was lost.
LEMMA CommitReplacementEffect ==
  ASSUME TypeOK, Shape, Rows, Decided, NEW s \in Slot, CommitReplacement(s)
  PROVE  /\ Only(s) /\ SameRequest(s) /\ UNCHANGED <<expired, password, held, ended, late>>
         /\ requests'[s].step = "answered" /\ requests'[s].made = requests[s].made
         /\ requests'[s].locks = {}
         /\ pairs' \in [PairId -> Pairs] /\ SameLine
         /\ requests[s].made \in PairId
         /\ pairs[requests[s].made].status = "issuing" /\ pairs'[requests[s].made].status = "live"
         /\ ~pairs'[requests[s].made].used
         /\ \A q \in PairId : q \in Issued(requests[s].pair) \cap Live =>
              pairs'[q].status = "replaced" /\ pairs'[q].used = pairs[q].used
         /\ \A q \in PairId : q \notin Issued(requests[s].pair) \cap Live /\ q # requests[s].made =>
              pairs'[q] = pairs[q]
<1> DEFINE r == requests[s].pair
           p == requests[s].made
           goes(q) == q \in Issued(r) \cap Live
<1>1. Only(s) /\ SameRequest(s) /\ requests'[s].step = "answered" /\ requests'[s].made = p
      /\ requests'[s].locks = {} /\ UNCHANGED <<expired, password, held, ended, late>>
  BY GoesEffect DEF CommitReplacement, AllSteps, Renewing
<1>2. /\ p \in PairId /\ pairs[p].status = "issuing" /\ ~goes(p) /\ ~pairs[p].used
  BY DEF Decided, DecidedOf, CommitReplacement, Step, Live, Rows, RowOf
<1>3. \A q \in PairId :
        pairs'[q] = IF goes(q) THEN [pairs[q] EXCEPT !.status = "replaced"]
                    ELSE IF q = p THEN [pairs[q] EXCEPT !.status = "live"] ELSE pairs[q]
  BY DEF CommitReplacement
<1>5. ASSUME NEW q \in PairId, goes(q)
      PROVE  /\ pairs'[q] \in Pairs /\ pairs'[q].status = "replaced" /\ pairs'[q].used = pairs[q].used
             /\ pairs'[q].family = pairs[q].family /\ pairs'[q].by = pairs[q].by
  <2>1. pairs[q] \in InUse
    BY <1>5, PairType DEF Live
  <2>2. pairs'[q] = [pairs[q] EXCEPT !.status = "replaced"]
    BY <1>3, <1>5
  <2> QED
    BY <2>1, <2>2, RowReplaced
<1>6. /\ pairs'[p] \in Pairs /\ pairs'[p].status = "live" /\ ~pairs'[p].used
      /\ pairs'[p].family = pairs[p].family /\ pairs'[p].by = pairs[p].by
  <2>1. pairs'[p] = [pairs[p] EXCEPT !.status = "live"]
    BY <1>3, <1>2
  <2>2. pairs[p] \in InUse
    BY <1>2, PairType
  <2> QED
    BY <1>2, <2>1, <2>2, RowLive
<1>7. \A q \in PairId : ~goes(q) /\ q # p => pairs'[q] = pairs[q]
  BY <1>3
<1>8. pairs' \in [PairId -> Pairs]
  <2>1. \A q \in PairId : pairs'[q] \in Pairs
    BY <1>5, <1>6, <1>7, PairType
  <2> QED
    BY <2>1 DEF CommitReplacement
<1> QED
  BY <1>1, <1>2, <1>5, <1>6, <1>7, <1>8 DEF SameLine

\* A pair used for the first time, or found retired.
LEMMA MarkEffect ==
  ASSUME TypeOK, NEW s \in Slot, Mark(s), requests[s].pair \in PairId
  PROVE  /\ UNCHANGED <<expired, password, held, ended, late>>
         /\ pairs' \in [PairId -> Pairs] /\ SameLine
         /\ \A t \in Slot \ {s} : requests[s].pair \notin requests[t].locks
         /\ \A q \in PairId : pairs'[q].status = pairs[q].status
         /\ \A q \in PairId \ {requests[s].pair} : pairs'[q] = pairs[q]
         /\ Finished(s) \/ Goes(s, "accepted")
         /\ pairs'[requests[s].pair].used # pairs[requests[s].pair].used => requests[s].pair \in Live
         /\ requests[s].pair \notin Live => pairs' = pairs
<1> DEFINE p == requests[s].pair
<1>0. Finished(s) \/ Goes(s, "accepted")
  BY Zenon DEF Mark, Onwards
<1>1. CASE p \in Live
  <2>1. pairs' = [pairs EXCEPT ![p].used = TRUE]
    BY <1>1 DEF Mark
  <2>2. pairs[p].status # "none"
    BY <1>1 DEF Live
  <2>3. pairs' = [pairs EXCEPT ![p] = [pairs[p] EXCEPT !.used = TRUE]]
    BY <2>1 DEF TypeOK
  <2>4. [pairs[p] EXCEPT !.used = TRUE] \in Pairs
    BY <2>2, PairType, RowUsed
  <2>5. pairs' \in [PairId -> Pairs] /\ \A q \in PairId \ {p} : pairs'[q] = pairs[q]
    BY <2>3, <2>4 DEF TypeOK
  <2>6. pairs'[p].status = pairs[p].status /\ pairs'[p].family = pairs[p].family /\ pairs'[p].by = pairs[p].by
    BY <2>2, <2>3, PairType DEF TypeOK
  <2> QED
    BY <1>0, <1>1, <2>5, <2>6 DEF Mark, SameLine, Unlocked
<1>2. CASE p \notin Live
  BY <1>0, <1>2 DEF Mark, SameLine, Unlocked, TypeOK
<1> QED
  BY <1>1, <1>2

\* A request that is lost takes with it the pair it has not committed.
LEMMA LostEffect ==
  ASSUME TypeOK, NEW s \in Slot, Lost(s)
  PROVE  /\ Only(s) /\ requests'[s] = Idle /\ UNCHANGED <<expired, password, ended, late>>
         /\ held' \in [Phone -> PairId \cup {None}]
         /\ \A f \in Phone : held'[f] \in {held[f], None}
         /\ pairs' \in [PairId -> Pairs]
         /\ \A q \in PairId : pairs'[q] = IF q = requests[s].made /\ pairs[q].status = "issuing"
                                          THEN NoPair ELSE pairs[q]
<1>1. Only(s) /\ requests'[s] = Idle
  BY FinishedEffect DEF Lost
<1>2. NoPair \in Pairs
  BY DEF Pairs
<1>3. pairs' \in [PairId -> Pairs]
  BY <1>2 DEF Lost, TypeOK
<1>4. held' \in [Phone -> PairId \cup {None}] /\ \A f \in Phone : held'[f] \in {held[f], None}
  BY DEF Lost, TypeOK
<1> QED
  BY <1>1, <1>3, <1>4 DEF Lost
-----------------------------------------------------------------------------
(***************************************************************************)
(* The server's rows and transactions, action by action.                   *)
(***************************************************************************)
\* A step of one request that changes no row.
LEMMA ServerQuiet ==
  ASSUME Server, NEW s \in Slot, Only(s), UNCHANGED <<pairs, expired>>, TypeOK',
         ShapeOf(s)', DecidedOf(s)', SeenOf(s)', \A f \in Phone : held'[f] \in Known \cup {None},
         \A t \in Slot \ {s} : requests'[s].locks \cap requests[t].locks = {}
  PROVE  Server'
<1>1. ASSUME NEW t \in Slot PROVE ShapeOf(t)' /\ DecidedOf(t)' /\ SeenOf(t)'
  <2>1. CASE t = s
    BY <2>1
  <2>2. CASE t # s
    <3>1. requests'[t] = requests[t]
      BY <2>2 DEF Only
    <3> QED
      BY <3>1 DEF Server, Shape, ShapeOf, Decided, DecidedOf, Seen, SeenOf, Step, Renewal,
                  Live, Known, Issued
  <2> QED
    BY <2>1, <2>2
<1>2. Rows' /\ OneLivePair' /\ ReplacedUnseen' /\ Known' = Known
  BY DEF Server, Rows, RowOf, OneLivePair, ReplacedUnseen, Live, Known, Issued
<1>3. Locked'
  BY DEF Server, Locked, Only
<1>4. TypeOK' /\ Shape' /\ Decided' /\ Seen'
  BY <1>1, <1>2 DEF Shape, Decided, Seen
<1> QED
  BY <1>2, <1>3, <1>4 DEF Server

LEMMA ServerBegins ==
  ASSUME Server, NEW s \in Slot, NEW f \in Phone,
         \/ SignInChecked(s, f)
         \/ Renew(s, f)
         \/ \E what \in {"use"} \cup Ends : Ask(s, f, what)
  PROVE  Server'
<1>1. CASE SignInChecked(s, f)
  <2>1. /\ Only(s) /\ UNCHANGED <<pairs, expired, password, held, ended, late>>
        /\ requests'[s].step = "checked" /\ requests'[s].what = "sign-in" /\ requests'[s].phone = f
        /\ requests'[s].pair = None /\ requests'[s].made = None /\ requests'[s].locks = {}
    BY <1>1, CheckedEffect DEF Server
  <2> QED
    BY <2>1, ServerQuiet DEF Server, Seen, Known, TypeOK, ShapeOf, DecidedOf, SeenOf, Step, Only, Asking
<1>2. CASE Renew(s, f)
  <2>1. /\ Only(s) /\ UNCHANGED <<pairs, expired, password, held, ended, late>>
        /\ requests'[s].step = "sent" /\ requests'[s].what = "renew" /\ requests'[s].phone = f
        /\ requests'[s].pair = held[f] /\ requests'[s].made = None /\ requests'[s].locks = {}
    BY <1>2, RenewEffect DEF Server
  <2>2. held[f] \in Known
    BY <1>2 DEF Server, Seen, Renew
  <2> QED
    BY <2>1, <2>2, ServerQuiet DEF Server, Seen, Known, TypeOK, ShapeOf, DecidedOf, SeenOf, Step, Only, Asking, Renewal
<1>3. ASSUME NEW what \in {"use"} \cup Ends, Ask(s, f, what) PROVE Server'
  <2>1. /\ Only(s) /\ UNCHANGED <<pairs, expired, password, held, ended, late>>
        /\ requests'[s].step = "asked" /\ requests'[s].phone = f
        /\ requests'[s].what \in {"use", "logout", "everywhere", "password"}
        /\ requests'[s].pair = held[f] /\ requests'[s].made = None /\ requests'[s].locks = {}
    BY <1>3, AskEffect DEF Server
  <2>2. held[f] \in Known
    BY <1>3 DEF Server, Seen, Ask
  <2> QED
    BY <2>1, <2>2, ServerQuiet DEF Server, Seen, Known, TypeOK, ShapeOf, DecidedOf, SeenOf, Step, Only, Asking, Renewal
<1> QED
  BY <1>1, <1>2, <1>3

\* A request that is over leaves the rows as they are.
LEMMA ServerFinished ==
  ASSUME Server, NEW s \in Slot, Finished(s), UNCHANGED <<pairs, expired>>,
         password' \in Nat, held' \in [Phone -> PairId \cup {None}],
         \A f \in Phone : held'[f] \in Known \cup {None}, ended' \subseteq PairId, late' \subseteq Phone
  PROVE  Server'
<1>1. Only(s) /\ requests'[s] = Idle
  BY FinishedEffect DEF Server
<1>2. /\ requests'[s].step = "idle" /\ requests'[s].locks = {} /\ requests'[s].made = None
      /\ requests'[s].pair = None
  BY <1>1 DEF Idle
<1> QED
  BY <1>1, <1>2, ServerQuiet DEF Server, Known, TypeOK, ShapeOf, DecidedOf, SeenOf, Step, Only, Asking

LEMMA ServerWaits ==
  ASSUME Server, NEW s \in Slot,
         RetireFamily(s) \/ Find(s) \/ EndBegins(s) \/ GiveUp(s)
  PROVE  Server'
<1> USE DEF Server
<1>0. SeenOf(s) /\ \A f \in Phone : held[f] \in Known \cup {None}
  BY DEF Seen
<1>1. CASE RetireFamily(s)
  <2>1. /\ Only(s) /\ SameRequest(s) /\ UNCHANGED <<pairs, expired, password, held, ended, late>>
        /\ requests'[s].step = "retiring" /\ requests'[s].made = requests[s].made
        /\ requests'[s].seen = Family(pairs[requests[s].pair].family)
        /\ \A t \in Slot \ {s} : requests'[s].locks \cap requests[t].locks = {}
        /\ requests'[s].locks \subseteq {requests[s].pair} \cup Issued(requests[s].pair)
    BY <1>1, RetireFamilyEffect
  <2>2. Renewal(s) /\ requests[s].pair \in PairId /\ requests[s].phone \in Phone /\ requests[s].made = None
    BY <1>1 DEF RetireFamily, Shape, ShapeOf, Step
  <2>3. TypeOK'
    BY <2>1 DEF TypeOK, Only
  <2>4. ShapeOf(s)' /\ DecidedOf(s)'
    BY <2>1, <2>2 DEF ShapeOf, DecidedOf, Step, SameRequest, Renewal, Asking
  <2>5. SeenOf(s)'
    BY <1>0, <2>1, <2>2, SignInAssumption DEF SeenOf, Family, Live, Known, Issued, SameRequest, Step
  <2> QED
    BY <2>1, <2>3, <2>4, <2>5, <1>0, ServerQuiet
<1>2. ASSUME NEW step \in {"found", "accepted"}, Step(s, "asked"), Goes(s, step),
             UNCHANGED <<pairs, expired, password, held, ended, late>>
      PROVE  Server'
  <2>1. /\ Only(s) /\ SameRequest(s) /\ requests'[s].step = step /\ requests'[s].made = requests[s].made
        /\ requests'[s].locks = {}
    BY <1>2, GoesEffect DEF AllSteps, Asking
  <2>2. /\ requests[s].phone \in Phone /\ requests[s].made = None
        /\ requests[s].what \in {"use", "logout", "everywhere", "password"} /\ requests[s].pair \in PairId
    BY <1>2 DEF Shape, ShapeOf, Step, Asking
  <2>3. TypeOK'
    BY <1>2, <2>1 DEF TypeOK, Only
  <2>4. ShapeOf(s)' /\ DecidedOf(s)' /\ SeenOf(s)'
    BY <1>0, <2>1, <2>2, <1>2 DEF ShapeOf, DecidedOf, SeenOf, Step, SameRequest, Renewal, Asking, Known
  <2> QED
    BY <1>2, <2>1, <2>3, <2>4, <1>0, ServerQuiet
<1>3. CASE Find(s)
  BY <1>0, <1>2, <1>3, ServerFinished DEF Find, Onwards, TypeOK
<1>4. CASE EndBegins(s)
  <2>1. /\ Only(s) /\ SameRequest(s) /\ UNCHANGED <<pairs, expired, password, held, ended, late>>
        /\ requests'[s].step = "ending" /\ requests'[s].made = requests[s].made
        /\ requests'[s].locks = requests[s].locks
        /\ requests'[s].seen \subseteq Live
    BY <1>4, EndBeginsEffect
  <2>2. /\ requests[s].phone \in Phone /\ requests[s].made = None
        /\ requests[s].what \in {"use", "logout", "everywhere", "password"} /\ requests[s].pair \in PairId
    BY <1>4 DEF EndBegins, Shape, ShapeOf, Step, Asking
  <2>3. TypeOK' /\ \A t \in Slot \ {s} : requests'[s].locks \cap requests[t].locks = {}
    BY <2>1 DEF TypeOK, Only, Locked
  <2>4. ShapeOf(s)' /\ DecidedOf(s)'
    BY <1>0, <2>1, <2>2 DEF ShapeOf, DecidedOf, Step, SameRequest, Renewal, Asking
  <2>5. SeenOf(s)'
    BY <1>0, <2>1, <2>2 DEF SeenOf, Step, SameRequest, Known, Live
  <2> QED
    BY <2>1, <2>3, <2>4, <2>5, <1>0, ServerQuiet
<1>5. CASE GiveUp(s)
  <2>1. /\ Only(s) /\ UNCHANGED <<pairs, expired, password, held, ended>>
        /\ late' = late \cup {requests[s].phone} /\ Awaited(s)
        /\ requests'[s].step = requests[s].step /\ requests'[s].what = requests[s].what
        /\ requests'[s].phone = requests[s].phone /\ requests'[s].pair = requests[s].pair
        /\ requests'[s].made = requests[s].made /\ requests'[s].locks = requests[s].locks
        /\ requests'[s].seen = requests[s].seen
    BY <1>5, GiveUpEffect
  <2>2. ~Step(s, "idle") /\ requests[s].phone \in Phone
    BY <2>1 DEF Awaited, Renewal, Shape, ShapeOf, Idle
  <2>3. TypeOK' /\ \A t \in Slot \ {s} : requests'[s].locks \cap requests[t].locks = {}
    BY <2>1, <2>2 DEF TypeOK, Only, Locked
  <2>4. ShapeOf(s) /\ DecidedOf(s) /\ SeenOf(s)
    BY DEF Shape, Decided, Seen
  <2>5. ShapeOf(s)'
    BY <2>1, <2>2, <2>4 DEF ShapeOf, Step, Renewal
  <2>6. DecidedOf(s)' /\ SeenOf(s)'
    BY <2>1, <2>4 DEF DecidedOf, SeenOf, Step, Live, Issued, Known
  <2> QED
    BY <1>0, <2>1, <2>3, <2>5, <2>6, ServerQuiet
<1> QED
  BY <1>1, <1>3, <1>4, <1>5

LEMMA ServerAnswers ==
  ASSUME Server, NEW s \in Slot, Receive(s) \/ Refused(s) \/ Over(s)
  PROVE  Server'
<1>1. requests[s].made \in PairId \cup {None} /\ requests[s].phone \in Phone
  BY DEF Server, TypeOK, Requests, Shape, ShapeOf, Receive, Refused, Over, Step
<1>2. held' \in [Phone -> PairId \cup {None}] /\ \A f \in Phone : held'[f] \in Known \cup {None}
  BY <1>1 DEF Server, TypeOK, Seen, SeenOf, Receive, Refused, Over
<1> QED
  BY <1>2, ServerFinished DEF Server, TypeOK, Receive, Refused, Over

\* A step that leaves what another transaction has made and locked leaves it as it decided.
LEMMA OthersKept ==
  ASSUME Server, NEW s \in Slot, Only(s), NEW t \in Slot \ {s},
         Known \subseteq Known',
         \A q \in Known : pairs'[q].family = pairs[q].family /\ pairs'[q].by = pairs[q].by,
         \A q \in requests[t].locks : pairs'[q] = pairs[q],
         requests[t].step \in {"rotating", "replacing"} => pairs'[requests[t].made] = pairs[requests[t].made],
         \A c \in Known' \ Known : pairs'[c].by \notin requests[t].locks
  PROVE  ShapeOf(t)' /\ DecidedOf(t)' /\ SeenOf(t)'
<1> DEFINE r == requests[t].pair
<1>1. requests'[t] = requests[t] /\ ShapeOf(t) /\ DecidedOf(t) /\ SeenOf(t)
  BY DEF Only, Server, Shape, Decided, Seen
<1>2. ShapeOf(t)'
  BY <1>1 DEF ShapeOf, Step, Renewal
<1>3. SeenOf(t)'
  <2>1. requests[t].step = "retiring" => r \in Known
    BY <1>1, SignInAssumption DEF ShapeOf, SeenOf
  <2> QED
    BY <1>1, <2>1 DEF SeenOf, Step
<1>4. CASE r \in requests[t].locks
  <2>1. r \in PairId /\ pairs'[r] = pairs[r] /\ (r \in Live' <=> r \in Live)
    BY <1>1, <1>4 DEF SeenOf, Known, Live
  <2>2. {c \in Known' : pairs'[c].by = r} = {c \in Known : pairs[c].by = r}
    BY <1>4
  <2>3. Issued(r)' = Issued(r)
    BY <1>1, <2>2 DEF Issued
  <2>4. requests[t].step = "replacing" =>
          \A c \in Issued(r) : pairs'[c] = pairs[c] /\ (c \in Live' <=> c \in Live)
    BY <1>1 DEF DecidedOf, Step, Live
  <2>5. DecidedOf(t)'
    BY <1>1, <2>1, <2>3, <2>4 DEF DecidedOf, Step
  <2> QED
    BY <1>2, <1>3, <2>5
<1>5. CASE r \notin requests[t].locks
  BY <1>1, <1>2, <1>3, <1>5 DEF DecidedOf, Step
<1> QED
  BY <1>4, <1>5

\* Two transactions do not write the same pair.
LEMMA MadeApart ==
  ASSUME Server, NEW s \in Slot, NEW t \in Slot \ {s},
         requests[s].step \in {"rotating", "replacing"}, requests[t].step \in {"rotating", "replacing"}
  PROVE  requests[s].made # requests[t].made
<1>1. DecidedOf(s) /\ DecidedOf(t) /\ requests[s].locks \cap requests[t].locks = {}
  BY DEF Server, Decided, Locked
<1> QED
  BY <1>1 DEF DecidedOf

\* What a pair not in use yet is to the others: nobody's family, and nobody's issuer.
LEMMA Unused ==
  ASSUME TypeOK, Rows, NEW p \in PairId, p \notin Known
  PROVE  \A q \in PairId : pairs[q].family # p /\ pairs[q].by # p
  BY SignInAssumption DEF Rows, RowOf, NoPair

LEMMA ServerSignedIn ==
  ASSUME Server, NEW s \in Slot, NEW p \in PairId, SignedIn(s, p)
  PROVE  Server'
<1> USE DEF Server
<1>1. /\ Only(s) /\ UNCHANGED <<expired, password, held, ended, late>>
      /\ requests'[s].step = "answered" /\ requests'[s].pair = p /\ requests'[s].made = p
      /\ requests'[s].what = requests[s].what /\ requests'[s].phone = requests[s].phone
      /\ requests'[s].awaited = requests[s].awaited /\ requests'[s].locks = requests[s].locks
      /\ pairs' \in [PairId -> Pairs]
      /\ pairs[p].status = "none"
      /\ pairs'[p].status = "live" /\ pairs'[p].family = p /\ pairs'[p].by = None /\ ~pairs'[p].used
      /\ \A q \in PairId \ {p} : pairs'[q] = pairs[q]
  BY SignedInEffect
<1>2. p \notin Known /\ p \notin Live /\ \A q \in PairId : pairs[q].family # p /\ pairs[q].by # p
  BY <1>1, Unused DEF Known, Live
<1>3. Live' = Live \cup {p} /\ Known' = Known \cup {p}
  BY <1>1 DEF Live, Known
<1>4. ASSUME NEW q \in PairId PROVE Issued(q)' = Issued(q) /\ p \notin Issued(q) /\ p # None
  <2>1. pairs'[p].by # q /\ pairs[p].by # p /\ p # None /\ \A c \in Known : pairs'[c] = pairs[c]
    BY <1>1, <1>2, SignInAssumption DEF Known
  <2>2. p \notin Issued(q)
    BY <1>2 DEF Issued
  <2> QED
    BY <1>3, <2>1, <2>2 DEF Issued
<1>5. TypeOK'
  BY <1>1 DEF TypeOK, Only
<1>6. ASSUME NEW t \in Slot PROVE ShapeOf(t)' /\ DecidedOf(t)' /\ SeenOf(t)'
  <2>1. CASE t = s
    <3>1. requests[s].phone \in Phone /\ requests[s].what = "sign-in" /\ requests[s].locks \subseteq Known
      BY DEF SignedIn, Shape, ShapeOf, Step, Seen, SeenOf
    <3> QED
      BY <1>1, <1>3, <2>1, <3>1 DEF ShapeOf, DecidedOf, SeenOf, Step, Asking
  <2>2. CASE t # s
    <3>1. DecidedOf(t) /\ SeenOf(t)
      BY DEF Decided, Seen
    <3>2. \A q \in Known : pairs'[q] = pairs[q]
      BY <1>1, <1>2 DEF Known
    <3>3. requests[t].step \in {"rotating", "replacing"} => pairs'[requests[t].made] = pairs[requests[t].made]
      BY <1>1, <3>1 DEF DecidedOf
    <3>4. requests[t].locks \subseteq Known /\ None \notin Known
      BY <3>1, SignInAssumption DEF SeenOf, Known
    <3> HIDE DEF Server
    <3> QED
      BY <1>1, <1>3, <2>2, <3>2, <3>3, <3>4, OthersKept
  <2> QED
    BY <2>1, <2>2
<1>7. Rows'
  <2> SUFFICES ASSUME NEW q \in PairId PROVE RowOf(q)'
    BY DEF Rows
  <2>1. CASE q = p
    <3>1. Issued(p)' = {}
      BY <1>2, <1>4 DEF Issued, Known
    <3> QED
      BY <1>1, <1>3, <2>1, <3>1 DEF RowOf
  <2>2. CASE q # p
    <3>1. RowOf(q) /\ pairs'[q] = pairs[q]
      BY <1>1, <2>2 DEF Rows
    <3>2. pairs[q].by \in Known => pairs'[pairs[q].by] = pairs[pairs[q].by]
      BY <1>1, <1>2 DEF Known
    <3> QED
      BY <1>1, <1>3, <1>4, <2>2, <3>1, <3>2 DEF RowOf
  <2> QED
    BY <2>1, <2>2
<1>8. Locked'
  BY <1>1 DEF Locked, Only
<1>9. OneLivePair' /\ ReplacedUnseen'
  BY <1>1, <1>2, <1>3 DEF OneLivePair, ReplacedUnseen, Live
<1>10. \A f \in Phone : held'[f] \in Known' \cup {None}
  BY <1>1, <1>3 DEF Seen
<1> QED
  BY <1>5, <1>6, <1>7, <1>8, <1>9, <1>10 DEF Shape, Decided, Seen

\* A renewal that writes the pair it issues, having locked what it decides on.
LEMMA ServerIssue ==
  ASSUME Server, NEW s \in Slot, NEW p \in PairId, NEW rows \in SUBSET Known,
         NEW step \in {"rotating", "replacing"}, Step(s, "sent"), Issue(s, p, rows, step),
         step = "rotating" => requests[s].pair \in Live /\ rows \subseteq {requests[s].pair},
         step = "replacing" =>
           /\ requests[s].pair \notin Live /\ Issued(requests[s].pair) \subseteq rows
           /\ \E c \in Issued(requests[s].pair) : c \in Live
           /\ \A c \in Issued(requests[s].pair) : ~pairs[c].used
  PROVE  Server'
<1> DEFINE r == requests[s].pair
<1>0. TypeOK /\ Shape /\ Rows /\ Locked /\ Decided /\ Seen /\ OneLivePair /\ ReplacedUnseen
  BY DEF Server
<1>1. /\ requests[s].phone \in Phone /\ Renewal(s) /\ r \in Known /\ r \in PairId
      /\ pairs[r].status # "none"
  BY <1>0, SignInAssumption DEF Shape, ShapeOf, Seen, SeenOf, Step, Known
<1>2. /\ Only(s) /\ SameRequest(s) /\ UNCHANGED <<expired, password, held, ended, late>>
      /\ requests'[s].step = step /\ requests'[s].made = p
      /\ requests'[s].locks = {r} \cup rows
      /\ \A t \in Slot \ {s} : requests'[s].locks \cap requests[t].locks = {}
      /\ pairs' \in [PairId -> Pairs]
      /\ pairs[p].status = "none"
      /\ pairs'[p].status = "issuing" /\ pairs'[p].family = pairs[r].family
      /\ pairs'[p].by = r /\ ~pairs'[p].used
      /\ \A q \in PairId \ {p} : pairs'[q] = pairs[q]
  <2>1. rows \in SUBSET PairId
    BY DEF Known
  <2> QED
    BY <1>0, <1>1, <2>1, IssueEffect
<1>3. p \notin Known /\ p \notin Live /\ \A q \in PairId : pairs[q].family # p /\ pairs[q].by # p
  BY <1>0, <1>2, Unused DEF Known, Live
<1>4. Live' = Live /\ Known' = Known
  BY <1>2 DEF Live, Known
<1>5. \A q \in Known : pairs'[q] = pairs[q]
  BY <1>2, <1>3 DEF Known
<1>6. ASSUME NEW q \in PairId PROVE Issued(q)' = Issued(q)
  BY <1>4, <1>5 DEF Issued
<1>7. TypeOK'
  BY <1>0, <1>2 DEF TypeOK, Only
<1>8. ASSUME NEW t \in Slot PROVE ShapeOf(t)' /\ DecidedOf(t)' /\ SeenOf(t)'
  <2>1. CASE t = s
    <3>1. ShapeOf(s)' /\ SeenOf(s)'
      BY <1>1, <1>2, <1>4 DEF ShapeOf, SeenOf, Step, SameRequest, Renewal, Asking
    <3>2. requests'[s].pair = r /\ Issued(requests[s].pair)' = Issued(r)
      BY <1>1, <1>2, <1>6 DEF SameRequest
    <3>3. \A c \in Issued(r) : pairs'[c] = pairs[c]
      BY <1>5 DEF Issued
    <3>4. DecidedOf(s)'
      BY <1>2, <1>4, <3>2, <3>3 DEF DecidedOf, Step
    <3> QED
      BY <2>1, <3>1, <3>4
  <2>2. CASE t # s
    <3>1. DecidedOf(t) /\ SeenOf(t)
      BY <1>0 DEF Decided, Seen
    <3>2. requests[t].step \in {"rotating", "replacing"} => pairs'[requests[t].made] = pairs[requests[t].made]
      BY <1>2, <3>1 DEF DecidedOf
    <3>3. requests[t].locks \subseteq Known
      BY <3>1 DEF SeenOf
    <3> QED
      BY <1>2, <1>4, <1>5, <2>2, <3>2, <3>3, OthersKept
  <2> QED
    BY <2>1, <2>2
<1>9. Rows'
  <2> SUFFICES ASSUME NEW q \in PairId PROVE RowOf(q)'
    BY DEF Rows
  <2>0. RowOf(r) /\ RowOf(q)
    BY <1>0, <1>1 DEF Rows
  <2>1. CASE q = p
    <3>1. pairs[r].family \in Known /\ p \notin expired
      BY <1>0, <1>1, <1>3, <2>0, <2>1 DEF RowOf
    <3> QED
      BY <1>1, <1>2, <1>3, <1>4, <1>5, <2>1, <3>1 DEF RowOf
  <2>2. CASE q # p
    <3>1. pairs'[q] = pairs[q]
      BY <1>2, <2>2
    <3> QED
      BY <1>2, <1>4, <1>5, <1>6, <2>0, <3>1 DEF RowOf
  <2> QED
    BY <2>1, <2>2
<1>10. Locked'
  BY <1>0, <1>2 DEF Locked, Only
<1>11. OneLivePair' /\ ReplacedUnseen'
  BY <1>0, <1>2, <1>4 DEF OneLivePair, ReplacedUnseen, Live
<1>12. \A f \in Phone : held'[f] \in Known' \cup {None}
  BY <1>0, <1>2, <1>4 DEF Seen
<1> QED
  BY <1>7, <1>8, <1>9, <1>10, <1>11, <1>12 DEF Server, Shape, Decided, Seen

LEMMA ServerRotate ==
  ASSUME Server, NEW s \in Slot, NEW p \in PairId, Rotate(s, p)
  PROVE  Server'
<1> DEFINE r == requests[s].pair
<1>1. r \in Live /\ Step(s, "sent") /\ Issue(s, p, Family(pairs[r].family), "rotating")
  BY DEF Rotate
<1>2. Family(pairs[r].family) \subseteq {r}
  BY <1>1 DEF Server, OneLivePair, Family, Live
<1>3. Family(pairs[r].family) \in SUBSET Known
  BY DEF Family, Live, Known
<1> QED
  BY <1>1, <1>2, <1>3, ServerIssue

LEMMA ServerReplace ==
  ASSUME Server, NEW s \in Slot, NEW p \in PairId, Replace(s, p)
  PROVE  Server'
<1> DEFINE r == requests[s].pair
<1>1. r \notin Live /\ Step(s, "sent") /\ Issue(s, p, Issued(r), "replacing") /\ ReplyWasLost(r)
  BY DEF Replace
<1>2. Issued(r) \cap Live # {}
  BY <1>1, FS_EmptySet DEF ReplyWasLost
<1>3. Issued(r) \in SUBSET Known
  BY DEF Issued
<1> QED
  BY <1>1, <1>2, <1>3, ServerIssue DEF ReplyWasLost

\* Rows retired by a statement that waited for them; the request that does so is over with it.
LEMMA ServerRetires ==
  ASSUME Server, NEW s \in Slot, RetireSeen(s), Only(s), SameRequest(s), UNCHANGED <<expired, held, late>>,
         password' \in Nat, ended' \subseteq PairId,
         requests'[s].made = requests[s].made, requests[s].made = None,
         requests'[s].locks = {}, requests[s].phone \in Phone, requests[s].pair \in PairId,
         \/ requests'[s].step = "refused" /\ Renewal(s)
         \/ /\ requests'[s].step = "over"
            /\ requests[s].what \in {"use", "logout", "everywhere", "password"}
  PROVE  Server'
<1>0. TypeOK /\ Shape /\ Rows /\ Locked /\ Decided /\ Seen /\ OneLivePair /\ ReplacedUnseen
  BY DEF Server
<1> DEFINE gone == requests[s].seen \cap Live
<1>1. /\ pairs' \in [PairId -> Pairs] /\ SameLine
      /\ \A t \in Slot \ {s} : requests[t].locks \cap requests[s].seen = {}
      /\ \A q \in PairId :
           /\ pairs'[q].used = pairs[q].used
           /\ pairs'[q].status = IF q \in gone THEN "retired" ELSE pairs[q].status
  BY <1>0, RetireSeenEffect
<1>2. \A q \in PairId : q \notin gone => pairs'[q] = pairs[q]
  BY DEF RetireSeen
<1> HIDE DEF gone
<1>3. gone \subseteq Live /\ gone \subseteq Known /\ \A t \in Slot \ {s} : requests[t].locks \cap gone = {}
  BY <1>1 DEF gone, Live, Known
<1>4. Live' = Live \ gone /\ Known' = Known
  BY <1>1, <1>3 DEF Live, Known
<1>5. ASSUME NEW q \in PairId PROVE Issued(q)' = Issued(q)
  <2>1. \A c \in Known : pairs'[c].by = pairs[c].by
    BY <1>1 DEF SameLine, Known
  <2> QED
    BY <1>4, <2>1 DEF Issued
<1>6. TypeOK'
  BY <1>0, <1>1 DEF TypeOK, Only
<1>7. ASSUME NEW t \in Slot PROVE ShapeOf(t)' /\ DecidedOf(t)' /\ SeenOf(t)'
  <2>1. CASE t = s
    <3>1. requests[s].pair \in Known
      BY <1>0, SignInAssumption DEF Seen, SeenOf
    <3> QED
      BY <1>4, <2>1, <3>1 DEF ShapeOf, SeenOf, DecidedOf, Step, SameRequest, Renewal, Asking
  <2>2. CASE t # s
    <3>1. DecidedOf(t) /\ SeenOf(t)
      BY <1>0 DEF Decided, Seen
    <3>2. requests[t].step \in {"rotating", "replacing"} => pairs'[requests[t].made] = pairs[requests[t].made]
      BY <1>2, <1>3, <3>1 DEF DecidedOf, Live
    <3>3. \A q \in Known : q \in PairId
      BY DEF Known
    <3>4. \A q \in requests[t].locks : pairs'[q] = pairs[q]
      BY <1>2, <1>3, <2>2, <3>1, <3>3 DEF SeenOf
    <3>5. \A q \in Known : pairs'[q].family = pairs[q].family /\ pairs'[q].by = pairs[q].by
      BY <1>1, <3>3 DEF SameLine
    <3> QED
      BY <1>4, <2>2, <3>2, <3>4, <3>5, OthersKept
  <2> QED
    BY <2>1, <2>2
<1>8. Rows'
  <2> SUFFICES ASSUME NEW q \in PairId PROVE RowOf(q)'
    BY DEF Rows
  <2>1. RowOf(q) /\ pairs'[q].family = pairs[q].family /\ pairs'[q].by = pairs[q].by
        /\ pairs'[q].used = pairs[q].used /\ (pairs[q].by \in Known => pairs'[pairs[q].by].family = pairs[pairs[q].by].family)
    BY <1>0, <1>1 DEF Rows, SameLine, Known
  <2>2. CASE q \in gone
    BY <1>1, <1>3, <1>4, <1>5, <2>1, <2>2 DEF RowOf, Live
  <2>3. CASE q \notin gone
    BY <1>2, <1>3, <1>4, <1>5, <2>1, <2>3 DEF RowOf
  <2> QED
    BY <2>2, <2>3
<1>9. Locked'
  BY <1>0 DEF Locked, Only
<1>10. OneLivePair' /\ ReplacedUnseen'
  BY <1>0, <1>1, <1>4 DEF OneLivePair, ReplacedUnseen, Live, SameLine
<1>11. \A f \in Phone : held'[f] \in Known' \cup {None}
  BY <1>0, <1>4 DEF Seen
<1> QED
  BY <1>6, <1>7, <1>8, <1>9, <1>10, <1>11 DEF Server, Shape, Decided, Seen

LEMMA ServerRetiredFamily ==
  ASSUME Server, NEW s \in Slot, RetiredFamily(s)
  PROVE  Server'
<1>1. /\ Only(s) /\ SameRequest(s) /\ requests'[s].step = "refused" /\ requests'[s].locks = {}
      /\ requests'[s].made = requests[s].made
  BY GoesEffect DEF Server, RetiredFamily, AllSteps, Renewing
<1>2. /\ requests[s].phone \in Phone /\ Renewal(s) /\ requests[s].pair \in PairId /\ requests[s].made = None
  BY DEF Server, Shape, ShapeOf, Step, RetiredFamily
<1>3. password' \in Nat /\ ended' \subseteq PairId /\ UNCHANGED <<expired, held, late>> /\ RetireSeen(s)
  BY DEF Server, TypeOK, RetiredFamily
<1> QED
  BY <1>1, <1>2, <1>3, ServerRetires

LEMMA ServerEndCarriedOut ==
  ASSUME Server, NEW s \in Slot, EndCarriedOut(s)
  PROVE  Server'
<1>1. /\ Only(s) /\ SameRequest(s) /\ requests'[s].step = "over" /\ requests'[s].locks = {}
      /\ requests'[s].made = requests[s].made
  BY GoesEffect DEF Server, EndCarriedOut, AllSteps, Asking
<1>2. /\ requests[s].phone \in Phone /\ requests[s].pair \in PairId /\ requests[s].made = None
      /\ requests[s].what \in {"use", "logout", "everywhere", "password"}
  BY DEF Server, Shape, ShapeOf, Step, EndCarriedOut, Asking
<1>3. password' \in Nat /\ UNCHANGED <<expired, held, late>> /\ RetireSeen(s)
  BY DEF Server, TypeOK, EndCarriedOut
<1>4. ended' \subseteq PairId
  <2>1. \A p \in requests[s].seen : pairs[p].family \in PairId
    <3>1. requests[s].seen \subseteq Known
      BY DEF Server, Seen, SeenOf, EndCarriedOut, Step
    <3> QED
      BY <3>1 DEF Server, Rows, RowOf, Known
  <2> QED
    BY <2>1 DEF Server, TypeOK, EndCarriedOut
<1> QED
  BY <1>1, <1>2, <1>3, <1>4, ServerRetires

\* A pair published by a renewal, whose own locks are the only rows it retires.
LEMMA ServerPublishes ==
  ASSUME Server, NEW s \in Slot, Only(s), SameRequest(s), UNCHANGED <<expired, password, held, ended, late>>,
         requests[s].step \in {"rotating", "replacing"},
         requests'[s].step = "answered", requests'[s].made = requests[s].made, requests'[s].locks = {},
         pairs' \in [PairId -> Pairs], SameLine,
         pairs'[requests[s].made].status = "live", ~pairs'[requests[s].made].used,
         NEW gone \in SUBSET Live, gone # {}, gone \subseteq requests[s].locks,
         \A q \in gone : /\ pairs[q].family = pairs[requests[s].pair].family
                         /\ pairs'[q].status \in {"retired", "replaced"}
                         /\ pairs'[q].status = "replaced" => ~pairs'[q].used,
         \A q \in PairId : q \notin gone /\ q # requests[s].made => pairs'[q] = pairs[q]
  PROVE  Server'
<1> DEFINE r == requests[s].pair
           m == requests[s].made
<1>0. TypeOK /\ Shape /\ Rows /\ Locked /\ Decided /\ Seen /\ OneLivePair /\ ReplacedUnseen
  BY DEF Server
<1>1. /\ m \in PairId /\ pairs[m].status = "issuing" /\ pairs[m].by = r /\ r \in requests[s].locks
      /\ r \in Known /\ r \in PairId /\ m \notin Live /\ m \notin Known
      /\ Renewal(s) /\ requests[s].phone \in Phone
  BY <1>0 DEF Decided, DecidedOf, Seen, SeenOf, Live, Known, Shape, ShapeOf, Step
<1>2. pairs[m].family = pairs[r].family /\ pairs[m].family \in Known
  BY <1>0, <1>1, SignInAssumption DEF Rows, RowOf
<1>3. \A q \in PairId : pairs[q].family # m /\ pairs[q].by # m
  BY <1>0, <1>1, Unused
<1>4. Live' = (Live \ gone) \cup {m} /\ Known' = Known \cup {m}
  BY <1>1 DEF Live, Known
<1>5. \A q \in Known : pairs'[q].family = pairs[q].family /\ pairs'[q].by = pairs[q].by
  BY DEF SameLine, Known
<1>6. ASSUME NEW q \in PairId PROVE Issued(q)' = Issued(q) \cup (IF q = r THEN {m} ELSE {})
  <2>1. pairs'[m].by = r
    BY <1>1 DEF SameLine
  <2> QED
    BY <1>4, <1>5, <2>1 DEF Issued
<1>7. TypeOK'
  BY <1>0 DEF TypeOK, Only
<1>8. ASSUME NEW t \in Slot PROVE ShapeOf(t)' /\ DecidedOf(t)' /\ SeenOf(t)'
  <2>1. CASE t = s
    BY <1>1, <1>4, <2>1 DEF ShapeOf, SeenOf, DecidedOf, Step, SameRequest, Renewal, Asking
  <2>2. CASE t # s
    <3>1. DecidedOf(t) /\ SeenOf(t) /\ requests[t].locks \cap requests[s].locks = {}
      BY <1>0, <2>2 DEF Decided, Seen, Locked
    <3>2. requests[t].step \in {"rotating", "replacing"} => pairs'[requests[t].made] = pairs[requests[t].made]
      BY <2>2, <3>1, MadeApart DEF DecidedOf, Live
    <3>3. \A q \in requests[t].locks : pairs'[q] = pairs[q]
      BY <1>1, <3>1 DEF SeenOf, Known
    <3>4. \A c \in Known' \ Known : pairs'[c].by \notin requests[t].locks
      BY <1>1, <1>4, <3>1 DEF SameLine
    <3> QED
      BY <1>4, <1>5, <2>2, <3>2, <3>3, <3>4, OthersKept
  <2> QED
    BY <2>1, <2>2
<1>9. Rows'
  <2> SUFFICES ASSUME NEW q \in PairId PROVE RowOf(q)'
    BY DEF Rows
  <2>1. /\ RowOf(q) /\ pairs'[q].family = pairs[q].family /\ pairs'[q].by = pairs[q].by
        /\ pairs[q].by \in Known => pairs'[pairs[q].by].family = pairs[pairs[q].by].family
    BY <1>0, <1>5 DEF Rows, SameLine
  <2>2. CASE q = m
    <3>1. Issued(m)' = {}
      BY <1>1, <1>3, <1>6 DEF Issued, Known
    <3> QED
      BY <1>1, <1>2, <1>4, <2>1, <2>2, <3>1 DEF RowOf
  <2>3. CASE q \in gone
    BY <1>1, <1>4, <2>1, <2>3 DEF RowOf, Live
  <2>4. CASE q # m /\ q \notin gone
    <3>1. q \in Live => q # r
      <4>1. CASE requests[s].step = "rotating"
        <5>1. requests[s].locks = {r}
          BY <1>0, <4>1 DEF Decided, DecidedOf, Step
        <5> QED
          BY <2>4, <5>1
      <4>2. CASE requests[s].step = "replacing"
        BY <1>0, <1>1, <4>2 DEF Decided, DecidedOf, Step
      <4> QED
        BY <4>1, <4>2
    <3>2. q \in Live' => Issued(q)' = {}
      BY <1>4, <1>6, <2>1, <2>4, <3>1 DEF RowOf
    <3>3. pairs'[q] = pairs[q]
      BY <2>4
    <3> QED
      BY <1>4, <2>1, <3>2, <3>3 DEF RowOf
  <2> QED
    BY <2>2, <2>3, <2>4
<1>10. Locked'
  BY <1>0 DEF Locked, Only
<1>11. OneLivePair'
  <2>1. ASSUME NEW q \in Live, q \notin gone PROVE pairs[q].family # pairs[m].family
    BY <1>0, <1>2, <2>1 DEF OneLivePair
  <2>2. \A q \in Live' : q \in PairId /\ pairs'[q].family = pairs[q].family
    BY DEF Live, SameLine
  <2> QED
    BY <1>0, <1>4, <2>1, <2>2 DEF OneLivePair
<1>12. ReplacedUnseen'
  BY <1>0 DEF ReplacedUnseen
<1>13. \A f \in Phone : held'[f] \in Known' \cup {None}
  BY <1>0, <1>4 DEF Seen
<1> QED
  BY <1>7, <1>8, <1>9, <1>10, <1>11, <1>12, <1>13 DEF Server, Shape, Decided, Seen

LEMMA ServerCommitRotation ==
  ASSUME Server, NEW s \in Slot, CommitRotation(s)
  PROVE  Server'
<1> DEFINE gone == {requests[s].pair}
<1>1. /\ Only(s) /\ SameRequest(s) /\ UNCHANGED <<expired, password, held, ended, late>>
      /\ requests'[s].step = "answered" /\ requests'[s].made = requests[s].made
      /\ requests'[s].locks = {}
      /\ pairs' \in [PairId -> Pairs] /\ SameLine
      /\ requests[s].pair \in Live
      /\ pairs'[requests[s].pair].status = "retired"
      /\ pairs'[requests[s].made].status = "live"
      /\ ~pairs'[requests[s].made].used
      /\ \A q \in PairId \ {requests[s].pair, requests[s].made} : pairs'[q] = pairs[q]
  BY CommitRotationEffect DEF Server
<1>2. gone \in SUBSET Live /\ gone # {} /\ gone \subseteq requests[s].locks /\ requests[s].step = "rotating"
  BY <1>1 DEF Server, Decided, DecidedOf, CommitRotation, Step
<1> QED
  BY <1>1, <1>2, ServerPublishes

LEMMA ServerCommitReplacement ==
  ASSUME Server, NEW s \in Slot, CommitReplacement(s)
  PROVE  Server'
<1> DEFINE gone == Issued(requests[s].pair) \cap Live
<1>1. /\ Only(s) /\ SameRequest(s) /\ UNCHANGED <<expired, password, held, ended, late>>
      /\ requests'[s].step = "answered" /\ requests'[s].made = requests[s].made
      /\ requests'[s].locks = {}
      /\ pairs' \in [PairId -> Pairs] /\ SameLine
      /\ pairs'[requests[s].made].status = "live"
      /\ ~pairs'[requests[s].made].used
      /\ \A q \in PairId : q \in Issued(requests[s].pair) \cap Live =>
           pairs'[q].status = "replaced" /\ pairs'[q].used = pairs[q].used
      /\ \A q \in PairId : q \notin Issued(requests[s].pair) \cap Live /\ q # requests[s].made =>
           pairs'[q] = pairs[q]
  BY CommitReplacementEffect DEF Server
<1>2. /\ requests[s].step = "replacing" /\ requests[s].pair \in PairId
      /\ Issued(requests[s].pair) \subseteq requests[s].locks
      /\ \E c \in Issued(requests[s].pair) : c \in Live
      /\ \A c \in Issued(requests[s].pair) : ~pairs[c].used
  BY DEF Server, Decided, DecidedOf, CommitReplacement, Step, Shape, ShapeOf
<1>3. gone \in SUBSET Live /\ gone # {} /\ gone \subseteq requests[s].locks
  BY <1>2
<1>4. ASSUME NEW q \in gone
      PROVE  /\ pairs[q].family = pairs[requests[s].pair].family
             /\ pairs'[q].status \in {"retired", "replaced"}
             /\ pairs'[q].status = "replaced" => ~pairs'[q].used
  <2>1. q \in Live /\ q \in PairId /\ pairs[q].by = requests[s].pair /\ pairs[q].status = "live"
    BY DEF Issued, Live
  <2>2. pairs[q].family = pairs[requests[s].pair].family
    BY <1>2, <2>1, SignInAssumption DEF Server, Rows, RowOf
  <2> QED
    BY <1>1, <1>2, <2>1, <2>2
<1> HIDE DEF gone
<1>5. \A q \in PairId : q \notin gone /\ q # requests[s].made => pairs'[q] = pairs[q]
  BY <1>1 DEF gone
<1> QED
  BY <1>1, <1>2, <1>3, <1>4, <1>5, ServerPublishes

LEMMA ServerMark ==
  ASSUME Server, NEW s \in Slot, Mark(s)
  PROVE  Server'
<1> DEFINE p == requests[s].pair
<1>0. TypeOK /\ Shape /\ Rows /\ Locked /\ Decided /\ Seen /\ OneLivePair /\ ReplacedUnseen
  BY DEF Server
<1>1. /\ requests[s].phone \in Phone /\ requests[s].made = None /\ p \in PairId /\ p \in Known
      /\ requests[s].what \in {"use", "logout", "everywhere", "password"} /\ Step(s, "found")
  BY <1>0, SignInAssumption DEF Mark, Shape, ShapeOf, Step, Asking, Seen, SeenOf
<1>2. /\ UNCHANGED <<expired, password, held, ended, late>>
      /\ pairs' \in [PairId -> Pairs] /\ SameLine
      /\ \A t \in Slot \ {s} : p \notin requests[t].locks
      /\ \A q \in PairId : pairs'[q].status = pairs[q].status
      /\ \A q \in PairId \ {p} : pairs'[q] = pairs[q]
      /\ Finished(s) \/ Goes(s, "accepted")
      /\ pairs'[p].used # pairs[p].used => p \in Live
      /\ p \notin Live => pairs' = pairs
  BY <1>0, <1>1, MarkEffect
<1>3. \A q \in PairId \ {p} : pairs'[q] = pairs[q]
  BY <1>2
<1>4. /\ Only(s) /\ requests'[s].locks = {}
      /\ \/ requests'[s] = Idle
         \/ SameRequest(s) /\ requests'[s].step = "accepted" /\ requests'[s].made = None
  <2>1. CASE Finished(s)
    BY <1>0, <2>1, FinishedEffect, IdleFields
  <2>2. CASE Goes(s, "accepted")
    BY <1>0, <1>1, <2>2, GoesEffect DEF AllSteps, Asking
  <2> QED
    BY <1>2, <2>1, <2>2
<1>5. Live' = Live /\ Known' = Known
  BY <1>2 DEF Live, Known
<1>6. \A q \in Known : pairs'[q].family = pairs[q].family /\ pairs'[q].by = pairs[q].by
  BY <1>2 DEF SameLine, Known
<1>7. ASSUME NEW q \in PairId PROVE Issued(q)' = Issued(q)
  BY <1>5, <1>6 DEF Issued
<1>8. TypeOK'
  BY <1>0, <1>2, <1>4 DEF TypeOK, Only
<1>9. ASSUME NEW t \in Slot PROVE ShapeOf(t)' /\ DecidedOf(t)' /\ SeenOf(t)'
  <2>1. CASE t = s
    <3>1. CASE requests'[s] = Idle
      BY <1>4, <2>1, <3>1, IdleFields DEF ShapeOf, SeenOf, DecidedOf, Step, Renewal, Asking
    <3>2. CASE SameRequest(s) /\ requests'[s].step = "accepted" /\ requests'[s].made = None
      BY <1>1, <1>4, <1>5, <2>1, <3>2 DEF ShapeOf, SeenOf, DecidedOf, Step, SameRequest, Renewal, Asking
    <3> QED
      BY <1>4, <3>1, <3>2
  <2>2. CASE t # s
    <3>1. DecidedOf(t) /\ SeenOf(t)
      BY <1>0 DEF Decided, Seen
    <3>2. requests[t].step \in {"rotating", "replacing"} => pairs'[requests[t].made] = pairs[requests[t].made]
      BY <1>1, <1>3, <3>1 DEF DecidedOf, Known
    <3>3. \A q \in requests[t].locks : pairs'[q] = pairs[q]
      BY <1>2, <1>3, <2>2, <3>1 DEF SeenOf, Known
    <3> QED
      BY <1>4, <1>5, <1>6, <2>2, <3>2, <3>3, OthersKept
  <2> QED
    BY <2>1, <2>2
<1>10. Rows'
  <2> SUFFICES ASSUME NEW q \in PairId PROVE RowOf(q)'
    BY DEF Rows
  <2>1. /\ RowOf(q) /\ pairs'[q].family = pairs[q].family /\ pairs'[q].by = pairs[q].by
        /\ pairs'[q].status = pairs[q].status
        /\ pairs[q].by \in Known => pairs'[pairs[q].by].family = pairs[pairs[q].by].family
    BY <1>0, <1>2, <1>6 DEF Rows, SameLine
  <2>2. pairs[q].status \in {"none", "issuing"} => pairs'[q] = pairs[q]
    BY <1>1, <1>3 DEF Known
  <2> QED
    BY <1>2, <1>5, <1>7, <2>1, <2>2 DEF RowOf
<1>11. Locked'
  BY <1>0, <1>4 DEF Locked, Only
<1>12. OneLivePair' /\ ReplacedUnseen'
  <2>1. OneLivePair'
    BY <1>0, <1>2, <1>5 DEF OneLivePair, SameLine, Live
  <2>2. ASSUME NEW q \in PairId, pairs'[q].status = "replaced" PROVE ~pairs'[q].used
    BY <1>0, <1>2, <2>2 DEF ReplacedUnseen, Live
  <2> QED
    BY <2>1, <2>2 DEF ReplacedUnseen
<1>13. \A f \in Phone : held'[f] \in Known' \cup {None}
  BY <1>0, <1>2, <1>5 DEF Seen
<1> QED
  BY <1>8, <1>9, <1>10, <1>11, <1>12, <1>13 DEF Server, Shape, Decided, Seen

LEMMA ServerLost ==
  ASSUME Server, NEW s \in Slot, Lost(s)
  PROVE  Server'
<1> DEFINE m == requests[s].made
<1>0. TypeOK /\ Shape /\ Rows /\ Locked /\ Decided /\ Seen /\ OneLivePair /\ ReplacedUnseen
  BY DEF Server
<1>1. /\ Only(s) /\ requests'[s] = Idle /\ UNCHANGED <<expired, password, ended, late>>
      /\ held' \in [Phone -> PairId \cup {None}]
      /\ \A f \in Phone : held'[f] \in {held[f], None}
      /\ pairs' \in [PairId -> Pairs]
      /\ \A q \in PairId : pairs'[q] = IF q = m /\ pairs[q].status = "issuing" THEN NoPair ELSE pairs[q]
  BY <1>0, LostEffect
<1>2. NoPair.status = "none" /\ NoPair.family = None /\ NoPair.by = None /\ ~NoPair.used
  BY DEF NoPair
<1>3. Live' = Live /\ Known' = Known
  BY <1>1, <1>2 DEF Live, Known
<1>4. \A q \in Known : pairs'[q] = pairs[q]
  BY <1>1 DEF Known
<1>5. ASSUME NEW q \in PairId PROVE Issued(q)' = Issued(q)
  BY <1>3, <1>4 DEF Issued
<1>6. TypeOK'
  BY <1>0, <1>1 DEF TypeOK, Only
<1>7. ASSUME NEW t \in Slot PROVE ShapeOf(t)' /\ DecidedOf(t)' /\ SeenOf(t)'
  <2>1. CASE t = s
    BY <1>1, <2>1, IdleFields DEF ShapeOf, SeenOf, DecidedOf, Step, Renewal, Asking
  <2>2. CASE t # s
    <3>1. DecidedOf(t) /\ SeenOf(t) /\ ShapeOf(s)
      BY <1>0 DEF Decided, Seen, Shape
    <3>2. requests[t].step \in {"rotating", "replacing"} => pairs'[requests[t].made] = pairs[requests[t].made]
      <4> SUFFICES ASSUME requests[t].step \in {"rotating", "replacing"}, m = requests[t].made
                   PROVE  FALSE
        BY <1>1, <3>1 DEF DecidedOf
      <4>1. m \in PairId /\ pairs[m].status = "issuing"
        BY <3>1 DEF DecidedOf
      <4>2. requests[s].step \in {"rotating", "replacing", "answered"}
        BY <3>1, <4>1, SignInAssumption DEF ShapeOf
      <4>3. requests[s].step # "answered"
        BY <1>0, <4>1 DEF Seen, SeenOf, Step, Known
      <4> QED
        BY <2>2, <4>2, <4>3, MadeApart
    <3>3. requests[t].locks \subseteq Known
      BY <3>1 DEF SeenOf
    <3> QED
      BY <1>1, <1>3, <1>4, <2>2, <3>2, <3>3, OthersKept
  <2> QED
    BY <2>1, <2>2
<1>8. Rows'
  <2> SUFFICES ASSUME NEW q \in PairId PROVE RowOf(q)'
    BY DEF Rows
  <2>1. RowOf(q)
    BY <1>0 DEF Rows
  <2>2. CASE pairs'[q] = pairs[q]
    BY <1>1, <1>3, <1>4, <1>5, <2>1, <2>2 DEF RowOf
  <2>3. CASE pairs'[q] # pairs[q]
    <3>1. pairs'[q] = NoPair /\ pairs[q].status = "issuing" /\ q \notin Known /\ q \notin Live
      BY <1>1, <2>3 DEF Known, Live
    <3> QED
      BY <1>1, <1>2, <1>3, <2>1, <3>1 DEF RowOf
  <2> QED
    BY <2>2, <2>3
<1>9. Locked'
  BY <1>0, <1>1, IdleFields DEF Locked, Only
<1>10. OneLivePair' /\ ReplacedUnseen'
  BY <1>0, <1>1, <1>2, <1>3 DEF OneLivePair, ReplacedUnseen, Live
<1>11. \A f \in Phone : held'[f] \in Known' \cup {None}
  BY <1>0, <1>1, <1>3 DEF Seen
<1> QED
  BY <1>6, <1>7, <1>8, <1>9, <1>10, <1>11 DEF Server, Shape, Decided, Seen

LEMMA ServerExpire ==
  ASSUME Server, NEW p \in PairId, Expire(p)
  PROVE  Server'
<1>0. TypeOK /\ Shape /\ Rows /\ Locked /\ Decided /\ Seen /\ OneLivePair /\ ReplacedUnseen
  BY DEF Server
<1>1. expired' = expired \cup {p} /\ p \in Known /\ UNCHANGED <<pairs, password, held, requests, ended, late>>
  BY DEF Expire
<1>2. Live' = Live /\ Known' = Known /\ \A q : Issued(q)' = Issued(q)
  BY <1>1 DEF Live, Known, Issued
<1>3. TypeOK'
  BY <1>0, <1>1 DEF TypeOK
<1>4. Rows'
  BY <1>0, <1>1, <1>2 DEF Rows, RowOf
<1>5. Shape' /\ Locked' /\ Decided' /\ Seen'
  BY <1>0, <1>1, <1>2 DEF Shape, ShapeOf, Locked, Decided, DecidedOf, Seen, SeenOf, Step, Renewal
<1>6. OneLivePair' /\ ReplacedUnseen'
  BY <1>0, <1>1, <1>2 DEF OneLivePair, ReplacedUnseen
<1> QED
  BY <1>3, <1>4, <1>5, <1>6 DEF Server

LEMMA ServerStutters ==
  ASSUME Server, UNCHANGED vars
  PROVE  Server'
<1>0. UNCHANGED <<pairs, expired, password, held, requests, ended, late>>
  BY DEF vars
<1>2. Live' = Live /\ Known' = Known /\ \A q : Issued(q)' = Issued(q)
  BY <1>0 DEF Live, Known, Issued
<1>3. TypeOK' /\ Rows' /\ OneLivePair' /\ ReplacedUnseen'
  BY <1>0, <1>2 DEF Server, TypeOK, Rows, RowOf, OneLivePair, ReplacedUnseen
<1>4. Shape' /\ Locked' /\ Decided' /\ Seen'
  BY <1>0, <1>2 DEF Server, Shape, ShapeOf, Locked, Decided, DecidedOf, Seen, SeenOf, Step, Renewal
<1> QED
  BY <1>3, <1>4 DEF Server

LEMMA ServerInit == Init => Server
<1> SUFFICES ASSUME Init PROVE Server
  OBVIOUS
<1>1. /\ \A p \in PairId : pairs[p] = NoPair
      /\ \A s \in Slot : requests[s] = Idle
      /\ \A f \in Phone : held[f] = None
      /\ expired = {} /\ password = 0 /\ ended = {} /\ late = {}
  BY DEF Init
<1>2. NoPair.status = "none" /\ NoPair.by = None
  BY DEF NoPair
<1>3. Live = {} /\ Known = {}
  BY <1>1, <1>2 DEF Live, Known
<1>4. TypeOK
  BY IdleType DEF Init, TypeOK, Pairs
<1>5. Shape /\ Locked /\ Decided /\ Seen
  BY <1>1, IdleFields DEF Shape, ShapeOf, Locked, Decided, DecidedOf, Seen, SeenOf, Step, Renewal, Asking
<1>6. Rows /\ OneLivePair /\ ReplacedUnseen
  BY <1>1, <1>2, <1>3 DEF Rows, RowOf, OneLivePair, ReplacedUnseen
<1> QED
  BY <1>4, <1>5, <1>6 DEF Server

LEMMA ServerNext == Server /\ [Next]_vars => Server'
<1> SUFFICES ASSUME Server, [Next]_vars PROVE Server'
  OBVIOUS
<1>1. ASSUME NEW s \in Slot, Phones(s) PROVE Server'
  BY <1>1, ServerBegins DEF Phones
<1>2. ASSUME NEW s \in Slot, Serving(s) PROVE Server'
  <2>1. CASE \E p \in PairId : SignedIn(s, p) \/ Rotate(s, p) \/ Replace(s, p)
    BY <2>1, ServerSignedIn, ServerRotate, ServerReplace
  <2>2. CASE RetiredFamily(s) \/ CommitRotation(s) \/ CommitReplacement(s) \/ Mark(s) \/ EndCarriedOut(s)
    BY <2>2, ServerRetiredFamily, ServerCommitRotation, ServerCommitReplacement, ServerMark, ServerEndCarriedOut
  <2>3. CASE RetireFamily(s) \/ Find(s) \/ EndBegins(s)
    BY <2>3, ServerWaits
  <2> QED
    BY <1>2, <2>1, <2>2, <2>3 DEF Serving
<1>3. ASSUME NEW s \in Slot, Answering(s) PROVE Server'
  BY <1>3, ServerAnswers, ServerLost, ServerWaits DEF Answering
<1>4. ASSUME NEW p \in PairId, Expire(p) PROVE Server'
  BY <1>4, ServerExpire
<1> QED
  BY <1>1, <1>2, <1>3, <1>4, ServerStutters DEF Next

\* No pair of the sign-in works, and none is being issued.
Out(f) == \A p \in PairId : pairs[p].family = f => pairs[p].status \notin {"live", "issuing"}

LEMMA OutForGood ==
  ASSUME Server, [Next]_vars, NEW f \in Known, Out(f)
  PROVE  Out(f)'
<1>0. TypeOK /\ Shape /\ Rows /\ Locked /\ Decided /\ Seen /\ OneLivePair /\ ReplacedUnseen
  BY DEF Server
<1>1. ASSUME UNCHANGED pairs PROVE Out(f)'
  BY <1>1 DEF Out
<1>2. ASSUME NEW s \in Slot, NEW p \in PairId, SignedIn(s, p) PROVE Out(f)'
  <2>1. /\ pairs[p].status = "none" /\ pairs'[p].family = p
        /\ \A q \in PairId \ {p} : pairs'[q] = pairs[q]
    BY <1>0, <1>2, SignedInEffect
  <2>2. p # f
    BY <2>1 DEF Known
  <2> QED
    BY <2>1, <2>2 DEF Out
<1>3. ASSUME NEW s \in Slot, NEW p \in PairId, Rotate(s, p) \/ Replace(s, p) PROVE Out(f)'
  <2> DEFINE r == requests[s].pair
  <2>1. r \in Known /\ r \in PairId /\ pairs[r].status # "none" /\ Step(s, "sent")
    BY <1>0, <1>3, SignInAssumption DEF Shape, ShapeOf, Seen, SeenOf, Step, Known, Rotate, Replace
  <2>2. \E q \in Live : pairs[q].family = pairs[r].family
    <3>1. CASE Rotate(s, p)
      BY <3>1 DEF Rotate
    <3>2. CASE Replace(s, p)
      <4>0. ReplyWasLost(r)
        BY <3>2 DEF Replace
      <4>1. PICK c \in Issued(r) : c \in Live
        <5>1. Issued(r) \cap Live # {}
          BY <4>0, FS_EmptySet DEF ReplyWasLost
        <5> QED
          BY <5>1
      <4>2. c \in PairId /\ pairs[c].by = r /\ pairs[c].status # "none"
        BY <4>1 DEF Issued, Live
      <4> QED
        BY <1>0, <2>1, <4>1, <4>2, SignInAssumption DEF Rows, RowOf
    <3> QED
      BY <1>3, <3>1, <3>2
  <2>3. pairs[r].family # f
    BY <2>2 DEF Out, Live
  <2>4. \E rows \in SUBSET PairId : \E step \in {"rotating", "replacing"} : Issue(s, p, rows, step)
    BY <1>3 DEF Rotate, Replace, Family, Issued, Live, Known
  <2>5. pairs'[p].family = pairs[r].family /\ \A q \in PairId \ {p} : pairs'[q] = pairs[q]
    BY <1>0, <2>1, <2>4, IssueEffect
  <2> QED
    BY <2>3, <2>5 DEF Out
<1>4. ASSUME SameLine, \A q \in PairId : pairs'[q].status \in {"live", "issuing"} => pairs[q].status \in {"live", "issuing"}
      PROVE  Out(f)'
  BY <1>4 DEF Out, SameLine
<1>5. ASSUME NEW s \in Slot, RetiredFamily(s) \/ EndCarriedOut(s) PROVE Out(f)'
  BY <1>0, <1>4, <1>5, RetireSeenEffect DEF RetiredFamily, EndCarriedOut
<1>6. ASSUME NEW s \in Slot, CommitRotation(s) PROVE Out(f)'
  <2>1. \A q \in PairId : pairs'[q].status \in {"live", "issuing"} => pairs[q].status \in {"live", "issuing"}
    BY <1>0, <1>6, CommitRotationEffect
  <2> QED
    BY <1>0, <1>4, <1>6, <2>1, CommitRotationEffect
<1>7. ASSUME NEW s \in Slot, CommitReplacement(s) PROVE Out(f)'
  <2>1. \A q \in PairId : pairs'[q].status \in {"live", "issuing"} => pairs[q].status \in {"live", "issuing"}
    BY <1>0, <1>7, CommitReplacementEffect
  <2> QED
    BY <1>0, <1>4, <1>7, <2>1, CommitReplacementEffect
<1>8. ASSUME NEW s \in Slot, Mark(s) PROVE Out(f)'
  <2>1. requests[s].pair \in PairId
    BY <1>0, <1>8 DEF Shape, ShapeOf, Step, Asking, Mark
  <2> QED
    BY <1>0, <1>4, <1>8, <2>1, MarkEffect
<1>9. ASSUME NEW s \in Slot, Lost(s) PROVE Out(f)'
  <2>1. NoPair.status = "none"
    BY DEF NoPair
  <2> QED
    BY <1>0, <1>9, <2>1, LostEffect DEF Out
<1>10. ASSUME NEW s \in Slot, Phones(s) PROVE UNCHANGED pairs
  BY <1>10 DEF Phones, SignInChecked, Renew, Ask
<1>11. ASSUME NEW s \in Slot, RetireFamily(s) \/ Find(s) \/ EndBegins(s) PROVE UNCHANGED pairs
  BY <1>11 DEF RetireFamily, Find, EndBegins
<1>12. ASSUME NEW s \in Slot, Receive(s) \/ Refused(s) \/ Over(s) \/ GiveUp(s) PROVE UNCHANGED pairs
  BY <1>12 DEF Receive, Refused, Over, GiveUp
<1>13. ASSUME NEW p \in PairId, Expire(p) PROVE UNCHANGED pairs
  BY <1>13 DEF Expire
<1>14. CASE UNCHANGED vars
  BY <1>1, <1>14 DEF vars
<1>15. CASE Next
  BY <1>1, <1>2, <1>3, <1>5, <1>6, <1>7, <1>8, <1>9, <1>10, <1>11, <1>12, <1>13, <1>15
     DEF Next, Serving, Answering
<1> QED
  BY <1>14, <1>15

\* The rows and the transactions under way are always in order: the strengthening of the three
\* theorems below.
THEOREM ServerAlways == Spec => []Server
  BY ServerInit, ServerNext, PTL DEF Spec

\* Every row, request and stored pair keeps its shape, whatever is done on the phones and the server.
THEOREM TypeCorrect == Spec => []TypeOK
<1>1. Server => TypeOK
  BY DEF Server
<1> QED
  BY <1>1, ServerAlways, PTL

\* However many phones, renewals, retries and late requests cross, a sign-in has one pair that works
\* at most: what refreshTokens locks is what it decided on.
THEOREM OnePairWorks == Spec => []OneLivePair
<1>1. Server => OneLivePair
  BY DEF Server
<1> QED
  BY <1>1, ServerAlways, PTL

\* A pair that a retry had replaced was never accepted by tokenHolder from anybody, before or after.
THEOREM ReplacedWasUnseen == Spec => []ReplacedUnseen
<1>1. Server => ReplacedUnseen
  BY DEF Server
<1> QED
  BY <1>1, ServerAlways, PTL

\* A sign-in that has no pair that works and none being issued has none ever after: refreshTokens
\* issues only from a live pair of it, or in the place of one.
THEOREM NothingRevived == Spec => NoRevival
<1>1. Server /\ [Next]_vars =>
        [\A f \in Known :
           (\A p \in PairId : pairs[p].family = f => pairs[p].status \notin {"live", "issuing"})
             => \A p \in PairId : pairs'[p].family = f => pairs'[p].status \notin {"live", "issuing"}]_vars
  BY OutForGood DEF Out
<1> QED
  BY <1>1, ServerAlways, PTL DEF Spec, NoRevival

-----------------------------------------------------------------------------
(***************************************************************************)
(* What the phones keep and present, action by action.                     *)
(***************************************************************************)
\* Renewals awaited, after a step of one request.
LEMMA OneRenewalKept ==
  ASSUME OneRenewal, NEW s \in Slot, Only(s), late \subseteq late',
         Awaited(s)' => (\/ Awaited(s) /\ requests'[s].phone = requests[s].phone
                         \/ \A t \in Slot : ~(Awaited(t) /\ requests[t].phone = requests'[s].phone)),
         Renewal(s)' => Awaited(s)' \/ requests'[s].phone \in late',
         requests'[s].what = "sign-in" => requests'[s].awaited
  PROVE  OneRenewal'
<1>1. \A t \in Slot \ {s} : (Awaited(t)' <=> Awaited(t)) /\ (Renewal(t)' <=> Renewal(t))
                            /\ requests'[t] = requests[t]
  BY DEF Only, Awaited, Renewal
<1>2. ASSUME NEW t \in Slot, NEW u \in Slot, Awaited(t)', Awaited(u)', requests'[t].phone = requests'[u].phone
      PROVE  t = u
  BY <1>1, <1>2 DEF OneRenewal
<1>3. \A t \in Slot : Renewal(t)' => Awaited(t)' \/ requests'[t].phone \in late'
  BY <1>1 DEF OneRenewal
<1>4. \A t \in Slot : requests'[t].what = "sign-in" => requests'[t].awaited
  BY <1>1 DEF OneRenewal
<1> QED
  BY <1>2, <1>3, <1>4 DEF OneRenewal

\* A step after which nobody has a pair nobody had before.
LEMMA ClientKept ==
  ASSUME Server, Client, OneRenewal', NEW s \in Slot, Only(s), Known \subseteq Known',
         \A q \in Known : pairs'[q].family = pairs[q].family /\ pairs'[q].by = pairs[q].by,
         \A f \in Phone : held'[f] \in {held[f], None},
         requests'[s].pair \notin {requests[s].pair, None} =>
           requests'[s].phone \in Phone /\ requests'[s].pair = held[requests'[s].phone],
         requests'[s].pair = requests[s].pair => requests'[s].pair = None \/ requests'[s].phone = requests[s].phone,
         Awaited(s)' => \/ Awaited(s) /\ requests'[s].pair = requests[s].pair
                        \/ \E f \in Phone : requests'[s].pair = held[f],
         OnItsWayOf(s)',
         \A t \in Slot \ {s} : Step(t, "answered") =>
           requests'[s].made # requests[t].made /\ \A q \in PairId : pairs'[q].by # requests[t].made
  PROVE  Client'
<1>0. OnePhone /\ OnItsWay /\ OneRenewal /\ MovedOn /\ Seen /\ Shape
  BY DEF Server, Client
<1>1. \A t \in Slot \ {s} : requests'[t] = requests[t] /\ (Awaited(t)' <=> Awaited(t)) /\ (Renewal(t)' <=> Renewal(t))
  BY DEF Only, Awaited, Renewal
<1>2. None \notin Known /\ Known \subseteq PairId
  BY SignInAssumption DEF Known
<1>3. ASSUME NEW f \in Phone, NEW p \in Known', Refers(f, p)' PROVE Refers(f, p) /\ p \in Known
  <2>0. None \notin Known'
    BY SignInAssumption DEF Known
  <2>1. CASE held'[f] = p
    BY <1>0, <2>0, <2>1 DEF Refers, Seen
  <2>2. ASSUME NEW t \in Slot, requests'[t].phone = f, requests'[t].pair = p PROVE Refers(f, p) /\ p \in Known
    <3>1. CASE t # s
      BY <1>0, <1>1, <2>0, <2>2, <3>1 DEF Refers, Seen, SeenOf
    <3>2. CASE t = s /\ requests'[s].pair = requests[s].pair
      BY <1>0, <2>0, <2>2, <3>2 DEF Refers, Seen, SeenOf
    <3>3. CASE t = s /\ requests'[s].pair # requests[s].pair
      BY <1>0, <2>0, <2>2, <3>3 DEF Refers, Seen
    <3> QED
      BY <3>1, <3>2, <3>3
  <2> QED
    BY <1>3, <2>1, <2>2 DEF Refers
<1>4. OnePhone'
  <2> SUFFICES ASSUME NEW f \in Phone, NEW g \in Phone, NEW p \in Known', NEW q \in Known',
                      Refers(f, p)', Refers(g, q)', pairs'[p].family = pairs'[q].family
               PROVE  f = g
    BY DEF OnePhone
  <2>1. Refers(f, p) /\ Refers(g, q) /\ p \in Known /\ q \in Known
    BY <1>3
  <2> QED
    BY <1>0, <2>1 DEF OnePhone
<1>5. OnItsWay'
  <2> SUFFICES ASSUME NEW t \in Slot, t # s PROVE OnItsWayOf(t)'
    BY DEF OnItsWay
  <2> SUFFICES ASSUME Step(t, "answered")' PROVE OnItsWayOf(t)'
    BY DEF OnItsWayOf
  <2> DEFINE p == requests[t].made
  <2>1. requests'[t] = requests[t] /\ Step(t, "answered") /\ OnItsWayOf(t) /\ (Renewal(t)' <=> Renewal(t))
    BY <1>0, <1>1 DEF OnItsWay, Step
  <2>2. p \in Known /\ requests[t].pair \in Known
    BY <1>0, <2>1, SignInAssumption DEF OnItsWayOf, Seen, SeenOf, Shape, ShapeOf, Step
  <2>3. \A f \in Phone : held'[f] # p
    BY <1>2, <2>1, <2>2 DEF OnItsWayOf
  <2>4. \A u \in Slot \ {t} : requests'[u].pair # p /\ requests'[u].made # p
    BY <1>1, <1>2, <2>1, <2>2 DEF OnItsWayOf
  <2> HIDE DEF p
  <2>5. \A q \in PairId : pairs'[q].by # p
    BY <2>1 DEF p
  <2> QED
    BY <2>1, <2>2, <2>3, <2>4, <2>5 DEF OnItsWayOf, p
<1>6. MovedOn'
  <2> SUFFICES ASSUME NEW f \in Phone, NEW p \in Known', Refers(f, p)', pairs'[p].by # None
               PROVE  /\ \A g \in Phone : held'[g] # pairs'[p].by
                      /\ \A t \in Slot : Awaited(t)' => requests'[t].pair # pairs'[p].by
    BY DEF MovedOn
  <2>1. Refers(f, p) /\ p \in Known /\ pairs'[p].by = pairs[p].by
    BY <1>3
  <2>2. /\ \A g \in Phone : held[g] # pairs[p].by
        /\ \A t \in Slot : Awaited(t) => requests[t].pair # pairs[p].by
    BY <1>0, <2>1 DEF MovedOn
  <2> QED
    BY <1>1, <2>1, <2>2
<1> QED
  BY <1>4, <1>5, <1>6 DEF Client

LEMMA ClientBegins ==
  ASSUME Server, Client, NEW s \in Slot, NEW f \in Phone,
         \/ SignInChecked(s, f)
         \/ Renew(s, f)
         \/ \E what \in {"use"} \cup Ends : Ask(s, f, what)
  PROVE  Client'
<1>0. TypeOK /\ OnItsWay /\ OneRenewal /\ requests[s] = Idle
  BY DEF Server, Client, Shape, ShapeOf, SignInChecked, Renew, Ask
<1>1. ASSUME Only(s), UNCHANGED <<pairs, expired, password, held, ended, late>>, OneRenewal',
             requests'[s].phone = f, requests'[s].pair \in {held[f], None}, requests'[s].made = None,
             requests'[s].step # "answered", Awaited(s)' => requests'[s].pair = held[f]
      PROVE  Client'
  <2>1. Known' = Known
    BY <1>1 DEF Known
  <2>2. OnItsWayOf(s)'
    BY <1>1 DEF OnItsWayOf, Step
  <2>3. \A t \in Slot \ {s} : Step(t, "answered") =>
          requests'[s].made # requests[t].made /\ \A q \in PairId : pairs'[q].by # requests[t].made
    BY <1>0, <1>1, SignInAssumption DEF OnItsWay, OnItsWayOf, Known
  <2>4. requests'[s].pair = requests[s].pair => requests'[s].pair = None \/ requests'[s].phone = requests[s].phone
    BY <1>0, IdleFields
  <2> QED
    BY <1>0, <1>1, <2>1, <2>2, <2>3, <2>4, ClientKept
<1>2. CASE SignInChecked(s, f)
  <2>1. /\ Only(s) /\ UNCHANGED <<pairs, expired, password, held, ended, late>>
        /\ requests'[s].step = "checked" /\ requests'[s].what = "sign-in" /\ requests'[s].phone = f
        /\ requests'[s].pair = None /\ requests'[s].made = None /\ requests'[s].awaited
    BY <1>0, <1>2, CheckedEffect
  <2>2. ~Awaited(s)' /\ ~Renewal(s)'
    BY <2>1 DEF Awaited, Renewal
  <2>3. OneRenewal'
    BY <1>0, <2>1, <2>2, OneRenewalKept
  <2> QED
    BY <1>1, <2>1, <2>2, <2>3
<1>3. CASE Renew(s, f)
  <2>1. /\ Only(s) /\ UNCHANGED <<pairs, expired, password, held, ended, late>>
        /\ requests'[s].step = "sent" /\ requests'[s].what = "renew" /\ requests'[s].phone = f
        /\ requests'[s].pair = held[f] /\ requests'[s].made = None /\ requests'[s].awaited
    BY <1>0, <1>3, RenewEffect
  <2>2. Awaited(s)' /\ \A t \in Slot : ~(Awaited(t) /\ requests[t].phone = f)
    BY <1>3, <2>1 DEF Awaited, Renewal, Renew
  <2>3. OneRenewal'
    BY <1>0, <2>1, <2>2, OneRenewalKept
  <2> QED
    BY <1>1, <2>1, <2>3
<1>4. ASSUME NEW what \in {"use"} \cup Ends, Ask(s, f, what) PROVE Client'
  <2>1. /\ Only(s) /\ UNCHANGED <<pairs, expired, password, held, ended, late>>
        /\ requests'[s].step = "asked" /\ requests'[s].phone = f
        /\ requests'[s].what \in {"use", "logout", "everywhere", "password"}
        /\ requests'[s].pair = held[f] /\ requests'[s].made = None /\ requests'[s].awaited
    BY <1>0, <1>4, AskEffect
  <2>2. ~Awaited(s)' /\ ~Renewal(s)'
    BY <2>1 DEF Awaited, Renewal
  <2>3. OneRenewal'
    BY <1>0, <2>1, <2>2, OneRenewalKept
  <2> QED
    BY <1>1, <2>1, <2>3
<1> QED
  BY <1>2, <1>3, <1>4

\* A request that is over, or goes on without being answered.
LEMMA ClientGoesOn ==
  ASSUME Server, Client, NEW s \in Slot, Only(s), UNCHANGED late, Known' = Known,
         \A q \in Known : pairs'[q].family = pairs[q].family /\ pairs'[q].by = pairs[q].by,
         \A q \in PairId : pairs'[q].by \in {pairs[q].by, None},
         \A f \in Phone : held'[f] \in {held[f], None},
         \/ requests'[s] = Idle
         \/ SameRequest(s) /\ requests'[s].step # "answered" /\ requests'[s].made = requests[s].made
  PROVE  Client'
<1>0. OnItsWay /\ OneRenewal /\ None \notin Known
  BY SignInAssumption DEF Client, Known
<1>1. OneRenewal'
  <2>1. CASE requests'[s] = Idle
    <3>1. ~Renewal(s)' /\ ~Awaited(s)' /\ requests'[s].what = "none"
      BY <2>1, IdleFields DEF Awaited, Renewal
    <3> QED
      BY <1>0, <3>1, OneRenewalKept
  <2>2. CASE SameRequest(s)
    BY <1>0, <2>2, OneRenewalKept DEF SameRequest, OneRenewal, Awaited, Renewal
  <2> QED
    BY <2>1, <2>2
<1>2. OnItsWayOf(s)'
  BY IdleFields DEF OnItsWayOf, Step
<1>3. \A t \in Slot \ {s} : Step(t, "answered") =>
        requests'[s].made # requests[t].made /\ \A q \in PairId : pairs'[q].by # requests[t].made
  BY <1>0, IdleFields DEF OnItsWay, OnItsWayOf
<1>4. Awaited(s)' => Awaited(s) /\ requests'[s].pair = requests[s].pair
  BY IdleFields DEF Awaited, Renewal, SameRequest
<1>5. /\ requests'[s].pair \in {requests[s].pair, None}
      /\ requests'[s].pair = requests[s].pair => requests'[s].pair = None \/ requests'[s].phone = requests[s].phone
  BY IdleFields DEF SameRequest
<1> QED
  BY <1>1, <1>2, <1>3, <1>4, <1>5, ClientKept

LEMMA ClientWaits ==
  ASSUME Server, Client, NEW s \in Slot,
         RetireFamily(s) \/ Find(s) \/ EndBegins(s) \/ Refused(s) \/ Over(s)
  PROVE  Client'
<1>0. TypeOK /\ Shape
  BY DEF Server
<1>1. UNCHANGED <<pairs, late>> /\ Known' = Known
  BY DEF RetireFamily, Find, EndBegins, Refused, Over, Known
<1>2. \A f \in Phone : held'[f] \in {held[f], None}
  BY <1>0 DEF RetireFamily, Find, EndBegins, Refused, Over, TypeOK
<1>3. /\ Only(s)
      /\ \/ requests'[s] = Idle
         \/ SameRequest(s) /\ requests'[s].step # "answered" /\ requests'[s].made = requests[s].made
  <2>1. CASE RetireFamily(s)
    BY <1>0, <2>1, RetireFamilyEffect
  <2>2. CASE EndBegins(s)
    BY <1>0, <2>2, EndBeginsEffect
  <2>3. CASE Finished(s)
    BY <1>0, <2>3, FinishedEffect
  <2>4. ASSUME NEW step \in {"found", "accepted"}, Goes(s, step)
        PROVE  Only(s) /\ SameRequest(s) /\ requests'[s].step # "answered" /\ requests'[s].made = requests[s].made
    BY <1>0, <2>4, GoesEffect DEF AllSteps, Asking
  <2>5. CASE Find(s)
    BY <2>3, <2>4, <2>5 DEF Find, Onwards
  <2> QED
    BY <2>1, <2>2, <2>3, <2>5 DEF Refused, Over
<1> QED
  BY <1>1, <1>2, <1>3, ClientGoesOn

LEMMA ClientRetires ==
  ASSUME Server, Client, NEW s \in Slot, RetiredFamily(s) \/ EndCarriedOut(s) \/ Mark(s) \/ Lost(s)
  PROVE  Client'
<1>0. TypeOK /\ Shape
  BY DEF Server
<1>1. CASE RetiredFamily(s) \/ EndCarriedOut(s)
  <2>1. RetireSeen(s) /\ UNCHANGED <<held, late>> /\ (Goes(s, "refused") \/ Goes(s, "over"))
    BY <1>1 DEF RetiredFamily, EndCarriedOut
  <2>2. /\ Only(s) /\ SameRequest(s) /\ requests'[s].step # "answered" /\ requests'[s].made = requests[s].made
    BY <1>0, <2>1, GoesEffect DEF AllSteps, Asking, Renewing
  <2>3. SameLine /\ Known' = Known
    BY <1>0, <2>1, RetireSeenEffect DEF Known, Live
  <2> QED
    BY <2>1, <2>2, <2>3, ClientGoesOn DEF SameLine, Known
<1>2. CASE Mark(s)
  <2>1. requests[s].pair \in PairId
    BY <1>0, <1>2 DEF Shape, ShapeOf, Step, Asking, Mark
  <2>2. /\ UNCHANGED <<held, late>> /\ SameLine /\ Known' = Known /\ (Finished(s) \/ Goes(s, "accepted"))
    BY <1>0, <1>2, <2>1, MarkEffect DEF Known
  <2>3. /\ Only(s)
        /\ \/ requests'[s] = Idle
           \/ SameRequest(s) /\ requests'[s].step # "answered" /\ requests'[s].made = requests[s].made
    BY <1>0, <2>2, FinishedEffect, GoesEffect DEF AllSteps, Asking
  <2> QED
    BY <2>2, <2>3, ClientGoesOn DEF SameLine, Known
<1>3. CASE Lost(s)
  <2>1. NoPair.status = "none" /\ NoPair.by = None
    BY DEF NoPair
  <2>2. /\ Only(s) /\ requests'[s] = Idle /\ UNCHANGED late
        /\ \A f \in Phone : held'[f] \in {held[f], None}
        /\ \A q \in PairId : pairs'[q] = IF q = requests[s].made /\ pairs[q].status = "issuing"
                                         THEN NoPair ELSE pairs[q]
    BY <1>0, <1>3, LostEffect
  <2>3. Known' = Known
    BY <2>1, <2>2 DEF Known
  <2>4. /\ \A q \in Known : pairs'[q] = pairs[q]
        /\ \A q \in PairId : pairs'[q].by \in {pairs[q].by, None}
    BY <2>1, <2>2 DEF Known
  <2> QED
    BY <2>2, <2>3, <2>4, ClientGoesOn
<1> QED
  BY <1>1, <1>2, <1>3

LEMMA ClientIssue ==
  ASSUME Server, Client, NEW s \in Slot, NEW p \in PairId, Rotate(s, p) \/ Replace(s, p)
  PROVE  Client'
<1>0. TypeOK /\ Shape /\ Rows /\ Seen /\ OnItsWay /\ OneRenewal
  BY DEF Server, Client
<1>1. requests[s].pair \in PairId /\ pairs[requests[s].pair].status # "none" /\ Step(s, "sent")
  BY <1>0, SignInAssumption DEF Shape, ShapeOf, Seen, SeenOf, Step, Known, Rotate, Replace
<1>2. \E rows \in SUBSET PairId : \E step \in {"rotating", "replacing"} : Issue(s, p, rows, step)
  BY DEF Rotate, Replace, Family, Issued, Live, Known
<1>3. /\ Only(s) /\ SameRequest(s) /\ UNCHANGED <<expired, password, held, ended, late>>
      /\ requests'[s].step \in {"rotating", "replacing"} /\ requests'[s].made = p
      /\ pairs[p].status = "none" /\ pairs'[p].status = "issuing"
      /\ pairs'[p].by = requests[s].pair
      /\ \A q \in PairId \ {p} : pairs'[q] = pairs[q]
  BY <1>0, <1>1, <1>2, IssueEffect
<1>4. p \notin Known /\ Known' = Known
  BY <1>3 DEF Known
<1>5. OneRenewal'
  BY <1>0, <1>3, OneRenewalKept DEF SameRequest, OneRenewal, Awaited, Renewal
<1>6. \A t \in Slot \ {s} : Step(t, "answered") =>
        requests'[s].made # requests[t].made /\ \A q \in PairId : pairs'[q].by # requests[t].made
  BY <1>0, <1>3, <1>4 DEF OnItsWay, OnItsWayOf
<1>7. OnItsWayOf(s)' /\ (Awaited(s)' => Awaited(s)) /\ requests'[s].pair = requests[s].pair
      /\ requests'[s].phone = requests[s].phone
  BY <1>3 DEF OnItsWayOf, Step, SameRequest, Awaited, Renewal
<1>8. \A q \in Known : pairs'[q] = pairs[q]
  BY <1>3, <1>4 DEF Known
<1> QED
  BY <1>3, <1>4, <1>5, <1>6, <1>7, <1>8, ClientKept

LEMMA ClientCommits ==
  ASSUME Server, Client, NEW s \in Slot, CommitRotation(s) \/ CommitReplacement(s)
  PROVE  Client'
<1> DEFINE r == requests[s].pair
           m == requests[s].made
<1>0. TypeOK /\ Shape /\ Rows /\ Decided /\ Seen /\ OnItsWay /\ OneRenewal
  BY DEF Server, Client
<1>1. requests[s].step \in {"rotating", "replacing"}
  BY DEF CommitRotation, CommitReplacement, Step
<1>2. /\ Only(s) /\ SameRequest(s) /\ UNCHANGED <<expired, password, held, ended, late>>
      /\ requests'[s].step = "answered" /\ requests'[s].made = m
      /\ SameLine /\ m \in PairId /\ pairs[m].status = "issuing" /\ pairs'[m].status = "live"
      /\ \A q \in Known : q \in Known'
  <2>1. CASE CommitRotation(s)
    BY <1>0, <2>1, CommitRotationEffect DEF Known
  <2>2. CASE CommitReplacement(s)
    <3>1. /\ Only(s) /\ SameRequest(s) /\ UNCHANGED <<expired, password, held, ended, late>>
          /\ requests'[s].step = "answered" /\ requests'[s].made = m
          /\ SameLine /\ m \in PairId /\ pairs[m].status = "issuing" /\ pairs'[m].status = "live"
          /\ \A q \in PairId : q \in Issued(r) \cap Live =>
               pairs'[q].status = "replaced" /\ pairs'[q].used = pairs[q].used
          /\ \A q \in PairId : q \notin Issued(r) \cap Live /\ q # m => pairs'[q] = pairs[q]
      BY <1>0, <2>2, CommitReplacementEffect
    <3>2. ASSUME NEW q \in Known PROVE q \in Known'
      BY <3>1 DEF Known
    <3> QED
      BY <3>1, <3>2
  <2> QED
    BY <2>1, <2>2
<1>3. m \notin Known /\ m \in Known' /\ r \in PairId /\ r \in Known /\ pairs[m].by = r /\ Renewal(s)
  BY <1>0, <1>1, <1>2 DEF Known, Decided, DecidedOf, Shape, ShapeOf, Seen, SeenOf
<1>4. \A q \in PairId : pairs[q].by # m /\ pairs'[q].by = pairs[q].by /\ pairs'[q].family = pairs[q].family
  BY <1>0, <1>2, <1>3, Unused DEF SameLine
<1>5. pairs[m].family = pairs[r].family
  BY <1>0, <1>2, <1>3, SignInAssumption DEF Rows, RowOf
<1>6. OneRenewal'
  BY <1>0, <1>2, OneRenewalKept DEF SameRequest, OneRenewal, Awaited, Renewal
<1>7. \A t \in Slot \ {s} : requests[t].pair # m /\ requests[t].made # m
  <2> SUFFICES ASSUME NEW t \in Slot \ {s} PROVE requests[t].pair # m /\ requests[t].made # m
    OBVIOUS
  <2>1. SeenOf(t) /\ ShapeOf(t) /\ m # None
    BY <1>0, <1>2, SignInAssumption DEF Seen, Shape
  <2>2. requests[t].pair # m
    BY <1>3, <2>1 DEF SeenOf
  <2>3. CASE requests[t].step \in {"rotating", "replacing"}
    BY <1>1, <2>2, <2>3, MadeApart
  <2>4. CASE requests[t].step \notin {"rotating", "replacing"}
    BY <1>3, <2>1, <2>2, <2>4 DEF SeenOf, ShapeOf, Step
  <2> QED
    BY <2>3, <2>4
<1>8. OnItsWayOf(s)'
  <2>1. \A f \in Phone : held'[f] # m
    BY <1>0, <1>2, <1>3, SignInAssumption DEF Seen
  <2>2. \A t \in Slot \ {s} : requests'[t].pair # m /\ requests'[t].made # m
    BY <1>2, <1>7 DEF Only
  <2>3. requests'[s].pair = r /\ Renewal(s)' /\ requests'[s].what # "sign-in"
    BY <1>2, <1>3 DEF SameRequest, Renewal
  <2> QED
    BY <1>2, <1>3, <1>4, <1>5, <2>1, <2>2, <2>3 DEF OnItsWayOf
<1>9. \A t \in Slot \ {s} : Step(t, "answered") =>
        requests'[s].made # requests[t].made /\ \A q \in PairId : pairs'[q].by # requests[t].made
  BY <1>0, <1>2, <1>4, <1>7 DEF OnItsWay, OnItsWayOf
<1>10. (Awaited(s)' => Awaited(s)) /\ requests'[s].pair = requests[s].pair /\ requests'[s].phone = requests[s].phone
  BY <1>2 DEF SameRequest, Awaited, Renewal
<1>11. Known \subseteq Known' /\ \A q \in Known : pairs'[q].family = pairs[q].family /\ pairs'[q].by = pairs[q].by
  BY <1>2, <1>4 DEF Known
<1> QED
  BY <1>2, <1>6, <1>8, <1>9, <1>10, <1>11, ClientKept

LEMMA ClientGiveUp ==
  ASSUME Server, Client, NEW s \in Slot, GiveUp(s)
  PROVE  Client'
<1>0. TypeOK /\ OnItsWay /\ OneRenewal
  BY DEF Server, Client
<1>1. /\ Only(s) /\ UNCHANGED <<pairs, expired, password, held, ended>>
      /\ late' = late \cup {requests[s].phone}
      /\ Awaited(s) /\ ~requests'[s].awaited
      /\ requests'[s].step = requests[s].step /\ requests'[s].what = requests[s].what
      /\ requests'[s].phone = requests[s].phone /\ requests'[s].pair = requests[s].pair
      /\ requests'[s].made = requests[s].made
  BY <1>0, GiveUpEffect
<1>2. Known' = Known /\ ~Awaited(s)' /\ (Renewal(s)' <=> Renewal(s)) /\ requests'[s].what = "renew"
  BY <1>1 DEF Known, Awaited, Renewal
<1>3. OneRenewal'
  BY <1>0, <1>1, <1>2, OneRenewalKept
<1>4. OnItsWayOf(s)'
  <2>1. OnItsWayOf(s) /\ \A t \in Slot \ {s} : requests'[t] = requests[t]
    BY <1>0, <1>1 DEF OnItsWay, Only
  <2>2. Step(s, "answered")' => Step(s, "answered")
    BY <1>1 DEF Step
  <2> QED
    BY <1>1, <1>2, <2>1, <2>2 DEF OnItsWayOf
<1>5. \A t \in Slot \ {s} : Step(t, "answered") =>
        requests'[s].made # requests[t].made /\ \A q \in PairId : pairs'[q].by # requests[t].made
  BY <1>0, <1>1 DEF OnItsWay, OnItsWayOf
<1> QED
  BY <1>1, <1>2, <1>3, <1>4, <1>5, ClientKept

LEMMA ClientRests ==
  ASSUME Client, UNCHANGED <<pairs, held, requests, late>>
  PROVE  Client'
<1>1. Known' = Known /\ \A f, p : Refers(f, p)' <=> Refers(f, p)
  BY DEF Known, Refers
<1>2. OnePhone' /\ MovedOn'
  BY <1>1 DEF Client, OnePhone, MovedOn, Awaited, Renewal
<1>3. OnItsWay' /\ OneRenewal'
  BY <1>1 DEF Client, OnItsWay, OnItsWayOf, OneRenewal, Awaited, Renewal, Step
<1> QED
  BY <1>2, <1>3 DEF Client

LEMMA ClientSignedIn ==
  ASSUME Server, Client, NEW s \in Slot, NEW p \in PairId, SignedIn(s, p)
  PROVE  Client'
<1>0. /\ TypeOK /\ Shape /\ Rows /\ Decided /\ Seen
      /\ OnePhone /\ OnItsWay /\ OneRenewal /\ MovedOn
  BY DEF Server, Client
<1>1. /\ Only(s) /\ UNCHANGED <<expired, password, held, ended, late>>
      /\ requests'[s].step = "answered" /\ requests'[s].pair = p /\ requests'[s].made = p
      /\ requests'[s].what = requests[s].what /\ requests'[s].phone = requests[s].phone
      /\ requests'[s].awaited = requests[s].awaited
      /\ pairs[p].status = "none"
      /\ pairs'[p].status = "live" /\ pairs'[p].family = p /\ pairs'[p].by = None
      /\ \A q \in PairId \ {p} : pairs'[q] = pairs[q]
  BY <1>0, SignedInEffect
<1>2. requests[s].what = "sign-in" /\ requests[s].phone \in Phone /\ p # None
  BY <1>0, SignInAssumption DEF Shape, ShapeOf, Step, SignedIn
<1>3. p \notin Known /\ Known' = Known \cup {p} /\ Known \subseteq PairId
  BY <1>1 DEF Known
<1>4. \A q \in PairId : pairs[q].family # p /\ pairs[q].by # p
  BY <1>0, <1>3, Unused
<1>5. \A q \in Known : pairs'[q] = pairs[q]
  BY <1>1, <1>3
<1>6. \A f \in Phone : held[f] # p
  BY <1>0, <1>2, <1>3 DEF Seen
<1>7. \A t \in Slot \ {s} : requests'[t] = requests[t] /\ requests[t].pair # p /\ requests[t].made # p
  <2> SUFFICES ASSUME NEW t \in Slot \ {s} PROVE requests[t].pair # p /\ requests[t].made # p
    BY <1>1 DEF Only
  <2>1. SeenOf(t) /\ ShapeOf(t) /\ DecidedOf(t)
    BY <1>0 DEF Seen, Shape, Decided
  <2>2. CASE requests[t].step \in {"rotating", "replacing"}
    BY <1>1, <1>2, <1>3, <2>1, <2>2 DEF SeenOf, DecidedOf
  <2>3. CASE requests[t].step \notin {"rotating", "replacing"}
    BY <1>2, <1>3, <2>1, <2>3 DEF SeenOf, ShapeOf, Step
  <2> QED
    BY <2>2, <2>3
<1>8. OneRenewal'
  <2>1. ~Awaited(s)' /\ ~Renewal(s)' /\ requests'[s].awaited
    BY <1>0, <1>1, <1>2 DEF Awaited, Renewal, OneRenewal
  <2> QED
    BY <1>0, <1>1, <2>1, OneRenewalKept
<1>9. ASSUME NEW f \in Phone, NEW q \in Known', Refers(f, q)'
      PROVE  \/ f = requests[s].phone /\ q = p
             \/ Refers(f, q) /\ q \in Known
  <2>1. CASE held'[f] = q
    BY <1>1, <1>3, <1>6, <2>1 DEF Refers
  <2>2. ASSUME NEW t \in Slot, requests'[t].phone = f, requests'[t].pair = q
        PROVE  \/ f = requests[s].phone /\ q = p
               \/ Refers(f, q) /\ q \in Known
    BY <1>1, <1>3, <1>7, <2>2 DEF Refers
  <2> QED
    BY <1>9, <2>1, <2>2 DEF Refers
<1>10. OnePhone'
  <2> SUFFICES ASSUME NEW f \in Phone, NEW g \in Phone, NEW q \in Known', NEW u \in Known',
                      Refers(f, q)', Refers(g, u)', pairs'[q].family = pairs'[u].family
               PROVE  f = g
    BY DEF OnePhone
  <2>1. q \in Known => pairs'[q].family # p
    BY <1>3, <1>4, <1>5
  <2>2. u \in Known => pairs'[u].family # p
    BY <1>3, <1>4, <1>5
  <2>3. CASE q = p \/ u = p
    BY <1>1, <1>3, <1>9, <2>1, <2>2, <2>3
  <2>4. CASE q # p /\ u # p
    BY <1>0, <1>5, <1>9, <2>4 DEF OnePhone
  <2> QED
    BY <2>3, <2>4
<1>11. OnItsWay'
  <2> SUFFICES ASSUME NEW t \in Slot PROVE OnItsWayOf(t)'
    BY DEF OnItsWay
  <2>1. CASE t = s
    <3>1. ~Renewal(s)' /\ \A q \in PairId : pairs'[q].by # p
      BY <1>1, <1>2, <1>4 DEF Renewal
    <3> QED
      BY <1>1, <1>2, <1>3, <1>6, <1>7, <2>1, <3>1 DEF OnItsWayOf
  <2>2. CASE t # s /\ Step(t, "answered")
    <3> DEFINE m == requests[t].made
    <3>1. requests'[t] = requests[t] /\ OnItsWayOf(t) /\ (Renewal(t)' <=> Renewal(t)) /\ m # p
      BY <1>0, <1>7, <2>2 DEF OnItsWay, Renewal
    <3>2. m \in Known /\ requests[t].pair \in Known
      BY <1>0, <2>2, <3>1, SignInAssumption DEF OnItsWayOf, Seen, SeenOf, Shape, ShapeOf, Step
    <3>3. \A u \in Slot \ {t} : requests'[u].pair # m /\ requests'[u].made # m
      BY <1>1, <1>7, <2>2, <3>1 DEF OnItsWayOf
    <3>4. \A q \in PairId : pairs'[q].by # m
      BY <1>1, <1>2, <1>3, <2>2, <3>1, <3>2, SignInAssumption DEF OnItsWayOf
    <3> QED
      BY <1>1, <1>3, <1>5, <2>2, <3>1, <3>2, <3>3, <3>4 DEF OnItsWayOf
  <2>3. CASE t # s /\ ~Step(t, "answered")
    BY <1>7, <2>3 DEF OnItsWayOf, Step
  <2> QED
    BY <2>1, <2>2, <2>3
<1>12. MovedOn'
  <2> SUFFICES ASSUME NEW f \in Phone, NEW q \in Known', Refers(f, q)', pairs'[q].by # None
               PROVE  /\ \A g \in Phone : held'[g] # pairs'[q].by
                      /\ \A t \in Slot : Awaited(t)' => requests'[t].pair # pairs'[q].by
    BY DEF MovedOn
  <2>1. q # p /\ q \in Known /\ Refers(f, q) /\ pairs'[q].by = pairs[q].by
    BY <1>1, <1>5, <1>9
  <2>2. ~Awaited(s)' /\ \A t \in Slot \ {s} : Awaited(t)' <=> Awaited(t)
    BY <1>1, <1>2, <1>7 DEF Awaited, Renewal
  <2> QED
    BY <1>0, <1>1, <1>7, <2>1, <2>2 DEF MovedOn
<1> QED
  BY <1>8, <1>10, <1>11, <1>12 DEF Client

LEMMA ClientReceive ==
  ASSUME Server, Client, NEW s \in Slot, Receive(s)
  PROVE  Client'
<1> DEFINE m == requests[s].made
           f0 == requests[s].phone
<1>0. /\ TypeOK /\ Shape /\ Seen /\ Step(s, "answered")
      /\ OnePhone /\ OnItsWay /\ OneRenewal /\ MovedOn
  BY DEF Server, Client, Receive
<1>1. Only(s) /\ requests'[s] = Idle /\ UNCHANGED <<pairs, late>> /\ Known' = Known
  BY <1>0, FinishedEffect DEF Receive, Known
<1>2. /\ f0 \in Phone /\ requests[s].pair \in Known
      /\ requests[s].what \in {"sign-in", "renew"}
  BY <1>0, SignInAssumption DEF Shape, ShapeOf, Step, Seen, SeenOf
<1>3. /\ m \in Known /\ pairs[m].family = pairs[requests[s].pair].family
      /\ pairs[m].by = IF Renewal(s) THEN requests[s].pair ELSE None
      /\ requests[s].what = "sign-in" => requests[s].pair = m
      /\ \A f \in Phone : held[f] # m
      /\ \A t \in Slot \ {s} : requests[t].pair # m /\ requests[t].made # m
      /\ \A q \in PairId : pairs[q].by # m
  BY <1>0 DEF OnItsWay, OnItsWayOf
<1>4. None \notin Known /\ Known \subseteq PairId
  BY SignInAssumption DEF Known
<1>5. \A f \in Phone : held'[f] = IF f = f0 /\ requests[s].awaited THEN m ELSE held[f]
  BY <1>0 DEF Receive, TypeOK
<1>6. /\ \A t \in Slot \ {s} : requests'[t] = requests[t] /\ (Awaited(t)' <=> Awaited(t)) /\ (Renewal(t)' <=> Renewal(t))
      /\ requests'[s].pair = None /\ requests'[s].made = None /\ ~Renewal(s)' /\ ~Awaited(s)'
      /\ requests'[s].step = "idle" /\ requests'[s].what = "none"
  BY <1>1, IdleFields DEF Only, Awaited, Renewal
<1>7. OneRenewal'
  BY <1>0, <1>1, <1>6, OneRenewalKept
<1>8. ASSUME NEW f \in Phone, NEW q \in Known, Refers(f, q)'
      PROVE  \/ f = f0 /\ q = m /\ requests[s].awaited
             \/ Refers(f, q)
  <2>1. CASE held'[f] = q
    BY <1>5, <2>1 DEF Refers
  <2>2. ASSUME NEW t \in Slot, requests'[t].phone = f, requests'[t].pair = q
        PROVE  Refers(f, q)
    BY <1>4, <1>6, <2>2 DEF Refers
  <2> QED
    BY <1>8, <2>1, <2>2 DEF Refers
<1>9. Refers(f0, requests[s].pair)
  BY DEF Refers
<1>10. OnePhone'
  <2> SUFFICES ASSUME NEW f \in Phone, NEW g \in Phone, NEW q \in Known, NEW u \in Known,
                      Refers(f, q)', Refers(g, u)', pairs[q].family = pairs[u].family
               PROVE  f = g
    BY <1>1 DEF OnePhone
  <2>1. \E v \in Known : Refers(f, v) /\ pairs[v].family = pairs[q].family
    BY <1>2, <1>3, <1>8, <1>9
  <2>2. \E v \in Known : Refers(g, v) /\ pairs[v].family = pairs[u].family
    BY <1>2, <1>3, <1>8, <1>9
  <2> QED
    BY <1>0, <2>1, <2>2 DEF OnePhone
<1>11. OnItsWay'
  <2> SUFFICES ASSUME NEW t \in Slot, t # s, Step(t, "answered") PROVE OnItsWayOf(t)'
    BY <1>6 DEF OnItsWay, OnItsWayOf, Step
  <2>1. OnItsWayOf(t) /\ requests'[t] = requests[t] /\ (Renewal(t)' <=> Renewal(t))
    BY <1>0, <1>6 DEF OnItsWay
  <2>2. \A f \in Phone : held'[f] # requests[t].made
    BY <1>3, <1>5, <2>1 DEF OnItsWayOf
  <2>3. \A u \in Slot \ {t} : requests'[u].pair # requests[t].made /\ requests'[u].made # requests[t].made
    BY <1>4, <1>6, <2>1 DEF OnItsWayOf
  <2> QED
    BY <1>1, <2>1, <2>2, <2>3 DEF OnItsWayOf
<1>12. MovedOn'
  <2> SUFFICES ASSUME NEW f \in Phone, NEW q \in Known, Refers(f, q)', pairs[q].by # None
               PROVE  /\ \A g \in Phone : held'[g] # pairs[q].by
                      /\ \A t \in Slot : Awaited(t)' => requests'[t].pair # pairs[q].by
    BY <1>1 DEF MovedOn
  <2>1. m # pairs[q].by
    BY <1>3, <1>4
  <2>2. CASE Refers(f, q)
    BY <1>0, <1>5, <1>6, <2>1, <2>2 DEF MovedOn
  <2>3. CASE f = f0 /\ q = m /\ requests[s].awaited
    <3>1. Renewal(s) /\ pairs[q].by = requests[s].pair /\ Awaited(s)
      BY <1>3, <2>3 DEF Awaited
    <3>2. \A g \in Phone : g # f0 => held[g] # requests[s].pair
      BY <1>0, <1>2, <1>9 DEF OnePhone, Refers
    <3>3. ASSUME NEW t \in Slot \ {s}, Awaited(t), requests[t].pair = requests[s].pair PROVE FALSE
      <4>1. requests[t].phone \in Phone
        BY <1>0, <3>3, IdleFields DEF Shape, ShapeOf, Step, Awaited, Renewal
      <4>2. requests[t].phone = f0
        BY <1>0, <1>2, <1>9, <3>3, <4>1 DEF OnePhone, Refers
      <4> QED
        BY <1>0, <3>1, <3>3, <4>2 DEF OneRenewal
    <3> QED
      BY <1>5, <1>6, <2>1, <2>3, <3>1, <3>2, <3>3
  <2> QED
    BY <1>8, <2>2, <2>3
<1> QED
  BY <1>7, <1>10, <1>11, <1>12 DEF Client

LEMMA ClientInit == Init => Client
<1> SUFFICES ASSUME Init PROVE Client
  OBVIOUS
<1>1. /\ \A s \in Slot : requests[s] = Idle
      /\ \A f \in Phone : held[f] = None
      /\ \A p \in PairId : pairs[p] = NoPair
  BY DEF Init
<1>2. Known = {}
  BY <1>1 DEF Known, NoPair
<1>3. OnePhone /\ MovedOn
  BY <1>2 DEF OnePhone, MovedOn
<1>4. OnItsWay /\ OneRenewal
  BY <1>1, IdleFields DEF OnItsWay, OnItsWayOf, OneRenewal, Awaited, Renewal, Step
<1> QED
  BY <1>3, <1>4 DEF Client

LEMMA ClientNext == Server /\ Client /\ [Next]_vars => Client'
<1> SUFFICES ASSUME Server, Client, [Next]_vars PROVE Client'
  OBVIOUS
<1>1. ASSUME NEW s \in Slot, Phones(s) PROVE Client'
  BY <1>1, ClientBegins DEF Phones
<1>2. ASSUME NEW s \in Slot, Serving(s) PROVE Client'
  <2>1. CASE \E p \in PairId : SignedIn(s, p) \/ Rotate(s, p) \/ Replace(s, p)
    BY <2>1, ClientSignedIn, ClientIssue
  <2>2. CASE RetiredFamily(s) \/ Mark(s) \/ EndCarriedOut(s)
    BY <2>2, ClientRetires
  <2>3. CASE RetireFamily(s) \/ Find(s) \/ EndBegins(s)
    BY <2>3, ClientWaits
  <2>4. CASE CommitRotation(s) \/ CommitReplacement(s)
    BY <2>4, ClientCommits
  <2> QED
    BY <1>2, <2>1, <2>2, <2>3, <2>4 DEF Serving
<1>3. ASSUME NEW s \in Slot, Answering(s) PROVE Client'
  BY <1>3, ClientReceive, ClientWaits, ClientRetires, ClientGiveUp DEF Answering
<1>4. ASSUME NEW p \in PairId, Expire(p) PROVE Client'
  BY <1>4, ClientRests DEF Expire
<1>5. CASE UNCHANGED vars
  BY <1>5, ClientRests DEF vars
<1> QED
  BY <1>1, <1>2, <1>3, <1>4, <1>5 DEF Next

-----------------------------------------------------------------------------
(***************************************************************************)
(* What keeps a phone signed in.                                           *)
(***************************************************************************)
\* A request past its first step is some phone's, and presents a pair that was committed.
LEMMA Presents ==
  ASSUME Server, NEW s \in Slot, requests[s].step \notin {"idle", "checked"}
  PROVE  requests[s].phone \in Phone /\ requests[s].pair \in Known /\ requests[s].pair \in PairId
<1>1. ShapeOf(s) /\ SeenOf(s) /\ None \notin PairId /\ Known \subseteq PairId /\ requests[s] \in Requests
  BY SignInAssumption DEF Server, Shape, Seen, Known, TypeOK
<1>2. requests[s].step \in {"sent", "rotating", "replacing", "retiring", "refused", "answered"} \cup Asking
  BY <1>1 DEF Requests, Renewing
<1> QED
  BY <1>1, <1>2 DEF ShapeOf, SeenOf, Step

\* A pair committed stays one, of the same sign-in and issued for the same pair.
LinesKept ==
  /\ \A q \in Known : q \in Known' /\ pairs'[q].family = pairs[q].family /\ pairs'[q].by = pairs[q].by
  /\ ended \subseteq ended' /\ expired \subseteq expired' /\ late \subseteq late'

LEMMA LineKept ==
  ASSUME Server, [Next]_vars
  PROVE  LinesKept
<1>0. TypeOK /\ Shape /\ Rows /\ Decided /\ Seen
  BY DEF Server
<1>1. ASSUME UNCHANGED pairs, ended \subseteq ended', expired \subseteq expired', late \subseteq late' PROVE LinesKept
  BY <1>1 DEF Known, LinesKept
<1>2. ASSUME NEW s \in Slot, NEW p \in PairId, SignedIn(s, p) PROVE LinesKept
  BY <1>0, <1>2, SignedInEffect DEF Known, LinesKept
<1>3. ASSUME NEW s \in Slot, NEW p \in PairId, Rotate(s, p) \/ Replace(s, p) PROVE LinesKept
  <2>1. requests[s].pair \in PairId /\ pairs[requests[s].pair].status # "none" /\ Step(s, "sent")
    BY <1>0, <1>3, SignInAssumption DEF Shape, ShapeOf, Seen, SeenOf, Step, Known, Rotate, Replace
  <2>2. \E rows \in SUBSET PairId : \E step \in {"rotating", "replacing"} : Issue(s, p, rows, step)
    BY <1>3 DEF Rotate, Replace, Family, Issued, Live, Known
  <2> QED
    BY <1>0, <2>1, <2>2, IssueEffect DEF Known, LinesKept
<1>4. ASSUME NEW s \in Slot, RetiredFamily(s) \/ EndCarriedOut(s) PROVE LinesKept
  <2>1. RetireSeen(s) /\ ended \subseteq ended' /\ UNCHANGED <<expired, late>>
    BY <1>4 DEF RetiredFamily, EndCarriedOut
  <2> QED
    BY <1>0, <2>1, RetireSeenEffect DEF SameLine, Known, Live, LinesKept
<1>5. ASSUME NEW s \in Slot, CommitRotation(s) PROVE LinesKept
  BY <1>0, <1>5, CommitRotationEffect DEF SameLine, Known, LinesKept
<1>6. ASSUME NEW s \in Slot, CommitReplacement(s) PROVE LinesKept
  <2>1. /\ UNCHANGED <<expired, ended, late>> /\ SameLine
        /\ pairs'[requests[s].made].status = "live"
        /\ \A q \in PairId : q \in Issued(requests[s].pair) \cap Live =>
             pairs'[q].status = "replaced" /\ pairs'[q].used = pairs[q].used
        /\ \A q \in PairId : q \notin Issued(requests[s].pair) \cap Live /\ q # requests[s].made =>
             pairs'[q] = pairs[q]
    BY <1>0, <1>6, CommitReplacementEffect
  <2> QED
    BY <2>1 DEF SameLine, Known, LinesKept
<1>7. ASSUME NEW s \in Slot, Mark(s) PROVE LinesKept
  <2>1. requests[s].pair \in PairId
    BY <1>0, <1>7 DEF Shape, ShapeOf, Step, Asking, Mark
  <2> QED
    BY <1>0, <1>7, <2>1, MarkEffect DEF SameLine, Known, LinesKept
<1>8. ASSUME NEW s \in Slot, Lost(s) PROVE LinesKept
  BY <1>0, <1>8, LostEffect DEF Known, LinesKept
<1>9. ASSUME NEW s \in Slot, Phones(s) PROVE LinesKept
  BY <1>1, <1>9 DEF Phones, SignInChecked, Renew, Ask
<1>10. ASSUME NEW s \in Slot, RetireFamily(s) \/ Find(s) \/ EndBegins(s) PROVE LinesKept
  BY <1>1, <1>10 DEF RetireFamily, Find, EndBegins
<1>11. ASSUME NEW s \in Slot, Receive(s) \/ Refused(s) \/ Over(s) \/ GiveUp(s) PROVE LinesKept
  BY <1>1, <1>11 DEF Receive, Refused, Over, GiveUp
<1>12. ASSUME NEW p \in PairId, Expire(p) PROVE LinesKept
  BY <1>1, <1>12 DEF Expire
<1>13. CASE UNCHANGED vars
  BY <1>1, <1>13 DEF vars
<1>14. CASE Next
  BY <1>2, <1>3, <1>4, <1>5, <1>6, <1>7, <1>8, <1>9, <1>10, <1>11, <1>12, <1>14 DEF Next, Serving, Answering
<1> QED
  BY <1>13, <1>14

\* A sign-in that is over stays over.
LEMMA OverKept ==
  ASSUME Server, [Next]_vars, NEW p \in Known, SignInOver(p)
  PROVE  SignInOver(p)'
<1>1. \A q \in expired : q \in Known
  BY DEF Server, TypeOK, Rows, RowOf
<1> QED
  BY <1>1, LineKept DEF SignInOver, LinesKept

\* A pair a phone keeps, or presents in a renewal it waits for.
Current(f, h) == held[f] = h \/ \E s \in Slot : Awaited(s) /\ requests[s].phone = f /\ requests[s].pair = h

\* Nobody has a pair issued for one that is current.
LEMMA NotMovedOn ==
  ASSUME Client, Server, NEW f \in Phone, NEW h \in Known, Current(f, h), NEW t \in Slot,
         requests[t].phone \in Phone, requests[t].pair \in Known
  PROVE  pairs[requests[t].pair].by # h
<1>1. Refers(requests[t].phone, requests[t].pair) /\ h # None
  BY SignInAssumption DEF Refers, Known
<1> QED
  BY <1>1 DEF Client, MovedOn, Current

\* A request about the sign-in of a current pair is of the phone that has it.
LEMMA SamePhone ==
  ASSUME Client, Server, NEW f \in Phone, NEW h \in Known, Current(f, h), NEW t \in Slot,
         requests[t].phone \in Phone, requests[t].pair \in Known,
         pairs[requests[t].pair].family = pairs[h].family
  PROVE  requests[t].phone = f
<1>1. Refers(requests[t].phone, requests[t].pair) /\ Refers(f, h)
  BY DEF Refers, Current
<1> QED
  BY <1>1 DEF Client, OnePhone

\* A step that leaves a pair and those issued for it as they were.
LEMMA StandsStill ==
  ASSUME Server, [Next]_vars, NEW h \in Known, InStanding(h),
         \A q \in Known : q \in Live => q \in Live',
         \A c \in Known' : pairs'[c].by = h => c \in Known,
         \A c \in Known : pairs[c].by = h => pairs'[c].used = pairs[c].used
  PROVE  InStanding(h)'
<1>1. \A q \in Known : q \in Known' /\ pairs'[q].by = pairs[q].by
  BY LineKept DEF LinesKept
<1>2. CASE SignInOver(h)
  BY <1>2, OverKept DEF InStanding
<1>3. CASE h \in Live
  BY <1>3 DEF InStanding
<1>4. CASE Recoverable(h)
  <2>1. Issued(h)' = Issued(h)
    BY <1>1 DEF Issued
  <2>2. \A c \in Issued(h) : pairs'[c].used = pairs[c].used /\ (c \in Live => c \in Live')
    BY DEF Issued
  <2> QED
    BY <1>4, <2>1, <2>2 DEF InStanding, Recoverable
<1> QED
  BY <1>2, <1>3, <1>4 DEF InStanding

\* A family retired for one of its pairs: the phone that has another was the one to ask.
LEMMA RetiredIsOver ==
  ASSUME Server, Client, Standing, NEW t \in Slot, Step(t, "retiring"),
         NEW f \in Phone, f \notin late, requests[t].phone = f
  PROVE  SignInOver(requests[t].pair)
<1>1. Renewal(t)
  BY DEF Server, Shape, ShapeOf, Step
<1>2. Awaited(t)
  BY <1>1 DEF Client, OneRenewal
<1> QED
  BY <1>2 DEF Standing, StandingOf, Awaited, Step

LEMMA StandsOnRetired ==
  ASSUME Server, Client, Standing, [Next]_vars, NEW t \in Slot, RetiredFamily(t) \/ EndCarriedOut(t),
         NEW f \in Phone, f \notin late, NEW h \in Known, InStanding(h) \/ h \in Live,
         pairs[requests[t].pair].family = pairs[h].family => requests[t].phone = f
  PROVE  /\ InStanding(h)'
         /\ h \in Live => SignInOver(h)' \/ h \in Live'
<1> DEFINE F == pairs[requests[t].pair].family
<1>0. TypeOK /\ Shape /\ Rows /\ Seen /\ Known \subseteq PairId /\ h \in PairId
  BY DEF Server, Known
<1>1. RetireSeen(t) /\ requests[t].step \in {"retiring", "ending"} /\ requests[t].pair \in Known
      /\ requests[t].seen \subseteq Known
  BY <1>0, SignInAssumption DEF RetiredFamily, EndCarriedOut, Step, Seen, SeenOf, Shape, ShapeOf, Asking
<1>2. /\ SameLine
      /\ \A q \in PairId :
           /\ pairs'[q].used = pairs[q].used
           /\ pairs'[q].status = IF q \in requests[t].seen \cap Live THEN "retired" ELSE pairs[q].status
  BY <1>0, <1>1, RetireSeenEffect
<1>3. InStanding(h) /\ Known' = Known
  BY <1>2 DEF InStanding, Known, Live
<1>4. CASE \E q \in requests[t].seen : pairs[q].family = pairs[h].family
  <2>1. PICK q \in requests[t].seen : pairs[q].family = pairs[h].family
    BY <1>4
  <2>2. CASE RetiredFamily(t)
    <3>1. pairs[h].family = F
      BY <1>0, <2>1, <2>2 DEF Seen, SeenOf, RetiredFamily
    <3>2. SignInOver(requests[t].pair)
      BY <2>2, <3>1, RetiredIsOver DEF RetiredFamily
    <3>3. SignInOver(h)
      BY <3>1, <3>2 DEF SignInOver
    <3> QED
      BY <3>3, OverKept DEF InStanding
  <2>3. CASE EndCarriedOut(t)
    <3>1. pairs[h].family \in ended'
      BY <2>1, <2>3 DEF EndCarriedOut
    <3>2. SignInOver(h)'
      BY <1>0, <1>2, <3>1 DEF SignInOver, SameLine
    <3> QED
      BY <3>2 DEF InStanding
  <2> QED
    BY <2>2, <2>3
<1>5. CASE \A q \in requests[t].seen : pairs[q].family # pairs[h].family
  <2>1. \A q \in Known : pairs[q].family = pairs[h].family /\ q \in Live => q \in Live'
    BY <1>0, <1>2, <1>5 DEF Live
  <2>2. \A c \in Known : pairs[c].by = h => pairs[c].family = pairs[h].family
    BY <1>0, SignInAssumption DEF Rows, RowOf, Known
  <2>3. Issued(h)' = Issued(h)
    BY <1>0, <1>2, <1>3 DEF Issued, SameLine
  <2>4. Recoverable(h) => Recoverable(h)'
    BY <1>0, <1>2, <2>1, <2>2, <2>3 DEF Recoverable, Issued
  <2> QED
    BY <1>3, <2>1, <2>4, OverKept DEF InStanding
<1> QED
  BY <1>4, <1>5

LEMMA StandsOnRotation ==
  ASSUME Server, Client, [Next]_vars, NEW t \in Slot, CommitRotation(t),
         NEW f \in Phone, NEW h \in Known, Current(f, h), InStanding(h)
  PROVE  InStanding(h)'
<1> DEFINE r == requests[t].pair
           m == requests[t].made
<1>0. TypeOK /\ Shape /\ Rows /\ Decided /\ Seen /\ Known \subseteq PairId /\ None \notin Known
  BY SignInAssumption DEF Server, Known
<1>1. /\ SameLine /\ r \in Live /\ m \in PairId
      /\ pairs'[r].status = "retired"
      /\ pairs[m].status = "issuing" /\ pairs'[m].status = "live" /\ ~pairs'[m].used
      /\ \A q \in PairId \ {r, m} : pairs'[q] = pairs[q]
  BY <1>0, CommitRotationEffect
<1>2. /\ r \in Known /\ r \in PairId /\ requests[t].phone \in Phone /\ pairs[m].by = r
      /\ Issued(r) = {} /\ m \notin Known /\ m # r
  BY <1>0, <1>1 DEF CommitRotation, Step, Shape, ShapeOf, Seen, SeenOf, Decided, DecidedOf, Live, Known, Rows, RowOf
<1>3. pairs[r].by # h
  BY <1>2, NotMovedOn
<1>4. Known' = Known \cup {m} /\ Live' = (Live \ {r}) \cup {m}
  BY <1>1, <1>2 DEF Known, Live
<1>5. ASSUME NEW q \in PairId PROVE Issued(q)' = Issued(q) \cup (IF q = r THEN {m} ELSE {})
  BY <1>0, <1>1, <1>2, <1>4 DEF Issued, SameLine
<1>6. CASE h = r
  <2>1. Issued(h)' = {m}
    BY <1>2, <1>5, <1>6
  <2> QED
    BY <1>1, <1>4, <2>1 DEF InStanding, Recoverable
<1>7. CASE h # r
  <2>1. h \in PairId /\ Issued(h)' = Issued(h)
    BY <1>0, <1>5, <1>7
  <2>2. \A c \in Issued(h) : c \in PairId \ {r, m}
    BY <1>0, <1>2, <1>3 DEF Issued
  <2>3. Recoverable(h) => Recoverable(h)'
    BY <1>1, <1>4, <2>1, <2>2 DEF Recoverable
  <2> QED
    BY <1>4, <1>7, <2>3, OverKept DEF InStanding
<1> QED
  BY <1>6, <1>7

LEMMA StandsOnReplacement ==
  ASSUME Server, Client, [Next]_vars, NEW t \in Slot, CommitReplacement(t),
         NEW f \in Phone, f \notin late, NEW h \in Known, Current(f, h), InStanding(h)
  PROVE  InStanding(h)'
<1> DEFINE r == requests[t].pair
           m == requests[t].made
<1>0. TypeOK /\ Shape /\ Rows /\ Decided /\ Seen /\ Known \subseteq PairId /\ None \notin Known
  BY SignInAssumption DEF Server, Known
<1>1. /\ SameLine /\ m \in PairId
      /\ pairs[m].status = "issuing" /\ pairs'[m].status = "live" /\ ~pairs'[m].used
      /\ \A q \in PairId : q \in Issued(r) \cap Live =>
           pairs'[q].status = "replaced" /\ pairs'[q].used = pairs[q].used
      /\ \A q \in PairId : q \notin Issued(r) \cap Live /\ q # m => pairs'[q] = pairs[q]
  BY <1>0, CommitReplacementEffect
<1>2. /\ r \in Known /\ r \in PairId /\ requests[t].phone \in Phone /\ pairs[m].by = r /\ Renewal(t)
      /\ m \notin Known /\ \A c \in Issued(r) : ~pairs[c].used
  BY <1>0, <1>1 DEF CommitReplacement, Step, Shape, ShapeOf, Seen, SeenOf, Decided, DecidedOf, Known
<1>3. pairs[h].by # r
  <2> SUFFICES ASSUME pairs[h].by = r PROVE FALSE
    OBVIOUS
  <2>1. Refers(f, h) /\ Refers(requests[t].phone, r)
    BY DEF Refers, Current
  <2>2. pairs[h].family = pairs[r].family
    BY <1>0, <1>2 DEF Rows, RowOf, Known
  <2>3. requests[t].phone = f
    BY <1>2, <2>1, <2>2 DEF Client, OnePhone
  <2>4. ~Awaited(t)
    BY <1>0, <1>2, <2>1 DEF Client, MovedOn
  <2> QED
    BY <1>2, <2>3, <2>4 DEF Client, OneRenewal
<1>4. Known' = Known \cup {m} /\ Live' = (Live \ (Issued(r) \cap Live)) \cup {m}
  <2>1. \A q \in PairId : q \in Known' <=> q \in Known \/ q = m
    BY <1>1 DEF Known, Live
  <2>2. \A q \in PairId : q \in Live' <=> q = m \/ (q \in Live /\ q \notin Issued(r))
    BY <1>1 DEF Live, Issued, Known
  <2> QED
    BY <1>1, <2>1, <2>2 DEF Known, Live
<1>5. ASSUME NEW q \in PairId PROVE Issued(q)' = Issued(q) \cup (IF q = r THEN {m} ELSE {})
  BY <1>0, <1>1, <1>2, <1>4 DEF Issued, SameLine
<1>6. CASE h = r
  <2>1. Issued(h)' = Issued(r) \cup {m}
    BY <1>2, <1>5, <1>6
  <2>2. \A c \in Issued(r) : ~pairs'[c].used
    BY <1>0, <1>1, <1>2 DEF Issued
  <2> QED
    BY <1>1, <1>4, <2>1, <2>2 DEF InStanding, Recoverable
<1>7. CASE h # r
  <2>1. h \in PairId /\ Issued(h)' = Issued(h)
    BY <1>0, <1>5, <1>7
  <2>2. \A c \in Issued(h) : c \in PairId /\ c \notin Issued(r) /\ c # m
    BY <1>0, <1>2, <1>7 DEF Issued
  <2>3. Recoverable(h) => Recoverable(h)'
    BY <1>1, <1>4, <2>1, <2>2 DEF Recoverable
  <2>4. h \notin Issued(r)
    BY <1>3 DEF Issued
  <2> QED
    BY <1>4, <2>3, <2>4, OverKept DEF InStanding
<1> QED
  BY <1>6, <1>7

\* Live stays live in the steps that neither retire nor publish a pair.
Peaceful == \A q \in Known : q \in Live => q \in Live'

LEMMA SignedInPeaceful ==
  ASSUME Server, NEW s \in Slot, NEW p \in PairId, SignedIn(s, p) \/ Rotate(s, p) \/ Replace(s, p)
  PROVE  /\ Peaceful /\ \A q \in Known : pairs'[q] = pairs[q]
         /\ \A c \in Known' \ Known : pairs'[c].by = None
<1>0. TypeOK /\ Shape /\ Rows /\ Seen
  BY DEF Server
<1>1. CASE SignedIn(s, p)
  BY <1>0, <1>1, SignedInEffect DEF Peaceful, Known, Live
<1>2. CASE Rotate(s, p) \/ Replace(s, p)
  <2>1. requests[s].pair \in PairId /\ pairs[requests[s].pair].status # "none" /\ Step(s, "sent")
    BY <1>0, <1>2, SignInAssumption DEF Shape, ShapeOf, Seen, SeenOf, Step, Known, Rotate, Replace
  <2>2. \E rows \in SUBSET PairId : \E step \in {"rotating", "replacing"} : Issue(s, p, rows, step)
    BY <1>2 DEF Rotate, Replace, Family, Issued, Live, Known
  <2> QED
    BY <1>0, <2>1, <2>2, IssueEffect DEF Peaceful, Known, Live
<1> QED
  BY <1>1, <1>2

\* A pair that is current in a phone that never stopped waiting goes on standing for its sign-in.
LEMMA StandsOn ==
  ASSUME Server, Client, Standing, [Next]_vars,
         NEW f \in Phone, f \notin late, NEW h \in Known, Current(f, h), InStanding(h)
  PROVE  InStanding(h)'
<1>0. TypeOK /\ Shape /\ Rows /\ Decided /\ Seen /\ Known \subseteq PairId /\ None \notin Known
  BY SignInAssumption DEF Server, Known
<1>1. ASSUME UNCHANGED pairs PROVE InStanding(h)'
  BY <1>1, StandsStill DEF Known, Live
<1>2. ASSUME NEW s \in Slot, NEW p \in PairId, SignedIn(s, p) \/ Rotate(s, p) \/ Replace(s, p)
      PROVE  InStanding(h)'
  BY <1>0, <1>2, SignedInPeaceful, StandsStill DEF Peaceful
<1>3. ASSUME NEW s \in Slot, RetiredFamily(s) \/ EndCarriedOut(s) PROVE InStanding(h)'
  <2>1. requests[s].phone \in Phone /\ requests[s].pair \in Known
    BY <1>3, Presents DEF Step, RetiredFamily, EndCarriedOut
  <2> QED
    BY <1>3, <2>1, SamePhone, StandsOnRetired
<1>4. ASSUME NEW s \in Slot, CommitRotation(s) PROVE InStanding(h)'
  BY <1>4, StandsOnRotation
<1>5. ASSUME NEW s \in Slot, CommitReplacement(s) PROVE InStanding(h)'
  BY <1>5, StandsOnReplacement
<1>6. ASSUME NEW s \in Slot, Mark(s) PROVE InStanding(h)'
  <2>1. requests[s].phone \in Phone /\ requests[s].pair \in Known /\ requests[s].pair \in PairId
    BY <1>6, Presents DEF Step, Mark
  <2>2. pairs[requests[s].pair].by # h
    BY <2>1, NotMovedOn
  <2>3. /\ \A q \in PairId : pairs'[q].status = pairs[q].status
        /\ \A q \in PairId \ {requests[s].pair} : pairs'[q] = pairs[q]
    BY <1>0, <1>6, <2>1, MarkEffect
  <2>4. Known' = Known /\ Live' = Live
    BY <2>3 DEF Known, Live
  <2>5. \A c \in Known : pairs[c].by = h => pairs'[c].used = pairs[c].used
    BY <1>0, <2>2, <2>3
  <2> QED
    BY <2>4, <2>5, StandsStill
<1>7. ASSUME NEW s \in Slot, Lost(s) PROVE InStanding(h)'
  <2>1. \A q \in Known : pairs'[q] = pairs[q]
    BY <1>0, <1>7, LostEffect DEF Known
  <2>2. Known' = Known /\ \A q \in Known : q \in Live => q \in Live'
    BY <1>0, <1>7, LostEffect DEF Known, Live, NoPair
  <2> QED
    BY <2>1, <2>2, StandsStill
<1>8. ASSUME NEW s \in Slot, Phones(s) PROVE UNCHANGED pairs
  BY <1>8 DEF Phones, SignInChecked, Renew, Ask
<1>9. ASSUME NEW s \in Slot, RetireFamily(s) \/ Find(s) \/ EndBegins(s) PROVE UNCHANGED pairs
  BY <1>9 DEF RetireFamily, Find, EndBegins
<1>10. ASSUME NEW s \in Slot, Receive(s) \/ Refused(s) \/ Over(s) \/ GiveUp(s) PROVE UNCHANGED pairs
  BY <1>10 DEF Receive, Refused, Over, GiveUp
<1>11. ASSUME NEW p \in PairId, Expire(p) PROVE UNCHANGED pairs
  BY <1>11 DEF Expire
<1>12. CASE UNCHANGED vars
  BY <1>1, <1>12 DEF vars
<1>13. CASE Next
  BY <1>1, <1>2, <1>3, <1>4, <1>5, <1>6, <1>7, <1>8, <1>9, <1>10, <1>11, <1>13 DEF Next, Serving, Answering
<1> QED
  BY <1>12, <1>13

\* A pair on its way to a phone that never stopped waiting works until it arrives.
LEMMA GivenWorks ==
  ASSUME Server, Client, Standing, [Next]_vars, NEW u \in Slot, Step(u, "answered"),
         requests[u].awaited, requests[u].phone \notin late,
         NEW h, h = requests[u].made, SignInOver(h) \/ h \in Live
  PROVE  SignInOver(h)' \/ h \in Live'
<1> DEFINE f == requests[u].phone
<1>0. /\ TypeOK /\ Shape /\ Rows /\ Decided /\ Seen /\ Known \subseteq PairId /\ None \notin Known
      /\ OnItsWay /\ OnePhone /\ OneRenewal
  BY SignInAssumption DEF Server, Known, Client
<1>1. /\ f \in Phone /\ requests[u].pair \in Known /\ h \in Known
      /\ pairs[h].family = pairs[requests[u].pair].family
      /\ \A t \in Slot \ {u} : requests[t].pair # h
      /\ pairs[h].by = IF Renewal(u) THEN requests[u].pair ELSE None
      /\ \A q \in PairId : pairs[q].by # h
  BY <1>0, Presents DEF Step, OnItsWay, OnItsWayOf
<1>2. ASSUME h \in Live => h \in Live' PROVE SignInOver(h)' \/ h \in Live'
  BY <1>1, <1>2, OverKept
<1>3. ASSUME UNCHANGED pairs PROVE SignInOver(h)' \/ h \in Live'
  BY <1>2, <1>3 DEF Live
<1>4. ASSUME NEW s \in Slot, NEW p \in PairId, SignedIn(s, p) \/ Rotate(s, p) \/ Replace(s, p)
      PROVE  SignInOver(h)' \/ h \in Live'
  BY <1>1, <1>2, <1>4, SignedInPeaceful DEF Peaceful
<1>5. ASSUME NEW s \in Slot, RetiredFamily(s) \/ EndCarriedOut(s) PROVE SignInOver(h)' \/ h \in Live'
  <2>1. requests[s].phone \in Phone /\ requests[s].pair \in Known
    BY <1>5, Presents DEF Step, RetiredFamily, EndCarriedOut
  <2>2. pairs[requests[s].pair].family = pairs[h].family => requests[s].phone = f
    BY <1>0, <1>1, <2>1 DEF OnePhone, Refers
  <2>3. CASE SignInOver(h)
    BY <1>1, <2>3, OverKept
  <2>4. CASE h \in Live
    BY <1>1, <1>5, <2>2, <2>4, StandsOnRetired
  <2> QED
    BY <2>3, <2>4
<1>6. ASSUME NEW s \in Slot, CommitRotation(s) PROVE SignInOver(h)' \/ h \in Live'
  <2>1. s # u
    BY <1>6 DEF CommitRotation, Step
  <2>2. /\ requests[s].made \in PairId
        /\ pairs'[requests[s].made].status = "live"
        /\ \A q \in PairId \ {requests[s].pair, requests[s].made} : pairs'[q] = pairs[q]
    BY <1>0, <1>6, CommitRotationEffect
  <2>3. h \in Live => h \in Live'
    BY <1>1, <2>1, <2>2 DEF Live
  <2> QED
    BY <1>2, <2>3
<1>7. ASSUME NEW s \in Slot, CommitReplacement(s) PROVE SignInOver(h)' \/ h \in Live'
  <2>0. Renewal(s)
    BY <1>0, <1>7 DEF CommitReplacement, Step, Shape, ShapeOf
  <2>1. s # u /\ Renewal(s) /\ requests[s].phone \in Phone /\ requests[s].pair \in Known
    BY <1>7, <2>0, Presents DEF CommitReplacement, Step
  <2>2. /\ requests[s].made \in PairId
        /\ pairs'[requests[s].made].status = "live"
        /\ \A q \in PairId : q \notin Issued(requests[s].pair) \cap Live /\ q # requests[s].made =>
             pairs'[q] = pairs[q]
    BY <1>0, <1>7, CommitReplacementEffect
  <2>3. pairs[h].by # requests[s].pair
    <3> SUFFICES ASSUME pairs[h].by = requests[s].pair PROVE FALSE
      OBVIOUS
    <3>1. Renewal(u) /\ requests[u].pair = requests[s].pair
      BY <1>0, <1>1, <2>1
    <3>2. requests[s].phone = f
      <4>1. Refers(f, requests[u].pair) /\ Refers(requests[s].phone, requests[u].pair)
        BY <3>1 DEF Refers
      <4> QED
        BY <1>0, <1>1, <2>1, <4>1 DEF OnePhone
    <3>3. Awaited(u) /\ ~Awaited(s)
      BY <1>0, <2>1, <3>1, <3>2 DEF OneRenewal, Awaited
    <3> QED
      BY <1>0, <2>1, <3>2, <3>3 DEF OneRenewal
  <2>4. h \in Live => h \in Live'
    BY <1>1, <2>2, <2>3 DEF Live, Issued
  <2> QED
    BY <1>2, <2>4
<1>8. ASSUME NEW s \in Slot, Mark(s) PROVE SignInOver(h)' \/ h \in Live'
  <2>1. requests[s].pair \in PairId
    BY <1>0, <1>8 DEF Shape, ShapeOf, Step, Asking, Mark
  <2>2. Live' = Live
    BY <1>0, <1>8, <2>1, MarkEffect DEF Live
  <2> QED
    BY <1>2, <2>2
<1>9. ASSUME NEW s \in Slot, Lost(s) PROVE SignInOver(h)' \/ h \in Live'
  <2>1. h \in Live => h \in Live'
    BY <1>0, <1>9, LostEffect DEF Live
  <2> QED
    BY <1>2, <2>1
<1>10. ASSUME NEW s \in Slot, Phones(s) PROVE UNCHANGED pairs
  BY <1>10 DEF Phones, SignInChecked, Renew, Ask
<1>11. ASSUME NEW s \in Slot, RetireFamily(s) \/ Find(s) \/ EndBegins(s) PROVE UNCHANGED pairs
  BY <1>11 DEF RetireFamily, Find, EndBegins
<1>12. ASSUME NEW s \in Slot, Receive(s) \/ Refused(s) \/ Over(s) \/ GiveUp(s) PROVE UNCHANGED pairs
  BY <1>12 DEF Receive, Refused, Over, GiveUp
<1>13. ASSUME NEW p \in PairId, Expire(p) PROVE UNCHANGED pairs
  BY <1>13 DEF Expire
<1>14. CASE UNCHANGED vars
  BY <1>3, <1>14 DEF vars
<1>15. CASE Next
  BY <1>3, <1>4, <1>5, <1>6, <1>7, <1>8, <1>9, <1>10, <1>11, <1>12, <1>13, <1>15 DEF Next, Serving, Answering
<1> QED
  BY <1>14, <1>15

\* Where a request that is waited for comes from.
ComesFrom(t) ==
  requests'[t].awaited =>
    /\ Step(t, "sent")' =>
         \/ /\ Step(t, "sent") /\ requests[t].awaited
            /\ requests'[t].phone = requests[t].phone /\ requests'[t].pair = requests[t].pair
         \/ requests'[t].phone \in Phone /\ requests'[t].pair = held[requests'[t].phone]
            /\ held[requests'[t].phone] # None
    /\ requests'[t].step \in {"retiring", "refused"} =>
         /\ requests[t].step \in {"retiring", "refused"} \/ RetireFamily(t)
         /\ requests[t].awaited
         /\ requests'[t].phone = requests[t].phone /\ requests'[t].pair = requests[t].pair
    /\ Step(t, "answered")' =>
         \/ /\ Step(t, "answered") /\ requests[t].awaited
            /\ requests'[t].phone = requests[t].phone /\ requests'[t].made = requests[t].made
         \/ requests'[t].made \in Live'

LEMMA RequestSteps ==
  ASSUME Server, [Next]_vars, NEW t \in Slot
  PROVE  ComesFrom(t)
<1>0. TypeOK /\ Shape /\ Rows /\ Decided
  BY DEF Server
<1>1. ASSUME requests'[t] = requests[t] PROVE ComesFrom(t)
  BY <1>1 DEF ComesFrom, Step
<1>2. ASSUME NEW s \in Slot, Only(s), requests'[s].step \notin {"sent", "retiring", "refused", "answered"}
      PROVE  ComesFrom(t)
  BY <1>1, <1>2 DEF ComesFrom, Step, Only
<1>3. ASSUME NEW s \in Slot, Finished(s) PROVE ComesFrom(t)
  BY <1>0, <1>2, <1>3, FinishedEffect, IdleFields
<1>4. ASSUME NEW s \in Slot, Phones(s) PROVE ComesFrom(t)
  <2> PICK f \in Phone : SignInChecked(s, f) \/ Renew(s, f) \/ \E what \in {"use"} \cup Ends : Ask(s, f, what)
    BY <1>4 DEF Phones
  <2>1. CASE SignInChecked(s, f)
    BY <1>0, <1>2, <2>1, CheckedEffect
  <2>2. CASE Renew(s, f)
    <3>1. /\ Only(s) /\ requests'[s].step = "sent" /\ requests'[s].phone = f /\ requests'[s].pair = held[f]
      BY <1>0, <2>2, RenewEffect
    <3>2. held[f] # None
      BY <2>2 DEF Renew
    <3> QED
      BY <1>1, <3>1, <3>2 DEF ComesFrom, Step, Only
  <2>3. ASSUME NEW what \in {"use"} \cup Ends, Ask(s, f, what) PROVE ComesFrom(t)
    BY <1>0, <1>2, <2>3, AskEffect
  <2> QED
    BY <2>1, <2>2, <2>3
<1>5. ASSUME NEW s \in Slot, NEW p \in PairId, SignedIn(s, p) PROVE ComesFrom(t)
  <2>1. Only(s) /\ requests'[s].step = "answered" /\ requests'[s].made = p /\ p \in Live'
    BY <1>0, <1>5, SignedInEffect DEF Live
  <2> QED
    BY <1>1, <2>1 DEF ComesFrom, Step, Only
<1>6. ASSUME NEW s \in Slot, NEW p \in PairId, Rotate(s, p) \/ Replace(s, p) PROVE ComesFrom(t)
  <2>1. Step(s, "sent") /\ pairs[requests[s].pair].status # "none"
    BY <1>6, Presents DEF Rotate, Replace, Step, Known
  <2>2. \E rows \in SUBSET PairId : \E step \in {"rotating", "replacing"} : Issue(s, p, rows, step)
    BY <1>6 DEF Rotate, Replace, Family, Issued, Live, Known
  <2>3. Only(s) /\ requests'[s].step \in {"rotating", "replacing"}
    BY <1>0, <2>1, <2>2, IssueEffect
  <2> QED
    BY <1>2, <2>3
<1>7. ASSUME NEW s \in Slot, RetireFamily(s) PROVE ComesFrom(t)
  <2>1. Only(s) /\ SameRequest(s) /\ requests'[s].step = "retiring"
    BY <1>0, <1>7, RetireFamilyEffect
  <2> QED
    BY <1>1, <1>7, <2>1 DEF ComesFrom, Step, Only, SameRequest
<1>8. ASSUME NEW s \in Slot, RetiredFamily(s) PROVE ComesFrom(t)
  <2>1. Only(s) /\ SameRequest(s) /\ requests'[s].step = "refused" /\ requests[s].step = "retiring"
    BY <1>0, <1>8, GoesEffect DEF RetiredFamily, AllSteps, Renewing, Step
  <2> QED
    BY <1>1, <2>1 DEF ComesFrom, Step, Only, SameRequest
<1>9. ASSUME NEW s \in Slot, CommitRotation(s) \/ CommitReplacement(s) PROVE ComesFrom(t)
  <2>1. Only(s) /\ requests'[s].step = "answered" /\ requests'[s].made \in Live'
    BY <1>0, <1>9, CommitRotationEffect, CommitReplacementEffect DEF Live
  <2> QED
    BY <1>1, <2>1 DEF ComesFrom, Step, Only
<1>10. ASSUME NEW s \in Slot, NEW step \in {"found", "accepted", "over"}, Goes(s, step) PROVE ComesFrom(t)
  <2>1. Only(s) /\ requests'[s].step = step
    BY <1>0, <1>10, GoesEffect DEF AllSteps, Asking
  <2> QED
    BY <1>2, <2>1
<1>11. ASSUME NEW s \in Slot, Find(s) PROVE ComesFrom(t)
  BY <1>3, <1>10, <1>11 DEF Find, Onwards
<1>12. ASSUME NEW s \in Slot, Mark(s) PROVE ComesFrom(t)
  <2>1. requests[s].pair \in PairId
    BY <1>12, Presents DEF Mark, Step
  <2> QED
    BY <1>0, <1>3, <1>10, <1>12, <2>1, MarkEffect
<1>13. ASSUME NEW s \in Slot, EndBegins(s) PROVE ComesFrom(t)
  BY <1>0, <1>2, <1>13, EndBeginsEffect
<1>14. ASSUME NEW s \in Slot, EndCarriedOut(s) PROVE ComesFrom(t)
  BY <1>10, <1>14 DEF EndCarriedOut
<1>15. ASSUME NEW s \in Slot, Receive(s) \/ Refused(s) \/ Over(s) \/ Lost(s) PROVE ComesFrom(t)
  BY <1>3, <1>15 DEF Receive, Refused, Over, Lost
<1>16. ASSUME NEW s \in Slot, GiveUp(s) PROVE ComesFrom(t)
  <2>1. Only(s) /\ ~requests'[s].awaited
    BY <1>0, <1>16, GiveUpEffect
  <2> QED
    BY <1>1, <2>1 DEF ComesFrom, Only
<1>17. ASSUME NEW p \in PairId, Expire(p) PROVE ComesFrom(t)
  BY <1>1, <1>17 DEF Expire
<1>18. CASE UNCHANGED vars
  BY <1>1, <1>18 DEF vars
<1>19. CASE Next
  BY <1>4, <1>5, <1>6, <1>7, <1>8, <1>9, <1>11, <1>12, <1>13, <1>14, <1>15, <1>16, <1>17, <1>19
     DEF Next, Serving, Answering
<1> QED
  BY <1>18, <1>19

\* What a phone keeps it kept before, or was given.
LEMMA HeldSteps ==
  ASSUME Server, [Next]_vars, NEW f \in Phone
  PROVE  \/ held'[f] \in {held[f], None}
         \/ \E s \in Slot : /\ Step(s, "answered") /\ requests[s].awaited /\ requests[s].phone = f
                            /\ held'[f] = requests[s].made
<1>0. TypeOK
  BY DEF Server
<1>1. CASE UNCHANGED held
  BY <1>1
<1>2. ASSUME NEW s \in Slot, Receive(s)
      PROVE  \/ held'[f] \in {held[f], None}
             \/ /\ Step(s, "answered") /\ requests[s].awaited /\ requests[s].phone = f
                /\ held'[f] = requests[s].made
  BY <1>0, <1>2 DEF Receive, TypeOK
<1>3. ASSUME NEW s \in Slot, Refused(s) \/ Over(s) \/ Lost(s) PROVE held'[f] \in {held[f], None}
  BY <1>0, <1>3 DEF Refused, Over, Lost, TypeOK
<1>4. ASSUME NEW s \in Slot, Phones(s) \/ Serving(s) PROVE UNCHANGED held
  BY <1>4 DEF Phones, Serving, SignInChecked, Renew, Ask, SignedIn, Rotate, Replace, Issue, RetireFamily,
              RetiredFamily, CommitRotation, CommitReplacement, Find, Mark, EndBegins, EndCarriedOut
<1>5. ASSUME NEW s \in Slot, GiveUp(s) PROVE UNCHANGED held
  BY <1>5 DEF GiveUp
<1>6. ASSUME NEW p \in PairId, Expire(p) PROVE UNCHANGED held
  BY <1>6 DEF Expire
<1>7. CASE UNCHANGED vars
  BY <1>7 DEF vars
<1>8. CASE Next
  BY <1>1, <1>2, <1>3, <1>4, <1>5, <1>6, <1>8 DEF Next, Answering
<1> QED
  BY <1>7, <1>8

\* A renewal refused while its phone waits is of a sign-in that is over.
LEMMA RefusedIsOver ==
  ASSUME Server, Client, NEW t \in Slot, RetireFamily(t), InStanding(requests[t].pair)
  PROVE  SignInOver(requests[t].pair)
<1> DEFINE r == requests[t].pair
<1>1. r \in Known /\ r \in PairId
  BY Presents DEF RetireFamily, Step
<1>2. CASE r \in expired
  BY <1>2 DEF SignInOver
<1>3. CASE r \notin expired
  <2>1. r \notin Live /\ ~ReplyWasLost(r)
    BY <1>3 DEF RetireFamily
  <2>2. CASE SignInOver(r)
    BY <2>2
  <2>3. CASE Recoverable(r)
    <3>1. PICK c \in Issued(r) : c \in Live
      BY <2>3 DEF Recoverable
    <3>2. \A q \in Issued(r) : q \in PairId /\ pairs[q].status # "none" /\ pairs[q].family = pairs[r].family
      BY <1>1, SignInAssumption DEF Issued, Known, Server, Rows, RowOf
    <3>3. \A q \in Issued(r) \cap Live : q = c
      BY <3>1, <3>2 DEF Server, OneLivePair
    <3>4. Issued(r) \cap Live = {c}
      BY <3>1, <3>3
    <3>5. Cardinality(Issued(r) \cap Live) = 1
      BY <3>4, FS_Singleton
    <3> QED
      BY <2>1, <2>3, <3>5 DEF ReplyWasLost, Recoverable
  <2> QED
    BY <2>1, <2>2, <2>3 DEF InStanding
<1> QED
  BY <1>2, <1>3

LEMMA StandingNext ==
  ASSUME Server, Client, Standing, [Next]_vars
  PROVE  Standing'
<1>0. late \subseteq late' /\ None \notin Known /\ \A f \in Phone : held[f] \in Known \cup {None}
  BY LineKept, SignInAssumption DEF LinesKept, Server, Seen, Known
<1>1. ASSUME NEW f \in Phone, f \notin late, NEW h \in Known, held[f] = h PROVE InStanding(h)'
  <2>1. Current(f, h) /\ InStanding(h)
    BY <1>0, <1>1 DEF Current, Standing
  <2> QED
    BY <1>1, <2>1, StandsOn
<1>2. ASSUME NEW t \in Slot, Step(t, "answered"), requests[t].awaited, requests[t].phone \notin late,
             NEW h, h = requests[t].made
      PROVE  SignInOver(h)' \/ h \in Live'
  <2>1. SignInOver(h) \/ h \in Live
    BY <1>2 DEF Standing, StandingOf
  <2> QED
    BY <1>2, <2>1, GivenWorks
<1>3. ASSUME NEW t \in Slot, Step(t, "sent"), requests[t].awaited, requests[t].phone \notin late,
             NEW h, h = requests[t].pair
      PROVE  InStanding(h)'
  <2>1. h \in Known /\ requests[t].phone \in Phone /\ Renewal(t)
    BY <1>3, Presents DEF Step, Server, Shape, ShapeOf
  <2>2. Current(requests[t].phone, h) /\ InStanding(h)
    BY <1>3, <2>1 DEF Current, Standing, StandingOf, Awaited
  <2> QED
    BY <1>3, <2>1, <2>2, StandsOn
<1>4. ASSUME NEW f \in Phone, f \notin late', held'[f] # None PROVE InStanding(held[f])'
  <2>1. CASE held'[f] = held[f]
    BY <1>0, <1>1, <1>4, <2>1
  <2>2. ASSUME NEW s \in Slot, Step(s, "answered"), requests[s].awaited, requests[s].phone = f,
               held'[f] = requests[s].made
        PROVE  InStanding(held[f])'
    <3>1. SignInOver(held[f])' \/ held'[f] \in Live'
      BY <1>0, <1>2, <1>4, <2>2
    <3> QED
      BY <3>1 DEF InStanding
  <2> QED
    BY <1>4, <2>1, <2>2, HeldSteps
<1>5. ASSUME NEW t \in Slot PROVE StandingOf(t)'
  <2> SUFFICES ASSUME requests'[t].awaited, requests'[t].phone \notin late'
               PROVE  /\ Step(t, "sent")' => InStanding(requests[t].pair)'
                      /\ requests'[t].step \in {"retiring", "refused"} => SignInOver(requests[t].pair)'
                      /\ Step(t, "answered")' => SignInOver(requests[t].made)' \/ requests'[t].made \in Live'
    BY DEF StandingOf
  <2>0. ComesFrom(t)
    BY RequestSteps
  <2>1. ASSUME Step(t, "sent")' PROVE InStanding(requests[t].pair)'
    <3>1. CASE /\ Step(t, "sent") /\ requests[t].awaited
               /\ requests'[t].phone = requests[t].phone /\ requests'[t].pair = requests[t].pair
      BY <1>0, <1>3, <3>1
    <3>2. CASE /\ requests'[t].phone \in Phone /\ requests'[t].pair = held[requests'[t].phone]
               /\ held[requests'[t].phone] # None
      BY <1>0, <1>1, <3>2
    <3> QED
      BY <2>0, <2>1, <3>1, <3>2 DEF ComesFrom
  <2>2. ASSUME requests'[t].step \in {"retiring", "refused"} PROVE SignInOver(requests[t].pair)'
    <3> DEFINE h == requests[t].pair
    <3>1. /\ requests[t].step \in {"retiring", "refused"} \/ RetireFamily(t)
          /\ requests[t].awaited /\ requests[t].phone \notin late
          /\ requests'[t].phone = requests[t].phone /\ requests'[t].pair = h
      BY <1>0, <2>0, <2>2 DEF ComesFrom
    <3>2. h \in Known
      BY <3>1, Presents DEF RetireFamily, Step
    <3>3. SignInOver(h)
      <4>1. CASE requests[t].step \in {"retiring", "refused"}
        BY <3>1, <4>1 DEF Standing, StandingOf
      <4>2. CASE RetireFamily(t)
        <5>1. InStanding(h)
          BY <3>1, <4>2 DEF Standing, StandingOf, RetireFamily
        <5> QED
          BY <4>2, <5>1, RefusedIsOver
      <4> QED
        BY <3>1, <4>1, <4>2
    <3> HIDE DEF h
    <3>4. \A p \in Known : SignInOver(p) => SignInOver(p)'
      BY OverKept
    <3> QED
      BY <3>1, <3>2, <3>3, <3>4
  <2>3. ASSUME Step(t, "answered")' PROVE SignInOver(requests[t].made)' \/ requests'[t].made \in Live'
    <3>1. CASE /\ Step(t, "answered") /\ requests[t].awaited
               /\ requests'[t].phone = requests[t].phone /\ requests'[t].made = requests[t].made
      BY <1>0, <1>2, <3>1
    <3> QED
      BY <2>0, <2>3, <3>1 DEF ComesFrom
  <2> QED
    BY <2>1, <2>2, <2>3
<1> QED
  BY <1>4, <1>5 DEF Standing

\* What the server decided, what the phones have, and what keeps them signed in, at once.
THEOREM SignInsInOrder == Spec => []IInv
<1>1. Init => IInv
  <2>1. Init => Standing
    <3> SUFFICES ASSUME Init PROVE Standing
      OBVIOUS
    <3>1. (\A s \in Slot : requests[s] = Idle) /\ \A f \in Phone : held[f] = None
      BY DEF Init
    <3> QED
      BY <3>1, IdleFields DEF Standing, StandingOf
  <2> QED
    BY <2>1, ServerInit, ClientInit DEF IInv
<1>2. IInv /\ [Next]_vars => IInv'
  BY ServerNext, ClientNext, StandingNext DEF IInv
<1> QED
  BY <1>1, <1>2, PTL DEF Spec

\* A phone that never stopped waiting for a renewal is told that it is signed out only once its
\* sign-in was ended or a token of it ran out, however many replies are lost: refreshTokens refuses
\* no pair whose reply can still be taken as lost.
THEOREM RefusedOnlyOnceOver == Spec => []RefusedOnlyWhenOver
<1>1. IInv => RefusedOnlyWhenOver
  BY DEF IInv, Standing, StandingOf, SignInOver, RefusedOnlyWhenOver, Step
<1> QED
  BY <1>1, SignInsInOrder, PTL
=============================================================================
