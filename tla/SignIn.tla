------------------------------- MODULE SignIn -------------------------------
(***************************************************************************)
(* One account's sign-ins on its phones: the pairs of tokens the server    *)
(* issues and retires (server/platform.js), and what each phone's client   *)
(* keeps (apps/mobile/src/api/client.ts).                                  *)
(*                                                                         *)
(* The server reads and writes rows under READ COMMITTED with row locks: a *)
(* statement sees what had committed when it began, waits for rows another *)
(* transaction has locked, and then looks at those rows again.  A renewal  *)
(* locks the rows it decides on, so it is two actions: what it writes,     *)
(* seen by nobody, and its commit.  Retiring every live row of a family is *)
(* one statement, of two actions: the rows it has seen, and their update   *)
(* once none of them is locked.  A row inserted between the two is missed. *)
(*                                                                         *)
(* A pair's two rows are only ever retired together, and access rows that  *)
(* run out only make a phone renew, which here it may always do.  Browser  *)
(* sessions, recovery and accounts deleted are left out.                   *)
(***************************************************************************)
EXTENDS Naturals, FiniteSets

CONSTANTS
  Phone,         \* phones the account is used from
  PairId,        \* pairs of rows api_tokens may hold
  Slot,          \* requests under way at once
  None,          \* SQL NULL
  Ends,          \* ways a sign-in may be ended here, of "logout", "everywhere" and "password"
  LateArrivals,  \* whether a request may still arrive after the phone stopped waiting for it
  MaxPassword    \* bound: times the password is changed

ASSUME SignInAssumption ==
  /\ None \notin Phone \cup PairId
  /\ Ends \subseteq {"logout", "everywhere", "password"}
  /\ LateArrivals \in BOOLEAN
  /\ MaxPassword \in Nat

VARIABLES
  pairs,     \* the pairs of api_tokens
  expired,   \* pairs whose refresh token has run out
  password,  \* which password is the account's
  held,      \* the tokens each phone stores
  requests,  \* requests, in the network or on the server
  ended,     \* sign-ins ended by a sign-out or a change of password that was carried out
  late       \* phones of which a renewal may arrive after they stopped waiting for it

vars == <<pairs, expired, password, held, requests, ended, late>>
-----------------------------------------------------------------------------
\* family: the pair of the sign-in it descends from; by: issued_by; used: used_at of either row.
\* replaced: retired by a retry, unlike retired.
NoPair == [status |-> "none", family |-> None, by |-> None, used |-> FALSE]

Pairs ==
  {NoPair}
  \cup [status : {"issuing", "live", "retired", "replaced"},
        family : PairId, by : PairId \cup {None}, used : BOOLEAN]

\* A renewal: sent, then rotating or replacing (written, not committed) or retiring, then answered
\* or refused.  A request with an access token: asked, found, and, if it is to end a sign-in,
\* accepted, ending and over.  A sign-in: checked, then answered.
Renewing == {"sent", "rotating", "replacing", "retiring", "answered", "refused"}
Asking   == {"asked", "found", "accepted", "ending", "over"}

Requests ==
  [step : {"idle", "checked"} \cup Renewing \cup Asking,
   what : {"none", "sign-in", "renew", "use", "logout", "everywhere", "password"},
   phone : Phone \cup {None}, pair : PairId \cup {None}, made : PairId \cup {None},
   locks : SUBSET PairId, seen : SUBSET PairId, password : Nat, awaited : BOOLEAN]

Idle == [step |-> "idle", what |-> "none", phone |-> None, pair |-> None, made |-> None,
         locks |-> {}, seen |-> {}, password |-> 0, awaited |-> FALSE]

Live == {p \in PairId : pairs[p].status = "live"}

\* Rows another transaction can see.
Known == {p \in PairId : pairs[p].status \notin {"none", "issuing"}}

Family(f) == {p \in Live : pairs[p].family = f}

Issued(p) == {c \in Known : pairs[c].by = p}

\* Mutant of Unlocked: the rows a renewal decides on are read without locking them.
NeverLocked(s, ps) == TRUE

\* Nobody else has a row of ps locked.
Unlocked(s, ps) == \A r \in Slot \ {s} : requests[r].locks \cap ps = {}

Step(s, step) == requests[s].step = step

\* A transaction that ends lets go of its rows.
Goes(s, step) == requests' = [requests EXCEPT ![s].step = step, ![s].locks = {}]

Finished(s) == requests' = [requests EXCEPT ![s] = Idle]

Init ==
  /\ pairs = [p \in PairId |-> NoPair]
  /\ expired = {}
  /\ password = 0
  /\ held = [f \in Phone |-> None]
  /\ requests = [s \in Slot |-> Idle]
  /\ ended = {}
  /\ late = {}
-----------------------------------------------------------------------------
(***************************************************************************)
(* Signing in.                                                             *)
(***************************************************************************)
\* login: the password is checked against the row read before the check.
SignInChecked(s, f) ==
  /\ Step(s, "idle")
  /\ held[f] = None
  /\ requests' = [requests EXCEPT ![s] =
       [Idle EXCEPT !.step = "checked", !.what = "sign-in", !.phone = f,
                    !.password = password, !.awaited = TRUE]]
  /\ UNCHANGED <<pairs, expired, password, held, ended, late>>

\* issueTokens, in a transaction of its own.
SignedIn(s, p) ==
  /\ Step(s, "checked")
  /\ pairs[p].status = "none"
  /\ pairs' = [pairs EXCEPT ![p] = [NoPair EXCEPT !.status = "live", !.family = p]]
  /\ requests' = [requests EXCEPT ![s].step = "answered", ![s].pair = p, ![s].made = p]
  /\ UNCHANGED <<expired, password, held, ended, late>>
-----------------------------------------------------------------------------
(***************************************************************************)
(* Renewing: the client's refresh, and refreshTokens.                      *)
(***************************************************************************)
\* One at a time, whenever the access token ran out, is about to, or was refused.
Renew(s, f) ==
  /\ Step(s, "idle")
  /\ held[f] # None
  /\ \A r \in Slot : ~(requests[r].what = "renew" /\ requests[r].phone = f /\ requests[r].awaited)
  /\ requests' = [requests EXCEPT ![s] =
       [Idle EXCEPT !.step = "sent", !.what = "renew", !.phone = f, !.pair = held[f],
                    !.awaited = TRUE]]
  /\ UNCHANGED <<pairs, expired, password, held, ended, late>>

\* Mutant of Issue: the pair is given no family.
IssueApart(s, p, rows, step) ==
  LET r == requests[s].pair IN
    /\ Unlocked(s, {r} \cup rows)
    /\ pairs[p].status = "none"
    /\ pairs' = [pairs EXCEPT ![p] = [NoPair EXCEPT !.status = "issuing", !.by = r]]
    /\ requests' = [requests EXCEPT ![s].step = step, ![s].made = p, ![s].locks = {r} \cup rows]
    /\ UNCHANGED <<expired, password, held, ended, late>>

\* The row presented is locked, and so is rows; it issues a pair, in a transaction not committed yet.
Issue(s, p, rows, step) ==
  LET r == requests[s].pair IN
    /\ Unlocked(s, {r} \cup rows)
    /\ pairs[p].status = "none"
    /\ pairs' = [pairs EXCEPT ![p] = [NoPair EXCEPT !.status = "issuing",
                                        !.family = pairs[r].family, !.by = r]]
    /\ requests' = [requests EXCEPT ![s].step = step, ![s].made = p, ![s].locks = {r} \cup rows]
    /\ UNCHANGED <<expired, password, held, ended, late>>

\* The row presented is live: its whole family is to be retired.
Rotate(s, p) ==
  LET r == requests[s].pair IN
    /\ Step(s, "sent")
    /\ r \in Live \ expired
    /\ Issue(s, p, Family(pairs[r].family), "rotating")

\* Mutants of ReplyWasLost: no reply is ever taken as lost; the pair issued need not be live.
ReplyNeverLost(r) == FALSE
ReplyWasLostOnceUnused(r) == Issued(r) # {} /\ \A c \in Issued(r) : ~pairs[c].used

\* Spent before, and the one live pair it issued was never presented: the reply is taken as lost.
ReplyWasLost(r) ==
  /\ Cardinality(Issued(r) \cap Live) = 1
  /\ \A c \in Issued(r) : ~pairs[c].used

Replace(s, p) ==
  LET r == requests[s].pair IN
    /\ Step(s, "sent")
    /\ r \notin Live \cup expired
    /\ ReplyWasLost(r)
    /\ Issue(s, p, Issued(r), "replacing")

\* retireFamily, where the renewal is refused: run out, or spent and not to be taken as lost.
RetireFamily(s) ==
  LET r    == requests[s].pair
      rows == {r} \cup (IF r \in expired THEN {} ELSE Issued(r))
  IN /\ Step(s, "sent")
     /\ Unlocked(s, rows)
     /\ r \in expired \/ (r \notin Live /\ ~ReplyWasLost(r))
     /\ requests' = [requests EXCEPT ![s].step = "retiring", ![s].locks = rows,
                                     ![s].seen = Family(pairs[r].family)]
     /\ UNCHANGED <<pairs, expired, password, held, ended, late>>

\* The rows a statement has seen, once nobody else has them locked, unless retired meanwhile.
RetireSeen(s) ==
  /\ Unlocked(s, requests[s].seen)
  /\ pairs' = [p \in PairId |->
       IF p \in requests[s].seen \cap Live THEN [pairs[p] EXCEPT !.status = "retired"] ELSE pairs[p]]

RetiredFamily(s) ==
  /\ Step(s, "retiring")
  /\ RetireSeen(s)
  /\ Goes(s, "refused")
  /\ UNCHANGED <<expired, password, held, ended, late>>

CommitRotation(s) ==
  /\ Step(s, "rotating")
  /\ pairs' = [p \in PairId |->
       IF p \in requests[s].locks \cap Live
       THEN [pairs[p] EXCEPT !.status = "retired", !.used = @ \/ p = requests[s].pair]
       ELSE IF p = requests[s].made THEN [pairs[p] EXCEPT !.status = "live"]
       ELSE pairs[p]]
  /\ Goes(s, "answered")
  /\ UNCHANGED <<expired, password, held, ended, late>>

CommitReplacement(s) ==
  /\ Step(s, "replacing")
  /\ pairs' = [p \in PairId |->
       IF p \in Issued(requests[s].pair) \cap Live THEN [pairs[p] EXCEPT !.status = "replaced"]
       ELSE IF p = requests[s].made THEN [pairs[p] EXCEPT !.status = "live"]
       ELSE pairs[p]]
  /\ Goes(s, "answered")
  /\ UNCHANGED <<expired, password, held, ended, late>>

\* The phone stores the pair it is given, whatever it stores by then.
Receive(s) ==
  /\ Step(s, "answered")
  /\ held' = IF requests[s].awaited THEN [held EXCEPT ![requests[s].phone] = requests[s].made]
             ELSE held
  /\ Finished(s)
  /\ UNCHANGED <<pairs, expired, password, ended, late>>

\* 401 invalid_token: the phone forgets its tokens and is told that it is signed out.
Refused(s) ==
  /\ Step(s, "refused")
  /\ held' = IF requests[s].awaited THEN [held EXCEPT ![requests[s].phone] = None] ELSE held
  /\ Finished(s)
  /\ UNCHANGED <<pairs, expired, password, ended, late>>
-----------------------------------------------------------------------------
(***************************************************************************)
(* A request that carries an access token, and those that end sign-ins.    *)
(***************************************************************************)
Ask(s, f, what) ==
  /\ Step(s, "idle")
  /\ held[f] # None
  /\ requests' = [requests EXCEPT ![s] =
       [Idle EXCEPT !.step = "asked", !.what = what, !.phone = f, !.pair = held[f],
                    !.password = password, !.awaited = TRUE]]
  /\ UNCHANGED <<pairs, expired, password, held, ended, late>>

\* What a request accepted goes on to.
Onwards(s) == IF requests[s].what = "use" THEN Finished(s) ELSE Goes(s, "accepted")

\* tokenHolder reads the row: one used before is accepted, one not live is refused, and the phone
\* renews and asks again.
Find(s) ==
  /\ Step(s, "asked")
  /\ \/ requests[s].pair \notin Live /\ Finished(s)
     \/ requests[s].pair \in Live /\ pairs[requests[s].pair].used /\ Onwards(s)
     \/ requests[s].pair \in Live /\ ~pairs[requests[s].pair].used /\ Goes(s, "found")
  /\ UNCHANGED <<pairs, expired, password, held, ended, late>>

\* Mutant of Mark: the row is marked, and the request accepted, whether or not it is live by then.
MarkAnyway(s) ==
  LET p == requests[s].pair IN
    /\ Step(s, "found")
    /\ Unlocked(s, {p})
    /\ pairs' = [pairs EXCEPT ![p].used = TRUE]
    /\ Onwards(s)
    /\ UNCHANGED <<expired, password, held, ended, late>>

\* The first time, it is marked, unless a renewal retired it since it was read.
Mark(s) ==
  LET p == requests[s].pair IN
    /\ Step(s, "found")
    /\ Unlocked(s, {p})
    /\ IF p \in Live
       THEN pairs' = [pairs EXCEPT ![p].used = TRUE] /\ Onwards(s)
       ELSE UNCHANGED pairs /\ Finished(s)
    /\ UNCHANGED <<expired, password, held, ended, late>>

\* The sign-ins that what is asked is to end: revokeToken, signOutEverywhere, changePassword.
Ending(s) ==
  LET own == pairs[requests[s].pair].family
      all == {pairs[p].family : p \in Known}
  IN CASE requests[s].what = "logout"     -> {own}
       [] requests[s].what = "everywhere" -> all
       [] requests[s].what = "password"   -> all \ {own}
       [] OTHER                           -> {}

\* changePassword replaces only the password it checked, and holds the account's row from then on.
EndBegins(s) ==
  /\ Step(s, "accepted")
  /\ requests[s].what = "password" =>
       /\ requests[s].password = password
       /\ password < MaxPassword
       /\ \A r \in Slot \ {s} : ~(requests[r].what = "password" /\ Step(r, "ending"))
  /\ requests' = [requests EXCEPT ![s].step = "ending",
                                  ![s].seen = {p \in Live : pairs[p].family \in Ending(s)}]
  /\ UNCHANGED <<pairs, expired, password, held, ended, late>>

EndCarriedOut(s) ==
  /\ Step(s, "ending")
  /\ RetireSeen(s)
  /\ password' = IF requests[s].what = "password" THEN password + 1 ELSE password
  /\ ended' = ended \cup {pairs[p].family : p \in requests[s].seen}
  /\ Goes(s, "over")
  /\ UNCHANGED <<expired, held, late>>

\* The phone that asked forgets its tokens, unless it only changed its password.
Over(s) ==
  /\ Step(s, "over")
  /\ held' = IF requests[s].what # "password"
             THEN [held EXCEPT ![requests[s].phone] = None] ELSE held
  /\ Finished(s)
  /\ UNCHANGED <<pairs, expired, password, ended, late>>
-----------------------------------------------------------------------------
\* A request, a transaction or a reply that is lost.  Signing out on a phone forgets its tokens all
\* the same.
Lost(s) ==
  /\ ~Step(s, "idle")
  /\ pairs' = [p \in PairId |->
       IF p = requests[s].made /\ pairs[p].status = "issuing" THEN NoPair ELSE pairs[p]]
  /\ held' = IF requests[s].what = "logout"
             THEN [held EXCEPT ![requests[s].phone] = None] ELSE held
  /\ Finished(s)
  /\ UNCHANGED <<expired, password, ended, late>>

\* The connection breaks; the request may still be carried out.
GiveUp(s) ==
  /\ LateArrivals
  /\ requests[s].what = "renew" /\ requests[s].awaited
  /\ requests' = [requests EXCEPT ![s].awaited = FALSE]
  /\ late' = late \cup {requests[s].phone}
  /\ UNCHANGED <<pairs, expired, password, held, ended>>

\* A refresh token runs out, never before the one that issued it.
Expire(p) ==
  /\ p \in Known \ expired
  /\ pairs[p].by = None \/ pairs[p].by \in expired
  /\ expired' = expired \cup {p}
  /\ UNCHANGED <<pairs, password, held, requests, ended, late>>

Phones(s) ==
  \E f \in Phone : SignInChecked(s, f) \/ Renew(s, f) \/ \E what \in {"use"} \cup Ends : Ask(s, f, what)

Serving(s) ==
  \/ \E p \in PairId : SignedIn(s, p) \/ Rotate(s, p) \/ Replace(s, p)
  \/ RetireFamily(s) \/ RetiredFamily(s) \/ CommitRotation(s) \/ CommitReplacement(s)
  \/ Find(s) \/ Mark(s) \/ EndBegins(s) \/ EndCarriedOut(s)

Answering(s) == Receive(s) \/ Refused(s) \/ Over(s) \/ Lost(s) \/ GiveUp(s)

Next ==
  \/ \E s \in Slot : Phones(s) \/ Serving(s) \/ Answering(s)
  \/ \E p \in PairId : Expire(p)

Spec == Init /\ [][Next]_vars
-----------------------------------------------------------------------------
\* Every row, request and stored pair has its own shape.
TypeOK ==
  /\ pairs \in [PairId -> Pairs]
  /\ expired \subseteq PairId
  /\ password \in Nat
  /\ held \in [Phone -> PairId \cup {None}]
  /\ requests \in [Slot -> Requests]
  /\ ended \subseteq PairId
  /\ late \subseteq Phone

\* A sign-in never has two pairs that work, however renewals, retries and late requests cross:
\* each renewal locks the one pair it spends or replaces (refreshTokens).
OneLivePair == \A p, r \in Live : pairs[p].family = pairs[r].family => p = r

\* A pair handed out again in place of a lost one was never accepted from anybody: the row read by
\* tokenHolder is marked only if no retry retired it in between.
ReplacedUnseen == \A p \in PairId : pairs[p].status = "replaced" => ~pairs[p].used

\* A sign-in with no pair that works, and none being issued, never has one again: a retry revives
\* nothing that was signed out, spent twice or run out.
NoRevival ==
  [][\A f \in Known :
       (\A p \in PairId : pairs[p].family = f => pairs[p].status \notin {"live", "issuing"})
         => \A p \in PairId : pairs'[p].family = f => pairs'[p].status \notin {"live", "issuing"}]_vars

\* A phone is told it is signed out only once its sign-in was ended or its tokens ran out: losing
\* any number of replies never costs it its sign-in.
RefusedOnlyWhenOver ==
  \A s \in Slot : Step(s, "refused") /\ requests[s].awaited =>
    LET f == pairs[requests[s].pair].family IN
      \/ f \in ended \/ requests[s].phone \in late
      \/ \E p \in expired : pairs[p].family = f
=============================================================================
