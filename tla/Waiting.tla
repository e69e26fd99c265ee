------------------------------- MODULE Waiting -------------------------------
(***************************************************************************)
(* Moments held on one phone that the service does not have yet            *)
(* (apps/mobile/src/journey/waiting-moments.ts, use-waiting-moments.ts),   *)
(* the sign-in they are sent with (src/auth/session.tsx, src/api/client.ts)*)
(* and the journey they arrive in (server/platform.js, holdMoment).        *)
(*                                                                         *)
(* The phone's code is one thread: an action is what runs between two      *)
(* waits, for storage or for the network, and anything may happen between  *)
(* them.  A request may be lost, or its answer; one the phone gave up on   *)
(* may still arrive.  The server's part is one transaction under the       *)
(* journey's lock.  Several accounts take turns on the phone, and there is *)
(* one journey, so what waits for it is all that waits for an account.     *)
(***************************************************************************)
EXTENDS Naturals, Sequences, FiniteSets

CONSTANTS
  Account,     \* accounts that sign in on the phone
  Key,         \* keys the phone chooses, each for one moment
  None,        \* nobody, or nothing
  MaxReturns,  \* bound: times each account comes back to the journey it was in
  MaxMishaps   \* bound: times something goes wrong

ASSUME WaitingAssumption ==
  /\ None \notin Account \cup Key
  /\ MaxReturns \in Nat
  /\ MaxMishaps \in Nat

VARIABLES
  waiting,    \* the list kept on the phone for each account, oldest first
  refused,    \* keys whose entry carries a refusal
  tokens,     \* the account whose tokens the phone stores
  sender,     \* sender.current: the account the service has confirmed
  run,        \* the drain under way
  again,      \* again.current
  holding,    \* keys whose form waits for the drain
  late,       \* requests the phone gave up on that may still arrive
  live,       \* accounts whose sign-in on this phone the server still accepts
  member,     \* accounts in the journey
  row,        \* moment_hold_keys, by author and key
  returns,    \* how often each account came back to the journey
  notes,      \* what each account held here, in that order (history)
  balked,     \* keys ever refused (history)
  made,       \* the moments ever held in the journey, in that order (history)
  mishaps     \* how often something went wrong (for the bound)

phone   == <<waiting, refused, tokens, sender, run, again, holding>>
server  == <<live, member, row, returns, made>>
history == <<notes, balked>>
vars    == <<phone, late, server, history, mishaps>>
-----------------------------------------------------------------------------
InList(s, k)      == \E i \in DOMAIN s : s[i] = k

\* What is left of the list s without S, in its order.
Without(s, S) ==
  LET kept[n \in 0..Len(s)] ==
        IF n = 0 THEN <<>>
        ELSE IF s[n] \in S THEN kept[n - 1] ELSE Append(kept[n - 1], s[n])
  IN kept[Len(s)]

KeysOf(s)         == {s[i] : i \in DOMAIN s}
Maybe             == Account \cup {None}

\* A round of drain: it reads the list ("list"), then for each entry sends ("send"), has a request
\* under way ("asked") or answered ("answered").  `as` is the account whose tokens the request
\* carries and `renewed` whether they were renewed for it.
Idle     == [step |-> "idle", for |-> None, left |-> <<>>, as |-> None, reply |-> "none",
             renewed |-> FALSE]
Round(a) == [Idle EXCEPT !.step = "list", !.for = a]

TypeOK ==
  /\ waiting \in [Account -> Seq(Key)] /\ notes \in [Account -> Seq(Key)]
  /\ refused \subseteq Key /\ holding \subseteq Key
  /\ balked \subseteq Key
  /\ tokens \in Maybe /\ sender \in Maybe
  /\ run \in [step : {"idle", "list", "send", "asked", "answered"},
              for : Maybe, left : Seq(Key), as : Maybe,
              reply : {"none", "held", "refused", "wait", "signed-out"}, renewed : BOOLEAN]
  /\ run.step = "idle" <=> run.for = None
  /\ run.step = "asked" => run.as # None /\ run.left # <<>>
  /\ run.step = "idle" => holding = {} /\ ~again
  /\ again \in BOOLEAN
  /\ late \subseteq Account \X Key
  /\ live \subseteq Account /\ member \subseteq Account
  /\ row \in [Account -> [Key -> {"none", "moment", "deleted"}]]
  /\ returns \in [Account -> 0..MaxReturns]
  /\ made \in Seq(Account \X Key)
  /\ mishaps \in 0..MaxMishaps

Init ==
  /\ waiting = [a \in Account |-> <<>>] /\ notes = [a \in Account |-> <<>>]
  /\ refused = {} /\ holding = {} /\ balked = {}
  /\ tokens = None /\ sender = None
  /\ run = Idle /\ again = FALSE
  /\ late = {}
  /\ live = {}
  /\ member = Account
  /\ row = [a \in Account |-> [k \in Key |-> "none"]]
  /\ returns = [a \in Account |-> 0]
  /\ made = <<>>
  /\ mishaps = 0

Mishap == mishaps < MaxMishaps /\ mishaps' = mishaps + 1
-----------------------------------------------------------------------------
(* drain *)

\* Mutant of Drain: a call during a run is not remembered.
DrainOnce(s) ==
  IF run.step # "idle" THEN UNCHANGED <<run, again>>
  ELSE run' = (IF s = None THEN Idle ELSE Round(s)) /\ UNCHANGED again

\* Called while the sender is s: one run at a time, and a call during it asks for another round.
Drain(s) ==
  IF run.step # "idle" THEN again' = TRUE /\ UNCHANGED run
  ELSE run' = (IF s = None THEN Idle ELSE Round(s)) /\ UNCHANGED again

\* The run ends, and the forms that waited for it look at their moments: one refused at once is taken
\* off the list and goes back to its form.
RunEnds ==
  LET back == holding \cap refused IN
  /\ again' = FALSE
  /\ run' = Idle /\ holding' = {}
  /\ waiting' = [a \in Account |-> Without(waiting[a], back)]
  /\ refused' = refused \ back

\* The end of a round: another if one was asked for and somebody is confirmed.
EndRound ==
  IF again /\ sender # None
  THEN again' = FALSE /\ run' = Round(sender) /\ UNCHANGED <<waiting, refused, holding>>
  ELSE RunEnds

\* The sign-in was refused: the run ends, whoever asked for another round, and the session is
\* checked.  A phone without tokens knows at once that it is signed out.
EndSignedOut(t) ==
  /\ RunEnds
  /\ tokens' = t
  /\ sender' = IF t = None THEN None ELSE sender

Kept == <<refused, tokens, sender>>

List ==
  /\ run.step = "list"
  /\ run' = [run EXCEPT !.step = "send", !.left = Without(waiting[run.for], refused)]
  /\ UNCHANGED <<waiting, Kept, again, holding, late, server, history, mishaps>>

\* Mutant of Send: a request goes out without tokens.
SendAnyway(k) ==
  /\ run.step = "send" /\ run.left # <<>> /\ Head(run.left) = k
  /\ run' = [run EXCEPT !.step = "asked", !.as = tokens]
  /\ UNCHANGED <<waiting, Kept, again, holding, late, server, history, mishaps>>

Send(k) ==
  /\ run.step = "send" /\ run.left # <<>> /\ Head(run.left) = k
  /\ tokens # None
  /\ run' = [run EXCEPT !.step = "asked", !.as = tokens]
  /\ UNCHANGED <<waiting, Kept, again, holding, late, server, history, mishaps>>

SendWithoutTokens ==
  /\ run.step = "send" /\ run.left # <<>>
  /\ tokens = None
  /\ EndSignedOut(None)
  /\ UNCHANGED <<late, server, notes, balked, mishaps>>

RoundDone ==
  /\ run.step = "send" /\ run.left = <<>>
  /\ EndRound
  /\ UNCHANGED <<tokens, sender, late, server, notes, balked, mishaps>>

\* What sendWaiting does next: the entry is done with.
Onwards == [run EXCEPT !.step = "send", !.left = Tail(run.left), !.as = None, !.reply = "none",
                       !.renewed = FALSE]

HearHeld(k) ==
  /\ run.step = "answered" /\ run.reply = "held" /\ Head(run.left) = k
  /\ waiting' = [waiting EXCEPT ![run.for] = Without(@, {k})]
  /\ run' = Onwards
  /\ UNCHANGED <<Kept, again, holding, late, server, history, mishaps>>

\* Mutant of HearRefused: a moment refused is taken off the list.
HearRefusedForgets(k) ==
  /\ run.step = "answered" /\ run.reply = "refused" /\ Head(run.left) = k
  /\ waiting' = [waiting EXCEPT ![run.for] = Without(@, {k})]
  /\ run' = Onwards
  /\ UNCHANGED <<Kept, again, holding, late, server, history, mishaps>>

HearRefused(k) ==
  /\ run.step = "answered" /\ run.reply = "refused" /\ Head(run.left) = k
  /\ refused' = refused \cup ({k} \cap KeysOf(waiting[run.for]))
  /\ balked' = balked \cup {k}
  /\ run' = Onwards
  /\ UNCHANGED <<waiting, tokens, sender, again, holding, late, server, notes, mishaps>>

\* Mutant of HearNothing: the next entry is sent all the same.
HearNothingGoesOn ==
  /\ run.step = "answered" /\ run.reply = "wait"
  /\ run' = Onwards
  /\ UNCHANGED <<waiting, Kept, again, holding, late, server, history, mishaps>>

HearNothing ==
  /\ run.step = "answered" /\ run.reply = "wait"
  /\ EndRound
  /\ UNCHANGED <<tokens, sender, late, server, notes, balked, mishaps>>

\* An access token was not accepted: the tokens stored now are renewed and the request sent again
\* with them, once.  If they are refused they are forgotten.
Renew ==
  /\ run.step = "answered" /\ run.reply = "signed-out" /\ ~run.renewed
  /\ tokens \in live
  /\ run' = [run EXCEPT !.step = "asked", !.as = tokens, !.reply = "none", !.renewed = TRUE]
  /\ UNCHANGED <<waiting, Kept, again, holding, late, server, history, mishaps>>

RenewalRefused ==
  /\ run.step = "answered" /\ run.reply = "signed-out"
  /\ \/ tokens \notin live /\ ~run.renewed /\ EndSignedOut(None)
     \/ run.renewed /\ EndSignedOut(tokens)
  /\ UNCHANGED <<late, server, notes, balked, mishaps>>

RenewalUnreached ==
  /\ run.step = "answered" /\ run.reply = "signed-out" /\ ~run.renewed
  /\ tokens # None
  /\ EndRound
  /\ UNCHANGED <<tokens, sender, late, server, notes, balked, mishaps>>
-----------------------------------------------------------------------------
(* The network and the server *)

\* holdMoment for a with key k: what it answers and what it changes.
Holds(a, k, reply) ==
  \/ /\ a \notin live
     /\ reply = "signed-out"
     /\ UNCHANGED <<row, made>>
  \/ /\ a \in live
     /\ \/ a \notin member
        \/ row[a][k] # "moment"       \* deleted since, or no room, resting, not valid
     /\ reply = "refused"
     /\ UNCHANGED <<row, made>>
  \/ /\ a \in live \cap member
     /\ row[a][k] = "moment"
     /\ reply = "held"
     /\ UNCHANGED <<row, made>>
  \/ /\ a \in live \cap member
     /\ row[a][k] = "none"
     /\ reply = "held"
     /\ row' = [row EXCEPT ![a][k] = "moment"]
     /\ made' = Append(made, <<a, k>>)

Serve(k) ==
  /\ run.step = "asked" /\ Head(run.left) = k
  /\ \E reply \in {"held", "refused", "signed-out"} :
       /\ Holds(run.as, k, reply)
       /\ run' = [run EXCEPT !.step = "answered", !.reply = reply]
  /\ UNCHANGED <<waiting, Kept, again, holding, late, live, member, returns, history, mishaps>>

\* The request fails (no connection, a 5xx, a 429); it may have left the phone all the same.
Fail ==
  /\ run.step = "asked"
  /\ run' = [run EXCEPT !.step = "answered", !.reply = "wait"]
  /\ \/ Mishap /\ late' = late \cup {<<run.as, Head(run.left)>>}
     \/ UNCHANGED <<late, mishaps>>
  /\ UNCHANGED <<waiting, Kept, again, holding, server, history>>

AnswerLost ==
  /\ Mishap
  /\ run.step = "answered" /\ run.reply # "wait"
  /\ run' = [run EXCEPT !.reply = "wait"]
  /\ UNCHANGED <<waiting, Kept, again, holding, late, server, history>>

LateArrives(a, k) ==
  /\ <<a, k>> \in late
  /\ late' = late \ {<<a, k>>}
  /\ \E reply \in {"held", "refused", "signed-out"} : Holds(a, k, reply)
  /\ UNCHANGED <<phone, live, member, returns, history, mishaps>>

\* Mutant of Delete: the key goes with its moment (ON DELETE CASCADE).
DeleteKey(a, k) ==
  /\ row[a][k] = "moment"
  /\ member # {}
  /\ row' = [row EXCEPT ![a][k] = "none"]
  /\ UNCHANGED <<phone, late, live, member, returns, made, history, mishaps>>

\* The moment is deleted: the row stays, with no moment.
Delete(a, k) ==
  /\ row[a][k] = "moment"
  /\ member # {}
  /\ row' = [row EXCEPT ![a][k] = "deleted"]
  /\ UNCHANGED <<phone, late, live, member, returns, made, history, mishaps>>

\* Leaving and being removed take the keys with them.
Left(a) ==
  /\ a \in member
  /\ member' = member \ {a}
  /\ row' = [row EXCEPT ![a] = [k \in Key |-> "none"]]

Removed(a) ==
  /\ Left(a)
  /\ UNCHANGED <<phone, late, live, returns, made, history, mishaps>>

Return(a) ==
  /\ a \notin member
  /\ returns[a] < MaxReturns
  /\ member' = member \cup {a}
  /\ returns' = [returns EXCEPT ![a] = @ + 1]
  /\ UNCHANGED <<phone, late, live, row, made, history, mishaps>>
-----------------------------------------------------------------------------
(* The sign-in on the phone *)

SignIn(a) ==
  /\ tokens = None /\ sender = None
  /\ tokens' = a /\ sender' = a
  /\ live' = live \cup {a}
  /\ Drain(a)
  /\ UNCHANGED <<waiting, refused, holding, late, member, row, returns, made, history, mishaps>>

\* Mutant of Wake: the session is checked, and nothing is sent.
WakeOnly ==
  /\ tokens # None
  /\ IF tokens \in live THEN sender' = tokens /\ UNCHANGED tokens
                        ELSE sender' = None /\ tokens' = None
  /\ UNCHANGED <<waiting, refused, run, again, holding, late, server, history, mishaps>>

\* The connection returned, the app was opened or came to the foreground, or the person asked while
\* offline: the session is checked, its tokens renewed if they must be, and what waits is sent.
Wake ==
  /\ tokens # None
  /\ IF tokens \in live THEN sender' = tokens /\ UNCHANGED tokens
                        ELSE sender' = None /\ tokens' = None
  /\ Drain(sender')
  /\ UNCHANGED <<waiting, refused, holding, late, server, history, mishaps>>

\* The sign-in ends elsewhere: it ran out, or the person signed out everywhere on another phone.
EndedElsewhere(a) ==
  /\ Mishap
  /\ a \in live
  /\ live' = live \ {a}
  /\ UNCHANGED <<phone, late, member, row, returns, made, history>>

\* The app is closed at any moment and opened again: only what is stored is left.
Restart ==
  /\ Mishap
  /\ run' = Idle /\ again' = FALSE /\ holding' = {}
  /\ sender' = None
  /\ \/ UNCHANGED late
     \/ run.step = "asked" /\ late' = late \cup {<<run.as, Head(run.left)>>}
  /\ UNCHANGED <<waiting, refused, tokens, server, history>>
-----------------------------------------------------------------------------
(* What the person does *)

\* accountId: whose list is shown, which an app opened offline still knows.
Shown == IF sender # None THEN sender ELSE tokens

\* The account's list is emptied and the person was told.
Emptied(a) ==
  /\ waiting' = [waiting EXCEPT ![a] = <<>>]
  /\ refused' = refused \ KeysOf(waiting[a])

Hold(k) ==
  /\ sender # None
  /\ \A a \in Account : ~InList(notes[a], k)
  /\ waiting' = [waiting EXCEPT ![sender] = Append(@, k)]
  /\ notes'   = [notes EXCEPT ![sender] = Append(@, k)]
  /\ holding' = holding \cup {k}
  /\ Drain(sender)
  /\ UNCHANGED <<refused, tokens, sender, late, server, balked, mishaps>>

\* Also what follows a check of the session that was not answered.
SendNow ==
  /\ sender # None
  /\ Drain(sender)
  /\ UNCHANGED <<waiting, Kept, holding, late, server, history, mishaps>>

Retry(k) ==
  /\ sender # None
  /\ k \in refused /\ InList(waiting[sender], k)
  /\ refused' = refused \ {k}
  /\ Drain(sender)
  /\ UNCHANGED <<waiting, tokens, sender, holding, late, server, history, mishaps>>

Discard(k) ==
  /\ Shown # None
  /\ k \in refused /\ InList(waiting[Shown], k)
  /\ waiting' = [waiting EXCEPT ![Shown] = Without(@, {k})]
  /\ refused' = refused \ {k}
  /\ UNCHANGED <<tokens, sender, run, again, holding, late, server, notes, balked, mishaps>>

\* Signing out on this phone clears what waits, tells the server if it can, and forgets the tokens.
\* A drain under way goes on.
SignOut ==
  /\ sender # None /\ tokens # None
  /\ Emptied(sender)
  /\ tokens' = None /\ sender' = None
  /\ \/ live' = live \ {tokens}
     \/ UNCHANGED live
  /\ UNCHANGED <<run, again, holding, late, member, row, returns, made, notes, balked, mishaps>>

\* Leaving the journey on this phone: what waited for it goes once the server has said yes.
Leave ==
  /\ sender # None /\ tokens \in live
  /\ Left(tokens)
  /\ Emptied(sender)
  /\ UNCHANGED <<tokens, sender, run, again, holding, late, live, returns, made, notes, balked, mishaps>>
-----------------------------------------------------------------------------
RunStep ==
  \/ List \/ SendWithoutTokens \/ RoundDone \/ HearNothing
  \/ Renew \/ RenewalRefused \/ RenewalUnreached
  \/ \E k \in Key : Send(k) \/ HearHeld(k) \/ HearRefused(k)

Outside ==
  \/ Wake \/ Fail \/ AnswerLost \/ Restart
  \/ \E k \in Key : Serve(k)
  \/ \E a \in Account, k \in Key : LateArrives(a, k) \/ Delete(a, k)
  \/ \E a \in Account : Removed(a) \/ Return(a) \/ EndedElsewhere(a)

PersonStep ==
  \/ \E a \in Account : SignIn(a)
  \/ \E k \in Key : Hold(k) \/ Retry(k) \/ Discard(k)
  \/ SendNow \/ SignOut \/ Leave

Next == RunStep \/ Outside \/ PersonStep

Spec == Init /\ [][Next]_vars

\* The phone's code goes on while the app is open, the connection or the app comes back again and
\* again, and of the requests made for one moment again and again some reach the server.
Fairness ==
  /\ WF_vars(RunStep)
  /\ WF_vars(Wake)
  /\ \A k \in Key : SF_vars(Serve(k))

FairSpec == Spec /\ Fairness
-----------------------------------------------------------------------------
Times(a, k) == Cardinality({i \in DOMAIN made : made[i] = <<a, k>>})
Made(k)     == \E i \in DOMAIN made : made[i][2] = k

\* "A moment sent again after a reply that never arrived is the same moment, never a second one":
\* however often a key is sent, late or again, deleted in between or not, it makes one moment for
\* each time its author is in the journey (holdMoment).
HeldOncePerStay == \A a \in Account, k \in Key : Times(a, k) <= 1 + returns[a]

\* A moment leaves the phone only once the journey has had it, unless it was refused, or the person
\* signed out or left, having been told ("closing the app mid-send loses nothing"; sendOutcome: it
\* stays).
KeptUntilHeld ==
  [][\A a \in Account : \A k \in KeysOf(waiting[a]) \ KeysOf(waiting'[a]) :
       \/ Made(k)
       \/ k \in refused
       \/ run' = run /\ (tokens' # tokens \/ member' # member)]_vars

\* "Sent in the order you held them": while a moment waits that was never refused, none its account
\* held after it has arrived.
SentInOrder ==
  \A a \in Account : \A i, j \in DOMAIN notes[a] :
    i < j /\ Made(notes[a][j]) /\ InList(waiting[a], notes[a][i]) => notes[a][i] \in balked

\* "A moment held mid-send is never left behind": when the rounds end by having sent what there
\* was, a form that waited for them finds its moment sent or refused.
NotLeftBehind ==
  [][\A a \in Account, k \in Key :
       /\ k \in holding /\ InList(waiting[a], k)
       /\ run.step = "send" /\ run.left = <<>> /\ run'.step = "idle"
       /\ tokens = a /\ sender' = a
       => k \in refused]_vars

\* A moment waiting for the account that stays signed in on the phone is answered for in the end.
Unsent(a, k)   == InList(waiting[a], k) /\ k \notin refused
WaitingIsSent ==
  \A a \in Account, k \in Key :
    <>[](tokens = a /\ a \in live) => (Unsent(a, k) ~> ~Unsent(a, k))
-----------------------------------------------------------------------------
\* What the comments say that the code does not keep to.

\* A moment is sent as the account it was held under, and as no other.
SentByItsHolder == \A i \in DOMAIN made : InList(notes[made[i][1]], made[i][2])
=============================================================================
