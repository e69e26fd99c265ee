--------------------------- MODULE StorePurchases ---------------------------
(***************************************************************************)
(* An extra photo bought through Google Play, from the tap to the slot and *)
(* to its refund: the phone (apps/mobile/src/billing/store-purchase.ts and *)
(* store-provider.tsx), the server (server/store-purchases.js) and Google, *)
(* as both use it.                                                         *)
(*                                                                         *)
(* A phone sends a purchase, the server asks Google and then writes what   *)
(* it grants, tells Google, and answers; an answer may be lost, and the    *)
(* phone and the server may stop.  Google refunds by itself what nobody    *)
(* acknowledged in its window, and at any time what somebody asks it to.   *)
(* Every purchase here is of one product, on one journey, by its holder.   *)
(* The growing waits between two attempts to acknowledge are left out.     *)
(***************************************************************************)
EXTENDS Naturals, FiniteSets

CONSTANTS
  Purchase,  \* purchases
  Phone,     \* phones signed in to one store account
  Moment,    \* moments of the journey
  None,      \* SQL NULL
  Window,    \* ACKNOWLEDGE_WINDOW_MS
  Retention, \* time for which Pub/Sub keeps a message, and sends it again
  MaxTime    \* bound: time that passes

ASSUME StorePurchasesAssumption ==
  /\ None \notin Moment
  /\ {Window, Retention, MaxTime} \subseteq Nat

VARIABLES
  now,      \* the time
  play,     \* Google's record of each purchase
  listed,   \* purchases Google lists as voided
  gone,     \* moments deleted
  intent,   \* intents: the moment of the purchase started on each phone
  waiting,  \* waitingExtras: purchases kept on a phone until they are given a moment
  sending,  \* settling: what each phone has under way, and how far it is
  rows,     \* billing_store_purchases
  slots,    \* moment_image_slots of each purchase
  notes     \* billing_store_notifications: the voided purchase, its message and a delivery under way

google == <<play, listed>>
phone  == <<intent, waiting, sending>>
server == <<rows, slots, notes>>
vars == <<now, google, gone, phone, server>>
-----------------------------------------------------------------------------
\* since: when it was paid for, or refunded.
Plays == [state : {"none", "pending", "paid", "refunded"}, since : Nat, consumed : BOOLEAN]

Rows == [moment : Moment, acknowledgement : {"pending", "done"}, revoked : BOOLEAN]

ASSUME RowsAssumption == None \notin Rows

Slots == [active : Nat, used : Nat, canceled : Nat]

NoSlots == [active |-> 0, used |-> 0, canceled |-> 0]

\* A purchase being settled: sent, verified with Google, answered.
Sendings == [step : {"idle", "sent", "verified", "granted", "kept", "refused"},
             moment : Moment \cup {None}]

Quiet == [step |-> "idle", moment |-> None]

\* outcome: what is written of the notification.  sends: Pub/Sub still sends it.  reading, found and
\* word: a delivery under way, or the last, read the purchase and asked Google.
Notices == [outcome : {"unsent", "sent", "waiting", "unknown", "unchanged", "refunded"},
            sends : BOOLEAN, reading : BOOLEAN, found : BOOLEAN,
            word : {"none", "listed", "unlisted", "missing"}]

NoNotice == [outcome |-> "unsent", sends |-> FALSE, reading |-> FALSE, found |-> FALSE, word |-> "none"]

Init ==
  /\ now = 0
  /\ play = [p \in Purchase |-> [state |-> "none", since |-> 0, consumed |-> FALSE]]
  /\ listed = {}
  /\ gone = {}
  /\ intent = [f \in Phone |-> None]
  /\ waiting = [f \in Phone |-> {}]
  /\ sending = [f \in Phone |-> [p \in Purchase |-> Quiet]]
  /\ rows = [p \in Purchase |-> None]
  /\ slots = [p \in Purchase |-> NoSlots]
  /\ notes = [p \in Purchase |-> NoNotice]

Step(f, p, step) == sending[f][p].step = step

Becomes(f, p, step) == sending' = [sending EXCEPT ![f][p].step = step]
-----------------------------------------------------------------------------
(***************************************************************************)
(* Google, and the people.                                                 *)
(***************************************************************************)
Tick ==
  /\ now < MaxTime
  /\ now' = now + 1
  /\ UNCHANGED <<google, gone, phone, server>>

\* With the moment go the slots bought for it.
DeleteMoment(m) ==
  /\ m \notin gone
  /\ gone' = gone \cup {m}
  /\ slots' = [p \in Purchase |->
       IF rows[p] # None /\ rows[p].moment = m THEN NoSlots ELSE slots[p]]
  /\ UNCHANGED <<now, google, phone, rows, notes>>

\* A payment still pending is approved.
Approve(p) ==
  /\ play[p].state = "pending"
  /\ play' = [play EXCEPT ![p] = [@ EXCEPT !.state = "paid", !.since = now]]
  /\ UNCHANGED <<now, listed, gone, phone, server>>

\* A refund is asked for, or made because nobody acknowledged the purchase; the refund is notified.
RefundIt(p) ==
  /\ play[p].state = "paid"
  /\ play' = [play EXCEPT ![p] = [@ EXCEPT !.state = "refunded", !.since = now]]
  /\ notes' = [notes EXCEPT ![p] = [@ EXCEPT !.outcome = "sent", !.sends = TRUE]]
  /\ UNCHANGED <<now, listed, gone, phone, rows, slots>>

Refund(p) == play[p].consumed /\ RefundIt(p)

Expire(p) == ~play[p].consumed /\ now >= play[p].since + Window /\ RefundIt(p)

\* The list of voided purchases shows it, sooner or later.
List(p) ==
  /\ play[p].state = "refunded" /\ p \notin listed
  /\ listed' = listed \cup {p}
  /\ UNCHANGED <<now, play, gone, phone, server>>

Unsettled(p) == notes[p].outcome \in {"sent", "waiting"}

\* Pub/Sub keeps a message no longer: nothing is heard of it any more.
GiveUp(p) ==
  /\ Unsettled(p) /\ notes[p].sends /\ now >= play[p].since + Retention
  /\ notes' = [notes EXCEPT ![p].sends = FALSE]
  /\ UNCHANGED <<now, google, gone, phone, rows, slots>>

\* The photo the slot was bought for is added.
Use(p) ==
  /\ slots[p].active > 0
  /\ slots' = [slots EXCEPT ![p] = [slots[p] EXCEPT !.active = @ - 1, !.used = @ + 1]]
  /\ UNCHANGED <<now, google, gone, phone, rows, notes>>
-----------------------------------------------------------------------------
(***************************************************************************)
(* The phone.                                                              *)
(***************************************************************************)
\* buy: a tap on a moment.  Google sells the product again once nothing of it is unconsumed.
Buy(f, p, m) ==
  /\ play[p].state = "none" /\ m \notin gone
  /\ \A q \in Purchase : play[q].state # "paid" \/ play[q].consumed
  /\ intent' = [intent EXCEPT ![f] = m]
  /\ \E state \in {"pending", "paid"} :
       play' = [play EXCEPT ![p] = [state |-> state, since |-> now, consumed |-> FALSE]]
  /\ UNCHANGED <<now, listed, gone, waiting, sending, server>>

\* buy, refused by the store or canceled: what it was for is forgotten.
BuyNothing(f) ==
  /\ intent[f] # None
  /\ intent' = [intent EXCEPT ![f] = None]
  /\ UNCHANGED <<now, google, gone, waiting, sending, server>>

\* settle: what the store delivers, or a sweep finds, goes to the server for the moment of the tap.
\* One pending is not sent.
Send(f, p) ==
  /\ play[p].state = "paid" /\ ~play[p].consumed
  /\ Step(f, p, "idle")
  /\ sending' = [sending EXCEPT ![f][p] = [step |-> "sent", moment |-> intent[f]]]
  /\ UNCHANGED <<now, google, gone, intent, waiting, server>>

\* placeWaitingExtra: the person names another moment.
Place(f, p, m) ==
  /\ p \in waiting[f] /\ Step(f, p, "idle") /\ m \notin gone
  /\ sending' = [sending EXCEPT ![f][p] = [step |-> "sent", moment |-> m]]
  /\ UNCHANGED <<now, google, gone, intent, waiting, server>>

\* finish consumes the purchase; Google may not be reached.
Consumed(p) == play' = [play EXCEPT ![p].consumed = TRUE]

\* What is granted is finished; what is kept, or refused, stays open with Google.  One refused for
\* want of a moment waits to be given another.
Answered(f, p) ==
  /\ sending[f][p].step \in {"granted", "kept", "refused"}
  /\ \/ Step(f, p, "granted") /\ play[p].state = "paid" /\ Consumed(p)
     \/ UNCHANGED play
  /\ intent' = [intent EXCEPT ![f] = IF Step(f, p, "kept") THEN @ ELSE None]
  /\ waiting' = [waiting EXCEPT ![f] =
       CASE Step(f, p, "granted") -> @ \ {p}
         [] Step(f, p, "kept") /\ sending[f][p].moment \in gone \cup {None} -> @ \cup {p}
         [] OTHER -> @]
  /\ sending' = [sending EXCEPT ![f][p] = Quiet]
  /\ UNCHANGED <<now, listed, gone, server>>

\* No answer, or none that says it is final: kept.  The server may have done its work; a request it
\* still sees to is as another phone's.
NoAnswer(f, p) ==
  /\ sending[f][p].step \in {"sent", "verified", "granted", "kept", "refused"}
  /\ sending' = [sending EXCEPT ![f][p] = Quiet]
  /\ UNCHANGED <<now, google, gone, intent, waiting, server>>

\* The app closes, and what it kept in memory goes.
Restart(f) ==
  /\ intent' = [intent EXCEPT ![f] = None]
  /\ waiting' = [waiting EXCEPT ![f] = {}]
  /\ sending' = [sending EXCEPT ![f] = [p \in Purchase |-> Quiet]]
  /\ UNCHANGED <<now, google, gone, server>>
-----------------------------------------------------------------------------
(***************************************************************************)
(* The server: a purchase sent.                                            *)
(***************************************************************************)
\* verifyGoogle: Google is asked first.
Verify(f, p) ==
  /\ Step(f, p, "sent")
  /\ Becomes(f, p, IF play[p].state = "paid" THEN "verified" ELSE "refused")
  /\ UNCHANGED <<now, google, gone, intent, waiting, server>>

Recorded(p, m, acknowledgement) ==
  rows' = [rows EXCEPT ![p] = [moment |-> m, acknowledgement |-> acknowledgement, revoked |-> FALSE]]

\* Mutant of Grant: what two phones send at once is granted twice.
GrantTwice(f, p) ==
  LET m == sending[f][p].moment IN
    /\ Step(f, p, "verified")
    /\ IF m \in gone \cup {None}
       THEN UNCHANGED <<rows, slots>> /\ Becomes(f, p, "kept")
       ELSE /\ Recorded(p, m, "pending")
            /\ slots' = [slots EXCEPT ![p].active = @ + 1]
            /\ Becomes(f, p, "granted")
    /\ UNCHANGED <<now, google, gone, intent, waiting, notes>>

\* grant: the same purchase again grants nothing more, and an extra needs a moment that is there.
Grant(f, p) ==
  LET m == sending[f][p].moment IN
    /\ Step(f, p, "verified")
    /\ CASE rows[p] # None -> UNCHANGED <<rows, slots>> /\ Becomes(f, p, "granted")
         [] rows[p] = None /\ m \in gone \cup {None} ->
              UNCHANGED <<rows, slots>> /\ Becomes(f, p, "kept")
         [] OTHER ->
              /\ \E acknowledgement \in IF play[p].consumed THEN {"done", "pending"} ELSE {"pending"} :
                   Recorded(p, m, acknowledgement)
              /\ slots' = [slots EXCEPT ![p].active = @ + 1]
              /\ Becomes(f, p, "granted")
    /\ UNCHANGED <<now, google, gone, intent, waiting, notes>>

Pending(p) == rows[p] # None /\ rows[p].acknowledgement = "pending"

\* Mutant of Acknowledge: what Google already has is tried again, and refused, for ever.
AcknowledgeOnce(p) ==
  /\ Pending(p)
  /\ play[p].state = "paid" /\ ~play[p].consumed /\ Consumed(p)
  /\ rows' = [rows EXCEPT ![p].acknowledgement = "done"]
  /\ UNCHANGED <<now, listed, gone, phone, slots, notes>>

\* acknowledge, after the grant and from acknowledgePending: Google is told, and the row says so,
\* once Google has it by this attempt or any other.
Acknowledge(p) ==
  /\ Pending(p)
  /\ \/ play[p].state = "paid" /\ ~play[p].consumed /\ Consumed(p)
     \/ play[p].consumed /\ UNCHANGED play
  /\ rows' = [rows EXCEPT ![p].acknowledgement = "done"]
  /\ UNCHANGED <<now, listed, gone, phone, slots, notes>>

\* Google has it, and the server could not write so, or does not know.
AcknowledgeUnwritten(p) ==
  /\ Pending(p) /\ play[p].state = "paid" /\ ~play[p].consumed
  /\ Consumed(p)
  /\ UNCHANGED <<now, listed, gone, phone, server>>
-----------------------------------------------------------------------------
(***************************************************************************)
(* The server: a voided purchase (handleGoogleNotification).               *)
(***************************************************************************)
\* What Google may say: that it does not know the purchase is an answer too (missing).
Words(p) ==
  IF rows[p] = None THEN {"none"}
  ELSE {IF p \in listed THEN "listed" ELSE "unlisted", "missing"}

\* The purchase is looked up and Google is asked, outside the transaction.
Hear(p) ==
  /\ Unsettled(p) /\ notes[p].sends /\ ~notes[p].reading
  /\ \E word \in Words(p) :
       notes' = [notes EXCEPT ![p] = [@ EXCEPT !.reading = TRUE, !.found = rows[p] # None, !.word = word]]
  /\ UNCHANGED <<now, google, gone, phone, rows, slots>>

Settled(p, outcome) == notes' = [notes EXCEPT ![p] = [@ EXCEPT !.outcome = outcome, !.reading = FALSE]]

\* withdrawExtra: what was not used, once.
Withdrawn(p) ==
  IF notes[p].found /\ notes[p].word = "listed" /\ ~rows[p].revoked
  THEN /\ rows' = [rows EXCEPT ![p].revoked = TRUE]
       /\ slots' = [slots EXCEPT ![p] = [slots[p] EXCEPT !.active = 0, !.canceled = @ + slots[p].active]]
  ELSE UNCHANGED <<rows, slots>>

\* Mutant of Apply: a refund Google does not list yet is taken as heard.
ApplyUnlisted(p) ==
  /\ notes[p].reading
  /\ Withdrawn(p)
  /\ Settled(p, "unchanged")
  /\ UNCHANGED <<now, google, gone, phone>>

\* One nobody bought here is only logged, one Google does not know changes nothing, one not yet listed
\* is asked for again, and what was not used is withdrawn.
Apply(p) ==
  /\ notes[p].reading
  /\ Withdrawn(p)
  /\ Settled(p, CASE ~notes[p].found           -> "unknown"
                  [] notes[p].found /\ notes[p].word = "unlisted" -> "waiting"
                  [] notes[p].found /\ notes[p].word = "listed" /\ ~rows[p].revoked -> "refunded"
                  [] OTHER                      -> "unchanged")
  /\ UNCHANGED <<now, google, gone, phone>>

\* The server stops before it commits: the notification is sent again, while it is kept.
Lose(p) ==
  /\ notes[p].reading
  /\ notes' = [notes EXCEPT ![p].reading = FALSE]
  /\ UNCHANGED <<now, google, gone, phone, rows, slots>>
-----------------------------------------------------------------------------
Google(p) == Approve(p) \/ Refund(p) \/ Expire(p) \/ List(p) \/ GiveUp(p)

OfPhone(f) ==
  \/ BuyNothing(f) \/ Restart(f)
  \/ \E p \in Purchase :
       \/ Send(f, p) \/ Answered(f, p) \/ NoAnswer(f, p)
       \/ \E m \in Moment : Buy(f, p, m) \/ Place(f, p, m)

OfServer(p) ==
  \/ \E f \in Phone : Verify(f, p) \/ Grant(f, p)
  \/ Acknowledge(p) \/ AcknowledgeUnwritten(p) \/ Hear(p) \/ Apply(p) \/ Lose(p)

Next ==
  \/ Tick
  \/ \E m \in Moment : DeleteMoment(m)
  \/ \E p \in Purchase : Google(p) \/ Use(p) \/ OfServer(p)
  \/ \E f \in Phone : OfPhone(f)

Spec == Init /\ [][Next]_vars

\* acknowledgePending runs every few minutes (start.js) and reaches Google sooner or later.  Pub/Sub
\* sends again until it is answered or keeps the message no longer (store-purchases.js:1157), which
\* may come first; Google lists what it refunded, and the server is not stopped before every commit.
FairSpec ==
  /\ Spec
  /\ \A p \in Purchase :
       WF_vars(Acknowledge(p)) /\ WF_vars(List(p)) /\ WF_vars(Hear(p)) /\ SF_vars(Apply(p))
-----------------------------------------------------------------------------
\* Every row, slot and request keeps its shape.
TypeOK ==
  /\ now \in 0 .. MaxTime
  /\ play \in [Purchase -> Plays]
  /\ listed \subseteq Purchase /\ gone \subseteq Moment
  /\ intent \in [Phone -> Moment \cup {None}]
  /\ waiting \in [Phone -> SUBSET Purchase]
  /\ sending \in [Phone -> [Purchase -> Sendings]]
  /\ rows \in [Purchase -> Rows \cup {None}]
  /\ slots \in [Purchase -> Slots]
  /\ notes \in [Purchase -> Notices]

\* Nobody pays and keeps nothing: what Google has been told is granted was granted, once, and is
\* there until it is refunded or its moment deleted, whatever answers were lost
\* (store-purchases.js:20-31).
PaidIsGranted ==
  \A p \in Purchase :
    LET all == slots[p].active + slots[p].used + slots[p].canceled IN
      /\ all <= 1
      /\ play[p].consumed => rows[p] # None /\ (rows[p].moment \notin gone => all = 1)
      /\ play[p].consumed /\ play[p].state = "paid" => slots[p].canceled = 0

\* What is granted is acknowledged in the end, or Google has refunded it (acknowledgePending).
AcknowledgedInTheEnd ==
  \A p \in Purchase :
    rows[p] # None ~> ~Pending(p) \/ play[p].state = "refunded"

\* A refund of a purchase held, of which Pub/Sub tells and tells again, is never settled without
\* effect: no slot of it is left to use in the end, however late Google lists it, unless Pub/Sub gave
\* up first, which leaves it waiting, or Google said that it does not know the purchase
\* (handleGoogleNotification, googleNotificationEffect, withdrawExtra).
WithdrawnInTheEnd ==
  \A p \in Purchase :
    rows[p] # None /\ Unsettled(p) /\ notes[p].sends /\ ~notes[p].reading
      ~> \/ slots[p].active = 0
         \/ Unsettled(p) /\ ~notes[p].sends /\ ~notes[p].reading
         \/ notes[p].outcome = "unchanged" /\ notes[p].word = "missing"
=============================================================================
