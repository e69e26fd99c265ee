------------------------ MODULE StorePurchases_proofs ------------------------
(***************************************************************************)
(* For any purchases, phones and moments, and any answers lost: what       *)
(* Google has been told is granted was granted, once.                      *)
(***************************************************************************)
EXTENDS StorePurchases, TLAPS

\* What a purchase has had of the server, in slots.
Had(p) == slots[p].active + slots[p].used + slots[p].canceled

\* Google lists what it refunded, a delivery reads what was so, and only a refund cancels a slot.
Voided(p) ==
  /\ p \in listed => play[p].state = "refunded"
  /\ notes[p].word = "listed" => p \in listed
  /\ notes[p].found => rows[p] # None
  /\ slots[p].canceled > 0 => play[p].state = "refunded"

\* A row stands behind every slot, every answer that grants, and everything Google was told.
Granted(p) ==
  /\ rows[p] = None => slots[p] = NoSlots
  /\ \A f \in Phone : Step(f, p, "granted") => rows[p] # None
  /\ play[p].consumed => rows[p] # None
  /\ Had(p) <= 1
  /\ rows[p] # None => Had(p) = 1 \/ rows[p].moment \in gone

IInv == TypeOK /\ \A p \in Purchase : Voided(p) /\ Granted(p)
-----------------------------------------------------------------------------
LEMMA NoSlotsFields ==
  NoSlots \in Slots /\ NoSlots.active = 0 /\ NoSlots.used = 0 /\ NoSlots.canceled = 0
BY DEF NoSlots, Slots

LEMMA Start == Init => IInv
<1> SUFFICES ASSUME Init PROVE IInv
  OBVIOUS
<1>1. TypeOK
  BY StorePurchasesAssumption DEF Init, TypeOK, Plays, Slots, NoSlots, Sendings, Quiet, Notices, NoNotice
<1>2. ASSUME NEW p \in Purchase PROVE Voided(p)
  BY NoSlotsFields DEF Init, Voided, NoNotice
<1>3. ASSUME NEW p \in Purchase PROVE Granted(p)
  <2>1. rows[p] = None /\ slots[p] = NoSlots /\ ~play[p].consumed
    BY DEF Init
  <2>2. \A f \in Phone : ~Step(f, p, "granted")
    BY DEF Init, Step, Quiet
  <2> QED
    BY <2>1, <2>2, NoSlotsFields DEF Granted, Had
<1> QED
  BY <1>1, <1>2, <1>3 DEF IInv

\* What an action leaves alone of a purchase keeps its standing; only more may be gone.
LEMMA Untouched ==
  ASSUME NEW p \in Purchase, Voided(p), Granted(p),
         play'[p] = play[p], p \in listed => p \in listed', p \in listed' => p \in listed, gone \subseteq gone',
         \A f \in Phone : Step(f, p, "granted")' => Step(f, p, "granted"),
         rows'[p] = rows[p], slots'[p] = slots[p],
         notes'[p].word = notes[p].word, notes'[p].found = notes[p].found
  PROVE  Voided(p)' /\ Granted(p)'
BY DEF Voided, Granted, Had
-----------------------------------------------------------------------------
\* Only the slots of one purchase are written.
OnlySlotsOf(p) ==
  /\ slots' \in [Purchase -> Slots]
  /\ \A q \in Purchase \ {p} : slots'[q] = slots[q]

LEMMA SlotsReplaced ==
  ASSUME TypeOK, NEW p \in Purchase, NEW new \in Slots, slots' = [slots EXCEPT ![p] = new]
  PROVE  OnlySlotsOf(p) /\ slots'[p] = new
BY DEF TypeOK, OnlySlotsOf

\* The photo is added: what was there to use is used.
LEMMA UseEffect ==
  ASSUME TypeOK, NEW p \in Purchase, Use(p)
  PROVE  /\ OnlySlotsOf(p) /\ slots' \in [Purchase -> Slots]
         /\ slots'[p].active = slots[p].active - 1 /\ slots'[p].used = slots[p].used + 1
         /\ slots'[p].canceled = slots[p].canceled
<1> DEFINE new == [slots[p] EXCEPT !.active = @ - 1, !.used = @ + 1]
<1>1. slots[p] \in Slots
  BY DEF TypeOK
<1>2. slots[p].active - 1 \in Nat /\ slots[p].used + 1 \in Nat
  BY <1>1 DEF Use, Slots
<1>3. new \in Slots
  BY <1>1, <1>2 DEF Slots
<1>4. new.active = slots[p].active - 1 /\ new.used = slots[p].used + 1 /\ new.canceled = slots[p].canceled
  BY <1>1 DEF Slots
<1>5. slots' = [slots EXCEPT ![p] = new]
  BY DEF Use
<1> HIDE DEF new
<1> QED
  BY <1>3, <1>4, <1>5, SlotsReplaced DEF OnlySlotsOf

\* A refund heard, listed and not yet applied withdraws what is not used; anything else leaves slots alone.
LEMMA ApplyEffect ==
  ASSUME TypeOK, NEW p \in Purchase, Apply(p)
  PROVE  \/ slots' = slots
         \/ /\ OnlySlotsOf(p) /\ slots' \in [Purchase -> Slots]
            /\ notes[p].word = "listed"
            /\ slots'[p].active = 0 /\ slots'[p].used = slots[p].used
            /\ slots'[p].canceled = slots[p].canceled + slots[p].active
<1> DEFINE new == [slots[p] EXCEPT !.active = 0, !.canceled = @ + slots[p].active]
<1>1. slots[p] \in Slots
  BY DEF TypeOK
<1>2. slots[p].canceled + slots[p].active \in Nat
  BY <1>1 DEF Slots
<1>3. new \in Slots
  BY <1>1, <1>2 DEF Slots
<1>4. new.active = 0 /\ new.used = slots[p].used /\ new.canceled = slots[p].canceled + slots[p].active
  BY <1>1 DEF Slots
<1>5. slots' = slots \/ (notes[p].word = "listed" /\ slots' = [slots EXCEPT ![p] = new])
  BY DEF Apply, Withdrawn
<1> HIDE DEF new
<1> QED
  BY <1>3, <1>4, <1>5, SlotsReplaced DEF OnlySlotsOf
-----------------------------------------------------------------------------
(***************************************************************************)
(* Every step keeps the shapes.                                            *)
(***************************************************************************)
LEMMA DeletionTypes ==
  ASSUME TypeOK, NEW m \in Moment, DeleteMoment(m)
  PROVE  TypeOK'
<1>1. gone' \subseteq Moment
  BY DEF DeleteMoment, TypeOK
<1>2. slots' \in [Purchase -> Slots]
  BY NoSlotsFields DEF DeleteMoment, TypeOK
<1> QED
  BY <1>1, <1>2 DEF DeleteMoment, TypeOK, google, phone

LEMMA NoticeReplaced ==
  ASSUME TypeOK, NEW p \in Purchase, NEW new \in Notices, notes' = [notes EXCEPT ![p] = new]
  PROVE  /\ notes' \in [Purchase -> Notices] /\ notes'[p] = new
         /\ \A q \in Purchase \ {p} : notes'[q] = notes[q]
BY DEF TypeOK

\* What was read of a notification changes only when a delivery reads.
LEMMA NoticeEffect ==
  ASSUME TypeOK, NEW p \in Purchase, RefundIt(p) \/ GiveUp(p) \/ Apply(p) \/ Lose(p)
  PROVE  /\ notes' \in [Purchase -> Notices]
         /\ \A q \in Purchase : notes'[q].found = notes[q].found /\ notes'[q].word = notes[q].word
<1>0. notes[p] \in Notices
  BY DEF TypeOK
<1>1. ASSUME NEW new \in Notices, notes' = [notes EXCEPT ![p] = new],
             new.found = notes[p].found, new.word = notes[p].word
      PROVE  /\ notes' \in [Purchase -> Notices]
             /\ \A q \in Purchase : notes'[q].found = notes[q].found /\ notes'[q].word = notes[q].word
  BY <1>1, NoticeReplaced
<1>2. CASE RefundIt(p)
  <2> DEFINE new == [notes[p] EXCEPT !.outcome = "sent", !.sends = TRUE]
  <2>1. new \in Notices /\ new.found = notes[p].found /\ new.word = notes[p].word
    BY <1>0 DEF Notices
  <2>2. notes' = [notes EXCEPT ![p] = new]
    BY <1>2 DEF RefundIt
  <2> QED
    BY <1>1, <2>1, <2>2
<1>3. CASE GiveUp(p)
  <2> DEFINE new == [notes[p] EXCEPT !.sends = FALSE]
  <2>1. new \in Notices /\ new.found = notes[p].found /\ new.word = notes[p].word
    BY <1>0 DEF Notices
  <2>2. notes' = [notes EXCEPT ![p] = new]
    BY <1>3 DEF GiveUp
  <2> QED
    BY <1>1, <2>1, <2>2
<1>4. CASE Apply(p)
  <2>1. PICK outcome \in {"unknown", "waiting", "unchanged", "refunded"} : Settled(p, outcome)
    BY <1>4 DEF Apply
  <2> DEFINE new == [notes[p] EXCEPT !.outcome = outcome, !.reading = FALSE]
  <2>2. new \in Notices /\ new.found = notes[p].found /\ new.word = notes[p].word
    BY <1>0 DEF Notices
  <2>3. notes' = [notes EXCEPT ![p] = new]
    BY <2>1 DEF Settled
  <2> QED
    BY <1>1, <2>2, <2>3
<1>5. CASE Lose(p)
  <2> DEFINE new == [notes[p] EXCEPT !.reading = FALSE]
  <2>1. new \in Notices /\ new.found = notes[p].found /\ new.word = notes[p].word
    BY <1>0 DEF Notices
  <2>2. notes' = [notes EXCEPT ![p] = new]
    BY <1>5 DEF Lose
  <2> QED
    BY <1>1, <2>1, <2>2
<1> QED
  BY <1>2, <1>3, <1>4, <1>5

LEMMA HearEffect ==
  ASSUME TypeOK, NEW p \in Purchase, Hear(p)
  PROVE  /\ notes' \in [Purchase -> Notices] /\ \A q \in Purchase \ {p} : notes'[q] = notes[q]
         /\ notes'[p].found = (rows[p] # None)
         /\ notes'[p].word = "listed" => p \in listed
<1>0. notes[p] \in Notices
  BY DEF TypeOK
<1>1. PICK word \in Words(p) :
        notes' = [notes EXCEPT ![p] = [@ EXCEPT !.reading = TRUE, !.found = rows[p] # None, !.word = word]]
  BY DEF Hear
<1> DEFINE found == rows[p] # None
           new == [notes[p] EXCEPT !.reading = TRUE, !.found = found, !.word = word]
<1>2. word \in {"none", "listed", "unlisted", "missing"} /\ (word = "listed" => p \in listed)
  BY DEF Words
<1>3. notes' = [notes EXCEPT ![p] = new] /\ found \in BOOLEAN
  BY <1>1
<1>4. new \in Notices /\ new.found = found /\ new.word = word
  BY <1>0, <1>2, <1>3 DEF Notices
<1> HIDE DEF new
<1> QED
  BY <1>2, <1>3, <1>4, NoticeReplaced

LEMMA TypeOfGoogle ==
  ASSUME TypeOK, NEW p \in Purchase, Google(p) \/ Use(p)
  PROVE  TypeOK'
<1>1. CASE Approve(p)
  <2>1. play' \in [Purchase -> Plays]
    <3>1. play[p] \in Plays /\ now \in Nat
      BY StorePurchasesAssumption DEF TypeOK
    <3>2. [play[p] EXCEPT !.state = "paid", !.since = now] \in Plays
      BY <3>1 DEF Plays
    <3> QED
      BY <1>1, <3>2 DEF Approve, TypeOK
  <2> QED
    BY <1>1, <2>1 DEF Approve, TypeOK, phone, server
<1>2. CASE RefundIt(p)
  <2>1. play' \in [Purchase -> Plays]
    <3>1. play[p] \in Plays /\ now \in Nat
      BY StorePurchasesAssumption DEF TypeOK
    <3>2. [play[p] EXCEPT !.state = "refunded", !.since = now] \in Plays
      BY <3>1 DEF Plays
    <3> QED
      BY <1>2, <3>2 DEF RefundIt, TypeOK
  <2>2. notes' \in [Purchase -> Notices]
    BY <1>2, NoticeEffect
  <2> QED
    BY <1>2, <2>1, <2>2 DEF RefundIt, TypeOK, phone
<1>3. CASE List(p)
  BY <1>3 DEF List, TypeOK, phone, server
<1>4. CASE Use(p)
  <2>1. slots' \in [Purchase -> Slots]
    BY <1>4, UseEffect
  <2> QED
    BY <1>4, <2>1 DEF Use, TypeOK, google, phone
<1>5. CASE GiveUp(p)
  BY <1>5, NoticeEffect DEF GiveUp, TypeOK, google, phone
<1> QED
  BY <1>1, <1>2, <1>3, <1>4, <1>5 DEF Google, Refund, Expire

\* What a phone has under way, one purchase of it changed.
LEMMA SendingTypes ==
  ASSUME TypeOK, NEW f \in Phone, NEW p \in Purchase, NEW new \in Sendings,
         sending' = [sending EXCEPT ![f][p] = new]
  PROVE  sending' \in [Phone -> [Purchase -> Sendings]]
BY DEF TypeOK

LEMMA BecomesTypes ==
  ASSUME TypeOK, NEW f \in Phone, NEW p \in Purchase,
         NEW step \in {"idle", "sent", "verified", "granted", "kept", "refused"},
         Becomes(f, p, step)
  PROVE  sending' \in [Phone -> [Purchase -> Sendings]]
<1> DEFINE new == [sending[f][p] EXCEPT !.step = step]
<1>1. sending[f][p] \in Sendings
  BY DEF TypeOK
<1>2. new \in Sendings
  BY <1>1 DEF Sendings
<1>3. sending' = [sending EXCEPT ![f][p] = new]
  BY DEF Becomes
<1> QED
  BY <1>2, <1>3, SendingTypes

LEMMA TypeOfPhone ==
  ASSUME TypeOK, NEW f \in Phone, OfPhone(f)
  PROVE  TypeOK'
<1>1. CASE BuyNothing(f)
  BY <1>1 DEF BuyNothing, TypeOK, google, server
<1>2. CASE Restart(f)
  <2>1. Quiet \in Sendings
    BY DEF Quiet, Sendings
  <2> QED
    BY <1>2, <2>1 DEF Restart, TypeOK, google, server
<1>3. ASSUME NEW p \in Purchase, Send(f, p) PROVE TypeOK'
  <2>1. [step |-> "sent", moment |-> intent[f]] \in Sendings
    BY DEF Sendings, TypeOK
  <2> QED
    BY <1>3, <2>1, SendingTypes DEF Send, TypeOK, google, server
<1>4. ASSUME NEW p \in Purchase, Answered(f, p) PROVE TypeOK'
  <2>1. sending' \in [Phone -> [Purchase -> Sendings]]
    BY <1>4, SendingTypes DEF Answered, Quiet, Sendings
  <2>2. play' \in [Purchase -> Plays]
    <3>1. play[p] \in Plays
      BY DEF TypeOK
    <3>2. [play[p] EXCEPT !.consumed = TRUE] \in Plays
      BY <3>1 DEF Plays
    <3> QED
      BY <1>4, <3>2 DEF Answered, Consumed, TypeOK
  <2>3. intent' \in [Phone -> Moment \cup {None}]
    BY <1>4 DEF Answered, TypeOK
  <2>4. waiting[f] \subseteq Purchase
    BY DEF TypeOK
  <2>5. \E now_waiting \in SUBSET Purchase : waiting' = [waiting EXCEPT ![f] = now_waiting]
    <3>1. waiting[f] \in SUBSET Purchase /\ waiting[f] \ {p} \in SUBSET Purchase
          /\ waiting[f] \cup {p} \in SUBSET Purchase
      BY <1>4, <2>4
    <3> QED
      BY <1>4, <3>1 DEF Answered
  <2>6. waiting' \in [Phone -> SUBSET Purchase]
    BY <2>5 DEF TypeOK
  <2> QED
    BY <1>4, <2>1, <2>2, <2>3, <2>6 DEF Answered, TypeOK, server
<1>5. ASSUME NEW p \in Purchase, NoAnswer(f, p) PROVE TypeOK'
  <2>1. sending' \in [Phone -> [Purchase -> Sendings]]
    BY <1>5, SendingTypes DEF NoAnswer, Quiet, Sendings
  <2> QED
    BY <1>5, <2>1 DEF NoAnswer, TypeOK, google, server
<1>6. ASSUME NEW p \in Purchase, NEW m \in Moment, Buy(f, p, m) PROVE TypeOK'
  <2>1. play' \in [Purchase -> Plays]
    BY <1>6 DEF Buy, TypeOK, Plays
  <2> QED
    BY <1>6, <2>1 DEF Buy, TypeOK, server
<1>7. ASSUME NEW p \in Purchase, NEW m \in Moment, Place(f, p, m) PROVE TypeOK'
  <2>1. [step |-> "sent", moment |-> m] \in Sendings
    BY DEF Sendings
  <2> QED
    BY <1>7, <2>1, SendingTypes DEF Place, TypeOK, google, server
<1> QED
  BY <1>1, <1>2, <1>3, <1>4, <1>5, <1>6, <1>7 DEF OfPhone

LEMMA TypeOfServer ==
  ASSUME IInv, NEW p \in Purchase, OfServer(p)
  PROVE  TypeOK'
<1> USE DEF IInv
<1>1. ASSUME NEW f \in Phone, Verify(f, p) PROVE TypeOK'
  <2>1. sending' \in [Phone -> [Purchase -> Sendings]]
    BY <1>1, BecomesTypes DEF Verify
  <2> QED
    BY <1>1, <2>1 DEF Verify, TypeOK, google, server
<1>2. ASSUME NEW f \in Phone, Grant(f, p) PROVE TypeOK'
  <2>1. sending' \in [Phone -> [Purchase -> Sendings]]
    BY <1>2, BecomesTypes DEF Grant
  <2>2. rows' \in [Purchase -> Rows \cup {None}]
    <3>1. sending[f][p].moment \in Moment \cup {None}
      BY DEF TypeOK, Sendings
    <3>2. ASSUME NEW m \in Moment, NEW acknowledgement \in {"pending", "done"}, Recorded(p, m, acknowledgement)
          PROVE  rows' \in [Purchase -> Rows \cup {None}]
      BY <3>2 DEF Recorded, Rows, TypeOK
    <3> QED
      BY <1>2, <3>1, <3>2 DEF Grant, TypeOK
  <2>3. slots' \in [Purchase -> Slots]
    <3>1. [slots EXCEPT ![p].active = @ + 1] \in [Purchase -> Slots]
      BY DEF TypeOK, Slots
    <3> QED
      BY <1>2, <3>1 DEF Grant, TypeOK
  <2> QED
    BY <1>2, <2>1, <2>2, <2>3 DEF Grant, TypeOK, google
<1>3. CASE Acknowledge(p) \/ AcknowledgeUnwritten(p)
  <2>1. play' \in [Purchase -> Plays]
    BY <1>3 DEF Acknowledge, AcknowledgeUnwritten, Consumed, TypeOK, Plays
  <2>2. rows' \in [Purchase -> Rows \cup {None}]
    <3>1. rows[p] \in Rows
      BY <1>3 DEF Acknowledge, AcknowledgeUnwritten, Pending, TypeOK
    <3>2. [rows[p] EXCEPT !.acknowledgement = "done"] \in Rows
      BY <3>1 DEF Rows
    <3> QED
      BY <1>3, <3>2 DEF Acknowledge, AcknowledgeUnwritten, server, TypeOK
  <2> QED
    BY <1>3, <2>1, <2>2 DEF Acknowledge, AcknowledgeUnwritten, TypeOK, phone, server
<1>4. CASE Hear(p) \/ Lose(p)
  BY <1>4, NoticeEffect, HearEffect DEF Hear, Lose, TypeOK, google, phone
<1>5. CASE Apply(p)
  <2>1. rows' \in [Purchase -> Rows \cup {None}]
    <3>1. CASE notes[p].found
      <4>1. rows[p] \in Rows
        BY <3>1 DEF Voided, TypeOK
      <4>2. [rows[p] EXCEPT !.revoked = TRUE] \in Rows
        BY <4>1 DEF Rows
      <4> QED
        BY <1>5, <4>2 DEF Apply, Withdrawn, TypeOK
    <3> QED
      BY <1>5, <3>1 DEF Apply, Withdrawn, TypeOK
  <2>2. slots' \in [Purchase -> Slots]
    BY <1>5, ApplyEffect DEF TypeOK
  <2> QED
    BY <1>5, <2>1, <2>2, NoticeEffect DEF Apply, TypeOK, google, phone
<1> QED
  BY <1>1, <1>2, <1>3, <1>4, <1>5 DEF OfServer
-----------------------------------------------------------------------------
(***************************************************************************)
(* Every step keeps each purchase in order.                                *)
(***************************************************************************)
InOrder == \A q \in Purchase : Voided(q) /\ Granted(q)

LEMMA GoogleInOrder ==
  ASSUME IInv, NEW p \in Purchase, Google(p)
  PROVE  InOrder'
<1> SUFFICES ASSUME NEW q \in Purchase PROVE Voided(q)' /\ Granted(q)'
  BY DEF InOrder
<1>0. TypeOK /\ Voided(q) /\ Granted(q)
  BY DEF IInv
<1>1. CASE Approve(p)
  <2>1. \/ play[q].state # "refunded" /\ play'[q].consumed = play[q].consumed
        \/ play'[q] = play[q]
    BY <1>0, <1>1 DEF Approve, TypeOK, Plays
  <2>2. /\ listed' = listed /\ gone' = gone /\ sending' = sending /\ rows' = rows /\ slots' = slots
        /\ notes' = notes
    BY <1>1 DEF Approve, phone, server
  <2> QED
    BY <1>0, <2>1, <2>2 DEF Voided, Granted, Had, Step
<1>2. CASE RefundIt(p)
  <2>1. (play'[q].state = "refunded" \/ play'[q].state = play[q].state) /\ play'[q].consumed = play[q].consumed
    BY <1>0, <1>2 DEF RefundIt, TypeOK, Plays
  <2>2. notes'[q].word = notes[q].word /\ notes'[q].found = notes[q].found
    BY <1>0, <1>2, NoticeEffect
  <2>3. listed' = listed /\ gone' = gone /\ sending' = sending /\ rows' = rows /\ slots' = slots
    BY <1>2 DEF RefundIt, phone
  <2> QED
    BY <1>0, <2>1, <2>2, <2>3 DEF Voided, Granted, Had, Step
<1>3. CASE List(p)
  <2>1. /\ play' = play /\ gone' = gone /\ sending' = sending /\ rows' = rows /\ slots' = slots
        /\ notes' = notes
    BY <1>3 DEF List, phone, server
  <2>2. listed' = listed \cup {p} /\ play[p].state = "refunded"
    BY <1>3 DEF List
  <2> QED
    BY <1>0, <2>1, <2>2 DEF Voided, Granted, Had, Step
<1>4. CASE GiveUp(p)
  <2>1. notes'[q].word = notes[q].word /\ notes'[q].found = notes[q].found
    BY <1>0, <1>4, NoticeEffect
  <2>2. /\ play' = play /\ listed' = listed /\ gone' = gone /\ sending' = sending /\ rows' = rows
        /\ slots' = slots
    BY <1>4 DEF GiveUp, google, phone
  <2> QED
    BY <1>0, <2>1, <2>2, Untouched DEF Step
<1> QED
  BY <1>1, <1>2, <1>3, <1>4 DEF Google, Refund, Expire

LEMMA PersonInOrder ==
  ASSUME IInv, Tick \/ (\E m \in Moment : DeleteMoment(m)) \/ (\E p \in Purchase : Use(p))
  PROVE  InOrder'
<1> SUFFICES ASSUME NEW q \in Purchase PROVE Voided(q)' /\ Granted(q)'
  BY DEF InOrder
<1>0. TypeOK /\ Voided(q) /\ Granted(q)
  BY DEF IInv
<1>1. CASE Tick
  BY <1>0, <1>1, Untouched DEF Tick, google, phone, server, Step
<1>2. ASSUME NEW m \in Moment, DeleteMoment(m) PROVE Voided(q)' /\ Granted(q)'
  <2>1. play' = play /\ listed' = listed /\ sending' = sending /\ rows' = rows /\ notes' = notes
    BY <1>2 DEF DeleteMoment, google, phone
  <2>2. gone' = gone \cup {m}
    BY <1>2 DEF DeleteMoment
  <2>3. CASE rows[q] # None /\ rows[q].moment = m
    <3>1. slots'[q] = NoSlots
      BY <1>2, <2>3 DEF DeleteMoment
    <3> QED
      BY <1>0, <2>1, <2>2, <2>3, <3>1, NoSlotsFields DEF Voided, Granted, Had, Step
  <2>4. CASE ~(rows[q] # None /\ rows[q].moment = m)
    <3>1. slots'[q] = slots[q]
      BY <1>2, <2>4 DEF DeleteMoment
    <3> QED
      BY <1>0, <2>1, <2>2, <3>1 DEF Voided, Granted, Had, Step
  <2> QED
    BY <2>3, <2>4
<1>3. ASSUME NEW p \in Purchase, Use(p) PROVE Voided(q)' /\ Granted(q)'
  <2>1. /\ play' = play /\ listed' = listed /\ gone' = gone /\ sending' = sending /\ rows' = rows
        /\ notes' = notes
    BY <1>3 DEF Use, google, phone
  <2>2. CASE q # p
    <3>1. slots'[q] = slots[q]
      BY <1>0, <1>3, <2>2, UseEffect DEF OnlySlotsOf
    <3> QED
      BY <1>0, <2>1, <3>1 DEF Voided, Granted, Had, Step
  <2>3. CASE q = p
    <3>1. /\ slots'[q].active = slots[q].active - 1 /\ slots'[q].used = slots[q].used + 1
          /\ slots'[q].canceled = slots[q].canceled
      BY <1>0, <1>3, <2>3, UseEffect
    <3>2. slots[q] \in Slots /\ slots[q].active > 0
      BY <1>0, <1>3, <2>3 DEF TypeOK, Use
    <3>3. Had(q)' = Had(q)
      BY <3>1, <3>2 DEF Had, Slots
    <3>4. rows[q] # None
      BY <1>0, <3>2, NoSlotsFields DEF Granted
    <3> QED
      BY <1>0, <2>1, <3>1, <3>3, <3>4 DEF Voided, Granted, Step
  <2> QED
    BY <2>2, <2>3
<1> QED
  BY <1>1, <1>2, <1>3

\* Nothing a phone does grants; an answer it acts on was.
LEMMA PhoneInOrder ==
  ASSUME IInv, NEW f \in Phone, OfPhone(f)
  PROVE  InOrder'
<1> SUFFICES ASSUME NEW q \in Purchase PROVE Voided(q)' /\ Granted(q)'
  BY DEF InOrder
<1>0. TypeOK /\ Voided(q) /\ Granted(q)
  BY DEF IInv
<1>1. listed' = listed /\ gone' = gone /\ rows' = rows /\ slots' = slots /\ notes' = notes
  BY DEF OfPhone, BuyNothing, Restart, Send, Answered, NoAnswer, Buy, Place, google, server
<1>2. \A g \in Phone : Step(g, q, "granted")' => Step(g, q, "granted")
  <2> SUFFICES ASSUME NEW g \in Phone PROVE sending'[g][q].step = "granted" => sending[g][q].step = "granted"
    BY DEF Step
  <2>1. Quiet.step # "granted" /\ \A m \in Moment \cup {None} : [step |-> "sent", moment |-> m].step # "granted"
    BY DEF Quiet
  <2>2. CASE sending' = sending
    BY <2>2
  <2>3. CASE sending' = [sending EXCEPT ![f] = [p \in Purchase |-> Quiet]]
    BY <1>0, <2>1, <2>3 DEF TypeOK
  <2>4. ASSUME NEW p \in Purchase, NEW new \in Sendings, new.step # "granted",
               sending' = [sending EXCEPT ![f][p] = new]
        PROVE  sending'[g][q].step = "granted" => sending[g][q].step = "granted"
    BY <1>0, <2>4 DEF TypeOK
  <2>5. \/ sending' = sending \/ sending' = [sending EXCEPT ![f] = [p \in Purchase |-> Quiet]]
        \/ \E p \in Purchase, new \in Sendings :
             new.step # "granted" /\ sending' = [sending EXCEPT ![f][p] = new]
    <3>1. Quiet \in Sendings
      BY DEF Quiet, Sendings
    <3>2. ASSUME NEW p \in Purchase, Send(f, p) PROVE <2>5
      <4> DEFINE new == [step |-> "sent", moment |-> intent[f]]
      <4>1. new \in Sendings /\ new.step # "granted"
        BY <1>0 DEF Sendings, TypeOK
      <4>2. sending' = [sending EXCEPT ![f][p] = new]
        BY <3>2 DEF Send
      <4> QED
        BY <4>1, <4>2
    <3>3. ASSUME NEW p \in Purchase, NEW m \in Moment, Place(f, p, m) PROVE <2>5
      <4> DEFINE new == [step |-> "sent", moment |-> m]
      <4>1. new \in Sendings /\ new.step # "granted"
        BY DEF Sendings
      <4>2. sending' = [sending EXCEPT ![f][p] = new]
        BY <3>3 DEF Place
      <4> QED
        BY <4>1, <4>2
    <3>4. ASSUME NEW p \in Purchase, Answered(f, p) \/ NoAnswer(f, p) PROVE <2>5
      <4>1. sending' = [sending EXCEPT ![f][p] = Quiet]
        BY <3>4 DEF Answered, NoAnswer
      <4> QED
        BY <2>1, <3>1, <4>1
    <3>5. ASSUME NEW p \in Purchase, NEW m \in Moment, Buy(f, p, m) PROVE <2>5
      BY <3>5 DEF Buy
    <3>6. CASE BuyNothing(f) \/ Restart(f)
      BY <3>6 DEF BuyNothing, Restart
    <3> QED
      BY <3>2, <3>3, <3>4, <3>5, <3>6 DEF OfPhone
  <2> QED
    BY <2>2, <2>3, <2>4, <2>5
<1>3. CASE play' = play
  BY <1>0, <1>1, <1>2, <1>3, Untouched
<1>4. ASSUME NEW p \in Purchase, Answered(f, p), play' # play PROVE Voided(q)' /\ Granted(q)'
  <2>1. Step(f, p, "granted") /\ Consumed(p)
    BY <1>4 DEF Answered
  <2>2. rows[p] # None
    BY <2>1 DEF IInv, Granted
  <2>3. play'[q].state = play[q].state /\ (play'[q].consumed = play[q].consumed \/ q = p)
    BY <1>0, <2>1 DEF Consumed, TypeOK, Plays
  <2> QED
    BY <1>0, <1>1, <1>2, <2>2, <2>3 DEF Voided, Granted, Had
<1>5. ASSUME NEW p \in Purchase, NEW m \in Moment, Buy(f, p, m) PROVE Voided(q)' /\ Granted(q)'
  <2>1. play'[q] = play[q] \/ (~play'[q].consumed /\ play[q].state = "none")
    BY <1>0, <1>5 DEF Buy, TypeOK, Plays
  <2> QED
    BY <1>0, <1>1, <1>2, <2>1 DEF Voided, Granted, Had
<1> QED
  BY <1>3, <1>4, <1>5 DEF OfPhone, BuyNothing, Restart, Send, NoAnswer, Place, google

\* What is granted has a row and one slot.
LEMMA GrantEffect ==
  ASSUME IInv, NEW f \in Phone, NEW p \in Purchase, Grant(f, p)
  PROVE  /\ play' = play /\ listed' = listed /\ gone' = gone /\ notes' = notes
         /\ \A q \in Purchase \ {p} : rows'[q] = rows[q] /\ slots'[q] = slots[q]
         /\ \A g \in Phone, q \in Purchase : Step(g, q, "granted")' => Step(g, q, "granted") \/ (g = f /\ q = p)
         /\ Step(f, p, "granted")' => rows'[p] # None
         /\ \/ rows'[p] = rows[p] /\ slots'[p] = slots[p]
            \/ /\ rows[p] = None /\ rows'[p] # None
               /\ slots'[p].active = 1 /\ slots'[p].used = 0 /\ slots'[p].canceled = 0
<1> USE DEF IInv
<1>1. TypeOK /\ Granted(p)
  OBVIOUS
<1>2. play' = play /\ listed' = listed /\ gone' = gone /\ notes' = notes
  BY DEF Grant, google
<1>3. \A g \in Phone, q \in Purchase : Step(g, q, "granted")' => Step(g, q, "granted") \/ (g = f /\ q = p)
  BY <1>1 DEF Grant, Becomes, Step, TypeOK
<1>4. CASE UNCHANGED <<rows, slots>> /\ rows[p] # None
  BY <1>2, <1>3, <1>4
<1>5. CASE UNCHANGED <<rows, slots>> /\ Becomes(f, p, "kept")
  <2>1. ~Step(f, p, "granted")'
    BY <1>1, <1>5 DEF Becomes, Step, TypeOK, Sendings
  <2> QED
    BY <1>2, <1>3, <1>5, <2>1
<1>6. ASSUME rows[p] = None, NEW m \in Moment, NEW acknowledgement \in {"done", "pending"},
             Recorded(p, m, acknowledgement), slots' = [slots EXCEPT ![p].active = @ + 1]
      PROVE  /\ \A q \in Purchase \ {p} : rows'[q] = rows[q] /\ slots'[q] = slots[q]
             /\ rows'[p] # None
             /\ slots'[p].active = 1 /\ slots'[p].used = 0 /\ slots'[p].canceled = 0
  <2> DEFINE new == [moment |-> m, acknowledgement |-> acknowledgement, revoked |-> FALSE]
  <2>1. new # None
    <3>1. new \in Rows
      BY DEF Rows
    <3> QED
      BY <3>1, RowsAssumption
  <2>2. rows' = [rows EXCEPT ![p] = new]
    BY <1>6 DEF Recorded
  <2> HIDE DEF new
  <2>3. rows'[p] # None /\ \A q \in Purchase \ {p} : rows'[q] = rows[q]
    BY <1>1, <2>1, <2>2 DEF TypeOK
  <2>4. slots[p] = NoSlots
    BY <1>1, <1>6 DEF Granted
  <2>5. slots'[p].active = slots[p].active + 1 /\ slots'[p].used = slots[p].used
        /\ slots'[p].canceled = slots[p].canceled
    BY <1>1, <1>6 DEF TypeOK, Slots
  <2>6. \A q \in Purchase \ {p} : slots'[q] = slots[q]
    BY <1>1, <1>6 DEF TypeOK
  <2> QED
    BY <2>3, <2>4, <2>5, <2>6, NoSlotsFields
<1>7. sending[f][p].moment \in Moment \cup {None}
  BY <1>1 DEF TypeOK, Sendings
<1>8. \/ UNCHANGED <<rows, slots>> /\ rows[p] # None
      \/ UNCHANGED <<rows, slots>> /\ Becomes(f, p, "kept")
      \/ /\ rows[p] = None /\ slots' = [slots EXCEPT ![p].active = @ + 1]
         /\ \E m \in Moment, acknowledgement \in {"done", "pending"} : Recorded(p, m, acknowledgement)
  BY <1>7 DEF Grant
<1> QED
  BY <1>2, <1>3, <1>4, <1>5, <1>6, <1>8

LEMMA GrantInOrder ==
  ASSUME IInv, NEW f \in Phone, NEW p \in Purchase, Grant(f, p)
  PROVE  InOrder'
<1> SUFFICES ASSUME NEW q \in Purchase PROVE Voided(q)' /\ Granted(q)'
  BY DEF InOrder
<1>0. TypeOK /\ Voided(q) /\ Granted(q)
  BY DEF IInv
<1>1. CASE q # p
  BY <1>0, <1>1, GrantEffect, Untouched
<1>2. CASE q = p
  <2>1. CASE rows'[p] = rows[p] /\ slots'[p] = slots[p]
    BY <1>0, <1>2, <2>1, GrantEffect DEF Voided, Granted, Had
  <2>2. CASE /\ rows[p] = None /\ rows'[p] # None
             /\ slots'[p].active = 1 /\ slots'[p].used = 0 /\ slots'[p].canceled = 0
    <3>1. Had(p)' = 1
      BY <2>2 DEF Had
    <3> QED
      BY <1>0, <1>2, <2>2, <3>1, GrantEffect DEF Voided, Granted
  <2> QED
    BY <2>1, <2>2, GrantEffect
<1> QED
  BY <1>1, <1>2

LEMMA ServerInOrder ==
  ASSUME IInv, NEW p \in Purchase, OfServer(p)
  PROVE  InOrder'
<1>1. ASSUME NEW f \in Phone, Verify(f, p), NEW q \in Purchase PROVE Voided(q)' /\ Granted(q)'
  <2>0. TypeOK /\ Voided(q) /\ Granted(q)
    BY DEF IInv
  <2>1. /\ play' = play /\ listed' = listed /\ gone' = gone /\ rows' = rows /\ slots' = slots
        /\ notes' = notes
    BY <1>1 DEF Verify, google, server
  <2>2. \A g \in Phone : Step(g, q, "granted")' => Step(g, q, "granted")
    BY <1>1, <2>0 DEF Verify, Becomes, Step, TypeOK, Sendings
  <2> QED
    BY <2>0, <2>1, <2>2, Untouched
<1>2. ASSUME NEW f \in Phone, Grant(f, p) PROVE InOrder'
  BY <1>2, GrantInOrder
<1>3. ASSUME Acknowledge(p) \/ AcknowledgeUnwritten(p), NEW q \in Purchase PROVE Voided(q)' /\ Granted(q)'
  <2>0. TypeOK /\ Voided(q) /\ Granted(q)
    BY DEF IInv
  <2>1. listed' = listed /\ gone' = gone /\ sending' = sending /\ slots' = slots /\ notes' = notes
    BY <1>3 DEF Acknowledge, AcknowledgeUnwritten, phone, server
  <2>2. play'[q].state = play[q].state /\ (play'[q].consumed = play[q].consumed \/ q = p)
    BY <1>3, <2>0 DEF Acknowledge, AcknowledgeUnwritten, Consumed, TypeOK, Plays
  <2>3. rows[p] # None
    BY <1>3 DEF Acknowledge, AcknowledgeUnwritten, Pending
  <2>4. rows'[q] = rows[q] \/ (q = p /\ rows'[q] # None /\ rows'[q].moment = rows[q].moment)
    <3> DEFINE new == [rows[p] EXCEPT !.acknowledgement = "done"]
    <3>1. rows[p] \in Rows
      BY <2>0, <2>3 DEF TypeOK
    <3>2. new \in Rows /\ new.moment = rows[p].moment
      BY <3>1 DEF Rows
    <3>3. rows' = rows \/ rows' = [rows EXCEPT ![p] = new]
      BY <1>3 DEF Acknowledge, AcknowledgeUnwritten, server
    <3> HIDE DEF new
    <3> QED
      BY <2>0, <3>2, <3>3, RowsAssumption DEF TypeOK
  <2> QED
    BY <2>0, <2>1, <2>2, <2>3, <2>4 DEF Voided, Granted, Had, Step
<1>4. ASSUME Hear(p) \/ Lose(p), NEW q \in Purchase PROVE Voided(q)' /\ Granted(q)'
  <2>0. TypeOK /\ Voided(q) /\ Granted(q)
    BY DEF IInv
  <2>1. /\ play' = play /\ listed' = listed /\ gone' = gone /\ rows' = rows /\ slots' = slots
        /\ sending' = sending
    BY <1>4 DEF Hear, Lose, google, phone
  <2>2. CASE Hear(p) /\ q = p
    <3>1. notes'[q].found = (rows[q] # None) /\ (notes'[q].word = "listed" => q \in listed)
      BY <2>0, <2>2, HearEffect
    <3> QED
      BY <2>0, <2>1, <3>1 DEF Voided, Granted, Had, Step
  <2>3. CASE Lose(p) \/ q # p
    <3>1. notes'[q].found = notes[q].found /\ notes'[q].word = notes[q].word
      BY <1>4, <2>0, <2>3, NoticeEffect, HearEffect
    <3> QED
      BY <2>0, <2>1, <3>1, Untouched DEF Step
  <2> QED
    BY <1>4, <2>2, <2>3
<1>5. ASSUME Apply(p), NEW q \in Purchase PROVE Voided(q)' /\ Granted(q)'
  <2>0. TypeOK /\ Voided(q) /\ Granted(q)
    BY DEF IInv
  <2>1. play' = play /\ listed' = listed /\ gone' = gone /\ sending' = sending
    BY <1>5 DEF Apply, google, phone
  <2>2. rows'[q] = rows[q] \/ (q = p /\ rows[q] # None /\ rows'[q] # None /\ rows'[q].moment = rows[q].moment)
    <3> DEFINE new == [rows[p] EXCEPT !.revoked = TRUE]
    <3>1. rows' = rows \/ (rows[p] # None /\ rows' = [rows EXCEPT ![p] = new])
      BY <1>5 DEF Apply, Withdrawn, IInv, Voided
    <3>2. CASE rows[p] # None
      <4>1. rows[p] \in Rows
        BY <2>0, <3>2 DEF TypeOK
      <4>2. new \in Rows /\ new.moment = rows[p].moment
        BY <4>1 DEF Rows
      <4> HIDE DEF new
      <4> QED
        BY <2>0, <3>1, <3>2, <4>2, RowsAssumption DEF TypeOK
    <3> QED
      BY <3>1, <3>2
  <2>3. notes'[q].found = notes[q].found /\ notes'[q].word = notes[q].word
    BY <1>5, <2>0, NoticeEffect
  <2>4. \/ slots'[q] = slots[q]
        \/ /\ q \in listed /\ rows[q] # None
           /\ Had(q)' = Had(q)
    <3>1. CASE slots' = slots \/ q # p
      BY <1>5, <2>0, <3>1, ApplyEffect DEF OnlySlotsOf
    <3>2. CASE slots' # slots /\ q = p
      <4>1. /\ notes[p].word = "listed"
            /\ slots'[p].active = 0 /\ slots'[p].used = slots[p].used
            /\ slots'[p].canceled = slots[p].canceled + slots[p].active
        BY <1>5, <2>0, <3>2, ApplyEffect
      <4>2. slots[p] \in Slots
        BY <2>0 DEF TypeOK
      <4>3. Had(p)' = Had(p)
        BY <4>1, <4>2 DEF Had, Slots
      <4>4. notes[p].found
        BY <1>5, <3>2 DEF Apply, Withdrawn
      <4> QED
        BY <2>0, <3>2, <4>1, <4>3, <4>4 DEF Voided
    <3> QED
      BY <3>1, <3>2
  <2>5. Voided(q)'
    BY <2>0, <2>1, <2>2, <2>3, <2>4 DEF Voided
  <2>6. Granted(q)'
    BY <2>0, <2>1, <2>2, <2>4 DEF Granted, Had, Step
  <2> QED
    BY <2>5, <2>6
<1> QED
  BY <1>1, <1>2, <1>3, <1>4, <1>5 DEF OfServer, InOrder
-----------------------------------------------------------------------------
LEMMA Stutter ==
  ASSUME IInv, UNCHANGED vars
  PROVE  IInv'
BY DEF IInv, vars, google, phone, server, TypeOK, Voided, Granted, Had, Step

LEMMA StepInOrder ==
  ASSUME IInv, [Next]_vars
  PROVE  IInv'
<1>1. CASE UNCHANGED vars
  BY <1>1, Stutter
<1>2. CASE Tick
  <2>1. TypeOK'
    BY <1>2, StorePurchasesAssumption DEF Tick, IInv, TypeOK, google, phone, server
  <2> QED
    BY <1>2, <2>1, PersonInOrder DEF IInv, InOrder
<1>7. ASSUME NEW m \in Moment, DeleteMoment(m) PROVE IInv'
  BY <1>7, DeletionTypes, PersonInOrder DEF IInv, InOrder
<1>3. ASSUME NEW p \in Purchase, Google(p) PROVE IInv'
  BY <1>3, TypeOfGoogle, GoogleInOrder DEF IInv, InOrder
<1>4. ASSUME NEW p \in Purchase, Use(p) PROVE IInv'
  BY <1>4, TypeOfGoogle, PersonInOrder DEF IInv, InOrder
<1>5. ASSUME NEW p \in Purchase, OfServer(p) PROVE IInv'
  BY <1>5, TypeOfServer, ServerInOrder DEF IInv, InOrder
<1>6. ASSUME NEW f \in Phone, OfPhone(f) PROVE IInv'
  BY <1>6, TypeOfPhone, PhoneInOrder DEF IInv, InOrder
<1> QED
  BY <1>1, <1>2, <1>3, <1>4, <1>5, <1>6, <1>7 DEF Next

\* Rows, slots, Google's record and everything under way agree at all times: the strengthening of
\* the two theorems below.
THEOREM PurchasesInOrder == Spec => []IInv
BY Start, StepInOrder, PTL DEF Spec

\* Every row, slot, notification and request keeps its shape, for any purchases, phones and moments.
THEOREM PurchaseTypes == Spec => []TypeOK
<1>1. IInv => TypeOK
  BY DEF IInv
<1> QED
  BY <1>1, PurchasesInOrder, PTL

\* Nobody pays and keeps nothing: what Google was told is granted was granted, once, whatever answers
\* of grantStorePurchase are lost, retried or sent by two phones at once.
THEOREM PaidIsGrantedAlways == Spec => []PaidIsGranted
<1>1. IInv => PaidIsGranted
  <2> SUFFICES ASSUME IInv, NEW p \in Purchase
               PROVE  LET all == slots[p].active + slots[p].used + slots[p].canceled IN
                        /\ all <= 1
                        /\ play[p].consumed => rows[p] # None /\ (rows[p].moment \notin gone => all = 1)
                        /\ play[p].consumed /\ play[p].state = "paid" => slots[p].canceled = 0
    BY DEF PaidIsGranted
  <2>1. Voided(p) /\ Granted(p) /\ slots[p] \in Slots
    BY DEF IInv, TypeOK
  <2> QED
    BY <2>1 DEF Voided, Granted, Had, Slots
<1> QED
  BY <1>1, PurchasesInOrder, PTL
=============================================================================
