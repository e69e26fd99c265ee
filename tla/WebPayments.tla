---------------------------- MODULE WebPayments ----------------------------
(***************************************************************************)
(* What is paid for in a browser (server/billing.js): checkouts, the       *)
(* events Stripe sends about a subscription, and the reconciliation.       *)
(*                                                                         *)
(* Stripe's own state changes as Stripe likes, and each change sends       *)
(* events that arrive in any order, any number of times, or never.         *)
(* Workers are the requests that handle them: one claims the event's row,  *)
(* reads what it decides on, and writes.  What it reads is one action and  *)
(* what it writes, with its commit, another; each write is gated by the    *)
(* newest change applied.  The reconciliation lists what Stripe holds and  *)
(* applies it the same way.                                                *)
(*                                                                         *)
(* Amounts, periods and metadata are left out: the payer goes on owning    *)
(* the journey, and every object carries what the approved offer carries.  *)
(***************************************************************************)
EXTENDS Naturals, Sequences, FiniteSets

CONSTANTS
  Sub,        \* subscriptions, or image payments, a payer may begin
  Worker,     \* webhook requests handled at once
  Reconciler, \* the reconciliation, which an advisory lock keeps alone
  None,       \* nothing
  Offer,      \* what may be bought: of "room", "place" and "image"
  MaxBusy,    \* bound: requests under way at once, the reconciliation being one
  MaxTime,    \* bound: seconds that pass
  MaxEvents,  \* bound: events Stripe sends
  MaxMishaps  \* bound: crashes and failures

ASSUME WebPaymentsAssumption ==
  /\ Reconciler \notin Worker
  /\ Offer \subseteq {"room", "place", "image"}
  /\ {MaxBusy, MaxTime, MaxEvents, MaxMishaps} \subseteq Nat /\ MaxTime >= 1

VARIABLES
  now,       \* seconds, as Stripe and the server count them
  offer,     \* what each subscription is for
  checkout,  \* how far each checkout is
  truth,     \* what Stripe holds of each subscription
  sent,      \* events Stripe has sent
  inbox,     \* billing_webhook_events.processing_state of each event; stale: processing, and first
             \* received more than five minutes ago
  row,       \* billing_subscriptions
  room,      \* billing_entitlements
  slot,      \* state of a moment's place or image slot
  job,       \* what each worker is doing
  listed,    \* what the reconciliation has listed and not applied yet
  mishaps,   \* crashes and failures so far
  course     \* how what Stripe holds of each subscription came to be applied: outrun where Stripe had
             \* changed after the snapshot was taken; of one the payer gave up also once, again, or
             \* early, before the change it follows

stripe == <<now, offer, truth, sent>>
rows   == <<row, room, slot>>
vars == <<stripe, checkout, inbox, rows, job, listed, mishaps, course>>
-----------------------------------------------------------------------------
Statuses == {"none", "incomplete", "active", "past_due", "canceled", "incomplete_expired"}

\* cause: cancellation_details.reason; since: the last change, which is ended_at once it ended.
Subscriptions == [status : Statuses, cause : {"none", "asked", "failed"}, since : Nat]

NoSubscription == [status |-> "none", cause |-> "none", since |-> 0]

\* about: the event's type; is: the subscription as it was then; at: the event's created.
Events == [sub : Sub, about : {"subscription", "paid", "failed", "completed"},
           is : Subscriptions, at : Nat]

\* at: provider_event_created_at.  reason: recovering (a payment failed), ended, over, or none.
\* from: the time an automatic grace is counted from, which is its expires_at.
Rows  == [status : Statuses, at : Nat]
Rooms == [state : {"none", "pending", "active", "grace", "expired"},
          reason : {"none", "recovering", "ended", "over"}, from : Nat, at : Nat]

NoRow  == [status |-> "none", at |-> 0]
NoRoom == [state |-> "none", reason |-> "none", from |-> 0, at |-> 0]

\* An event of this number; 0 where the reconciliation applies what it has listed.
Idle == [step |-> "idle", event |-> 0, what |-> None, room |-> NoRoom,
         status |-> "none", early |-> FALSE]

Init ==
  /\ now = 1
  /\ offer \in [Sub -> Offer]
  /\ checkout = [s \in Sub |-> "none"]
  /\ truth = [s \in Sub |-> NoSubscription]
  /\ sent = <<>>
  /\ inbox = [e \in 1 .. MaxEvents |-> "none"]
  /\ row = [s \in Sub |-> NoRow]
  /\ room = [s \in Sub |-> NoRoom]
  /\ slot = [s \in Sub |-> "none"]
  /\ job = [w \in Worker \cup {Reconciler} |-> Idle]
  /\ listed = {}
  /\ mishaps = 0
  /\ course = [s \in Sub |-> "plain"]

Step(w, step) == job[w].step = step

Busy == {w \in DOMAIN job : ~Step(w, "idle")}

Mishap == mishaps < MaxMishaps /\ mishaps' = mishaps + 1
-----------------------------------------------------------------------------
(***************************************************************************)
(* Checkouts.                                                              *)
(***************************************************************************)
Ongoing(s) == offer[s] = "room" /\ row[s].status \notin {"none", "canceled", "incomplete_expired"}

\* createCheckoutSession: no subscription to the journey's room may be recorded.
AskCheckout(s) ==
  /\ checkout[s] = "none"
  /\ offer[s] = "room" => \A r \in Sub : ~Ongoing(r)
  /\ checkout' = [checkout EXCEPT ![s] = "checked"]
  /\ UNCHANGED <<stripe, inbox, rows, job, listed, mishaps, course>>

\* Stripe's session, and the row that records it: a slot still pending for a place or an image.
OpenCheckout(s) ==
  /\ checkout[s] = "checked"
  /\ checkout' = [checkout EXCEPT ![s] = "open"]
  /\ slot' = IF offer[s] = "room" THEN slot ELSE [slot EXCEPT ![s] = "pending"]
  /\ UNCHANGED <<stripe, inbox, row, room, job, listed, mishaps, course>>
-----------------------------------------------------------------------------
(***************************************************************************)
(* Stripe.                                                                 *)
(***************************************************************************)
\* A change, and the events about it that ever arrive, stamped with this second.
Change(s, to, abouts) ==
  LET is == [to EXCEPT !.since = now] IN
    /\ Len(sent) + Len(abouts) <= MaxEvents
    /\ truth' = [truth EXCEPT ![s] = is]
    /\ sent' = sent \o [i \in DOMAIN abouts |->
                          [sub |-> s, about |-> abouts[i], is |-> is, at |-> now]]
    /\ UNCHANGED <<now, offer, checkout, inbox, rows, job, listed, mishaps, course>>

Becomes(s, status, abouts) == Change(s, [NoSubscription EXCEPT !.status = status], abouts)

\* One that comes with an invoice.
Invoiced(s, status, about) ==
  \E abouts \in {<<"subscription">>, <<"subscription", about>>} : Becomes(s, status, abouts)

Subscribe(s) ==
  /\ checkout[s] = "open" /\ truth[s].status = "none"
  /\ offer[s] # "image"
  /\ Becomes(s, "incomplete", <<"subscription">>) \/ Invoiced(s, "active", "paid")

\* The payment that was awaited, a renewal, or one that failed before.
Pay(s) ==
  \/ /\ offer[s] # "image"
     /\ truth[s].status \in {"incomplete", "active", "past_due"}
     /\ Invoiced(s, "active", "paid")
  \/ /\ offer[s] = "image" /\ checkout[s] = "open" /\ truth[s].status = "none"
     /\ Becomes(s, "active", <<"completed">>)

FailPayment(s) ==
  /\ offer[s] # "image" /\ truth[s].status \in {"active", "past_due"}
  /\ Invoiced(s, "past_due", "failed")

\* Ended because the payer asked, or because its payment failed.
Cancel(s, cause) ==
  /\ offer[s] # "image" /\ truth[s].status \in {"active", "past_due"}
  /\ cause = "failed" => truth[s].status = "past_due"
  /\ Change(s, [status |-> "canceled", cause |-> cause, since |-> now], <<"subscription">>)

Lapse(s) ==
  /\ truth[s].status = "incomplete"
  /\ Becomes(s, "incomplete_expired", <<"subscription">>)

Tick ==
  /\ now < MaxTime
  /\ now' = now + 1
  /\ UNCHANGED <<offer, checkout, truth, sent, inbox, rows, job, listed, mishaps, course>>
-----------------------------------------------------------------------------
(***************************************************************************)
(* handleWebhook, as far as the claim.                                     *)
(***************************************************************************)
\* One never seen, one that failed, or one whose claim stands although it was first received five
\* minutes ago.
Claimable(e) == inbox[e] \in {"none", "failed", "stale"}

\* The subscription ended, and not because its payment failed.
Asked(is) == is.status = "canceled" /\ is.cause # "failed"

\* The events of the change before the last.
Preceding(s) ==
  LET before == {e \in 1 .. Len(sent) : sent[e].sub = s /\ sent[e].is # truth[s]}
  IN  {e \in before : \A f \in before : sent[f].at <= sent[e].at}

\* An ending that is read before the change it follows, or a newer snapshot, was applied.
Early(x) ==
  /\ Asked(x.is)
  /\ \E e \in Preceding(x.sub) :
       sent[e].about = "subscription" /\ inbox[e] # "processed" /\ row[x.sub].at <= sent[e].at

\* What is stored when the transaction begins: the entitlement where a grace may follow, and for an
\* invoice the subscription's status.
Reading(x, e) ==
  [step |-> "read", event |-> e, what |-> x,
   room |-> IF \/ x.about = "failed"
               \/ x.about = "subscription" /\ x.is.status = "past_due"
               \/ Asked(x.is)
            THEN room[x.sub] ELSE NoRoom,
   status |-> IF x.about = "subscription" THEN "none" ELSE row[x.sub].status,
   early |-> Early(x)]

\* The claim commits before the transaction begins; nothing tells the two apart.  An arrival that
\* may not claim the event is answered as a duplicate, and changes nothing; so is one that looked
\* for the event's row before it was there, whose INSERT then conflicts.
Claim(w, e) ==
  /\ w \in Worker /\ Step(w, "idle")
  /\ Claimable(e)
  /\ inbox' = [inbox EXCEPT ![e] = "processing"]
  /\ Cardinality(Busy) < MaxBusy
  /\ job' = [job EXCEPT ![w] = Reading(sent[e], e)]
  /\ UNCHANGED <<stripe, checkout, rows, listed, mishaps, course>>

FiveMinutes(e) ==
  /\ inbox[e] = "processing"
  /\ inbox' = [inbox EXCEPT ![e] = "stale"]
  /\ UNCHANGED <<stripe, checkout, rows, job, listed, mishaps, course>>
-----------------------------------------------------------------------------
(***************************************************************************)
(* processEvent: what is read, and what is written.                        *)
(***************************************************************************)
\* Mutant of GraceFrom: every failure begins the grace again.
GraceFromNow(was) == now

\* graceExpiry: a grace that was read goes on.
GraceFrom(was) == IF was.state = "grace" THEN was.from ELSE now

\* Mutant of EndedWithGrace: a grace that was had does not matter.
EndedWithGraceAgain(is, was) == Asked(is)

\* endedRoomGraceExpiry: room that ends has a grace, unless it had one because a payment failed.
EndedWithGrace(is, was) == Asked(is) /\ was.reason # "recovering"

\* What a subscription makes of the entitlement that was read.
RoomOf(is, was, at) ==
  CASE EndedWithGrace(is, was) ->
         [state |-> "grace", reason |-> "ended", from |-> is.since, at |-> at]
    [] is.status = "active" -> [NoRoom EXCEPT !.state = "active", !.at = at]
    [] is.status = "past_due" ->
         [state |-> "grace", reason |-> "recovering", from |-> GraceFrom(was), at |-> at]
    [] is.status = "incomplete" -> [NoRoom EXCEPT !.state = "pending", !.at = at]
    [] OTHER -> [NoRoom EXCEPT !.state = "expired", !.reason = "over", !.at = at]

\* Mutant of SlotOf: Stripe's word is stored as it comes.
SlotOfItsWord(is) == is.status

SlotOf(is) ==
  CASE is.status = "active"   -> "active"
    [] is.status = "past_due" -> "grace"
    [] is.status \in {"canceled", "incomplete_expired"} -> "canceled"
    [] OTHER -> "pending"

\* Mutant of NotNewer: whatever comes last is stored.
NeverNewer(stored, at) == TRUE

\* The condition of every upsert: provider_event_created_at.
NotNewer(stored, at) == at >= stored.at

\* How what Stripe holds of this subscription is applied now.
CourseOf(w, s) ==
  IF ~Asked(truth[s]) THEN "plain"
  ELSE IF course[s] = "outrun" THEN "outrun"
  ELSE IF job[w].early THEN "early"
  ELSE IF course[s] = "plain" THEN "once" ELSE "again"

\* processSubscription for the journey's room.
ApplyRoom(w) ==
  LET x == job[w].what
      s == x.sub
  IN /\ UNCHANGED slot
     /\ IF NotNewer(row[s], x.at)
        THEN /\ row' = [row EXCEPT ![s] = [status |-> x.is.status, at |-> x.at]]
             /\ room' = IF NotNewer(room[s], x.at)
                        THEN [room EXCEPT ![s] = RoomOf(x.is, job[w].room, x.at)] ELSE room
             /\ course' = CASE x.is = truth[s] -> [course EXCEPT ![s] = CourseOf(w, s)]
                            [] x.is # truth[s] /\ w = Reconciler -> [course EXCEPT ![s] = "outrun"]
                            [] OTHER -> course
        ELSE UNCHANGED <<row, room, course>>

\* processInvoice: the room follows only while a subscription that goes on is recorded.
ApplyInvoice(w) ==
  LET x == job[w].what
      s == x.sub
      follows == [state |-> IF x.about = "paid" THEN "active" ELSE "grace",
                  reason |-> IF x.about = "paid" THEN "none" ELSE "recovering",
                  from |-> IF x.about = "paid" THEN 0 ELSE GraceFrom(job[w].room), at |-> x.at]
  IN /\ room' = IF /\ job[w].status \in {"incomplete", "active", "past_due"}
                   /\ NotNewer(room[s], x.at)
                THEN [room EXCEPT ![s] = follows] ELSE room
     /\ UNCHANGED <<row, slot, course>>

\* processSubscription for a place, and processCheckout for an image.
ApplySlot(w) ==
  LET x == job[w].what IN
  /\ slot' = CASE x.about = "subscription" -> [slot EXCEPT ![x.sub] = SlotOf(x.is)]
               [] x.about = "completed" /\ slot[x.sub] = "pending" -> [slot EXCEPT ![x.sub] = "active"]
               [] OTHER -> slot
  /\ UNCHANGED <<row, room, course>>

Apply(w) ==
  IF offer[job[w].what.sub] # "room" THEN ApplySlot(w)
  ELSE IF job[w].what.about = "subscription" THEN ApplyRoom(w)
  ELSE ApplyInvoice(w)

\* Mutant of Write: the event is marked as done before its transaction, which may then fail.
WriteMarkedBefore(w) ==
  /\ w \in Worker /\ Step(w, "read")
  /\ inbox' = [inbox EXCEPT ![job[w].event] = "processed"]
  /\ job' = [job EXCEPT ![w] = Idle]
  /\ Apply(w) \/ UNCHANGED <<rows, course>>
  /\ UNCHANGED <<stripe, checkout, listed, mishaps>>

\* With the event's row, in one transaction.
Write(w) ==
  /\ w \in Worker /\ Step(w, "read")
  /\ Apply(w)
  /\ inbox' = [inbox EXCEPT ![job[w].event] = "processed"]
  /\ job' = [job EXCEPT ![w] = Idle]
  /\ UNCHANGED <<stripe, checkout, listed, mishaps>>

\* The transaction fails, and a statement of its own says so.
Fail(w) ==
  /\ w \in Worker /\ Step(w, "read")
  /\ Mishap
  /\ inbox' = [inbox EXCEPT ![job[w].event] = "failed"]
  /\ job' = [job EXCEPT ![w] = Idle]
  /\ UNCHANGED <<stripe, checkout, rows, listed, course>>

\* The process stops, the reconciliation included, and the claim stays.
Crash(w) ==
  /\ ~Step(w, "idle")
  /\ Mishap
  /\ job' = [job EXCEPT ![w] = Idle]
  /\ listed' = IF w = Reconciler THEN {} ELSE listed
  /\ UNCHANGED <<stripe, checkout, inbox, rows, course>>
-----------------------------------------------------------------------------
(***************************************************************************)
(* reconcile.                                                              *)
(***************************************************************************)
\* Mutant of Listable: the subscriptions that ended are not listed.
ListableGoingOn == {s \in Sub : offer[s] = "room" /\ truth[s].status \in {"incomplete", "active", "past_due"}}

\* Every subscription to the journey's room, whatever its status.
Listable == {s \in Sub : offer[s] = "room" /\ truth[s].status # "none"}

List ==
  /\ Step(Reconciler, "idle") /\ Cardinality(Busy) < MaxBusy
  /\ Listable # {}
  /\ listed' = {[sub |-> s, about |-> "subscription", is |-> truth[s], at |-> 0] : s \in Listable}
  /\ job' = [job EXCEPT ![Reconciler].step = "listing"]
  /\ UNCHANGED <<stripe, checkout, inbox, rows, mishaps, course>>

\* Each with a stamp of its own, read when its transaction begins.
ReconcileNext ==
  /\ Step(Reconciler, "listing")
  /\ \E x \in listed :
       /\ listed' = listed \ {x}
       /\ job' = [job EXCEPT ![Reconciler] = Reading([x EXCEPT !.at = now], 0)]
  /\ UNCHANGED <<stripe, checkout, inbox, rows, mishaps, course>>

ReconcileWrite ==
  /\ Step(Reconciler, "read")
  /\ Apply(Reconciler)
  /\ job' = [job EXCEPT ![Reconciler] = [Idle EXCEPT !.step = IF listed = {} THEN "idle" ELSE "listing"]]
  /\ UNCHANGED <<stripe, checkout, inbox, listed, mishaps>>

-----------------------------------------------------------------------------
Paying ==
  \E s \in Sub :
    \/ AskCheckout(s) \/ OpenCheckout(s) \/ Subscribe(s) \/ Pay(s) \/ FailPayment(s)
    \/ Cancel(s, "asked") \/ Cancel(s, "failed") \/ Lapse(s)

Reconciling == List \/ ReconcileNext \/ ReconcileWrite

Next ==
  \/ Paying \/ Tick
  \/ \E w \in Worker : Write(w) \/ Fail(w) \/ \E e \in 1 .. Len(sent) : Claim(w, e)
  \/ \E w \in Worker \cup {Reconciler} : Crash(w)
  \/ \E e \in 1 .. Len(sent) : FiveMinutes(e)
  \/ Reconciling

Spec == Init /\ [][Next]_vars

\* A request goes on while its process runs, and a timer starts the reconciliation every six hours
\* (ops/together-ledger-stripe-reconciliation.timer).  Nothing makes an event arrive.
FairSpec == Spec /\ WF_vars(Reconciling) /\ \A w \in Worker : WF_vars(Write(w))
-----------------------------------------------------------------------------
\* Every row, event and request keeps its shape.
TypeOK ==
  /\ now \in 1 .. MaxTime
  /\ offer \in [Sub -> Offer]
  /\ checkout \in [Sub -> {"none", "checked", "open"}]
  /\ truth \in [Sub -> Subscriptions]
  /\ sent \in Seq(Events) /\ Len(sent) <= MaxEvents
  /\ inbox \in [1 .. MaxEvents -> {"none", "processing", "stale", "processed", "failed"}]
  /\ row \in [Sub -> Rows]
  /\ room \in [Sub -> Rooms]
  /\ slot \in [Sub -> {"none", "pending", "active", "grace", "canceled"}]
  /\ job \in [Worker \cup {Reconciler} ->
       [step : {"idle", "read", "listing"}, event : 0 .. MaxEvents,
        what : Events \cup {None}, room : Rooms, status : Statuses,
        early : BOOLEAN]]
  /\ listed \subseteq Events
  /\ mishaps \in 0 .. MaxMishaps
  /\ course \in [Sub -> {"plain", "once", "again", "early", "outrun"}]

\* The state a subscription gives the journey's room for good; one the payer gave up, its grace.
StateOf(is) ==
  CASE is.status = "active"     -> "active"
    [] is.status = "past_due"   -> "grace"
    [] is.status = "incomplete" -> "pending"
    [] Asked(is)                -> "grace"
    [] OTHER                    -> "expired"

\* Its payment was failing when it ended.
Failing(s) == \E e \in Preceding(s) : sent[e].is.status = "past_due"

\* Where the payment was failing, the grace has been had; until the ending is told again.
Right(s) ==
  IF ~Asked(truth[s]) \/ ~Failing(s) THEN {StateOf(truth[s])}
  ELSE IF course[s] = "again" THEN {"grace", "expired"}
  ELSE {"expired"}

Agrees(s) == row[s].status = truth[s].status /\ room[s].state \in Right(s)

\* What became of it last arrived, and nothing about it is still to be handled.
Quiet(s) ==
  /\ \E e \in 1 .. Len(sent) :
       sent[e].sub = s /\ sent[e].about = "subscription" /\ sent[e].is = truth[s]
  /\ \A e \in 1 .. Len(sent) : sent[e].sub = s => inbox[e] = "processed"
  /\ \A w \in DOMAIN job : job[w].what # None => job[w].what.sub # s
  /\ \A x \in listed : x.sub # s

\* Two changes in one second, which their stamps cannot tell apart.
Muddled(s) ==
  \E e, f \in 1 .. Len(sent) :
    /\ sent[e].sub = s /\ sent[f].sub = s /\ sent[e].at = sent[f].at
    /\ sent[e].is # sent[f].is

\* However the events about a room's subscription are delayed, repeated, reordered, handled at once
\* or after a crash (handleWebhook), once each was handled the room is what the subscription says.
\* Three orders are not covered, because the code's outcome depends on them: two changes of one
\* second; a snapshot applied that Stripe had outrun; and an ending the payer asked for, handled before
\* the change it follows.
AgreesWhenQuiet ==
  \A s \in Sub :
    offer[s] = "room" /\ Quiet(s) /\ ~Muddled(s) /\ course[s] \notin {"outrun", "early"} => Agrees(s)

\* An event about a subscription marked as done was applied, or something newer was: the mark is part of the
\* transaction that applies it, however many claims there were (handleWebhook).
ProcessedIsApplied ==
  \A e \in 1 .. Len(sent) :
    LET s == sent[e].sub IN
      inbox[e] = "processed" /\ offer[s] = "room" /\ sent[e].about = "subscription" =>
        row[s].at >= sent[e].at

\* While a grace lasts, its end is moved by no later failure, but for one whose transaction read
\* the entitlement before it last changed (graceExpiry).
GraceHoldsStill ==
  [][\A s \in Sub :
       room[s].state = "grace" /\ room'[s].state = "grace" /\ room'[s].from # room[s].from =>
         \E w \in Busy : Step(w, "read") /\ job[w].what.sub = s /\ job[w].room # room[s]]_vars

\* Whatever events are lost, or lost by an answer given too early (handleWebhook's duplicates), the
\* reconciliation makes the room what Stripe holds in the end; but one that ended while its payment was
\* failing is given a grace by it, or none, as the room was found.
RepairedInTheEnd ==
  \A s \in Sub :
    <>[](offer[s] = "room" /\ truth[s].status # "none" =>
           /\ row[s].status = truth[s].status
           /\ room[s].state = StateOf(truth[s]) \/ (Asked(truth[s]) /\ Failing(s)))
=============================================================================
