-------------------------- MODULE WebPayments_proofs --------------------------
(***************************************************************************)
(* For any subscriptions, requests, events, failures and reconciliations:  *)
(* an event marked as done was applied, and once the events of a room were *)
(* all handled the room is what Stripe says.                               *)
(***************************************************************************)
EXTENDS WebPayments, TLAPS

\* Numbers of the events sent.
Sent == 1 .. Len(sent)

\* Stripe said this of the subscription once.
Told(s, is) == \E e \in Sent : sent[e].sub = s /\ sent[e].is = is

\* An event is stamped with its change, which is the last of a subscription that ended.
EventOf(e) ==
  LET x == sent[e] IN
    /\ x.at = x.is.since /\ 1 <= x.at /\ x.at <= truth[x.sub].since
    /\ x.is.status = "canceled" => truth[x.sub] = x.is
    /\ x.about = "paid" => x.is.status = "active"
    /\ x.about = "failed" => x.is.status = "past_due"
    /\ offer[x.sub] = "room" => x.about # "completed"

\* Stripe tells of every change of a room's subscription.
TruthOf(s) ==
  /\ truth[s].since <= now
  /\ truth[s].status = "none" => truth[s].since = 0
  /\ truth[s].status = "canceled" => truth[s].cause # "none"
  /\ offer[s] = "room" /\ truth[s].status # "none" =>
       \E e \in Sent : sent[e].sub = s /\ sent[e].about = "subscription" /\ sent[e].is = truth[s]

\* What the reconciliation lists was so once.
SnapshotOf(x) ==
  x.about = "subscription" /\ offer[x.sub] = "room" /\ Told(x.sub, x.is) /\ x.is.since <= now

\* An ending that was not read early was read with what the change before it made of the room, or
\* with what it made itself.
ReadInTime(w, s) ==
  /\ offer[s] = "room" /\ Asked(truth[s]) /\ ~Muddled(s) /\ course[s] # "outrun"
  /\ job[w].what.is = truth[s] /\ ~job[w].early
  => \/ course[s] # "plain" /\ job[w].room.reason \in {"ended", "over"}
     \/ job[w].room.reason = "recovering" <=> Failing(s)

\* What a request read when its transaction began.
JobOf(w) ==
  LET x == job[w].what IN
    Step(w, "read") =>
      /\ x \in Events
      /\ w # Reconciler => job[w].event \in Sent /\ x = sent[job[w].event]
      /\ w = Reconciler => SnapshotOf(x) /\ x.is.since <= x.at /\ x.at <= now
      /\ ReadInTime(w, x.sub)

\* An event marked as done was applied, or something newer was.
InboxOf(e) ==
  /\ inbox[e] # "none" => e \in Sent
  /\ inbox[e] = "processed" /\ offer[sent[e].sub] = "room" /\ sent[e].about = "subscription" =>
       row[sent[e].sub].at >= sent[e].at

\* The stamps of a subscription, and where a grace comes from.
StampsOf(s) ==
  /\ row[s].at <= now
  /\ room[s].at <= row[s].at \/ room[s].at <= truth[s].since
  /\ room[s].reason = "recovering" => room[s].state = "grace"
  /\ room[s].state = "grace" /\ room[s].reason # "recovering" =>
       truth[s].status = "canceled" /\ room[s].from = truth[s].since

\* What became of it last was applied, or a newer snapshot of it.
Applied(s) ==
  \/ row[s].at > truth[s].since
  \/ \E e \in Sent : /\ sent[e].sub = s /\ sent[e].about = "subscription" /\ sent[e].is = truth[s]
                     /\ inbox[e] = "processed"

\* Once it was, everything else that comes is older, and changes nothing.
FollowsStripe(s) ==
  offer[s] = "room" /\ Applied(s) /\ ~Muddled(s) /\ course[s] # "outrun" =>
    /\ row[s].status = truth[s].status /\ room[s].at >= truth[s].since
    /\ ~Asked(truth[s]) => room[s].state = StateOf(truth[s])
    /\ Asked(truth[s]) => course[s] # "plain"

\* The change before the last was applied, or a newer snapshot.
Preceded(s) ==
  \A e \in Preceding(s) :
    sent[e].about = "subscription" => inbox[e] = "processed" \/ row[s].at > sent[e].at

\* Room given up, until its ending is applied: it is what the change before made it.
Awaiting(s) ==
  /\ \A e \in Preceding(s) : room[s].at <= row[s].at \/ room[s].at <= sent[e].at
  /\ Preceded(s) => /\ room[s].reason = "recovering" <=> Failing(s)
                    /\ \A e \in Preceding(s) : room[s].at >= sent[e].at

\* And afterwards: older events change nothing.
Over(s) ==
  /\ row[s].status = truth[s].status /\ row[s].at >= truth[s].since /\ room[s].at >= truth[s].since
  /\ room[s].reason \in {"ended", "over"}
  /\ course[s] # "early" => room[s].state \in Right(s)

EndOf(s) ==
  /\ course[s] \notin {"plain", "outrun"} => Asked(truth[s])
  /\ offer[s] = "room" /\ Asked(truth[s]) => \E e \in Preceding(s) : sent[e].about = "subscription"
  /\ offer[s] = "room" /\ Asked(truth[s]) /\ ~Muddled(s) /\ course[s] # "outrun" =>
       IF course[s] = "plain" THEN Awaiting(s) ELSE Over(s)

Stripes == (\A e \in Sent : EventOf(e)) /\ (\A s \in Sub : TruthOf(s))

Requests == (\A w \in Worker \cup {Reconciler} : JobOf(w)) /\ (\A x \in listed : SnapshotOf(x))

Kept == (\A e \in 1 .. MaxEvents : InboxOf(e)) /\ (\A s \in Sub : StampsOf(s) /\ FollowsStripe(s) /\ EndOf(s))

IInv == TypeOK /\ Stripes /\ Requests /\ Kept
-----------------------------------------------------------------------------
Abouts == {"subscription", "paid", "failed", "completed"}

\* The events that tell of a change fit what changed.
Fit(s, to, abouts) ==
  /\ abouts \in Seq(Abouts) /\ Len(abouts) >= 1
  /\ \A i \in 1 .. Len(abouts) :
       /\ abouts[i] = "paid" => to.status = "active"
       /\ abouts[i] = "failed" => to.status = "past_due"
       /\ offer[s] = "room" => abouts[i] # "completed"
  /\ offer[s] = "room" => abouts[1] = "subscription"

\* What a change leaves: the truth is new, and so are the last events.
Changed(s) ==
  /\ truth' \in [Sub -> Subscriptions] /\ \A r \in Sub \ {s} : truth'[r] = truth[r]
  /\ truth'[s].since = now /\ truth'[s].status # "none"
  /\ truth'[s].status = "canceled" => truth'[s].cause # "none"
  /\ sent' \in Seq(Events) /\ Len(sent') <= MaxEvents /\ Len(sent) < Len(sent')
  /\ \A e \in Sent : sent'[e] = sent[e]
  /\ \A e \in 1 .. Len(sent') : e \notin Sent =>
       /\ sent'[e].sub = s /\ sent'[e].is = truth'[s] /\ sent'[e].at = now
       /\ sent'[e].about = "paid" => truth'[s].status = "active"
       /\ sent'[e].about = "failed" => truth'[s].status = "past_due"
       /\ offer[s] = "room" => sent'[e].about # "completed"
  /\ offer[s] = "room" => sent'[Len(sent) + 1].about = "subscription"
  /\ UNCHANGED <<now, offer, checkout, inbox, rows, job, listed, mishaps, course>>

LEMMA NowPasses == ASSUME TypeOK PROVE now \in Nat /\ now >= 1
BY WebPaymentsAssumption DEF TypeOK

LEMMA ChangeEffect ==
  ASSUME TypeOK, NEW s \in Sub, NEW to \in Subscriptions, to.status # "none",
         to.status = "canceled" => to.cause # "none", NEW abouts, Fit(s, to, abouts), Change(s, to, abouts)
  PROVE  Changed(s) /\ truth'[s].status = to.status
<1> DEFINE is == [to EXCEPT !.since = now]
           news == [i \in DOMAIN abouts |-> [sub |-> s, about |-> abouts[i], is |-> is, at |-> now]]
<1>1. is \in Subscriptions /\ is.status = to.status /\ is.cause = to.cause /\ is.since = now
  BY NowPasses DEF Subscriptions
<1>2. truth' = [truth EXCEPT ![s] = is] /\ sent' = sent \o news /\ Len(sent) + Len(abouts) <= MaxEvents
  BY DEF Change
<1>3. UNCHANGED <<now, offer, checkout, inbox, rows, job, listed, mishaps, course>>
  BY DEF Change
<1> HIDE DEF is
<1>4. abouts \in Seq(Abouts) /\ Len(abouts) \in Nat /\ Len(abouts) >= 1 /\ DOMAIN abouts = 1 .. Len(abouts)
  BY DEF Fit
<1>5. \A i \in 1 .. Len(abouts) : abouts[i] \in Abouts
  BY <1>4
<1>6. \A i \in 1 .. Len(abouts) : [sub |-> s, about |-> abouts[i], is |-> is, at |-> now] \in Events
  BY <1>1, <1>5, NowPasses DEF Events, Abouts
<1>7. news \in Seq(Events) /\ Len(news) = Len(abouts)
  BY <1>4, <1>6
<1>8. \A i \in 1 .. Len(abouts) :
        /\ news[i].sub = s /\ news[i].is = is /\ news[i].at = now /\ news[i].about = abouts[i]
  BY <1>4
<1> HIDE DEF news
<1>9. sent \in Seq(Events) /\ Len(sent) \in Nat
  BY DEF TypeOK
<1>10. /\ sent' \in Seq(Events) /\ Len(sent') = Len(sent) + Len(abouts)
       /\ \A i \in 1 .. Len(sent) + Len(abouts) :
            sent'[i] = IF i <= Len(sent) THEN sent[i] ELSE news[i - Len(sent)]
  <2>1. /\ sent \o news \in Seq(Events) /\ Len(sent \o news) = Len(sent) + Len(news)
        /\ \A i \in 1 .. Len(sent) + Len(news) :
             (sent \o news)[i] = IF i <= Len(sent) THEN sent[i] ELSE news[i - Len(sent)]
    BY <1>7, <1>9
  <2>2. sent' = sent \o news
    BY <1>2
  <2> QED
    BY <1>7, <2>1, <2>2
<1>11. \A e \in Sent : sent'[e] = sent[e]
  BY <1>4, <1>9, <1>10 DEF Sent
<1>12. \A e \in 1 .. Len(sent') : e \notin Sent =>
         e - Len(sent) \in 1 .. Len(abouts) /\ sent'[e] = news[e - Len(sent)]
  BY <1>4, <1>9, <1>10 DEF Sent
<1>13. truth' \in [Sub -> Subscriptions] /\ truth'[s] = is /\ \A r \in Sub \ {s} : truth'[r] = truth[r]
  BY <1>1, <1>2 DEF TypeOK
<1>14. \A e \in 1 .. Len(sent') : e \notin Sent =>
       /\ sent'[e].sub = s /\ sent'[e].is = truth'[s] /\ sent'[e].at = now
       /\ sent'[e].about = "paid" => truth'[s].status = "active"
       /\ sent'[e].about = "failed" => truth'[s].status = "past_due"
       /\ offer[s] = "room" => sent'[e].about # "completed"
  <2> SUFFICES ASSUME NEW e \in 1 .. Len(sent'), e \notin Sent
               PROVE  /\ sent'[e].sub = s /\ sent'[e].is = truth'[s] /\ sent'[e].at = now
                      /\ sent'[e].about = "paid" => truth'[s].status = "active"
                      /\ sent'[e].about = "failed" => truth'[s].status = "past_due"
                      /\ offer[s] = "room" => sent'[e].about # "completed"
    OBVIOUS
  <2>1. PICK i \in 1 .. Len(abouts) : sent'[e] = news[i]
    BY <1>12
  <2> QED
    BY <1>1, <1>8, <1>13, <2>1 DEF Fit
<1>15. offer[s] = "room" => sent'[Len(sent) + 1].about = "subscription"
  BY <1>4, <1>8, <1>9, <1>10 DEF Fit
<1>16. truth'[s].since = now /\ truth'[s].status # "none" /\ truth'[s].status = to.status
       /\ truth'[s].cause = to.cause
  BY <1>1, <1>13
<1>17. Len(sent') <= MaxEvents /\ Len(sent) < Len(sent')
  BY <1>2, <1>4, <1>9, <1>10
<1>18. Changed(s)
  BY <1>3, <1>10, <1>11, <1>13, <1>14, <1>15, <1>16, <1>17 DEF Changed
<1> QED
  BY <1>16, <1>18

LEMMA SubscriptionFields ==
  /\ NoSubscription \in Subscriptions
  /\ \A status \in Statuses :
       /\ [NoSubscription EXCEPT !.status = status] \in Subscriptions
       /\ [NoSubscription EXCEPT !.status = status].status = status
BY DEF NoSubscription, Subscriptions, Statuses

\* A change by Stripe is of a subscription not yet ended; otherwise a checkout goes on.
LEMMA PayingEffect ==
  ASSUME TypeOK, NEW s \in Sub,
         \/ Subscribe(s) \/ Pay(s) \/ FailPayment(s)
         \/ Cancel(s, "asked") \/ Cancel(s, "failed") \/ Lapse(s)
  PROVE  /\ Changed(s) /\ truth[s].status # "canceled"
         /\ truth'[s].status = "canceled" => truth[s].status # "none"
<1>1. Len(<<"subscription">>) = 1 /\ <<"subscription">> \in Seq(Abouts) /\ <<"subscription">>[1] = "subscription"
  BY DEF Abouts
<1>2. Len(<<"completed">>) = 1 /\ <<"completed">> \in Seq(Abouts) /\ <<"completed">>[1] = "completed"
  BY DEF Abouts
<1>3. ASSUME NEW to \in Subscriptions PROVE Fit(s, to, <<"subscription">>)
  BY <1>1 DEF Fit
<1>4. ASSUME NEW to \in Subscriptions, offer[s] # "room" PROVE Fit(s, to, <<"completed">>)
  BY <1>2, <1>4 DEF Fit
<1>5. ASSUME NEW to \in Subscriptions, to.status = "active" PROVE Fit(s, to, <<"subscription", "paid">>)
  BY <1>5 DEF Fit, Abouts
<1>6. ASSUME NEW to \in Subscriptions, to.status = "past_due" PROVE Fit(s, to, <<"subscription", "failed">>)
  BY <1>6 DEF Fit, Abouts
<1>7. ASSUME Invoiced(s, "active", "paid") PROVE Changed(s) /\ truth'[s].status # "canceled"
  BY <1>3, <1>5, <1>7, SubscriptionFields, ChangeEffect DEF Invoiced, Becomes, Statuses
<1>8. ASSUME Invoiced(s, "past_due", "failed") PROVE Changed(s) /\ truth'[s].status # "canceled"
  BY <1>3, <1>6, <1>8, SubscriptionFields, ChangeEffect DEF Invoiced, Becomes, Statuses
<1>9. ASSUME NEW status \in {"incomplete", "incomplete_expired"}, Becomes(s, status, <<"subscription">>)
      PROVE  Changed(s) /\ truth'[s].status # "canceled"
  BY <1>3, <1>9, SubscriptionFields, ChangeEffect DEF Becomes, Statuses
<1>10. ASSUME offer[s] = "image", Becomes(s, "active", <<"completed">>) PROVE Changed(s) /\ truth'[s].status # "canceled"
  BY <1>4, <1>10, SubscriptionFields, ChangeEffect DEF Becomes, Statuses
<1>11. ASSUME NEW cause \in {"asked", "failed"}, Cancel(s, cause) PROVE Changed(s) /\ truth[s].status # "none"
  <2> DEFINE to == [status |-> "canceled", cause |-> cause, since |-> now]
  <2>1. to \in Subscriptions /\ to.status = "canceled" /\ to.cause # "none"
    BY NowPasses DEF Subscriptions, Statuses
  <2>2. Change(s, to, <<"subscription">>)
    BY <1>11 DEF Cancel
  <2> HIDE DEF to
  <2> QED
    BY <1>3, <1>11, <2>1, <2>2, ChangeEffect DEF Cancel
<1>12. truth[s].status # "canceled"
  BY DEF Subscribe, Pay, FailPayment, Cancel, Lapse
<1> QED
  BY <1>7, <1>8, <1>9, <1>10, <1>11, <1>12 DEF Subscribe, Pay, FailPayment, Lapse
-----------------------------------------------------------------------------
(***************************************************************************)
(* What is read and what is written.                                       *)
(***************************************************************************)
Jobs == [step : {"idle", "read", "listing"}, event : 0 .. MaxEvents,
         what : Events \cup {None}, room : Rooms, status : Statuses, early : BOOLEAN]

Courses == {"plain", "once", "again", "early", "outrun"}

All == Worker \cup {Reconciler}

LEMMA NoRoomFields ==
  NoRoom \in Rooms /\ NoRoom.state = "none" /\ NoRoom.reason = "none" /\ NoRoom.at = 0
BY DEF NoRoom, Rooms

LEMMA IdleFields ==
  Idle \in Jobs /\ Idle.step = "idle" /\ [Idle EXCEPT !.step = "listing"] \in Jobs
  /\ [Idle EXCEPT !.step = "idle"] \in Jobs
  /\ [Idle EXCEPT !.step = "listing"].step = "listing" /\ [Idle EXCEPT !.step = "idle"].step = "idle"
<1>1. 0 \in 0 .. MaxEvents
  BY WebPaymentsAssumption
<1> QED
  BY <1>1, NoRoomFields DEF Idle, Jobs, Statuses

LEMMA ReadingFields ==
  ASSUME TypeOK, NEW x \in Events, NEW e \in 0 .. MaxEvents
  PROVE  /\ Reading(x, e) \in Jobs
         /\ Reading(x, e).step = "read" /\ Reading(x, e).event = e /\ Reading(x, e).what = x
         /\ Reading(x, e).room = room[x.sub] \/ Reading(x, e).room = NoRoom
         /\ Asked(x.is) => Reading(x, e).room = room[x.sub]
         /\ Reading(x, e).early <=> Early(x)
<1> DEFINE was == IF \/ x.about = "failed"
                     \/ x.about = "subscription" /\ x.is.status = "past_due"
                     \/ Asked(x.is)
                  THEN room[x.sub] ELSE NoRoom
           status == IF x.about = "subscription" THEN "none" ELSE row[x.sub].status
<1>1. x.sub \in Sub
  BY DEF Events
<1>2. was \in Rooms /\ (was = room[x.sub] \/ was = NoRoom) /\ (Asked(x.is) => was = room[x.sub])
  BY <1>1, NoRoomFields DEF TypeOK
<1>3. status \in Statuses
  BY <1>1 DEF TypeOK, Rows, Statuses
<1> DEFINE early == Early(x)
<1>4. Reading(x, e) = [step |-> "read", event |-> e, what |-> x, room |-> was, status |-> status,
                       early |-> early]
  BY Zenon DEF Reading
<1>5. early \in BOOLEAN /\ (early <=> Early(x))
  BY DEF Early
<1> HIDE DEF was, status, early
<1> QED
  BY <1>2, <1>3, <1>4, <1>5 DEF Jobs

LEMMA JobReplaced ==
  ASSUME TypeOK, NEW w \in All, NEW new \in Jobs, job' = [job EXCEPT ![w] = new]
  PROVE  job' \in [All -> Jobs] /\ job'[w] = new /\ \A v \in All \ {w} : job'[v] = job[v]
BY DEF TypeOK, Jobs, All

\* A room that a snapshot makes of the one that was read.
Makes(made, is, was, at) ==
  /\ made \in Rooms /\ made.at = at
  /\ is.status = "active" => made.state = "active"
  /\ is.status = "past_due" => made.state = "grace"
  /\ is.status = "incomplete" => made.state = "pending"
  /\ is.status \in {"canceled", "incomplete_expired", "none"} =>
       (made.state = "expired" /\ made.reason = "over") \/ EndedWithGrace(is, was)
  /\ EndedWithGrace(is, was) => made.state = "grace" /\ made.reason = "ended" /\ made.from = is.since
  /\ made.reason = "recovering" => is.status = "past_due"
  /\ made.state = "grace" /\ ~EndedWithGrace(is, was) =>
       is.status = "past_due" /\ made.reason = "recovering" /\ made.from = GraceFrom(was)

LEMMA RoomOfMakes ==
  ASSUME NEW is \in Subscriptions, NEW was \in Rooms, NEW at \in Nat, now \in Nat
  PROVE  Makes(RoomOf(is, was, at), is, was, at)
<1>1. GraceFrom(was) \in Nat
  BY DEF GraceFrom, Rooms
<1>2. CASE EndedWithGrace(is, was)
  <2> DEFINE made == [state |-> "grace", reason |-> "ended", from |-> is.since, at |-> at]
  <2>1. is.since \in Nat /\ is.status = "canceled"
    BY <1>2 DEF EndedWithGrace, Asked, Subscriptions
  <2>2. /\ made \in Rooms /\ made.at = at /\ made.state = "grace" /\ made.reason = "ended"
        /\ made.from = is.since
    BY <2>1 DEF Rooms
  <2>3. RoomOf(is, was, at) = made
    BY <1>2, <2>1 DEF RoomOf
  <2> HIDE DEF made
  <2> QED
    BY <1>2, <2>1, <2>2, <2>3 DEF Makes
<1>3. CASE ~EndedWithGrace(is, was) /\ is.status = "active"
  <2> DEFINE made == [NoRoom EXCEPT !.state = "active", !.at = at]
  <2>1. made \in Rooms /\ made.at = at /\ made.state = "active" /\ made.reason = "none"
    BY DEF Rooms, NoRoom
  <2>2. RoomOf(is, was, at) = made
    BY <1>3 DEF RoomOf
  <2> HIDE DEF made
  <2> QED
    BY <1>3, <2>1, <2>2 DEF Makes
<1>4. CASE ~EndedWithGrace(is, was) /\ is.status = "past_due"
  <2> DEFINE made == [state |-> "grace", reason |-> "recovering", from |-> GraceFrom(was), at |-> at]
  <2>1. /\ made \in Rooms /\ made.at = at /\ made.state = "grace" /\ made.reason = "recovering"
        /\ made.from = GraceFrom(was)
    BY <1>1 DEF Rooms
  <2>2. RoomOf(is, was, at) = made
    BY <1>4 DEF RoomOf
  <2> HIDE DEF made
  <2> QED
    BY <1>4, <2>1, <2>2 DEF Makes
<1>5. CASE ~EndedWithGrace(is, was) /\ is.status = "incomplete"
  <2> DEFINE made == [NoRoom EXCEPT !.state = "pending", !.at = at]
  <2>1. made \in Rooms /\ made.at = at /\ made.state = "pending" /\ made.reason = "none"
    BY DEF Rooms, NoRoom
  <2>2. RoomOf(is, was, at) = made
    BY <1>5 DEF RoomOf
  <2> HIDE DEF made
  <2> QED
    BY <1>5, <2>1, <2>2 DEF Makes
<1>6. CASE ~EndedWithGrace(is, was) /\ is.status \notin {"active", "past_due", "incomplete"}
  <2> DEFINE made == [NoRoom EXCEPT !.state = "expired", !.reason = "over", !.at = at]
  <2>1. made \in Rooms /\ made.at = at /\ made.state = "expired" /\ made.reason = "over"
    BY DEF Rooms, NoRoom
  <2>2. RoomOf(is, was, at) = made
    BY <1>6 DEF RoomOf
  <2> HIDE DEF made
  <2> QED
    BY <1>6, <2>1, <2>2 DEF Makes
<1> QED
  BY <1>2, <1>3, <1>4, <1>5, <1>6

\* Only the row and the room of one subscription are written.
OnlyOf(s) ==
  \A r \in Sub \ {s} : row'[r] = row[r] /\ room'[r] = room[r] /\ course'[r] = course[r]

\* A snapshot that is not older makes the row, and the room where that is not older either.
RowWritten(w, x, s) ==
  /\ row[s].at <= x.at
  /\ row'[s].status = x.is.status /\ row'[s].at = x.at
  /\ \/ room[s].at <= x.at /\ room'[s] = RoomOf(x.is, job[w].room, x.at)
     \/ room[s].at > x.at /\ room'[s] = room[s]
  /\ x.is = truth[s] => course'[s] = CourseOf(w, s)
  /\ x.is # truth[s] /\ w = Reconciler => course'[s] = "outrun"
  /\ x.is # truth[s] /\ w # Reconciler => course'[s] = course[s]

\* What applying leaves alone, one condition at a time.
LEMMA ApplyRoomEffect ==
  ASSUME TypeOK, NEW w \in All, job[w].what \in Events, ApplyRoom(w)
  PROVE  LET x == job[w].what  s == x.sub IN
         /\ OnlyOf(s) /\ row' \in [Sub -> Rows] /\ room' \in [Sub -> Rooms] /\ course' \in [Sub -> Courses]
         /\ slot' = slot
         /\ \/ RowWritten(w, x, s)
            \/ row[s].at > x.at /\ row' = row /\ room' = room /\ course' = course
<1> DEFINE x == job[w].what  s == x.sub
           new == [status |-> x.is.status, at |-> x.at]
           made == RoomOf(x.is, job[w].room, x.at)
           known == CourseOf(w, s)
<1>1. s \in Sub /\ x.is \in Subscriptions /\ x.at \in Nat /\ row[s].at \in Nat /\ room[s].at \in Nat
  BY DEF TypeOK, Events, Rows, Rooms
<1>2. job[w].room \in Rooms
  BY DEF TypeOK, All
<1>3. made \in Rooms
  BY <1>1, <1>2, NowPasses, RoomOfMakes DEF Makes
<1>4. new \in Rows /\ new.status = x.is.status /\ new.at = x.at
  BY <1>1 DEF Rows, Subscriptions, Statuses
<1>5. \/ /\ x.at >= row[s].at
         /\ row' = [row EXCEPT ![s] = new]
         /\ \/ x.at >= room[s].at /\ room' = [room EXCEPT ![s] = made]
            \/ ~(x.at >= room[s].at) /\ room' = room
         /\ \/ x.is = truth[s] /\ course' = [course EXCEPT ![s] = known]
            \/ x.is # truth[s] /\ w = Reconciler /\ course' = [course EXCEPT ![s] = "outrun"]
            \/ x.is # truth[s] /\ w # Reconciler /\ course' = course
      \/ ~(x.at >= row[s].at) /\ row' = row /\ room' = room /\ course' = course
  BY DEF ApplyRoom, NotNewer
<1>6. slot' = slot
  BY DEF ApplyRoom
<1>13. known \in Courses
  BY DEF CourseOf, Courses
<1> HIDE DEF x, s, new, made, known
<1>7. row \in [Sub -> Rows] /\ room \in [Sub -> Rooms] /\ course \in [Sub -> Courses]
  BY DEF TypeOK, Courses
<1>8. row' \in [Sub -> Rows] /\ \A r \in Sub \ {s} : row'[r] = row[r]
  BY <1>1, <1>4, <1>5, <1>7
<1>9. room' \in [Sub -> Rooms] /\ \A r \in Sub \ {s} : room'[r] = room[r]
  BY <1>1, <1>3, <1>5, <1>7
<1>10. course' \in [Sub -> Courses] /\ \A r \in Sub \ {s} : course'[r] = course[r]
  <2>1. "outrun" \in Courses
    BY DEF Courses
  <2> QED
    BY <1>1, <1>5, <1>7, <1>13, <2>1
<1>11. CASE x.at >= row[s].at
  <2>1. row'[s].status = x.is.status /\ row'[s].at = x.at
    BY <1>1, <1>4, <1>5, <1>7, <1>11
  <2>2. \/ room[s].at <= x.at /\ room'[s] = made
        \/ room[s].at > x.at /\ room'[s] = room[s]
    BY <1>1, <1>5, <1>7, <1>11
  <2>3. /\ x.is = truth[s] => course'[s] = known
        /\ x.is # truth[s] /\ w = Reconciler => course'[s] = "outrun"
        /\ x.is # truth[s] /\ w # Reconciler => course'[s] = course[s]
    BY <1>1, <1>5, <1>7, <1>11
  <2>4. RowWritten(w, x, s)
    BY <1>1, <1>11, <2>1, <2>2, <2>3 DEF RowWritten, made, known
  <2> QED
    BY <1>6, <1>8, <1>9, <1>10, <2>4 DEF OnlyOf, x, s
<1>12. CASE ~(x.at >= row[s].at)
  BY <1>1, <1>5, <1>6, <1>8, <1>9, <1>10, <1>12 DEF OnlyOf, x, s
<1> QED
  BY <1>11, <1>12

\* An invoice that is not older makes the room, and nothing else.
LEMMA ApplyInvoiceEffect ==
  ASSUME TypeOK, NEW w \in All, job[w].what \in Events, ApplyInvoice(w)
  PROVE  LET x == job[w].what  s == x.sub IN
         /\ OnlyOf(s) /\ row' = row /\ course' = course /\ slot' = slot /\ room' \in [Sub -> Rooms]
         /\ \/ room' = room
            \/ /\ room[s].at <= x.at /\ room'[s].at = x.at
               /\ x.about = "paid" => room'[s].state = "active" /\ room'[s].reason = "none"
               /\ x.about # "paid" => /\ room'[s].state = "grace" /\ room'[s].reason = "recovering"
                                      /\ room'[s].from = GraceFrom(job[w].room)
<1> DEFINE x == job[w].what  s == x.sub
           follows == [state |-> IF x.about = "paid" THEN "active" ELSE "grace",
                       reason |-> IF x.about = "paid" THEN "none" ELSE "recovering",
                       from |-> IF x.about = "paid" THEN 0 ELSE GraceFrom(job[w].room), at |-> x.at]
<1>1. s \in Sub /\ x.at \in Nat /\ room[s].at \in Nat
  BY DEF TypeOK, Events, Rooms
<1>2. job[w].room \in Rooms
  BY DEF TypeOK, All
<1>3. GraceFrom(job[w].room) \in Nat
  BY <1>2, NowPasses DEF GraceFrom, Rooms
<1>4. /\ follows \in Rooms /\ follows.at = x.at
      /\ x.about = "paid" => follows.state = "active" /\ follows.reason = "none"
      /\ x.about # "paid" => /\ follows.state = "grace" /\ follows.reason = "recovering"
                             /\ follows.from = GraceFrom(job[w].room)
  BY <1>1, <1>3 DEF Rooms
<1>5. row' = row /\ course' = course /\ slot' = slot
      /\ (room' = room \/ (x.at >= room[s].at /\ room' = [room EXCEPT ![s] = follows]))
  BY DEF ApplyInvoice, NotNewer
<1> HIDE DEF follows
<1>6. room' \in [Sub -> Rooms] /\ (\A r \in Sub \ {s} : room'[r] = room[r])
      /\ (room' = room \/ (room[s].at <= x.at /\ room'[s] = follows))
  BY <1>1, <1>4, <1>5 DEF TypeOK
<1> QED
  BY <1>4, <1>5, <1>6 DEF OnlyOf
-----------------------------------------------------------------------------
(***************************************************************************)
(* Stripe changes a subscription, or a checkout goes on.                   *)
(***************************************************************************)
LEMMA TypeFacts ==
  ASSUME TypeOK
  PROVE  /\ Len(sent) \in Nat /\ Len(sent) <= MaxEvents /\ Sent \subseteq 1 .. MaxEvents
         /\ \A e \in Sent : sent[e] \in Events /\ sent[e].sub \in Sub /\ sent[e].at \in Nat
                            /\ sent[e].is \in Subscriptions
         /\ \A s \in Sub : /\ truth[s] \in Subscriptions /\ truth[s].since \in Nat
                           /\ row[s].at \in Nat /\ room[s].at \in Nat
<1>1. sent \in Seq(Events) /\ Len(sent) \in Nat /\ Len(sent) <= MaxEvents /\ MaxEvents \in Nat
  BY WebPaymentsAssumption DEF TypeOK
<1>2. \A e \in Sent : sent[e] \in Events
  BY <1>1 DEF Sent
<1>3. \A x \in Events : x.sub \in Sub /\ x.at \in Nat /\ x.is \in Subscriptions
  BY DEF Events
<1> QED
  BY <1>1, <1>2, <1>3 DEF TypeOK, Sent, Subscriptions, Rows, Rooms

LEMMA ChangedExtends ==
  ASSUME TypeOK, NEW s \in Sub, Changed(s)
  PROVE  /\ Len(sent') \in Nat /\ Sent' \subseteq 1 .. MaxEvents /\ Sent \subseteq Sent' /\ Len(sent) + 1 \in Sent' /\ Len(sent) + 1 \notin Sent
         /\ \A e \in Sent : sent'[e] = sent[e]
<1>1. Len(sent) \in Nat /\ Len(sent') \in Nat /\ Len(sent) < Len(sent')
  BY TypeFacts DEF Changed
<1>2. Sent \subseteq Sent' /\ Len(sent) + 1 \in Sent' /\ Len(sent) + 1 \notin Sent
  BY <1>1 DEF Sent
<1>7. Sent' \subseteq 1 .. MaxEvents
  BY <1>1, WebPaymentsAssumption DEF Changed, Sent
<1>3. \A e \in Sent : sent'[e] = sent[e]
  BY DEF Changed
<1> QED
  BY <1>1, <1>2, <1>3, <1>7

\* The events of the change before.
LEMMA PrecedingIs ==
  ASSUME NEW s \in Sub, NEW e
  PROVE  e \in Preceding(s) <=>
           /\ e \in Sent /\ sent[e].sub = s /\ sent[e].is # truth[s]
           /\ \A f \in Sent : sent[f].sub = s /\ sent[f].is # truth[s] => sent[f].at <= sent[e].at
BY DEF Preceding, Sent

\* They stay what they are while their subscription does.
LEMMA PrecedingStays ==
  ASSUME TypeOK, NEW s \in Sub, Changed(s), NEW r \in Sub \ {s}
  PROVE  Preceding(r)' = Preceding(r) /\ \A e \in Preceding(r) : sent'[e] = sent[e]
<1>1. truth'[r] = truth[r] /\ Sent \subseteq Sent' /\ (\A e \in Sent : sent'[e] = sent[e])
      /\ \A e \in Sent' : e \notin Sent => sent'[e].sub = s
  BY ChangedExtends DEF Changed, Sent
<1>2. ASSUME NEW e
      PROVE  e \in Preceding(r)' <=>
               /\ e \in Sent' /\ sent'[e].sub = r /\ sent'[e].is # truth'[r]
               /\ \A f \in Sent' : sent'[f].sub = r /\ sent'[f].is # truth'[r] => sent'[f].at <= sent'[e].at
  BY DEF Preceding, Sent
<1>3. \A e \in Sent' : sent'[e].sub = r => e \in Sent
  BY <1>1
<1>4. ASSUME NEW e, e \in Preceding(r)' PROVE e \in Preceding(r)
  <2>1. e \in Sent /\ sent[e].sub = r /\ sent[e].is # truth[r]
    BY <1>1, <1>2, <1>3, <1>4
  <2>2. \A f \in Sent : sent[f].sub = r /\ sent[f].is # truth[r] => sent[f].at <= sent[e].at
    BY <1>1, <1>2, <1>4, <2>1
  <2> QED
    BY <2>1, <2>2, PrecedingIs
<1>5. ASSUME NEW e, e \in Preceding(r) PROVE e \in Preceding(r)' /\ sent'[e] = sent[e]
  <2>1. /\ e \in Sent /\ sent[e].sub = r /\ sent[e].is # truth[r]
        /\ \A f \in Sent : sent[f].sub = r /\ sent[f].is # truth[r] => sent[f].at <= sent[e].at
    BY <1>5, PrecedingIs
  <2>2. \A f \in Sent' : sent'[f].sub = r /\ sent'[f].is # truth'[r] => sent'[f].at <= sent'[e].at
    BY <1>1, <1>3, <2>1
  <2> QED
    BY <1>1, <1>2, <2>1, <2>2
<1> QED
  BY <1>4, <1>5

\* What was told stays told, and what was muddled stays muddled.
LEMMA StillTold ==
  ASSUME TypeOK, NEW s \in Sub, Changed(s), NEW r \in Sub, NEW is
  PROVE  /\ Told(r, is) => Told(r, is)'
         /\ Muddled(r) => Muddled(r)'
<1>2. Sent \subseteq Sent'
  BY ChangedExtends
<1>3. \A e \in Sent : sent'[e] = sent[e]
  BY ChangedExtends
<1>4. ASSUME Told(r, is) PROVE Told(r, is)'
  <2>1. PICK e \in Sent : sent[e].sub = r /\ sent[e].is = is
    BY <1>4 DEF Told
  <2>2. e \in Sent' /\ sent'[e].sub = r /\ sent'[e].is = is
    BY <1>2, <1>3, <2>1
  <2> QED
    BY <2>2 DEF Told
<1>6. ASSUME Muddled(r) PROVE Muddled(r)'
  <2>1. PICK e \in Sent, f \in Sent :
          sent[e].sub = r /\ sent[f].sub = r /\ sent[e].at = sent[f].at /\ sent[e].is # sent[f].is
    BY <1>6 DEF Muddled, Sent
  <2>2. e \in Sent' /\ f \in Sent' /\ sent'[e] = sent[e] /\ sent'[f] = sent[f]
    BY <1>2, <1>3, <2>1
  <2> QED
    BY <2>1, <2>2 DEF Muddled, Sent
<1> QED
  BY <1>4, <1>6

LEMMA ChangedTypes ==
  ASSUME TypeOK, NEW s \in Sub, Changed(s)
  PROVE  TypeOK'
BY DEF TypeOK, Changed, rows

LEMMA ChangedStripes ==
  ASSUME IInv, NEW s \in Sub, Changed(s), truth[s].status # "canceled"
  PROVE  Stripes'
<1> USE TypeFacts, ChangedExtends DEF IInv
<1>1. offer' = offer /\ now' = now /\ truth'[s].since = now /\ (\A r \in Sub \ {s} : truth'[r] = truth[r])
  BY DEF Changed
<1>2. now \in Nat /\ now >= 1 /\ truth[s].since <= now
  BY NowPasses DEF Stripes, TruthOf
<1>3. ASSUME NEW e \in Sent' PROVE EventOf(e)'
  <2>1. CASE e \in Sent
    <3>1. EventOf(e) /\ sent'[e] = sent[e] /\ sent[e].sub \in Sub /\ sent[e].at \in Nat
      BY <2>1 DEF Stripes
    <3>2. CASE sent[e].sub = s
      BY <1>1, <1>2, <3>1, <3>2 DEF EventOf
    <3>3. CASE sent[e].sub # s
      BY <1>1, <3>1, <3>3 DEF EventOf
    <3> QED
      BY <3>2, <3>3
  <2>2. CASE e \notin Sent
    <3>1. /\ sent'[e].sub = s /\ sent'[e].is = truth'[s] /\ sent'[e].at = now
          /\ sent'[e].about = "paid" => truth'[s].status = "active"
          /\ sent'[e].about = "failed" => truth'[s].status = "past_due"
          /\ offer[s] = "room" => sent'[e].about # "completed"
      BY <2>2 DEF Changed, Sent
    <3> QED
      BY <1>1, <1>2, <3>1 DEF EventOf
  <2> QED
    BY <2>1, <2>2
<1>4. ASSUME NEW r \in Sub PROVE TruthOf(r)'
  <2>1. CASE r = s
    <3> DEFINE e == Len(sent) + 1
    <3>1. e \in Sent' /\ e \notin Sent
      OBVIOUS
    <3>2. sent'[e].sub = s /\ sent'[e].is = truth'[s]
      BY <3>1 DEF Changed, Sent
    <3>3. offer[s] = "room" => sent'[e].about = "subscription"
      BY DEF Changed
    <3>4. truth'[s].status # "none" /\ (truth'[s].status = "canceled" => truth'[s].cause # "none")
      BY DEF Changed
    <3> QED
      BY <1>1, <1>2, <2>1, <3>1, <3>2, <3>3, <3>4 DEF TruthOf
  <2>2. CASE r # s
    <3>1. TruthOf(r) /\ truth'[r] = truth[r]
      BY <1>1, <2>2 DEF Stripes
    <3>2. \A e \in Sent : e \in Sent' /\ sent'[e] = sent[e]
      OBVIOUS
    <3> QED
      BY <1>1, <3>1, <3>2 DEF TruthOf
  <2> QED
    BY <2>1, <2>2
<1> QED
  BY <1>3, <1>4 DEF Stripes

LEMMA ChangedRequests ==
  ASSUME IInv, NEW s \in Sub, Changed(s), truth[s].status # "canceled"
  PROVE  Requests'
<1> USE DEF IInv
<1>1. offer' = offer /\ now' = now /\ job' = job /\ listed' = listed
  BY DEF Changed
<1>2. ASSUME NEW x \in Events, SnapshotOf(x) PROVE SnapshotOf(x)'
  <2>1. x.sub \in Sub
    BY DEF Events
  <2> QED
    BY <1>1, <1>2, <2>1, StillTold DEF SnapshotOf
<1>3. ASSUME NEW w \in Worker \cup {Reconciler} PROVE JobOf(w)'
  <2>1. JobOf(w)
    BY DEF Requests
  <2>2. CASE Step(w, "read")
    <3>1. job[w].what \in Events /\ job[w].what.sub \in Sub
      BY <2>1, <2>2 DEF JobOf, Events
    <3>2. ReadInTime(w, job[w].what.sub)'
      <4>1. PICK r \in Sub : r = job[w].what.sub
        BY <3>1
      <4>2. ReadInTime(w, r)
        BY <2>1, <2>2, <4>1 DEF JobOf
      <4>3. CASE r # s
        <5>1. truth'[r] = truth[r] /\ course' = course /\ (Failing(r)' <=> Failing(r))
          BY <4>3, PrecedingStays DEF Changed, Failing
        <5> QED
          BY <1>1, <4>1, <4>2, <5>1, StillTold DEF ReadInTime, Asked
      \* What was told once is no new ending.
      <4>4. CASE r = s
        <5>1. ASSUME Asked(truth'[s]), job[w].what.is = truth'[s], offer[s] = "room" PROVE FALSE
          <6>1. PICK e \in Sent : sent[e].sub = s /\ sent[e].is = truth'[s]
            <7>1. CASE w # Reconciler
              BY <2>1, <2>2, <4>1, <4>4, <5>1, <7>1 DEF JobOf
            <7>2. CASE w = Reconciler
              BY <2>1, <2>2, <4>1, <4>4, <5>1, <7>2 DEF JobOf, SnapshotOf, Told
            <7> QED
              BY <7>1, <7>2
          <6> QED
            BY <5>1, <6>1 DEF Stripes, EventOf, Asked
        <5> QED
          BY <1>1, <4>1, <4>4, <5>1 DEF ReadInTime, Asked
      <4> QED
        BY <1>1, <4>1, <4>3, <4>4
    <3>3. job[w].event \in Sent => job[w].event \in Sent' /\ sent'[job[w].event] = sent[job[w].event]
      BY ChangedExtends
    <3> QED
      BY <1>1, <1>2, <2>1, <2>2, <3>1, <3>2, <3>3 DEF JobOf, Step
  <2> QED
    BY <1>1, <2>2 DEF JobOf, Step
<1>4. listed \subseteq Events
  BY DEF TypeOK
<1> QED
  BY <1>1, <1>2, <1>3, <1>4 DEF Requests

\* What precedes a change that has just come is the one that was the last before.
LEMMA ChangedPrecedes ==
  ASSUME IInv, NEW s \in Sub, Changed(s), offer[s] = "room", truth'[s].status = "canceled",
         truth[s].status \notin {"none", "canceled"}
  PROVE  /\ \E f \in Preceding(s)' : f \in Sent /\ sent[f].about = "subscription"
         /\ \A e \in Preceding(s)' : /\ e \in Sent /\ sent'[e] = sent[e] /\ sent[e].sub = s
                                     /\ sent[e].at = truth[s].since
         /\ ~Muddled(s)' => \A e \in Preceding(s)' : sent[e].is = truth[s]
<1> USE TypeFacts, ChangedExtends DEF IInv
<1>1. /\ \A e \in Sent : sent'[e] = sent[e]
      /\ \A e \in Sent' : e \notin Sent => sent'[e].is = truth'[s]
  BY DEF Changed, Sent
<1>2. ASSUME NEW e
      PROVE  e \in Preceding(s)' <=>
               /\ e \in Sent' /\ sent'[e].sub = s /\ sent'[e].is # truth'[s]
               /\ \A f \in Sent' : sent'[f].sub = s /\ sent'[f].is # truth'[s] => sent'[f].at <= sent'[e].at
  BY DEF Preceding, Sent
<1>3. PICK f \in Sent : sent[f].sub = s /\ sent[f].about = "subscription" /\ sent[f].is = truth[s]
  BY DEF Stripes, TruthOf
<1>4. sent[f].at = truth[s].since
  BY <1>3 DEF Stripes, EventOf
<1>5. \A e \in Sent : sent[e].sub = s => sent[e].at \in Nat /\ sent[e].at <= truth[s].since
  BY DEF Stripes, EventOf
<1>6. f \in Sent' /\ sent'[f] = sent[f] /\ sent[f].is # truth'[s]
  BY <1>1, <1>3
<1>7. \A e \in Sent' : sent'[e].sub = s /\ sent'[e].is # truth'[s] => e \in Sent /\ sent'[e] = sent[e]
  BY <1>1
<1>8. \A e \in Sent' : sent'[e].sub = s /\ sent'[e].is # truth'[s] => sent'[e].at <= sent'[f].at
  BY <1>4, <1>5, <1>6, <1>7
<1>9. f \in Preceding(s)'
  BY <1>2, <1>3, <1>6, <1>8
<1>10. ASSUME NEW e \in Preceding(s)'
       PROVE  e \in Sent /\ sent'[e] = sent[e] /\ sent[e].sub = s /\ sent[e].at = truth[s].since
  <2>1. /\ e \in Sent' /\ sent'[e].sub = s /\ sent'[e].is # truth'[s]
        /\ \A g \in Sent' : sent'[g].sub = s /\ sent'[g].is # truth'[s] => sent'[g].at <= sent'[e].at
    BY <1>2, <1>10
  <2>2. e \in Sent /\ sent'[e] = sent[e] /\ sent[e].sub = s
    BY <1>7, <2>1
  <2>3. sent[f].at <= sent[e].at
    BY <1>3, <1>6, <2>1, <2>2
  <2>4. sent[e].at \in Nat /\ sent[e].at <= truth[s].since /\ truth[s].since \in Nat
    BY <1>5, <2>2
  <2> QED
    BY <1>4, <2>2, <2>3, <2>4
<1>11. ASSUME ~Muddled(s)', NEW e \in Preceding(s)' PROVE sent[e].is = truth[s]
  <2>1. e \in Sent /\ sent'[e] = sent[e] /\ sent[e].sub = s /\ sent[e].at = sent[f].at /\ e \in Sent'
    BY <1>4, <1>10, <1>11
  <2> QED
    BY <1>3, <1>6, <1>11, <2>1 DEF Muddled, Sent
<1> QED
  BY <1>3, <1>9, <1>10, <1>11

LEMMA ChangedEnd ==
  ASSUME IInv, NEW s \in Sub, Changed(s), truth[s].status # "canceled",
         truth'[s].status = "canceled" => truth[s].status # "none", NEW r \in Sub
  PROVE  EndOf(r)'
<1> USE DEF IInv
<1>1. /\ offer' = offer /\ inbox' = inbox /\ row' = row /\ room' = room /\ course' = course
  BY DEF Changed, rows
<1>2. EndOf(r) /\ StampsOf(r) /\ FollowsStripe(r)
  BY DEF Kept
<1>3. CASE r # s
  <2>1. /\ truth'[r] = truth[r] /\ Preceding(r)' = Preceding(r)
        /\ \A e \in Preceding(r) : sent'[e] = sent[e]
    BY <1>3, PrecedingStays DEF Changed
  <2>2. (Failing(r)' <=> Failing(r)) /\ (Preceded(r)' <=> Preceded(r))
    BY <1>1, <2>1 DEF Failing, Preceded
  <2>3. Right(r)' = Right(r)
    BY <1>1, <2>1, <2>2 DEF Right
  <2>4. (Awaiting(r) => Awaiting(r)') /\ (Over(r) => Over(r)')
    BY <1>1, <2>1, <2>2, <2>3 DEF Awaiting, Over
  <2>5. Muddled(r) => Muddled(r)'
    BY StillTold
  <2> QED
    BY <1>1, <1>2, <2>1, <2>4, <2>5 DEF EndOf
<1>4. CASE r = s
  <2>1. course[s] \in {"plain", "outrun"}
    BY <1>2, <1>4 DEF EndOf, Asked
  <2>2. ASSUME offer[s] = "room", Asked(truth'[s])
        PROVE  /\ \E e \in Preceding(s)' : sent'[e].about = "subscription"
               /\ ~Muddled(s)' /\ course[s] = "plain" => Awaiting(s)'
    <3>1. truth[s].status \notin {"none", "canceled"} /\ truth'[s].status = "canceled" /\ ~Asked(truth[s])
      BY <2>2 DEF Asked
    <3>2. PICK f \in Preceding(s)' : f \in Sent /\ sent[f].about = "subscription"
      BY <2>2, <3>1, ChangedPrecedes
    <3>3. \A e \in Preceding(s)' : e \in Sent /\ sent'[e] = sent[e] /\ sent[e].sub = s
                                  /\ sent[e].at = truth[s].since
      BY <2>2, <3>1, ChangedPrecedes
    <3>4. ASSUME ~Muddled(s)', course[s] = "plain" PROVE Awaiting(s)'
      <4>1. \A e \in Preceding(s)' : sent[e].is = truth[s]
        BY <2>2, <3>1, <3>4, ChangedPrecedes
      <4>2. Failing(s)' <=> truth[s].status = "past_due"
        BY <3>2, <3>3, <4>1 DEF Failing
      <4>3. ASSUME Preceded(s)'
            PROVE  (room[s].reason = "recovering" <=> Failing(s)') /\ room[s].at >= truth[s].since
        <5>1. inbox[f] = "processed" \/ row[s].at > truth[s].since
          BY <1>1, <3>2, <3>3, <4>3 DEF Preceded
        <5>2. Applied(s)
          BY <3>2, <3>3, <4>1, <5>1 DEF Applied
        <5>3. room[s].at >= truth[s].since /\ room[s].state = StateOf(truth[s])
          BY <1>2, <1>4, <2>2, <3>1, <3>4, <5>2, StillTold DEF FollowsStripe
        <5>4. room[s].state = "grace" <=> truth[s].status = "past_due"
          BY <3>1, <5>3 DEF StateOf
        <5> QED
          BY <1>2, <1>4, <3>1, <4>2, <5>3, <5>4 DEF StampsOf
      <4>4. \A e \in Preceding(s)' : room[s].at <= row[s].at \/ room[s].at <= sent'[e].at
        BY <1>2, <1>4, <3>3 DEF StampsOf
      <4>5. Preceded(s)' => \A e \in Preceding(s)' : room[s].at >= sent'[e].at
        BY <3>3, <4>3
      <4> QED
        BY <1>1, <4>3, <4>4, <4>5 DEF Awaiting
    <3> QED
      BY <3>2, <3>3, <3>4
  <2> QED
    BY <1>1, <1>4, <2>1, <2>2 DEF EndOf
<1> QED
  BY <1>3, <1>4

LEMMA ChangedKept ==
  ASSUME IInv, NEW s \in Sub, Changed(s), truth[s].status # "canceled",
         truth'[s].status = "canceled" => truth[s].status # "none"
  PROVE  Kept'
<1> USE DEF IInv
<1>1. /\ offer' = offer /\ now' = now /\ inbox' = inbox /\ row' = row /\ room' = room /\ course' = course
      /\ truth'[s].since = now /\ (\A r \in Sub \ {s} : truth'[r] = truth[r])
  BY DEF Changed, rows
<1>2. ASSUME NEW e \in 1 .. MaxEvents PROVE InboxOf(e)'
  <2>1. InboxOf(e)
    BY DEF Kept
  <2> QED
    BY <1>1, <2>1, ChangedExtends DEF InboxOf
<1>3. ASSUME NEW r \in Sub PROVE StampsOf(r)'
  <2>1. StampsOf(r) /\ truth[r].since \in Nat /\ now \in Nat /\ truth[r].since <= now
    BY TypeFacts, NowPasses DEF Kept, Stripes, TruthOf
  <2>2. room[r].at \in Nat /\ row[r].at \in Nat
    BY TypeFacts
  <2>3. truth[r].since <= truth'[r].since /\ (truth[r].status = "canceled" => truth'[r] = truth[r])
    BY <1>1, <2>1
  <2>4. truth'[r].since \in Nat
    BY <1>1, <2>1, NowPasses
  <2> QED
    BY <1>1, <2>1, <2>2, <2>3, <2>4, StillTold DEF StampsOf
<1>4. ASSUME NEW r \in Sub PROVE FollowsStripe(r)'
  <2>1. SUFFICES ASSUME offer[r] = "room", Applied(r)', ~Muddled(r)', course[r] # "outrun"
                 PROVE  (/\ row[r].status = truth[r].status /\ room[r].at >= truth[r].since
                         /\ ~Asked(truth[r]) => room[r].state = StateOf(truth[r])
                         /\ Asked(truth[r]) => course[r] # "plain")'
    BY <1>1 DEF FollowsStripe
  <2>2. ~Muddled(r)
    BY <2>1, StillTold
  <2>3. ASSUME truth'[r] = truth[r] 
        PROVE  (/\ row[r].status = truth[r].status /\ room[r].at >= truth[r].since
                /\ ~Asked(truth[r]) => room[r].state = StateOf(truth[r])
                /\ Asked(truth[r]) => course[r] # "plain")'
    <3>1. ASSUME NEW e \in Sent', sent'[e].sub = r, sent'[e].about = "subscription",
                 sent'[e].is = truth'[r], inbox[e] = "processed"
          PROVE  Applied(r)
      <4>1. e \in Sent
        <5>1. e \in 1 .. MaxEvents
          BY ChangedExtends
        <5> QED
          BY <3>1, <5>1 DEF Kept, InboxOf
      <4>2. sent'[e] = sent[e]
        BY <4>1, ChangedExtends
      <4> QED
        BY <2>3, <3>1, <4>1, <4>2 DEF Applied
    <3>2. Applied(r)
      BY <1>1, <2>1, <2>3, <3>1 DEF Applied
    <3> QED
      BY <1>1, <2>1, <2>2, <2>3, <3>2 DEF Kept, FollowsStripe, Asked, StateOf
  <2>4. ASSUME truth'[r] # truth[r] PROVE FALSE
    <3>1. r = s
      BY <1>1, <2>4
    <3>2. row[s].at \in Nat /\ now \in Nat /\ row[s].at <= now
      BY TypeFacts, NowPasses DEF Kept, StampsOf
    <3>3. PICK e \in Sent' : /\ sent'[e].sub = s /\ sent'[e].about = "subscription"
                             /\ sent'[e].is = truth'[s] /\ inbox[e] = "processed"
      BY <1>1, <2>1, <3>1, <3>2 DEF Applied
    <3>4. e \in Sent /\ sent'[e] = sent[e]
      <4>1. e \in 1 .. MaxEvents
        BY ChangedExtends
      <4> QED
        BY <3>3, <4>1, ChangedExtends DEF Kept, InboxOf
    <3>5. sent[e].at = now /\ sent[e].at <= truth[s].since /\ now >= 1
      BY <1>1, <3>3, <3>4, NowPasses DEF Stripes, EventOf
    <3>6. truth[s].since = now
      BY <3>5, TypeFacts, NowPasses DEF Stripes, TruthOf
    <3>7. truth[s].status # "none"
      BY <3>5, <3>6, NowPasses DEF Stripes, TruthOf
    <3>8. PICK f \in Sent : sent[f].sub = s /\ sent[f].is = truth[s]
      BY <2>1, <3>1, <3>7 DEF Stripes, TruthOf
    <3>9. sent[f].at = now
      BY <3>6, <3>8 DEF Stripes, EventOf
    <3> QED
      BY <2>2, <2>4, <3>1, <3>3, <3>4, <3>5, <3>8, <3>9 DEF Muddled, Sent
  <2> QED
    BY <2>3, <2>4
<1> QED
  BY <1>2, <1>3, <1>4, ChangedEnd DEF Kept
-----------------------------------------------------------------------------
(***************************************************************************)
(* A request writes what it decided.                                       *)
(***************************************************************************)
\* One that read applies to the rows of its own subscription.
Writing(w) ==
  /\ Step(w, "read") /\ Apply(w)
  /\ UNCHANGED <<now, offer, truth, sent>>
  /\ inbox' \in [1 .. MaxEvents -> {"none", "processing", "stale", "processed", "failed"}]
  /\ \A e \in 1 .. MaxEvents :
       inbox'[e] = inbox[e] \/ (w \in Worker /\ e = job[w].event /\ inbox'[e] = "processed")

LEMMA WritingTypes ==
  ASSUME IInv, NEW w \in All, Step(w, "read"), Apply(w)
  PROVE  /\ row' \in [Sub -> Rows] /\ room' \in [Sub -> Rooms] /\ course' \in [Sub -> Courses]
         /\ slot' \in [Sub -> {"none", "pending", "active", "grace", "canceled"}]
<1> DEFINE x == job[w].what
<1>0. TypeOK /\ x \in Events
  BY DEF IInv, Requests, JobOf, All
<1>1. CASE offer[x.sub] # "room"
  <2>1. ApplySlot(w)
    BY <1>1 DEF Apply
  <2>2. SlotOf(x.is) \in {"none", "pending", "active", "grace", "canceled"}
    BY DEF SlotOf
  <2>3. slot' = slot \/ slot' = [slot EXCEPT ![x.sub] = SlotOf(x.is)] \/ slot' = [slot EXCEPT ![x.sub] = "active"]
    BY <2>1 DEF ApplySlot
  <2>4. row' = row /\ room' = room /\ course' = course
    BY <2>1 DEF ApplySlot
  <2> QED
    BY <1>0, <2>2, <2>3, <2>4 DEF TypeOK, Courses
<1>2. CASE offer[x.sub] = "room" /\ x.about = "subscription"
  <2>1. ApplyRoom(w)
    BY <1>2 DEF Apply
  <2> QED
    BY <1>0, <2>1, ApplyRoomEffect DEF TypeOK
<1>3. CASE offer[x.sub] = "room" /\ x.about # "subscription"
  <2>1. ApplyInvoice(w)
    BY <1>3 DEF Apply
  <2> QED
    BY <1>0, <2>1, ApplyInvoiceEffect DEF TypeOK, Courses
<1> QED
  BY <1>1, <1>2, <1>3

\* What a request is about, and when it was.
LEMMA WritingFacts ==
  ASSUME IInv, NEW w \in All, Step(w, "read")
  PROVE  LET x == job[w].what  s == x.sub IN
         /\ x \in Events /\ s \in Sub /\ x.at \in Nat /\ x.is \in Subscriptions /\ x.at <= now
         /\ x.is.since <= x.at
         /\ w # Reconciler => /\ job[w].event \in Sent /\ x = sent[job[w].event]
                              /\ x.at = x.is.since /\ x.at <= truth[s].since
         /\ w = Reconciler => x.about = "subscription"
         /\ job[w].room \in Rooms
         /\ ReadInTime(w, s)
         /\ offer[s] = "room" =>
              /\ x.about \in {"subscription", "paid", "failed"}
              /\ x.about = "paid" => x.is.status = "active"
              /\ x.about = "failed" => x.is.status = "past_due"
              /\ x.is.status = "canceled" => truth[s] = x.is
<1> DEFINE x == job[w].what  s == x.sub
<1>1. TypeOK /\ JobOf(w)
  BY DEF IInv, Requests, All
<1>2. x \in Events /\ s \in Sub /\ x.at \in Nat /\ x.is \in Subscriptions
      /\ x.about \in {"subscription", "paid", "failed", "completed"}
  BY <1>1 DEF JobOf, Events
<1>3. job[w].room \in Rooms
  BY <1>1 DEF TypeOK, All
<1>4. ReadInTime(w, s)
  BY <1>1 DEF JobOf
<1>5. CASE w # Reconciler
  <2>1. job[w].event \in Sent /\ x = sent[job[w].event]
    BY <1>1, <1>5 DEF JobOf
  <2>2. EventOf(job[w].event)
    BY <2>1 DEF IInv, Stripes
  <2>3. truth[s].since <= now /\ truth[s].since \in Nat
    BY <1>1, <1>2, TypeFacts DEF IInv, Stripes, TruthOf
  <2>4. /\ x.at = x.is.since /\ 1 <= x.at /\ x.at <= truth[x.sub].since
        /\ x.is.status = "canceled" => truth[x.sub] = x.is
        /\ x.about = "paid" => x.is.status = "active"
        /\ x.about = "failed" => x.is.status = "past_due"
        /\ offer[x.sub] = "room" => x.about # "completed"
    BY <2>1, <2>2 DEF EventOf
  <2>6. x.at <= now
    BY <1>1, <1>2, <2>3, <2>4, NowPasses
  <2> QED
    BY <1>2, <1>3, <1>4, <1>5, <2>1, <2>4, <2>6
<1>6. CASE w = Reconciler
  <2>1. SnapshotOf(x) /\ x.is.since <= x.at /\ x.at <= now
    BY <1>1, <1>6 DEF JobOf
  <2>2. PICK e \in Sent : sent[e].sub = s /\ sent[e].is = x.is
    BY <2>1 DEF SnapshotOf, Told
  <2>4. EventOf(e)
    BY DEF IInv, Stripes
  <2>5. x.is.status = "canceled" => truth[s] = x.is
    BY <2>2, <2>4 DEF EventOf
  <2> QED
    BY <1>2, <1>3, <1>4, <1>6, <2>1, <2>5 DEF SnapshotOf
<1> QED
  BY <1>5, <1>6

LEMMA WrittenStamps ==
  ASSUME IInv, NEW w \in All, Writing(w), NEW r \in Sub
  PROVE  StampsOf(r)' /\ row'[r].at >= row[r].at
<1> DEFINE x == job[w].what  s == x.sub
<1>0. TypeOK /\ StampsOf(r) /\ truth' = truth /\ sent' = sent /\ now' = now /\ now \in Nat
      /\ row[r].at \in Nat /\ room[r].at \in Nat /\ truth[r].since \in Nat
  BY TypeFacts, NowPasses DEF IInv, Kept, Writing
<1>2. CASE row'[r] = row[r] /\ room'[r] = room[r]
  BY <1>0, <1>2 DEF StampsOf
<1>3. CASE offer[s] # "room"
  <2>1. row' = row /\ room' = room
    BY <1>3 DEF Writing, Apply, ApplySlot
  <2> QED
    BY <1>2, <2>1
<1>4. CASE offer[s] = "room" /\ x.about = "subscription"
  <2>1. ApplyRoom(w) /\ Step(w, "read")
    BY <1>4 DEF Writing, Apply
  <2>2. /\ x \in Events /\ x.at \in Nat /\ x.is \in Subscriptions /\ x.at <= now /\ job[w].room \in Rooms
        /\ x.is.status = "canceled" => truth[s] = x.is
    BY <1>4, <2>1, WritingFacts
  <2>3. OnlyOf(s) /\ (RowWritten(w, x, s) \/ (row' = row /\ room' = room))
    BY <1>0, <2>1, <2>2, ApplyRoomEffect
  <2>4. CASE r # s
    BY <1>2, <2>3, <2>4 DEF OnlyOf
  <2>5. CASE r = s /\ RowWritten(w, x, s)
    <3>1. /\ row[r].at <= x.at /\ row'[r].at = x.at
          /\ \/ room[r].at <= x.at /\ room'[r] = RoomOf(x.is, job[w].room, x.at)
             \/ room[r].at > x.at /\ room'[r] = room[r]
      BY <2>5 DEF RowWritten
    <3>2. CASE room'[r] = RoomOf(x.is, job[w].room, x.at)
      <4>1. Makes(room'[r], x.is, job[w].room, x.at)
        BY <1>0, <2>2, <3>2, RoomOfMakes
      <4>2. room'[r].at = x.at
        BY <4>1 DEF Makes
      <4>3. room'[r].reason = "recovering" => room'[r].state = "grace"
        BY <4>1 DEF Makes
      <4>4. room'[r].state = "grace" /\ room'[r].reason # "recovering" =>
              truth[r].status = "canceled" /\ room'[r].from = truth[r].since
        <5>1. SUFFICES ASSUME room'[r].state = "grace", room'[r].reason # "recovering"
                       PROVE  truth[r].status = "canceled" /\ room'[r].from = truth[r].since
          OBVIOUS
        <5>2. EndedWithGrace(x.is, job[w].room) /\ room'[r].from = x.is.since
          BY <4>1, <5>1 DEF Makes
        <5>3. x.is.status = "canceled"
          BY <5>2 DEF EndedWithGrace, Asked
        <5> QED
          BY <2>2, <2>5, <5>2, <5>3
      <4> QED
        BY <1>0, <2>2, <3>1, <4>2, <4>3, <4>4 DEF StampsOf
    <3>3. CASE room[r].at > x.at /\ room'[r] = room[r]
      <4>1. room[r].at <= truth[r].since
        BY <1>0, <2>2, <3>1, <3>3 DEF StampsOf
      <4> QED
        BY <1>0, <2>2, <3>1, <3>3, <4>1 DEF StampsOf
    <3> QED
      BY <3>1, <3>2, <3>3
  <2> QED
    BY <1>2, <2>3, <2>4, <2>5
<1>5. CASE offer[s] = "room" /\ x.about # "subscription"
  <2>1. ApplyInvoice(w) /\ Step(w, "read")
    BY <1>5 DEF Writing, Apply
  <2>2. /\ x \in Events /\ x.at \in Nat /\ w # Reconciler /\ x.at <= truth[s].since
        /\ x.about \in {"paid", "failed"}
    BY <1>5, <2>1, WritingFacts
  <2>3. /\ OnlyOf(s) /\ row' = row
        /\ \/ room' = room
           \/ /\ room'[s].at = x.at
              /\ x.about = "paid" => room'[s].state = "active" /\ room'[s].reason = "none"
              /\ x.about # "paid" => room'[s].state = "grace" /\ room'[s].reason = "recovering"
    BY <1>0, <2>1, <2>2, ApplyInvoiceEffect
  <2>4. CASE r # s \/ room' = room
    BY <1>2, <2>3, <2>4 DEF OnlyOf
  <2>5. CASE r = s /\ room' # room
    BY <1>0, <2>2, <2>3, <2>5 DEF StampsOf
  <2> QED
    BY <2>4, <2>5
<1> QED
  BY <1>3, <1>4, <1>5

\* Of a subscription that is not muddled, two events stamped alike tell the same.
LEMMA SameSecond ==
  ASSUME IInv, NEW s \in Sub, ~Muddled(s), NEW e \in Sent, NEW f \in Sent,
         sent[e].sub = s, sent[f].sub = s, sent[e].at = sent[f].at
  PROVE  sent[e].is = sent[f].is
BY DEF Muddled, Sent

LEMMA WrittenInbox ==
  ASSUME IInv, NEW w \in All, Writing(w), NEW e \in 1 .. MaxEvents
  PROVE  InboxOf(e)'
<1> DEFINE x == job[w].what  s == x.sub
<1>0. TypeOK /\ InboxOf(e) /\ sent' = sent /\ offer' = offer /\ Step(w, "read")
  BY DEF IInv, Kept, Writing
<1>1. \A r \in Sub : row'[r].at >= row[r].at /\ row[r].at \in Nat /\ row'[r].at \in Nat
  <2>1. row' \in [Sub -> Rows]
    BY WritingTypes DEF Writing
  <2> QED
    BY <1>0, <2>1, WrittenStamps, TypeFacts DEF Rows
<1>2. \A f \in Sent : sent[f].sub \in Sub /\ sent[f].at \in Nat
  BY <1>0, TypeFacts
<1>3. CASE inbox'[e] = inbox[e]
  BY <1>0, <1>1, <1>2, <1>3 DEF InboxOf, Sent
<1>4. CASE w \in Worker /\ e = job[w].event /\ inbox'[e] = "processed"
  <2>1. w # Reconciler
    BY <1>4, WebPaymentsAssumption
  <2>2. e \in Sent /\ x = sent[e] /\ x \in Events /\ x.at \in Nat
    BY <1>0, <1>4, <2>1, WritingFacts
  <2>3. ASSUME offer[s] = "room", x.about = "subscription" PROVE row'[s].at >= x.at
    <3>1. ApplyRoom(w)
      BY <2>3 DEF Writing, Apply
    <3>2. RowWritten(w, x, s) \/ (row[s].at > x.at /\ row' = row)
      BY <1>0, <2>2, <3>1, ApplyRoomEffect
    <3> QED
      BY <1>1, <1>2, <2>2, <3>2 DEF RowWritten
  <2> QED
    BY <1>0, <1>4, <2>2, <2>3 DEF InboxOf, Sent
<1> QED
  BY <1>3, <1>4 DEF Writing

\* A snapshot of what is so makes the room what it should be; of an ending, by what was read.
LEMMA MadeRight ==
  ASSUME IInv, NEW s \in Sub, NEW was \in Rooms, NEW at \in Nat
  PROVE  LET made == RoomOf(truth[s], was, at) IN
         /\ made.at = at
         /\ ~Asked(truth[s]) => made.state = StateOf(truth[s])
         /\ Asked(truth[s]) => IF was.reason = "recovering" THEN made.state = "expired" /\ made.reason = "over"
                               ELSE made.state = "grace" /\ made.reason = "ended"
<1> DEFINE made == RoomOf(truth[s], was, at)
<1>1. truth[s] \in Subscriptions /\ now \in Nat
  BY TypeFacts, NowPasses DEF IInv
<1>2. Makes(made, truth[s], was, at)
  BY <1>1, RoomOfMakes
<1>3. truth[s].status \in Statuses
  BY <1>1 DEF Subscriptions
<1> HIDE DEF made
<1>4. CASE ~Asked(truth[s])
  <2>1. ~EndedWithGrace(truth[s], was)
    BY <1>4 DEF EndedWithGrace
  <2> QED
    BY <1>2, <1>3, <1>4, <2>1 DEF Makes, StateOf, Statuses, made
<1>5. CASE Asked(truth[s]) /\ was.reason = "recovering"
  <2>1. ~EndedWithGrace(truth[s], was) /\ truth[s].status = "canceled"
    BY <1>5 DEF EndedWithGrace, Asked
  <2> QED
    BY <1>2, <1>5, <2>1 DEF Makes, made
<1>6. CASE Asked(truth[s]) /\ was.reason # "recovering"
  <2>1. EndedWithGrace(truth[s], was)
    BY <1>6 DEF EndedWithGrace
  <2> QED
    BY <1>2, <1>6, <2>1 DEF Makes, made
<1> QED
  BY <1>4, <1>5, <1>6

\* What a write leaves of Stripe's word.
LEMMA WritingFrame ==
  ASSUME NEW w \in All, Writing(w), NEW r \in Sub
  PROVE  /\ Muddled(r)' <=> Muddled(r)
         /\ Preceding(r)' = Preceding(r) /\ (Failing(r)' <=> Failing(r))
         /\ course'[r] = course[r] => Right(r)' = Right(r)
         /\ Sent' = Sent /\ sent' = sent /\ truth' = truth /\ offer' = offer
<1>1. sent' = sent /\ truth' = truth /\ offer' = offer
  BY DEF Writing
<1>2. Sent' = Sent
  BY <1>1 DEF Sent
<1>3. Muddled(r)' <=> Muddled(r)
  BY <1>1 DEF Muddled
<1>4. Preceding(r)' = Preceding(r)
  BY <1>1 DEF Preceding
<1>5. Failing(r)' <=> Failing(r)
  BY <1>1, <1>4 DEF Failing
<1>6. course'[r] = course[r] => Right(r)' = Right(r)
  BY <1>1, <1>5 DEF Right
<1> QED
  BY <1>1, <1>2, <1>3, <1>4, <1>5, <1>6

\* The event a request handles is all that is marked as done.
LEMMA NewlyProcessed ==
  ASSUME IInv, NEW w \in All, Writing(w), NEW e \in Sent, inbox'[e] = "processed", inbox[e] # "processed"
  PROVE  w # Reconciler /\ sent[e] = job[w].what
<1>1. e \in 1 .. MaxEvents
  BY TypeFacts DEF IInv
<1>2. w \in Worker /\ e = job[w].event
  BY <1>1 DEF Writing
<1>3. w # Reconciler /\ Step(w, "read")
  BY <1>2, WebPaymentsAssumption DEF Writing
<1> QED
  BY <1>2, <1>3, WritingFacts

LEMMA WrittenFollows ==
  ASSUME IInv, NEW w \in All, Writing(w), NEW r \in Sub
  PROVE  FollowsStripe(r)'
<1> DEFINE x == job[w].what  s == x.sub
<1> DEFINE Follows == /\ row[r].status = truth[r].status /\ room[r].at >= truth[r].since
                      /\ ~Asked(truth[r]) => room[r].state = StateOf(truth[r])
                      /\ Asked(truth[r]) => course[r] # "plain"
<1>1. SUFFICES ASSUME offer[r] = "room", Applied(r)', ~Muddled(r), course'[r] # "outrun"
               PROVE  Follows'
  BY WritingFrame DEF FollowsStripe
<1>0. /\ TypeOK /\ FollowsStripe(r) /\ StampsOf(r) /\ TruthOf(r) /\ Step(w, "read") /\ Apply(w)
      /\ row[r].at \in Nat /\ room[r].at \in Nat /\ truth[r].since \in Nat
  BY TypeFacts DEF IInv, Kept, Stripes, Writing
<1>2. /\ x \in Events /\ s \in Sub /\ x.at \in Nat /\ x.is \in Subscriptions /\ x.is.since <= x.at
      /\ w # Reconciler => job[w].event \in Sent /\ x = sent[job[w].event] /\ x.at <= truth[s].since
                           /\ x.at = x.is.since
      /\ w = Reconciler => x.about = "subscription"
      /\ job[w].room \in Rooms
  BY <1>0, WritingFacts
<1>3. Sent' = Sent /\ sent' = sent /\ truth' = truth /\ offer' = offer
  BY WritingFrame
<1>4. ASSUME Applied(r), course'[r] = course[r], row'[r] = row[r], room'[r] = room[r]
      PROVE  Follows'
  BY <1>0, <1>1, <1>3, <1>4 DEF FollowsStripe, Asked, StateOf
\* If what is marked as done now is not what became of it last, it was applied before.
<1>5. ASSUME row'[r].at <= truth[r].since \/ row'[r] = row[r],
             ~(s = r /\ x.about = "subscription" /\ x.is = truth[r] /\ w # Reconciler)
      PROVE  Applied(r)
  <2>1. CASE row'[r].at > truth[r].since
    <3>1. row'[r] = row[r]
      <4>1. row' \in [Sub -> Rows]
        BY <1>0, WritingTypes
      <4>2. row'[r].at \in Nat
        BY <4>1 DEF Rows
      <4> QED
        BY <1>0, <1>5, <2>1, <4>2
    <3> QED
      BY <2>1, <3>1 DEF Applied
  <2>2. CASE ~(row'[r].at > truth[r].since)
    <3>1. PICK e \in Sent : /\ sent[e].sub = r /\ sent[e].about = "subscription"
                            /\ sent[e].is = truth[r] /\ inbox'[e] = "processed"
      BY <1>1, <1>3, <2>2 DEF Applied
    <3>2. inbox[e] = "processed"
      BY <1>5, <3>1, NewlyProcessed
    <3> QED
      BY <3>1, <3>2 DEF Applied
  <2> QED
    BY <2>1, <2>2
<1>6. CASE s # r
  <2>1. OnlyOf(s)
    <3>1. CASE offer[s] # "room"
      BY <1>0, <3>1 DEF Apply, ApplySlot, OnlyOf
    <3>2. CASE offer[s] = "room" /\ x.about = "subscription"
      BY <1>0, <1>2, <3>2, ApplyRoomEffect DEF Apply
    <3>3. CASE offer[s] = "room" /\ x.about # "subscription"
      BY <1>0, <1>2, <3>3, ApplyInvoiceEffect DEF Apply
    <3> QED
      BY <3>1, <3>2, <3>3
  <2>2. row'[r] = row[r] /\ room'[r] = room[r] /\ course'[r] = course[r]
    BY <1>1, <1>6, <2>1 DEF OnlyOf
  <2> QED
    BY <1>4, <1>5, <1>6, <2>2
<1>7. CASE s = r /\ x.about = "subscription"
  <2>1. \/ RowWritten(w, x, r)
        \/ row[r].at > x.at /\ row' = row /\ room' = room /\ course' = course
    BY <1>0, <1>1, <1>2, <1>7, ApplyRoomEffect DEF Apply
  <2>2. CASE row[r].at > x.at /\ row' = row /\ room' = room /\ course' = course
    <3>1. Applied(r)
      <4>1. CASE x.is = truth[r] /\ w # Reconciler
        BY <1>2, <2>2, <4>1 DEF Applied
      <4>2. CASE ~(x.is = truth[r] /\ w # Reconciler)
        BY <1>5, <2>2, <4>2
      <4> QED
        BY <4>1, <4>2
    <3> QED
      BY <1>1, <1>4, <2>2, <3>1
  <2>3. CASE RowWritten(w, x, r) /\ x.is = truth[r]
    <3>1. row[r].at <= x.at /\ row'[r].status = truth[r].status /\ truth[r].since <= x.at
      BY <1>2, <2>3 DEF RowWritten
    <3>2. room[r].at <= x.at
      BY <1>0, <1>2, <3>1 DEF StampsOf
    <3>3. room'[r] = RoomOf(truth[r], job[w].room, x.at)
      BY <1>0, <1>2, <2>3, <3>2 DEF RowWritten
    <3>4. room'[r].at = x.at /\ (~Asked(truth[r]) => room'[r].state = StateOf(truth[r]))
      BY <1>1, <1>2, <1>7, <3>3, MadeRight
    <3>5. Asked(truth[r]) => course'[r] # "plain"
      BY <2>3 DEF RowWritten, CourseOf
    <3> QED
      BY <1>3, <3>1, <3>4, <3>5 DEF Asked, StateOf
  <2>4. CASE RowWritten(w, x, r) /\ x.is # truth[r]
    <3>1. w # Reconciler /\ row[r].at <= x.at /\ row'[r].at = x.at /\ x.at <= truth[r].since
      BY <1>1, <1>2, <1>7, <2>4 DEF RowWritten
    <3>2. PICK e \in Sent : /\ sent[e].sub = r /\ sent[e].about = "subscription"
                            /\ sent[e].is = truth[r] /\ inbox'[e] = "processed"
      BY <1>0, <1>1, <1>2, <1>3, <3>1 DEF Applied
    <3>3. inbox[e] = "processed"
      BY <2>4, <3>2, NewlyProcessed
    <3>4. sent[e].at = truth[r].since
      BY <3>2 DEF IInv, Stripes, EventOf
    <3>5. row[r].at >= sent[e].at
      <4>1. e \in 1 .. MaxEvents
        BY TypeFacts DEF IInv
      <4> QED
        BY <1>1, <3>2, <3>3, <4>1 DEF IInv, Kept, InboxOf
    <3>6. x.at = sent[e].at
      BY <1>0, <1>2, <3>1, <3>4, <3>5
    <3>7. job[w].event \in Sent /\ x = sent[job[w].event]
      BY <1>2, <3>1
    <3> QED
      BY <1>1, <1>7, <2>4, <3>2, <3>6, <3>7, SameSecond
  <2> QED
    BY <2>1, <2>2, <2>3, <2>4
<1>8. CASE s = r /\ x.about # "subscription"
  <2>1. ApplyInvoice(w) /\ w # Reconciler
    BY <1>0, <1>1, <1>2, <1>8 DEF Apply
  <2>2. /\ row' = row /\ course' = course
        /\ \/ room' = room
           \/ /\ room[r].at <= x.at /\ room'[r].at = x.at
              /\ x.about = "paid" => room'[r].state = "active"
              /\ x.about # "paid" => room'[r].state = "grace"
    BY <1>0, <1>2, <1>8, <2>1, ApplyInvoiceEffect
  <2>3. Applied(r)
    BY <1>5, <1>8, <2>2
  <2>4. CASE room' = room
    BY <1>1, <1>4, <2>2, <2>3, <2>4
  <2>5. CASE room' # room
    <3>1. Follows
      BY <1>0, <1>1, <2>2, <2>3 DEF FollowsStripe
    <3>2. x.at = truth[r].since
      BY <1>0, <1>2, <1>8, <2>1, <2>2, <2>5, <3>1
    <3>3. job[w].event \in Sent /\ x = sent[job[w].event]
      BY <1>2, <2>1
    <3>4. 1 <= x.at
      BY <3>3 DEF IInv, Stripes, EventOf
    <3>5. PICK f \in Sent : sent[f].sub = r /\ sent[f].is = truth[r]
      BY <1>0, <1>1, <3>2, <3>4 DEF TruthOf
    <3>6. sent[f].at = x.at
      BY <3>2, <3>5 DEF IInv, Stripes, EventOf
    <3>7. x.is = truth[r]
      BY <1>1, <1>8, <3>3, <3>5, <3>6, SameSecond
    <3>8. /\ x.about = "paid" => x.is.status = "active"
          /\ x.about = "failed" => x.is.status = "past_due"
          /\ x.about \in {"subscription", "paid", "failed"}
      BY <1>0, <1>1, <1>8, WritingFacts
    <3>9. room'[r].state = StateOf(truth[r])
      <4>1. /\ truth[r].status = "active" => StateOf(truth[r]) = "active"
            /\ truth[r].status = "past_due" => StateOf(truth[r]) = "grace"
        BY DEF StateOf, Asked
      <4>2. CASE x.about = "paid"
        BY <2>2, <2>5, <3>7, <3>8, <4>1, <4>2
      <4>3. CASE x.about = "failed"
        BY <2>2, <2>5, <3>7, <3>8, <4>1, <4>3
      <4> QED
        BY <1>8, <3>8, <4>2, <4>3
    <3> QED
      BY <1>0, <1>3, <2>2, <2>5, <3>1, <3>2, <3>9 DEF Asked, StateOf
  <2> QED
    BY <2>4, <2>5
<1> QED
  BY <1>6, <1>7, <1>8

\* An older event is of the change before the last, or of one before that.
LEMMA PrecedingAlike ==
  ASSUME IInv, NEW s \in Sub, ~Muddled(s), NEW p \in Preceding(s),
         NEW e \in Sent, sent[e].sub = s, sent[e].is # truth[s]
  PROVE  /\ sent[e].at <= sent[p].at
         /\ sent[e].at >= sent[p].at => (Failing(s) <=> sent[e].is.status = "past_due")
<1>1. \A f \in Sent : sent[f].at \in Nat
  BY TypeFacts DEF IInv
<1>2. \A f \in Preceding(s) :
        /\ f \in Sent /\ sent[f].sub = s /\ sent[f].is # truth[s]
        /\ \A g \in Sent : sent[g].sub = s /\ sent[g].is # truth[s] => sent[g].at <= sent[f].at
  BY PrecedingIs
<1>3. sent[e].at <= sent[p].at
  BY <1>2
<1>4. ASSUME sent[e].at >= sent[p].at PROVE Failing(s) <=> sent[e].is.status = "past_due"
  <2>1. ASSUME NEW f \in Preceding(s) PROVE sent[f].is = sent[e].is
    <3>1. f \in Sent /\ p \in Sent /\ sent[f].sub = s /\ sent[f].at <= sent[p].at /\ sent[e].at <= sent[f].at
      BY <1>2
    <3>2. sent[f].at = sent[e].at
      BY <1>1, <1>4, <3>1
    <3> QED
      BY <3>1, <3>2, SameSecond
  <2> QED
    BY <2>1 DEF Failing
<1> QED
  BY <1>3, <1>4

\* How an ending came to be applied is not forgotten, nor a snapshot that Stripe had outrun.
LEMMA CourseKept ==
  ASSUME IInv, NEW w \in All, Writing(w), NEW r \in Sub
  PROVE  /\ course'[r] \notin {"plain", "outrun"} => course[r] = course'[r] \/ Asked(truth[r])
         /\ Asked(truth[r]) => /\ course[r] = "outrun" => course'[r] = "outrun"
                               /\ course[r] # "plain" => course'[r] # "plain"
<1> DEFINE x == job[w].what  s == x.sub
<1>0. TypeOK /\ Step(w, "read") /\ Apply(w)
  BY DEF IInv, Writing
<1>1. x \in Events /\ s \in Sub
  BY <1>0, WritingFacts
<1>2. \/ course'[r] = course[r]
      \/ course'[r] = "outrun"
      \/ course'[r] = CourseOf(w, r)
  <2>1. CASE offer[s] # "room"
    BY <1>0, <2>1 DEF Apply, ApplySlot
  <2>2. CASE offer[s] = "room" /\ x.about = "subscription"
    <3>1. OnlyOf(s) /\ (RowWritten(w, x, s) \/ course' = course)
      BY <1>0, <1>1, <2>2, ApplyRoomEffect DEF Apply
    <3> QED
      BY <3>1 DEF OnlyOf, RowWritten
  <2>3. CASE offer[s] = "room" /\ x.about # "subscription"
    BY <1>0, <1>1, <2>3, ApplyInvoiceEffect DEF Apply
  <2> QED
    BY <2>1, <2>2, <2>3
<1>3. Asked(truth[r]) => /\ course[r] = "outrun" => CourseOf(w, r) = "outrun"
                         /\ CourseOf(w, r) # "plain"
  <2>1. job[w].early \in BOOLEAN
    BY <1>0 DEF TypeOK, All
  <2> QED
    BY <2>1 DEF CourseOf
<1>4. ~Asked(truth[r]) => CourseOf(w, r) = "plain"
  BY DEF CourseOf
<1> QED
  BY <1>2, <1>3, <1>4

\* An ending is applied to what was read.
LEMMA EndWritten ==
  ASSUME IInv, NEW w \in All, Writing(w), NEW r \in Sub, offer[r] = "room", Asked(truth[r]), ~Muddled(r),
         job[w].what.sub = r, job[w].what.is = truth[r], RowWritten(w, job[w].what, r),
         course'[r] # "outrun"
  PROVE  course'[r] # "plain" /\ Over(r)'
<1> DEFINE x == job[w].what  was == job[w].room
<1>0. /\ TypeOK /\ StampsOf(r) /\ Step(w, "read") /\ truth' = truth
      /\ row[r].at \in Nat /\ room[r].at \in Nat /\ truth[r].since \in Nat
  BY TypeFacts DEF IInv, Kept, Writing
<1>1. x \in Events /\ x.at \in Nat /\ x.is.since <= x.at /\ was \in Rooms /\ ReadInTime(w, r)
  BY <1>0, WritingFacts
<1>2. /\ row[r].at <= x.at /\ row'[r].status = truth[r].status /\ row'[r].at = x.at
      /\ course'[r] = CourseOf(w, r)
  BY DEF RowWritten
<1>3. room[r].at <= x.at
  BY <1>0, <1>1, <1>2 DEF StampsOf
<1>4. room'[r] = RoomOf(truth[r], was, x.at)
  BY <1>0, <1>1, <1>3 DEF RowWritten
<1>5. /\ room'[r].at = x.at
      /\ IF was.reason = "recovering" THEN room'[r].state = "expired" /\ room'[r].reason = "over"
         ELSE room'[r].state = "grace" /\ room'[r].reason = "ended"
  BY <1>1, <1>4, MadeRight
<1>6. /\ course[r] # "outrun" /\ course'[r] \in {"early", "once", "again"}
      /\ course'[r] # "early" => ~job[w].early
      /\ course'[r] # "early" => (course'[r] = "again" <=> course[r] # "plain")
  <2>1. job[w].early \in BOOLEAN
    BY <1>0 DEF TypeOK, All
  <2>2. course[r] # "outrun"
    BY <1>2, <2>1 DEF CourseOf
  <2> QED
    BY <1>2, <2>1, <2>2 DEF CourseOf
<1>7. StateOf(truth[r]) = "grace"
  BY DEF Asked, StateOf
<1>8. ASSUME course'[r] # "early" PROVE (room[r].state \in Right(r))'
  <2>1. ~job[w].early
    BY <1>6, <1>8
  <2>2. \/ course[r] # "plain" /\ was.reason \in {"ended", "over"}
        \/ was.reason = "recovering" <=> Failing(r)
    BY <1>1, <1>6, <2>1 DEF ReadInTime
  <2>3. Right(r)' = IF ~Failing(r) THEN {"grace"}
                    ELSE IF course'[r] = "again" THEN {"grace", "expired"} ELSE {"expired"}
    BY <1>0, <1>7, WritingFrame DEF Right, Asked, StateOf
  <2>4. CASE course[r] # "plain" /\ was.reason \in {"ended", "over"}
    <3>1. course'[r] = "again" /\ room'[r].state = "grace"
      BY <1>5, <1>6, <1>8, <2>4
    <3> QED
      BY <2>3, <3>1
  <2>5. CASE was.reason = "recovering" <=> Failing(r)
    BY <1>5, <2>3, <2>5
  <2> QED
    BY <2>2, <2>4, <2>5
<1> QED
  BY <1>0, <1>1, <1>2, <1>5, <1>6, <1>8 DEF Over

LEMMA WrittenEnd ==
  ASSUME IInv, NEW w \in All, Writing(w), NEW r \in Sub
  PROVE  EndOf(r)'
<1> DEFINE x == job[w].what  s == x.sub
<1>0. /\ TypeOK /\ EndOf(r) /\ StampsOf(r) /\ TruthOf(r) /\ Step(w, "read") /\ Apply(w)
      /\ row[r].at \in Nat /\ room[r].at \in Nat /\ truth[r].since \in Nat
  BY TypeFacts DEF IInv, Kept, Stripes, Writing
<1>1. /\ x \in Events /\ s \in Sub /\ x.at \in Nat /\ x.is \in Subscriptions
      /\ w # Reconciler => job[w].event \in Sent /\ x = sent[job[w].event] /\ x.at <= truth[s].since
      /\ w = Reconciler => x.about = "subscription"
      /\ job[w].room \in Rooms
  BY <1>0, WritingFacts
<1>2. /\ Sent' = Sent /\ sent' = sent /\ truth' = truth /\ offer' = offer
      /\ Preceding(r)' = Preceding(r) /\ (Failing(r)' <=> Failing(r)) /\ (Muddled(r)' <=> Muddled(r))
  BY WritingFrame
<1>3. SUFFICES ASSUME offer[r] = "room", Asked(truth[r]), ~Muddled(r), course'[r] # "outrun"
               PROVE  IF course'[r] = "plain" THEN Awaiting(r)' ELSE Over(r)'
  BY <1>0, <1>2, CourseKept DEF EndOf, Asked
<1>4. /\ course[r] # "outrun" /\ (course[r] # "plain" => course'[r] # "plain")
      /\ course[r] = "plain" => Awaiting(r)
      /\ course[r] # "plain" => Over(r)
      /\ \E p \in Preceding(r) : sent[p].about = "subscription"
  BY <1>0, <1>3, CourseKept DEF EndOf
<1>5. PICK p \in Preceding(r) : sent[p].about = "subscription"
  BY <1>4
<1>6. /\ \A e \in Preceding(r) : e \in Sent /\ sent[e].sub = r /\ sent[e].at \in Nat
      /\ \A e, f \in Preceding(r) : sent[e].at = sent[f].at
  <2>1. \A e \in Preceding(r) : e \in Sent /\ sent[e].sub = r /\ sent[e].is # truth[r] /\ sent[e].at \in Nat
    BY <1>0, PrecedingIs, TypeFacts
  <2>2. \A e, f \in Preceding(r) : sent[e].at <= sent[f].at
    BY <2>1, PrecedingIs
  <2> QED
    BY <2>1, <2>2
\* Nothing of the room changes, and no older event of it is newly done.
<1>7. ASSUME row'[r] = row[r], room'[r] = room[r], course'[r] = course[r], Preceded(r)' => Preceded(r)
      PROVE  IF course'[r] = "plain" THEN Awaiting(r)' ELSE Over(r)'
  <2>1. Right(r)' = Right(r)
    BY <1>7, WritingFrame
  <2> QED
    BY <1>2, <1>4, <1>7, <2>1 DEF Awaiting, Over
<1>8. ASSUME ~(s = r /\ x.about = "subscription"), row'[r] = row[r] PROVE Preceded(r)' => Preceded(r)
  <2>1. ASSUME NEW e \in Preceding(r), sent[e].about = "subscription", inbox'[e] = "processed"
        PROVE  inbox[e] = "processed"
    BY <1>6, <1>8, <2>1, NewlyProcessed
  <2> QED
    BY <1>2, <1>8, <2>1 DEF Preceded
\* No older event comes after the ending.
<1>9. ASSUME s = r, x.is # truth[r], w # Reconciler, x.at >= truth[r].since PROVE FALSE
  <2>1. PICK f \in Sent : sent[f].sub = r /\ sent[f].is = truth[r]
    BY <1>0, <1>3 DEF TruthOf, Asked
  <2>2. sent[f].at = truth[r].since
    BY <2>1 DEF IInv, Stripes, EventOf
  <2>3. job[w].event \in Sent /\ x = sent[job[w].event] /\ x.at = sent[f].at
    BY <1>0, <1>1, <1>9, <2>2
  <2> QED
    BY <1>3, <1>9, <2>1, <2>3, SameSecond
<1>10. ASSUME s = r, x.is # truth[r], w # Reconciler
       PROVE  \A e \in Preceding(r) :
                /\ x.at <= sent[e].at
                /\ x.at >= sent[e].at => (Failing(r) <=> x.is.status = "past_due")
  BY <1>1, <1>3, <1>10, PrecedingAlike
<1>11. CASE s # r
  <2>1. OnlyOf(s)
    <3>1. CASE offer[s] # "room"
      BY <1>0, <3>1 DEF Apply, ApplySlot, OnlyOf
    <3>2. CASE offer[s] = "room" /\ x.about = "subscription"
      BY <1>0, <1>1, <3>2, ApplyRoomEffect DEF Apply
    <3>3. CASE offer[s] = "room" /\ x.about # "subscription"
      BY <1>0, <1>1, <3>3, ApplyInvoiceEffect DEF Apply
    <3> QED
      BY <3>1, <3>2, <3>3
  <2>2. row'[r] = row[r] /\ room'[r] = room[r] /\ course'[r] = course[r]
    BY <1>11, <2>1 DEF OnlyOf
  <2> QED
    BY <1>7, <1>8, <1>11, <2>2
<1>12. CASE s = r /\ x.about = "subscription"
  <2>1. \/ RowWritten(w, x, r)
        \/ row[r].at > x.at /\ row' = row /\ room' = room /\ course' = course
    BY <1>0, <1>1, <1>3, <1>12, ApplyRoomEffect DEF Apply
  <2>2. CASE row[r].at > x.at /\ row' = row /\ room' = room /\ course' = course
    <3>1. ASSUME NEW e \in Preceding(r), inbox'[e] = "processed", inbox[e] # "processed"
          PROVE  row[r].at > sent[e].at
      BY <1>6, <2>2, <3>1, NewlyProcessed
    <3>2. Preceded(r)' => Preceded(r)
      BY <1>2, <2>2, <3>1 DEF Preceded
    <3> QED
      BY <1>7, <2>2, <3>2
  <2>3. CASE RowWritten(w, x, r) /\ x.is = truth[r]
    BY <1>3, <1>12, <2>3, EndWritten
  <2>4. CASE RowWritten(w, x, r) /\ x.is # truth[r]
    <3>1. /\ w # Reconciler /\ course'[r] = course[r] /\ row[r].at <= x.at /\ row'[r].at = x.at
          /\ \/ room[r].at <= x.at /\ room'[r] = RoomOf(x.is, job[w].room, x.at)
             \/ room[r].at > x.at /\ room'[r] = room[r]
      BY <1>3, <2>4 DEF RowWritten
    <3>2. course[r] = "plain" /\ Awaiting(r)
      <4>1. ASSUME course[r] # "plain" PROVE FALSE
        BY <1>0, <1>1, <1>4, <1>9, <1>12, <2>4, <3>1, <4>1 DEF Over
      <4> QED
        BY <1>4, <4>1
    <3>3. \A e \in Preceding(r) :
            /\ x.at <= sent[e].at
            /\ x.at >= sent[e].at => (Failing(r) <=> x.is.status = "past_due")
      BY <1>10, <1>12, <2>4, <3>1
    <3>4. Makes(RoomOf(x.is, job[w].room, x.at), x.is, job[w].room, x.at)
      BY <1>0, <1>1, NowPasses, RoomOfMakes
    <3>5. x.is.status # "canceled"
      BY <1>0, <1>3, <1>12, <2>4, WritingFacts
    <3>6. /\ RoomOf(x.is, job[w].room, x.at).at = x.at
          /\ RoomOf(x.is, job[w].room, x.at).reason = "recovering" <=> x.is.status = "past_due"
      BY <3>4, <3>5 DEF Makes, EndedWithGrace, Asked
    <3>7. \A e \in Preceding(r) : room'[r].at <= row'[r].at \/ room'[r].at <= sent[e].at
      BY <1>0, <1>1, <1>6, <3>1, <3>2, <3>6 DEF Awaiting
    <3>8. ASSUME Preceded(r)'
          PROVE  /\ room'[r].reason = "recovering" <=> Failing(r)
                 /\ \A e \in Preceding(r) : room'[r].at >= sent[e].at
      <4>1. inbox'[p] = "processed"
        BY <1>1, <1>2, <1>5, <1>6, <3>1, <3>3, <3>8 DEF Preceded
      <4>2. row'[r].at >= sent[p].at
        <5>1. p \in 1 .. MaxEvents
          BY <1>0, <1>6, TypeFacts
        <5>2. InboxOf(p)'
          BY <5>1, WrittenInbox
        <5> QED
          BY <1>2, <1>3, <1>5, <1>6, <4>1, <5>2 DEF InboxOf
      <4>3. x.at = sent[p].at
        BY <1>1, <1>6, <3>1, <3>3, <4>2
      <4>4. room'[r] = RoomOf(x.is, job[w].room, x.at)
        BY <1>0, <1>1, <1>6, <3>1, <3>2, <4>3 DEF Awaiting
      <4>5. Failing(r) <=> x.is.status = "past_due"
        BY <1>1, <3>3, <4>3
      <4> QED
        BY <1>1, <1>6, <3>6, <4>3, <4>4, <4>5
    <3>9. Awaiting(r)'
      BY <1>2, <3>7, <3>8 DEF Awaiting
    <3> QED
      BY <3>1, <3>2, <3>9
  <2> QED
    BY <2>1, <2>2, <2>3, <2>4
<1>13. CASE s = r /\ x.about # "subscription"
  <2>1. ApplyInvoice(w) /\ w # Reconciler
    BY <1>0, <1>1, <1>3, <1>13 DEF Apply
  <2>2. /\ row' = row /\ course' = course
        /\ \/ room' = room
           \/ /\ room[r].at <= x.at /\ room'[r].at = x.at
              /\ x.about = "paid" => room'[r].reason = "none"
              /\ x.about # "paid" => room'[r].reason = "recovering"
    BY <1>0, <1>1, <1>13, <2>1, ApplyInvoiceEffect
  <2>3. Preceded(r)' => Preceded(r)
    BY <1>8, <1>13, <2>2
  <2>4. CASE room' = room
    BY <1>7, <2>2, <2>3, <2>4
  <2>5. CASE room' # room
    <3>1. /\ x.about \in {"paid", "failed"} /\ x.is.status = (IF x.about = "paid" THEN "active" ELSE "past_due")
          /\ x.is # truth[r]
      BY <1>0, <1>3, <1>13, WritingFacts DEF Asked
    <3>2. course[r] = "plain" /\ Awaiting(r)
      <4>1. ASSUME course[r] # "plain" PROVE FALSE
        BY <1>0, <1>1, <1>4, <1>9, <1>13, <2>1, <2>2, <2>5, <3>1, <4>1 DEF Over
      <4> QED
        BY <1>4, <4>1
    <3>3. \A e \in Preceding(r) :
            /\ x.at <= sent[e].at
            /\ x.at >= sent[e].at => (Failing(r) <=> x.is.status = "past_due")
      BY <1>10, <1>13, <2>1, <3>1
    <3>4. ASSUME Preceded(r)'
          PROVE  /\ room'[r].reason = "recovering" <=> Failing(r)
                 /\ \A e \in Preceding(r) : room'[r].at >= sent[e].at
      <4>1. \A e \in Preceding(r) : room[r].at >= sent[e].at
        BY <2>3, <3>2, <3>4 DEF Awaiting
      <4>2. \A e \in Preceding(r) : x.at = sent[e].at
        BY <1>0, <1>1, <1>6, <2>2, <2>5, <3>3, <4>1
      <4>3. Failing(r) <=> x.is.status = "past_due"
        BY <1>1, <1>5, <3>3, <4>2
      <4> QED
        BY <1>1, <2>2, <2>5, <3>1, <4>2, <4>3
    <3>5. \A e \in Preceding(r) : room'[r].at <= sent[e].at
      BY <2>2, <2>5, <3>3
    <3>6. Awaiting(r)'
      BY <1>2, <3>4, <3>5 DEF Awaiting
    <3> QED
      BY <2>2, <3>2, <3>6
  <2> QED
    BY <2>4, <2>5
<1> QED
  BY <1>11, <1>12, <1>13
-----------------------------------------------------------------------------
(***************************************************************************)
(* Everything else: what is read, marked, listed, lost or left.            *)
(***************************************************************************)
\* A step that changes no row and nothing of Stripe's, and marks nothing as done.
NothingWritten ==
  /\ UNCHANGED <<offer, truth, sent, row, room, course>> /\ now' \in Nat /\ now <= now'
  /\ \A e \in 1 .. MaxEvents : /\ inbox'[e] = "processed" => inbox[e] = "processed"
                               /\ inbox'[e] # "none" => inbox[e] # "none" \/ e \in Sent

LEMMA StillKept ==
  ASSUME IInv, NothingWritten
  PROVE  Stripes' /\ Kept'
<1> USE TypeFacts, NowPasses DEF IInv
<1>1. /\ offer' = offer /\ truth' = truth /\ sent' = sent /\ row' = row /\ room' = room
      /\ course' = course /\ Sent' = Sent
  BY DEF NothingWritten, Sent
<1>2. ASSUME NEW e \in Sent' PROVE EventOf(e)'
  BY <1>1 DEF Stripes, EventOf
<1>3. ASSUME NEW s \in Sub PROVE TruthOf(s)'
  <2>1. TruthOf(s) /\ now \in Nat /\ now' \in Nat /\ now <= now' /\ truth[s].since \in Nat
    BY DEF Stripes, NothingWritten
  <2> QED
    BY <1>1, <2>1 DEF TruthOf
<1>4. ASSUME NEW e \in 1 .. MaxEvents PROVE InboxOf(e)'
  <2>1. InboxOf(e)
    BY DEF Kept
  <2> QED
    BY <1>1, <2>1 DEF InboxOf, NothingWritten
<1>5. ASSUME NEW s \in Sub PROVE StampsOf(s)'
  <2>1. StampsOf(s) /\ now \in Nat /\ now' \in Nat /\ now <= now' /\ row[s].at \in Nat
    BY DEF Kept, NothingWritten
  <2> QED
    BY <1>1, <2>1 DEF StampsOf
<1>6. ASSUME NEW s \in Sub PROVE FollowsStripe(s)'
  <2>1. FollowsStripe(s)
    BY DEF Kept
  <2>2. Applied(s)' => Applied(s)
    BY <1>1 DEF Applied, NothingWritten
  <2>3. Muddled(s)' <=> Muddled(s)
    BY <1>1 DEF Muddled
  <2> QED
    BY <1>1, <2>1, <2>2, <2>3 DEF FollowsStripe, Asked, StateOf
<1>7. ASSUME NEW s \in Sub PROVE EndOf(s)'
  <2>1. EndOf(s)
    BY DEF Kept
  <2>2. (Muddled(s)' <=> Muddled(s)) /\ Preceding(s)' = Preceding(s)
    BY <1>1 DEF Muddled, Preceding
  <2>3. Failing(s)' <=> Failing(s)
    BY <1>1, <2>2 DEF Failing
  <2>4. Preceded(s)' => Preceded(s)
    <3>1. \A e \in Preceding(s) : e \in 1 .. MaxEvents
      BY PrecedingIs
    <3> QED
      BY <1>1, <2>2, <3>1 DEF Preceded, NothingWritten
  <2>5. Right(s)' = Right(s)
    BY <1>1, <2>3 DEF Right
  <2>6. (Awaiting(s) => Awaiting(s)') /\ (Over(s) => Over(s)')
    BY <1>1, <2>2, <2>3, <2>4, <2>5 DEF Awaiting, Over
  <2> QED
    BY <1>1, <2>1, <2>2, <2>6 DEF EndOf, Asked
<1> QED
  BY <1>2, <1>3, <1>4, <1>5, <1>6, <1>7 DEF Stripes, Kept

\* What a request had read, and what was listed, it still has.
LEMMA StillRead ==
  ASSUME IInv, NothingWritten, NEW v \in All, job'[v] = job[v]
  PROVE  JobOf(v)'
<1>1. offer' = offer /\ sent' = sent /\ Sent' = Sent /\ now' \in Nat /\ now <= now' /\ now \in Nat
  BY NowPasses DEF IInv, NothingWritten, Sent
<1>2. JobOf(v)
  BY DEF IInv, Requests, All
<1>3. CASE Step(v, "read")
  <2>1. /\ job[v].what \in Events /\ job[v].what.at \in Nat /\ job[v].what.is.since \in Nat
    BY <1>2, <1>3 DEF JobOf, Events, Subscriptions
  <2> QED
    <3>1. job[v].what.sub \in Sub
      BY <2>1 DEF Events
    <3>2. truth' = truth /\ course' = course /\ (Failing(job[v].what.sub)' <=> Failing(job[v].what.sub))
          /\ (Muddled(job[v].what.sub)' <=> Muddled(job[v].what.sub))
      BY <1>1 DEF NothingWritten, Failing, Preceding, Muddled
    <3>3. ReadInTime(v, job[v].what.sub)'
      BY <1>1, <1>2, <1>3, <3>2 DEF JobOf, ReadInTime, Asked
    <3> QED
      BY <1>1, <1>2, <1>3, <2>1, <3>3 DEF JobOf, Step, SnapshotOf, Told
<1> QED
  BY <1>3 DEF JobOf, Step

\* An ending read anew, and not early, is read with what came before it, or with what it made.
LEMMA FreshRead ==
  ASSUME IInv, NothingWritten, NEW v, NEW x \in Events, NEW n \in 0 .. MaxEvents, job'[v] = Reading(x, n)
  PROVE  ReadInTime(v, x.sub)'
<1> DEFINE s == x.sub
<1>1. /\ s \in Sub /\ job'[v].what = x /\ (job'[v].early <=> Early(x))
      /\ Asked(x.is) => job'[v].room = room[s]
  BY ReadingFields DEF IInv, Events
<1>2. /\ offer' = offer /\ truth' = truth /\ course' = course /\ (Muddled(s)' <=> Muddled(s))
      /\ (Failing(s)' <=> Failing(s))
  BY DEF NothingWritten, Muddled, Failing, Preceding
<1>3. SUFFICES ASSUME offer[s] = "room", Asked(truth[s]), ~Muddled(s), course[s] # "outrun",
                      x.is = truth[s], ~Early(x)
               PROVE  \/ course[s] # "plain" /\ room[s].reason \in {"ended", "over"}
                      \/ room[s].reason = "recovering" <=> Failing(s)
  BY <1>1, <1>2 DEF ReadInTime, Asked
<1>4. IF course[s] = "plain" THEN Awaiting(s) ELSE Over(s)
  BY <1>1, <1>3 DEF IInv, Kept, EndOf
<1>5. ASSUME NEW f \in Preceding(s), sent[f].about = "subscription"
      PROVE  inbox[f] = "processed" \/ row[s].at > sent[f].at
  <2>1. inbox[f] = "processed" \/ ~(row[s].at <= sent[f].at)
    BY <1>3, <1>5 DEF Early
  <2>2. row[s].at \in Nat /\ sent[f].at \in Nat
    BY <1>1, PrecedingIs, TypeFacts DEF IInv
  <2> QED
    BY <2>1, <2>2
<1>6. Preceded(s)
  BY <1>5 DEF Preceded
<1> QED
  BY <1>4, <1>6 DEF Awaiting, Over

LEMMA StillListed ==
  ASSUME IInv, NothingWritten, NEW x \in listed
  PROVE  SnapshotOf(x)'
<1>1. offer' = offer /\ sent' = sent /\ Sent' = Sent /\ now' \in Nat /\ now <= now' /\ now \in Nat
  BY NowPasses DEF IInv, NothingWritten, Sent
<1>2. SnapshotOf(x) /\ x \in Events
  BY DEF IInv, TypeOK, Requests
<1>3. x.is.since \in Nat
  BY <1>2 DEF Events, Subscriptions
<1> QED
  BY <1>1, <1>2, <1>3 DEF SnapshotOf, Told

LEMMA ClaimKeeps ==
  ASSUME IInv, NEW w \in Worker, NEW e \in Sent, Claim(w, e)
  PROVE  IInv'
<1> DEFINE new == Reading(sent[e], e)
<1>0. TypeOK /\ w \in All /\ w # Reconciler
  BY WebPaymentsAssumption DEF IInv, All
<1>1. sent[e] \in Events /\ e \in 1 .. MaxEvents /\ sent[e].sub \in Sub
  BY <1>0, TypeFacts
<1>2. new \in Jobs /\ new.step = "read" /\ new.event = e /\ new.what = sent[e]
  <2>1. e \in 0 .. MaxEvents
    BY <1>1
  <2> QED
    BY <1>0, <1>1, <2>1, ReadingFields
<1>3. job' = [job EXCEPT ![w] = new] /\ inbox' = [inbox EXCEPT ![e] = "processing"]
      /\ UNCHANGED <<stripe, checkout, rows, listed, mishaps, course>>
  BY DEF Claim
<1> HIDE DEF new
<1>4. job' \in [All -> Jobs] /\ job'[w] = new /\ \A v \in All \ {w} : job'[v] = job[v]
  BY <1>0, <1>2, <1>3, JobReplaced
<1>5. TypeOK'
  BY <1>0, <1>3, <1>4 DEF TypeOK, stripe, rows, All, Jobs
<1>6. NothingWritten
  BY <1>0, <1>1, <1>3, NowPasses DEF NothingWritten, stripe, rows, TypeOK
<1>7. JobOf(w)'
  <2>1. sent' = sent
    BY <1>3 DEF stripe
  <2>2. PICK x \in Events : x = sent[e]
    BY <1>1
  <2>3. ReadInTime(w, x.sub)'
    <3>1. e \in 0 .. MaxEvents
      BY <1>1
    <3> QED
      BY <1>4, <1>6, <2>2, <3>1, FreshRead DEF new
  <2> QED
    BY <1>0, <1>1, <1>2, <1>4, <2>1, <2>2, <2>3 DEF JobOf, Sent
<1>8. \A v \in All : JobOf(v)'
  BY <1>4, <1>6, <1>7, StillRead
<1>9. \A x \in listed' : SnapshotOf(x)'
  BY <1>3, <1>6, StillListed
<1> QED
  BY <1>5, <1>6, <1>8, <1>9, StillKept DEF IInv, Requests, All

\* A job that ends, and perhaps a mark on its event that says it is not done.
LEMMA EndedKeeps ==
  ASSUME IInv, NEW w \in All, Fail(w) \/ Crash(w)
  PROVE  IInv'
<1>0. TypeOK
  BY DEF IInv
<1>1. /\ job' = [job EXCEPT ![w] = Idle] /\ UNCHANGED <<stripe, checkout, rows, course>>
      /\ mishaps' \in 0 .. MaxMishaps /\ listed' \subseteq listed
  <2>1. mishaps \in 0 .. MaxMishaps /\ MaxMishaps \in Nat
    BY <1>0, WebPaymentsAssumption DEF TypeOK
  <2> QED
    BY <2>1 DEF Fail, Crash, Mishap
<1>2. inbox' = inbox \/ (inbox' = [inbox EXCEPT ![job[w].event] = "failed"] /\ job[w].event \in Sent)
  <2>1. CASE Crash(w)
    BY <2>1 DEF Crash
  <2>2. CASE Fail(w)
    <3>1. w # Reconciler /\ Step(w, "read")
      BY <2>2, WebPaymentsAssumption DEF Fail
    <3> QED
      BY <2>2, <3>1, WritingFacts DEF Fail
  <2> QED
    BY <2>1, <2>2
<1>3. job' \in [All -> Jobs] /\ job'[w] = Idle /\ \A v \in All \ {w} : job'[v] = job[v]
  BY <1>0, <1>1, IdleFields, JobReplaced
<1>4. inbox' \in [1 .. MaxEvents -> {"none", "processing", "stale", "processed", "failed"}]
  BY <1>0, <1>2 DEF TypeOK
<1>5. TypeOK'
  <2>1. listed' \subseteq Events
    BY <1>0, <1>1 DEF TypeOK
  <2>2. UNCHANGED <<now, offer, truth, sent, checkout, row, room, slot, course>>
    BY <1>1 DEF stripe, rows
  <2> QED
    BY <1>0, <1>1, <1>3, <1>4, <2>1, <2>2 DEF TypeOK, All, Jobs
<1>6. NothingWritten
  <2>1. \A e \in 1 .. MaxEvents : inbox'[e] = inbox[e] \/ (inbox'[e] = "failed" /\ e \in Sent)
    BY <1>0, <1>2 DEF TypeOK
  <2>2. UNCHANGED <<offer, truth, sent, row, room, course>> /\ now' \in Nat /\ now <= now'
    BY <1>0, <1>1, NowPasses DEF stripe, rows
  <2> QED
    BY <2>1, <2>2 DEF NothingWritten
<1>7. JobOf(w)'
  BY <1>3, IdleFields DEF JobOf, Step
<1>8. \A v \in All : JobOf(v)'
  BY <1>3, <1>6, <1>7, StillRead
<1>9. \A x \in listed' : SnapshotOf(x)'
  BY <1>1, <1>6, StillListed
<1> QED
  BY <1>5, <1>6, <1>8, <1>9, StillKept DEF IInv, Requests, All

\* A checkout, a second, or five minutes: no request does anything.
LEMMA PassingKeeps ==
  ASSUME IInv,
         \/ Tick \/ (\E s \in Sub : AskCheckout(s) \/ OpenCheckout(s))
         \/ \E e \in Sent : FiveMinutes(e)
  PROVE  IInv'
<1>0. TypeOK /\ now \in Nat
  BY NowPasses DEF IInv
<1>1. UNCHANGED <<offer, truth, sent, row, room, job, listed, course, mishaps>>
  BY DEF Tick, AskCheckout, OpenCheckout, FiveMinutes, stripe, rows
<1>2. TypeOK'
  <2>1. CASE Tick
    BY <1>0, <2>1, WebPaymentsAssumption DEF Tick, TypeOK, rows
  <2>2. ASSUME NEW s \in Sub, AskCheckout(s) PROVE TypeOK'
    BY <1>0, <2>2 DEF AskCheckout, TypeOK, rows, stripe
  <2>3. ASSUME NEW s \in Sub, OpenCheckout(s) PROVE TypeOK'
    BY <1>0, <2>3 DEF OpenCheckout, TypeOK, stripe
  <2>4. ASSUME NEW e \in Sent, FiveMinutes(e) PROVE TypeOK'
    BY <1>0, <2>4, TypeFacts DEF FiveMinutes, TypeOK, rows, stripe
  <2> QED
    BY <2>1, <2>2, <2>3, <2>4
<1>3. NothingWritten
  <2>1. now' \in Nat /\ now <= now'
    BY <1>0 DEF Tick, AskCheckout, OpenCheckout, FiveMinutes, stripe
  <2>2. \A e \in 1 .. MaxEvents : /\ inbox'[e] = "processed" => inbox[e] = "processed"
                                  /\ inbox'[e] # "none" => inbox[e] # "none" \/ e \in Sent
    <3>1. inbox' = inbox \/ \E e \in Sent : FiveMinutes(e)
      BY DEF Tick, AskCheckout, OpenCheckout
    <3>2. ASSUME NEW e \in Sent, FiveMinutes(e)
          PROVE  \A f \in 1 .. MaxEvents : /\ inbox'[f] = "processed" => inbox[f] = "processed"
                                           /\ inbox'[f] # "none" => inbox[f] # "none" \/ f \in Sent
      BY <1>0, <3>2 DEF FiveMinutes, TypeOK
    <3> QED
      BY <3>1, <3>2
  <2> QED
    BY <1>1, <2>1, <2>2 DEF NothingWritten
<1>4. \A v \in All : JobOf(v)'
  BY <1>1, <1>3, StillRead
<1>5. \A x \in listed' : SnapshotOf(x)'
  BY <1>1, <1>3, StillListed
<1> QED
  BY <1>2, <1>3, <1>4, <1>5, StillKept DEF IInv, Requests, All

\* The reconciliation lists what is so, and reads one of what it listed.
LEMMA ListingKeeps ==
  ASSUME IInv, List
  PROVE  IInv'
<1>0. TypeOK
  BY DEF IInv
<1>1. /\ listed' = {[sub |-> s, about |-> "subscription", is |-> truth[s], at |-> 0] : s \in Listable}
      /\ job' = [job EXCEPT ![Reconciler].step = "listing"]
      /\ UNCHANGED <<stripe, checkout, inbox, rows, mishaps, course>>
  BY DEF List
<1> DEFINE new == [job[Reconciler] EXCEPT !.step = "listing"]
<1>2. new \in Jobs /\ new.step = "listing"
  <2>1. job[Reconciler] \in Jobs
    BY <1>0 DEF TypeOK, Jobs
  <2> QED
    BY <2>1 DEF Jobs
<1>3. job' = [job EXCEPT ![Reconciler] = new]
  BY <1>1
<1> HIDE DEF new
<1>4. job' \in [All -> Jobs] /\ job'[Reconciler] = new /\ \A v \in All \ {Reconciler} : job'[v] = job[v]
  <2>1. Reconciler \in All
    BY DEF All
  <2> QED
    BY <1>0, <1>2, <1>3, <2>1, JobReplaced
<1>5. ASSUME NEW x \in listed' PROVE x \in Events /\ SnapshotOf(x)'
  <2>1. PICK s \in Listable : x = [sub |-> s, about |-> "subscription", is |-> truth[s], at |-> 0]
    BY <1>1
  <2>2. s \in Sub /\ offer[s] = "room" /\ truth[s].status # "none"
    BY DEF Listable
  <2>3. truth[s] \in Subscriptions /\ TruthOf(s)
    BY <1>0, <2>2, TypeFacts DEF IInv, Stripes
  <2>4. x \in Events
    BY <2>1, <2>2, <2>3 DEF Events
  <2>5. x.sub = s /\ x.about = "subscription" /\ x.is = truth[s]
    BY <2>1
  <2>6. offer' = offer /\ sent' = sent /\ now' = now
    BY <1>1 DEF stripe
  <2> QED
    BY <2>2, <2>3, <2>4, <2>5, <2>6 DEF SnapshotOf, Told, TruthOf, Sent
<1>6. TypeOK'
  BY <1>0, <1>1, <1>4, <1>5 DEF TypeOK, stripe, rows, All, Jobs
<1>7. NothingWritten
  BY <1>0, <1>1, NowPasses DEF NothingWritten, stripe, rows
<1>8. JobOf(Reconciler)'
  BY <1>2, <1>4 DEF JobOf, Step
<1>9. \A v \in All : JobOf(v)'
  BY <1>4, <1>7, <1>8, StillRead
<1> QED
  BY <1>5, <1>6, <1>7, <1>9, StillKept DEF IInv, Requests, All

LEMMA NextListedKeeps ==
  ASSUME IInv, ReconcileNext
  PROVE  IInv'
<1>0. TypeOK /\ Reconciler \in All
  BY DEF IInv, All
<1>1. PICK x \in listed : /\ listed' = listed \ {x}
                          /\ job' = [job EXCEPT ![Reconciler] = Reading([x EXCEPT !.at = now], 0)]
  BY DEF ReconcileNext
<1>2. UNCHANGED <<stripe, checkout, inbox, rows, mishaps, course>>
  BY DEF ReconcileNext
<1> DEFINE y == [x EXCEPT !.at = now]
<1>3. x \in Events /\ SnapshotOf(x) /\ now \in Nat
  BY <1>0, NowPasses DEF TypeOK, IInv, Requests
<1>4. y \in Events /\ y.sub = x.sub /\ y.about = x.about /\ y.is = x.is /\ y.at = now /\ x.sub \in Sub
  BY <1>3 DEF Events
<1>5. job' = [job EXCEPT ![Reconciler] = Reading(y, 0)]
  BY <1>1
<1> HIDE DEF y
<1> DEFINE new == Reading(y, 0)
<1>6. new \in Jobs /\ new.step = "read" /\ new.what = y
  <2>1. 0 \in 0 .. MaxEvents
    BY WebPaymentsAssumption
  <2> QED
    BY <1>0, <1>4, <2>1, ReadingFields
<1> HIDE DEF new
<1>7. job' \in [All -> Jobs] /\ job'[Reconciler] = new /\ \A v \in All \ {Reconciler} : job'[v] = job[v]
  BY <1>0, <1>5, <1>6, JobReplaced DEF new
<1>8. TypeOK'
  BY <1>0, <1>1, <1>2, <1>7 DEF TypeOK, stripe, rows, All, Jobs
<1>9. NothingWritten
  BY <1>0, <1>2, NowPasses DEF NothingWritten, stripe, rows
<1>10. JobOf(Reconciler)'
  <2>1. sent' = sent /\ offer' = offer /\ now' = now
    BY <1>2 DEF stripe
  <2>4. PICK z \in Events : z = y
    BY <1>4
  <2>2. ReadInTime(Reconciler, z.sub)'
    <3>1. 0 \in 0 .. MaxEvents
      BY WebPaymentsAssumption
    <3> QED
      BY <1>7, <1>9, <2>4, <3>1, FreshRead DEF new
  <2>3. SnapshotOf(y) /\ y.is.since <= y.at /\ y.at <= now
    BY <1>3, <1>4 DEF SnapshotOf
  <2> QED
    BY <1>4, <1>6, <1>7, <2>1, <2>2, <2>3, <2>4 DEF JobOf, SnapshotOf, Told, Sent
<1>11. \A v \in All : JobOf(v)'
  BY <1>7, <1>9, <1>10, StillRead
<1>12. \A z \in listed' : SnapshotOf(z)'
  BY <1>1, <1>9, StillListed
<1> QED
  BY <1>8, <1>9, <1>11, <1>12, StillKept DEF IInv, Requests, All

\* The two actions that write.
LEMMA WriteIs ==
  ASSUME IInv
  PROVE  /\ \A w \in Worker : Write(w) => Writing(w) /\ w \in All
         /\ ReconcileWrite => Writing(Reconciler) /\ Reconciler \in All
<1>0. TypeOK /\ Reconciler \in All
  BY DEF IInv, All
<1>1. ASSUME NEW w \in Worker, Write(w) PROVE Writing(w) /\ w \in All
  <2>1. w \in All /\ Step(w, "read") /\ w # Reconciler
    BY <1>1, WebPaymentsAssumption DEF Write, All
  <2>2. job[w].event \in Sent /\ job[w].event \in 1 .. MaxEvents
    BY <1>0, <2>1, WritingFacts, TypeFacts
  <2>3. inbox' = [inbox EXCEPT ![job[w].event] = "processed"]
    BY <1>1 DEF Write
  <2>4. Writing(w)
    BY <1>0, <1>1, <2>1, <2>2, <2>3 DEF Write, Writing, stripe, TypeOK
  <2> QED
    BY <2>1, <2>4
<1>2. ASSUME ReconcileWrite PROVE Writing(Reconciler)
  BY <1>0, <1>2 DEF ReconcileWrite, Writing, stripe, TypeOK
<1> QED
  BY <1>0, <1>1, <1>2

LEMMA WriteKeeps ==
  ASSUME IInv, (\E w \in Worker : Write(w)) \/ ReconcileWrite
  PROVE  IInv'
<1>0. TypeOK /\ Reconciler \in All
  BY DEF IInv, All
<1>1. ASSUME NEW w \in All, NEW new \in Jobs, new.step # "read", Writing(w),
             job' = [job EXCEPT ![w] = new], UNCHANGED <<stripe, checkout, listed, mishaps>>
      PROVE  IInv'
  <2>1. job' \in [All -> Jobs] /\ job'[w] = new /\ \A v \in All \ {w} : job'[v] = job[v]
    BY <1>0, <1>1, JobReplaced
  <2>2. /\ row' \in [Sub -> Rows] /\ room' \in [Sub -> Rooms] /\ course' \in [Sub -> Courses]
        /\ slot' \in [Sub -> {"none", "pending", "active", "grace", "canceled"}]
    BY <1>1, WritingTypes DEF Writing
  <2>3. TypeOK'
    BY <1>0, <1>1, <2>1, <2>2 DEF TypeOK, stripe, Writing, All, Jobs, Courses
  <2>4. sent' = sent /\ offer' = offer /\ truth' = truth /\ now' = now /\ listed' = listed /\ Sent' = Sent
    BY <1>1 DEF stripe, Sent
  <2>5. Stripes'
    BY <2>4 DEF IInv, Stripes, EventOf, TruthOf
  <2>6. ASSUME NEW v \in All PROVE JobOf(v)'
    <3>1. CASE v = w
      BY <1>1, <2>1, <3>1 DEF JobOf, Step
    <3>2. CASE v # w
      <4>1. job'[v] = job[v]
        BY <2>1, <3>2
      <4>2. JobOf(v)
        BY DEF IInv, Requests, All
      <4>3. ASSUME Step(v, "read") PROVE ReadInTime(v, job[v].what.sub)'
        <5>1. PICK r \in Sub : r = job[v].what.sub
          BY <4>3, WritingFacts
        <5>2. /\ (Muddled(r)' <=> Muddled(r)) /\ (Failing(r)' <=> Failing(r))
              /\ Asked(truth[r]) => /\ course[r] = "outrun" => course'[r] = "outrun"
                                    /\ course[r] # "plain" => course'[r] # "plain"
          BY <1>1, WritingFrame, CourseKept
        <5> QED
          BY <2>4, <4>1, <4>2, <4>3, <5>1, <5>2 DEF JobOf, ReadInTime, Asked
      <4> QED
        BY <2>4, <4>1, <4>2, <4>3 DEF JobOf, Step, SnapshotOf, Told
    <3> QED
      BY <3>1, <3>2
  <2>7. \A x \in listed' : SnapshotOf(x)'
    BY <2>4 DEF IInv, Requests, SnapshotOf, Told
  <2>8. Kept'
    BY <1>1, WrittenInbox, WrittenStamps, WrittenFollows, WrittenEnd DEF Kept
  <2> QED
    BY <2>3, <2>5, <2>6, <2>7, <2>8 DEF IInv, Requests, All
<1>2. ASSUME NEW w \in Worker, Write(w) PROVE IInv'
  <2>1. job' = [job EXCEPT ![w] = Idle] /\ UNCHANGED <<stripe, checkout, listed, mishaps>>
    BY <1>2 DEF Write
  <2> QED
    BY <1>1, <1>2, <2>1, WriteIs, IdleFields
<1>3. CASE ReconcileWrite
  <2>1. PICK new \in {[Idle EXCEPT !.step = "idle"], [Idle EXCEPT !.step = "listing"]} :
          job' = [job EXCEPT ![Reconciler] = new]
    BY <1>3 DEF ReconcileWrite
  <2>2. new \in Jobs /\ new.step # "read"
    BY <2>1, IdleFields
  <2>3. UNCHANGED <<stripe, checkout, listed, mishaps>>
    BY <1>3 DEF ReconcileWrite
  <2> QED
    BY <1>1, <1>3, <2>1, <2>2, <2>3, WriteIs
<1> QED
  BY <1>2, <1>3
-----------------------------------------------------------------------------
LEMMA Start == Init => IInv
<1> SUFFICES ASSUME Init PROVE IInv
  OBVIOUS
<1>1. sent = <<>> /\ Len(sent) = 0 /\ Sent = {}
  BY DEF Init, Sent
<1>2. TypeOK
  <2>1. 1 \in 1 .. MaxTime /\ 0 \in 0 .. MaxMishaps /\ 0 <= MaxEvents
    BY WebPaymentsAssumption
  <2>2. NoRow \in Rows /\ NoRoom \in Rooms /\ NoSubscription \in Subscriptions
    BY NoRoomFields, SubscriptionFields DEF NoRow, Rows, Statuses
  <2>3. job \in [Worker \cup {Reconciler} -> Jobs]
    BY IdleFields DEF Init
  <2>4. sent \in Seq(Events) /\ Len(sent) <= MaxEvents
    BY <1>1, <2>1 DEF Init
  <2>5. inbox \in [1 .. MaxEvents -> {"none", "processing", "stale", "processed", "failed"}]
    BY DEF Init
  <2> QED
    BY <2>1, <2>2, <2>3, <2>4, <2>5 DEF Init, TypeOK, Jobs
<1>3. Stripes
  BY <1>1 DEF Init, Stripes, TruthOf, NoSubscription
<1>4. Requests
  BY IdleFields DEF Init, Requests, JobOf, Step
<1>5. Kept
  <2>1. ASSUME NEW s \in Sub PROVE StampsOf(s) /\ FollowsStripe(s)
    BY <1>1, NoRoomFields DEF Init, StampsOf, FollowsStripe, Applied, NoSubscription, NoRow
  <2>2. ASSUME NEW s \in Sub PROVE EndOf(s)
    BY DEF Init, EndOf, Asked, NoSubscription
  <2> QED
    BY <1>1, <2>1, <2>2 DEF Init, Kept, InboxOf
<1> QED
  BY <1>2, <1>3, <1>4, <1>5 DEF IInv

LEMMA StepKeeps ==
  ASSUME IInv, [Next]_vars
  PROVE  IInv'
<1>1. CASE UNCHANGED vars
  <2>1. /\ UNCHANGED <<now, offer, truth, sent, checkout, inbox, row, room, slot, job, listed, mishaps, course>>
    BY <1>1 DEF vars, stripe, rows
  <2>2. TypeOK'
    BY <2>1 DEF IInv, TypeOK
  <2>3. NothingWritten
    BY <2>1, NowPasses DEF IInv, NothingWritten
  <2>4. (\A v \in All : JobOf(v)') /\ (\A x \in listed' : SnapshotOf(x)')
    BY <2>1, <2>3, StillRead, StillListed
  <2> QED
    BY <2>2, <2>3, <2>4, StillKept DEF IInv, Requests, All
<1>2. CASE Paying
  <2>1. ASSUME NEW s \in Sub, Changed(s), truth[s].status # "canceled",
               truth'[s].status = "canceled" => truth[s].status # "none"
        PROVE  IInv'
    BY <2>1, ChangedTypes, ChangedStripes, ChangedRequests, ChangedKept DEF IInv
  <2>2. PICK s \in Sub : \/ AskCheckout(s) \/ OpenCheckout(s) \/ Subscribe(s) \/ Pay(s) \/ FailPayment(s)
                         \/ Cancel(s, "asked") \/ Cancel(s, "failed") \/ Lapse(s)
    BY <1>2 DEF Paying
  <2>3. CASE AskCheckout(s) \/ OpenCheckout(s)
    BY <2>3, PassingKeeps
  <2>4. CASE ~(AskCheckout(s) \/ OpenCheckout(s))
    BY <2>1, <2>2, <2>4, PayingEffect DEF IInv
  <2> QED
    BY <2>3, <2>4
<1>3. CASE Tick \/ \E e \in 1 .. Len(sent) : FiveMinutes(e)
  BY <1>3, PassingKeeps DEF Sent
<1>4. ASSUME NEW w \in Worker, Write(w) \/ Fail(w) \/ \E e \in 1 .. Len(sent) : Claim(w, e) PROVE IInv'
  BY <1>4, WriteKeeps, EndedKeeps, ClaimKeeps DEF Sent, All
<1>5. ASSUME NEW w \in Worker \cup {Reconciler}, Crash(w) PROVE IInv'
  BY <1>5, EndedKeeps DEF All
<1>6. CASE Reconciling
  BY <1>6, ListingKeeps, NextListedKeeps, WriteKeeps DEF Reconciling
<1> QED
  BY <1>1, <1>2, <1>3, <1>4, <1>5, <1>6 DEF Next

\* Stripe's word, what is under way and what is stored agree at all times: the strengthening of the
\* theorems below.
THEOREM PaymentsInOrder == Spec => []IInv
BY Start, StepKeeps, PTL DEF Spec

\* Every row, event and request keeps its shape, for any subscriptions, requests and events.
THEOREM PaymentTypes == Spec => []TypeOK
<1>1. IInv => TypeOK
  BY DEF IInv
<1> QED
  BY <1>1, PaymentsInOrder, PTL

\* An event about a subscription that handleWebhook marked as done was applied, or something newer
\* was, however often it was claimed, failed or was claimed again.
THEOREM DoneIsApplied == Spec => []ProcessedIsApplied
<1>1. IInv => ProcessedIsApplied
  BY TypeFacts DEF IInv, Kept, InboxOf, ProcessedIsApplied, Sent
<1> QED
  BY <1>1, PaymentsInOrder, PTL

\* However the events of a room are delayed, repeated, reordered or handled at once, and whatever is
\* reconciled meanwhile, once each was handled the room is what the subscription says, and whether one
\* given up has a grace is settled by its own history; save where two changes share a second, a
\* snapshot was applied that Stripe had outrun, or the ending was handled before the change it follows.
THEOREM RoomAgrees == Spec => []AgreesWhenQuiet
<1>1. IInv => AgreesWhenQuiet
  <2> SUFFICES ASSUME IInv, NEW s \in Sub, offer[s] = "room", Quiet(s), ~Muddled(s),
                      course[s] \notin {"outrun", "early"}
               PROVE  Agrees(s)
    BY DEF AgreesWhenQuiet
  <2>1. Applied(s)
    BY DEF Quiet, Applied, Sent
  <2>2. FollowsStripe(s) /\ EndOf(s)
    BY DEF IInv, Kept
  <2>3. CASE ~Asked(truth[s])
    BY <2>1, <2>2, <2>3 DEF FollowsStripe, Agrees, Right
  <2>4. CASE Asked(truth[s])
    BY <2>1, <2>2, <2>4 DEF FollowsStripe, EndOf, Over, Agrees
  <2> QED
    BY <2>3, <2>4
<1> QED
  BY <1>1, PaymentsInOrder, PTL

\* A room in grace, whose grace begins again.
LEMMA GraceKept ==
  ASSUME IInv, NEW w \in All, Writing(w), NEW s \in Sub,
         room[s].state = "grace", room'[s].state = "grace", room'[s].from # room[s].from
  PROVE  job[w].what.sub = s /\ job[w].room # room[s]
<1> DEFINE x == job[w].what
<1>0. TypeOK /\ Step(w, "read") /\ Apply(w) /\ StampsOf(s)
  BY DEF IInv, Kept, Writing
<1>1. /\ x \in Events /\ x.is \in Subscriptions /\ x.at \in Nat /\ job[w].room \in Rooms
      /\ offer[x.sub] = "room" /\ x.is.status = "canceled" => truth[x.sub] = x.is
  BY <1>0, WritingFacts
<1>2. CASE offer[x.sub] # "room"
  BY <1>0, <1>2 DEF Apply, ApplySlot
<1>3. CASE offer[x.sub] = "room" /\ x.about = "subscription"
  <2>1. /\ OnlyOf(x.sub)
        /\ RowWritten(w, x, x.sub) \/ room' = room
    BY <1>0, <1>1, <1>3, ApplyRoomEffect DEF Apply
  <2>2. x.sub = s
    BY <2>1 DEF OnlyOf
  <2>3. room'[s] = RoomOf(x.is, job[w].room, x.at)
    BY <2>1, <2>2 DEF RowWritten
  <2>4. Makes(room'[s], x.is, job[w].room, x.at)
    BY <1>0, <1>1, <2>3, NowPasses, RoomOfMakes
  <2>5. CASE EndedWithGrace(x.is, job[w].room)
    BY <1>0, <1>1, <1>3, <2>2, <2>4, <2>5 DEF Makes, StampsOf, EndedWithGrace, Asked
  <2>6. CASE ~EndedWithGrace(x.is, job[w].room)
    BY <2>2, <2>4, <2>6 DEF Makes, GraceFrom
  <2> QED
    BY <2>5, <2>6
<1>4. CASE offer[x.sub] = "room" /\ x.about # "subscription"
  <2>1. /\ OnlyOf(x.sub)
        /\ \/ room' = room
           \/ /\ x.about = "paid" => room'[x.sub].state = "active"
              /\ x.about # "paid" => room'[x.sub].from = GraceFrom(job[w].room)
    BY <1>0, <1>1, <1>4, ApplyInvoiceEffect DEF Apply
  <2>2. x.sub = s
    BY <2>1 DEF OnlyOf
  <2> QED
    BY <2>1, <2>2 DEF GraceFrom
<1> QED
  BY <1>2, <1>3, <1>4

\* While a grace lasts its end is moved by no later failure, but for one whose transaction read the
\* entitlement before it last changed: graceExpiry counts from the grace that was read.
THEOREM GraceStays == Spec => GraceHoldsStill
<1> DEFINE Held == \A s \in Sub :
       room[s].state = "grace" /\ room'[s].state = "grace" /\ room'[s].from # room[s].from =>
         \E w \in Busy : Step(w, "read") /\ job[w].what.sub = s /\ job[w].room # room[s]
<1>1. ASSUME IInv, Next PROVE Held
  <2> SUFFICES ASSUME NEW s \in Sub, room[s].state = "grace", room'[s].state = "grace",
                      room'[s].from # room[s].from
               PROVE  \E w \in Busy : Step(w, "read") /\ job[w].what.sub = s /\ job[w].room # room[s]
    OBVIOUS
  <2>1. ASSUME NEW w \in All, Writing(w)
        PROVE  \E v \in Busy : Step(v, "read") /\ job[v].what.sub = s /\ job[v].room # room[s]
    <3>1. job[w].what.sub = s /\ job[w].room # room[s] /\ Step(w, "read")
      BY <1>1, <2>1, GraceKept DEF Writing
    <3>2. w \in Busy
      BY <1>1, <2>1, <3>1 DEF Busy, Step, IInv, TypeOK, All
    <3> QED
      BY <3>1, <3>2
  <2>2. ASSUME NEW w \in Worker, Write(w) PROVE Writing(w) /\ w \in All
    BY <1>1, <2>2, WriteIs
  <2>3. ASSUME ReconcileWrite PROVE Writing(Reconciler) /\ Reconciler \in All
    BY <1>1, <2>3, WriteIs
  <2>4. (\E w \in Worker : Write(w)) \/ ReconcileWrite
    <3>1. room' # room
      OBVIOUS
    <3>2. ASSUME NEW r \in Sub, Changed(r) PROVE room' = room
      BY <3>2 DEF Changed, rows
    <3>3. Paying => room' = room
      BY <1>1, <3>2, PayingEffect DEF Paying, AskCheckout, OpenCheckout, IInv, rows
    <3>4. ~Reconciling \/ ReconcileWrite
      BY <3>1 DEF Reconciling, List, ReconcileNext, rows
    <3> QED
      BY <1>1, <3>1, <3>3, <3>4 DEF Next, Tick, Fail, Claim, Crash, FiveMinutes, rows
  <2> QED
    BY <2>1, <2>2, <2>3, <2>4
<1>2. ASSUME IInv, [Next]_vars PROVE [Held]_vars
  BY <1>1, <1>2
<1>3. IInv /\ [Next]_vars => [Held]_vars
  BY <1>2
<1> QED
  BY <1>3, PaymentsInOrder, PTL DEF Spec, GraceHoldsStill
=============================================================================
