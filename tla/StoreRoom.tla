----------------------------- MODULE StoreRoom -----------------------------
(***************************************************************************)
(* The room an App Store subscription pays for (server/store-purchases.js):*)
(* its periods, sent by a phone or told by Apple's notifications, refunded,*)
(* given back, and paid from one journey and then from another.            *)
(*                                                                         *)
(* The subscription is one entitlement.  A request reads its purchase and  *)
(* which lock it needs in one action, the entitlement once it has the lock *)
(* in a second, and writes, with its commit, in a third.  The update names *)
(* the entitlement and nothing it has read, so it overwrites what was      *)
(* committed in between, unless both hold the lock of the same journey;    *)
(* sending again what was granted takes no lock.                           *)
(*                                                                         *)
(* One person holds every journey here and pays.  A failed renewal and an  *)
(* expiry write nothing, and a revocation is written as a refund is:       *)
(* neither has an action here.                                             *)
(*                                                                         *)
(* Its names are its own beside those of Resting, which has the graces     *)
(* asked for: Room_proofs extends both.                                    *)
(***************************************************************************)
EXTENDS Integers, FiniteSets

CONSTANTS
  Journey,     \* journeys the person holds
  Slot,        \* requests handled at once
  NULL,        \* SQL NULL
  Length,      \* how long a period is
  GraceLength, \* how long an automatic grace is: BILLING_GRACE_DAYS
  MaxPeriod,   \* bound: periods paid
  MaxRefunds,  \* bound: periods refunded
  MaxClock     \* bound: time that passes

ASSUME StoreRoomAssumption ==
  /\ NULL \notin Journey \cup Nat
  /\ {Length, GraceLength, MaxPeriod, MaxRefunds, MaxClock} \subseteq Nat
  /\ Length > 0

Periods == 1 .. MaxPeriod

VARIABLES
  clock,     \* the time
  paid,      \* Apple's record: the journey each period was paid from
  refunds,   \* Apple's record: periods refunded, and when
  reversed,  \* Apple's record: periods whose refund was reversed
  heard,     \* billing_store_notifications: those received
  purchases, \* billing_store_purchases: the period, for its journey, revoked or not
  room,      \* billing_entitlements: the subscription's
  left,      \* billing_entitlements: the graces of the journeys the room has left
  requests,  \* requests under way
  amiss      \* whether one has acted on what was no longer so, or came before any purchase was held

apple == <<paid, refunds, reversed>>
roomVars == <<clock, apple, heard, purchases, room, left, requests, amiss>>
-----------------------------------------------------------------------------
\* refunded: the reason is store_refunded.
Rooms == [journey : Journey, until : Nat, refunded : BOOLEAN]

ASSUME RoomsAssumption == NULL \notin Rooms

Purchases == [journey : Journey \cup {NULL}, revoked : BOOLEAN]

NoPurchase == [journey |-> NULL, revoked |-> FALSE]

Ends(p) == p * Length

\* DID_RENEW, REFUND and REFUND_REVERSED.
Notes == [type : {"renewed", "refunded", "reinstated"}, period : Periods]

Note(type, p) == [type |-> type, period |-> p]

\* A request: a period sent by a phone, or a notification; then what it has read.
Idle == [step |-> "idle", what |-> NULL, lock |-> NULL, room |-> NULL, row |-> NoPurchase,
         base |-> NULL, reversal |-> FALSE]

Sent(p) == [type |-> "sent", period |-> p]

RoomInit ==
  /\ clock = 0
  /\ paid = [p \in Periods |-> NULL]
  /\ refunds = [p \in Periods |-> NULL]
  /\ reversed = {}
  /\ heard = {}
  /\ purchases = [p \in Periods |-> NoPurchase]
  /\ room = NULL
  /\ left = {}
  /\ requests = [s \in Slot |-> Idle]
  /\ amiss = FALSE

Held(p) == purchases[p].journey # NULL

Step(s, step) == requests[s].step = step

Finished(s) == requests' = [requests EXCEPT ![s] = Idle]

Unlocked(s, j) == \A r \in Slot \ {s} : ~(Step(r, "read") /\ requests[r].lock = j)
-----------------------------------------------------------------------------
(***************************************************************************)
(* Apple.                                                                  *)
(***************************************************************************)
\* The first period, a renewal from the same journey, or a payment from another one.  Apple may
\* renew a little before the end.
Pay(p, j) ==
  /\ paid[p] = NULL
  /\ clock + 1 >= Ends(p - 1)
  /\ \A q \in 1 .. p - 1 : paid[q] # NULL
  /\ paid' = [paid EXCEPT ![p] = j]
  /\ UNCHANGED <<clock, refunds, reversed, heard, purchases, room, left, requests, amiss>>

Refund(p) ==
  /\ paid[p] # NULL /\ refunds[p] = NULL
  /\ Cardinality({q \in Periods : refunds[q] # NULL}) < MaxRefunds
  /\ refunds' = [refunds EXCEPT ![p] = clock]
  /\ UNCHANGED <<clock, paid, reversed, heard, purchases, room, left, requests, amiss>>

Reverse(p) ==
  /\ refunds[p] # NULL /\ p \notin reversed
  /\ reversed' = reversed \cup {p}
  /\ UNCHANGED <<clock, paid, refunds, heard, purchases, room, left, requests, amiss>>

ClockTick ==
  /\ clock < MaxClock
  /\ clock' = clock + 1
  /\ UNCHANGED <<apple, heard, purchases, room, left, requests, amiss>>

\* The notifications Apple has sent.
Told ==
  {Note("renewed", p) : p \in {p \in Periods \ {1} : paid[p] # NULL}}
  \cup {Note("refunded", p) : p \in {p \in Periods : refunds[p] # NULL}}
  \cup {Note("reinstated", p) : p \in reversed}
-----------------------------------------------------------------------------
(***************************************************************************)
(* Requests.                                                               *)
(***************************************************************************)
\* A phone sends a period as the store gave it, signed before any refund.
Send(s, p) ==
  /\ Step(s, "idle")
  /\ paid[p] # NULL
  /\ requests' = [requests EXCEPT ![s] = [Idle EXCEPT !.step = "arrived", !.what = Sent(p)]]
  /\ UNCHANGED <<clock, apple, heard, purchases, room, left, amiss>>

\* Apple sends again until it is answered with success; one already received changes nothing, and
\* two of the same wait for each other.
Notify(s, n) ==
  /\ Step(s, "idle")
  /\ n \in Told \ heard
  /\ \A r \in Slot : requests[r].what # n
  /\ requests' = [requests EXCEPT ![s] = [Idle EXCEPT !.step = "arrived", !.what = n]]
  /\ UNCHANGED <<clock, apple, heard, purchases, room, left, amiss>>

\* reversedSince: Apple signs a reversal after the refund it reverses.
ReversedSince(p) == Note("reinstated", p) \in heard

\* The journey of the latest purchase held of the subscription (purchaseNamed).
Base ==
  IF \A q \in Periods : ~Held(q) THEN NULL
  ELSE LET latest == CHOOSE p \in Periods : Held(p) /\ \A q \in Periods : Held(q) => q <= p
       IN purchases[latest].journey

\* What a request reads before it has a lock: its own purchase, the latest of the subscription, a
\* reversal already received, and whose lock it needs.
Read(s) ==
  LET what == requests[s].what
      p    == what.period
  IN /\ Step(s, "arrived")
     /\ what.type = "sent" => Ends(p) > clock
     /\ requests' = [requests EXCEPT ![s] = [@ EXCEPT
          !.step = "reading", !.row = purchases[p], !.base = Base, !.reversal = ReversedSince(p),
          !.lock = CASE what.type = "sent" /\ Held(p) -> NULL
                     [] what.type = "sent" /\ ~Held(p) -> paid[p]
                     [] what.type # "sent" /\ room # NULL -> room.journey
                     [] OTHER -> NULL]]
     /\ UNCHANGED <<clock, apple, heard, purchases, room, left, amiss>>

\* The entitlement, once it has its lock: of the journey paid from, or of the one that had the room;
\* a purchase granted before takes none.
Lock(s) ==
  /\ Step(s, "reading")
  /\ requests[s].lock = NULL \/ Unlocked(s, requests[s].lock)
  /\ requests' = [requests EXCEPT ![s] = [@ EXCEPT !.step = "read", !.room = room]]
  /\ UNCHANGED <<clock, apple, heard, purchases, room, left, amiss>>

\* store_subscription_ended, or a request that is lost.
Drop(s) ==
  /\ Step(s, "arrived")
  /\ Finished(s)
  /\ UNCHANGED <<clock, apple, heard, purchases, room, left, amiss>>

Fail(s) ==
  /\ Step(s, "read")
  /\ Finished(s)
  /\ UNCHANGED <<clock, apple, heard, purchases, room, left, amiss>>
-----------------------------------------------------------------------------
(***************************************************************************)
(* grant and replay.                                                       *)
(***************************************************************************)
\* Mutant of GraceLeftBehind: none once it has lapsed.
GraceWhileRunning(held) == IF held.until > clock THEN clock + GraceLength ELSE clock

\* graceLeftBehind: the usual grace from now, or what is left of the one that runs.
GraceLeftBehind(held) ==
  IF held.until > clock THEN clock + GraceLength ELSE held.until + GraceLength

\* What is not newer than what is held changes nothing; to move takes a strictly newer payment.
Newer(held, j, until) ==
  until > held.until \/ (held.journey = j /\ until >= held.until)

\* grantSubscription, and moveRoom where the room is in another journey.
GrantSubscription(held, j, until) ==
  IF held = NULL
  THEN /\ room' = [journey |-> j, until |-> until, refunded |-> FALSE]
       /\ UNCHANGED left
  ELSE /\ room' = IF Newer(held, j, until)
                  THEN [journey |-> j, until |-> until, refunded |-> FALSE] ELSE room
       /\ left' = IF Newer(held, j, until) /\ held.journey # j /\ GraceLeftBehind(held) > clock
                  THEN left \cup {[journey |-> held.journey, until |-> GraceLeftBehind(held)]}
                  ELSE left

\* What a request has read is no longer so.
Stale(s) ==
  LET p == requests[s].what.period IN
    \/ requests[s].room # room
    \/ requests[s].row # purchases[p]
    \/ requests[s].reversal # ReversedSince(p)

Amiss(s) == amiss' = (amiss \/ Stale(s))

\* A purchase not held is recorded first: its row may be there by now, and so may the entitlement,
\* which fails the request.
Grant(s) ==
  LET p == requests[s].what.period IN
    /\ Step(s, "read") /\ requests[s].what.type = "sent"
    /\ requests[s].row = NoPurchase
    /\ IF Held(p) \/ (requests[s].room = NULL /\ room # NULL)
       THEN UNCHANGED <<purchases, room, left>>
       ELSE /\ purchases' = [purchases EXCEPT ![p] = [NoPurchase EXCEPT !.journey = paid[p]]]
            /\ GrantSubscription(requests[s].room, paid[p], Ends(p))
    /\ Amiss(s)
    /\ Finished(s)
    /\ UNCHANGED <<clock, apple, heard>>

\* replay: one refunded since extends nothing.
Replay(s) ==
  LET row == requests[s].row IN
    /\ Step(s, "read") /\ requests[s].what.type = "sent"
    /\ row # NoPurchase
    /\ IF row.revoked
       THEN UNCHANGED <<room, left>>
       ELSE GrantSubscription(requests[s].room, row.journey, Ends(requests[s].what.period))
    /\ Amiss(s)
    /\ Finished(s)
    /\ UNCHANGED <<clock, apple, heard, purchases>>
-----------------------------------------------------------------------------
(***************************************************************************)
(* appleNotificationEffect and applyStoreEvent.                            *)
(***************************************************************************)
\* A notification, received once, in the transaction that applies it.
Hear(s, type) ==
  /\ Step(s, "read") /\ requests[s].what.type = type
  /\ heard' = heard \cup {requests[s].what}
  /\ Finished(s)
  /\ UNCHANGED <<clock, apple, left>>

\* No purchase of the subscription is held: unknown_purchase.
Unknown(s) ==
  /\ \E type \in {"renewed", "refunded", "reinstated"} : Hear(s, type)
  /\ requests[s].base = NULL
  /\ amiss' = TRUE
  /\ UNCHANGED <<purchases, room>>

\* recordStoreTransaction: one recorded meanwhile stays as it is.
Recorded(p, j, revoked) ==
  IF Held(p) THEN purchases
  ELSE [purchases EXCEPT ![p] = [journey |-> j, revoked |-> revoked]]

\* A renewal continues the subscription in the journey that has the room, unless it was refunded.
Renewed(s) ==
  LET p    == requests[s].what.period
      held == requests[s].room
      row  == requests[s].row
      acts == IF row = NoPurchase THEN paid[p] = held.journey ELSE ~row.revoked
  IN /\ Hear(s, "renewed")
     /\ requests[s].base # NULL
     /\ purchases' = IF acts THEN Recorded(p, held.journey, FALSE) ELSE purchases
     /\ room' = IF acts /\ Ends(p) > held.until
                THEN [room EXCEPT !.until = Ends(p), !.refunded = FALSE] ELSE room
     /\ Amiss(s)

\* A period paid since the refunded one outlives its refund.
Outlives(held, p) == held.until > Ends(p)

\* Mutant of Refunded: a refund whose reversal has already arrived is applied.
RefundedAnyway(s) ==
  LET p    == requests[s].what.period
      held == requests[s].room
  IN /\ Hear(s, "refunded")
     /\ requests[s].base # NULL
     /\ purchases' = [purchases EXCEPT ![p] = [@ EXCEPT !.revoked = TRUE,
                        !.journey = IF @ = NULL THEN requests[s].base ELSE @]]
     /\ room' = IF Outlives(held, p) THEN room
                ELSE [room EXCEPT !.until = IF held.until < refunds[p] THEN held.until ELSE refunds[p],
                                  !.refunded = TRUE]
     /\ Amiss(s)

\* The room ends when the store refunded it, or at its own end if that came first.
Refunded(s) ==
  LET p    == requests[s].what.period
      held == requests[s].room
  IN /\ Hear(s, "refunded")
     /\ requests[s].base # NULL
     /\ IF requests[s].reversal
        THEN UNCHANGED <<purchases, room>>
        ELSE /\ purchases' = IF requests[s].row = NoPurchase THEN Recorded(p, requests[s].base, TRUE)
                             ELSE [purchases EXCEPT ![p].revoked = TRUE]
             /\ room' = IF Outlives(held, p) THEN room
                        ELSE [room EXCEPT !.until = IF held.until < refunds[p] THEN held.until
                                                    ELSE refunds[p],
                                          !.refunded = TRUE]
     /\ Amiss(s)

\* Only a purchase held as refunded comes back, and only room that a refund ended.
Reinstated(s) ==
  LET p    == requests[s].what.period
      held == requests[s].room
  IN /\ Hear(s, "reinstated")
     /\ requests[s].base # NULL
     /\ IF requests[s].row.revoked
        THEN /\ purchases' = [purchases EXCEPT ![p].revoked = FALSE]
             /\ room' = IF held.refunded
                        THEN [room EXCEPT !.until = IF held.until > Ends(p) THEN held.until ELSE Ends(p),
                                          !.refunded = FALSE]
                        ELSE room
        ELSE UNCHANGED <<purchases, room>>
     /\ Amiss(s)
-----------------------------------------------------------------------------
AppStore ==
  \/ \E p \in Periods : Refund(p) \/ Reverse(p) \/ \E j \in Journey : Pay(p, j)
  \/ ClockTick

Handling(s) ==
  \/ Read(s) \/ Lock(s) \/ Drop(s) \/ Fail(s) \/ Grant(s) \/ Replay(s)
  \/ Unknown(s) \/ Renewed(s) \/ Refunded(s) \/ Reinstated(s)

RoomNext ==
  \/ AppStore
  \/ \E s \in Slot :
       Handling(s) \/ (\E p \in Periods : Send(s, p)) \/ (\E n \in Notes : Notify(s, n))

RoomSpec == RoomInit /\ [][RoomNext]_roomVars
-----------------------------------------------------------------------------
\* Every purchase, room and request keeps its shape.
TypeOK ==
  /\ clock \in 0 .. MaxClock
  /\ paid \in [Periods -> Journey \cup {NULL}]
  /\ refunds \in [Periods -> Nat \cup {NULL}]
  /\ reversed \subseteq Periods
  /\ heard \subseteq Told
  /\ purchases \in [Periods -> Purchases]
  /\ room \in Rooms \cup {NULL}
  /\ left \subseteq [journey : Journey, until : Nat]
  /\ requests \in [Slot ->
       [step : {"idle", "arrived", "reading", "read"}, what : Notes \cup {Sent(p) : p \in Periods} \cup {NULL},
        lock : Journey \cup {NULL}, room : Rooms \cup {NULL}, row : Purchases,
        base : Journey \cup {NULL}, reversal : BOOLEAN]]
  /\ amiss \in BOOLEAN

\* Every period paid is held, every notification was received, and nothing is under way.
Settled ==
  /\ room # NULL
  /\ \A p \in Periods : paid[p] # NULL => Held(p)
  /\ heard = Told
  /\ \A s \in Slot : Step(s, "idle")

Last == CHOOSE p \in Periods : paid[p] # NULL /\ \A q \in Periods : paid[q] # NULL => q <= p

\* However a phone's copies, renewals, refunds and reversals come late, again or out of order, the
\* room is never longer than was paid for, and it ends up where the last period paid for put it: to
\* its end, in the journey it was paid from, or, once that period is refunded, over by then or at
\* the end of the one before (grantSubscription, replay, appleNotificationEffect).  Requests amiss
\* are the exception; and a reversal brings back no period but the first to its own end, whatever
\* the comment on applyStoreEvent says of it.
RoomFollowsStore ==
  Settled /\ ~amiss =>
    /\ room.until <= Ends(Last)
    /\ CASE refunds[Last] = NULL -> room.journey = paid[Last] /\ room.until = Ends(Last)
         [] refunds[Last] # NULL /\ Last \in reversed -> Last = 1 => room.until = Ends(Last)
         [] OTHER -> room.until <= refunds[Last] \/ room.until <= Ends(Last - 1)

\* A journey has the room, or days left of a grace.
Has(j, r, ls, t) ==
  \/ r # NULL /\ r.journey = j /\ r.until + GraceLength > t
  \/ \E g \in ls : g.journey = j /\ g.until > t

\* No journey loses its room at once because another is paid from: it keeps its days of grace
\* (moveRoom, graceLeftBehind).
LeftWithGrace ==
  [][\A j \in Journey :
       room # NULL /\ room'.journey # j /\ Has(j, room, left, clock) /\ clock' = clock =>
         \/ Has(j, room', left', clock)
         \/ \E s \in Slot : Step(s, "read") /\ Step(s, "idle")' /\ Stale(s)]_roomVars
=============================================================================
