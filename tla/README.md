# Verification of Together Ledger

Together Ledger lets a few people keep one shared journey: moments, photos, expenses, and a history
nobody can rewrite. The server (`src/server/`, Node and PostgreSQL) keeps everything that is shared;
a web app (`src/src/`) and a phone app (`src/apps/mobile/`) call it.

This directory holds TLA+ models of the parts where orders of events matter, TLC configurations that
check them on small instances, and proofs that TLAPS checks for every instance.

| file | what it is |
|---|---|
| `Journey.tla` | one journey on the server: people, ownership, invitations, places |
| `SignIn.tla` | one account's sign-ins on its phones: tokens on the server and on the phone |
| `Waiting.tla` | moments held on a phone until the journey has them |
| `Ledger.tla`, `History.tla` | a journey's records and its chain of events; what the history promises |
| `Accounts.tla` | people, the journeys they are in, and the locks of their requests |
| `Resting.tla` | who rests in a journey whose room is not paid for, and the grace before |
| `WebPayments.tla` | Stripe: checkouts, events, reconciliation |
| `StoreRoom.tla` | the room an App Store subscription pays for |
| `StorePurchases.tla` | an extra photo bought through Google Play |
| `Journey_proofs`, `Ledger_proofs`, `Accounts_proofs`, `SignIn_proofs`, `Waiting_proofs`, `Room_proofs` (`Resting` and `StoreRoom`), `WebPayments_proofs`, `StorePurchases_proofs` (`.tla`) | theorems about each, and their proofs |
| `MC*.tla`, `*.cfg` | the instances for TLC |
| `PROJECT.json` | components, runs, mutants, the map from definitions to code, findings, hazards, theorems |

Run `tlc -config invitations.cfg MCJourney.tla`, and `tlapm Journey_proofs.tla`. A definition whose
comment begins with "Mutant of" is a plausible mistake in the definition it names; nothing else uses
it. Put in its place, it makes TLC find the property violated that `PROJECT.json` gives beside it.

## 1. The system's parts

Each part: the state it keeps, what it does, what makes it hard, what makes it correct.

**Membership, ownership, invitations, places** (`server/platform.js`, routes in `server/app.js`).
State: `journeys.owner_user_id`, `journey_members`, `journey_invite_proposals`,
`journey_invite_consents`, `invitations`. Anybody in a journey may propose somebody; everybody here
must agree; then an invitation is minted, which holds a place, and mailed after the commit; the
invited person accepts by its link. Questions lapse after 30 days, invitations after 14, which is
recorded by whoever looks first. Hard: every handler checks membership *before* it takes the
journey's advisory lock; the mail's failure is undone by statements outside any transaction; a mail
may arrive though it was reported failed; deletion of an account cuts across everything. Correct
when: nobody is added unless all agree, places are never overbooked, an invitation ends once, what
is settled stays, somebody holds the journey.

**Sign-in tokens of a phone** (`server/platform.js` `issueTokens`, `tokenHolder`, `refreshTokens`,
`revokeToken`; `apps/mobile/src/api/client.ts`). State: `api_tokens`, and the pair a phone stores. A
renewal spends a pair and issues the next; a spent pair presented again is a lost reply, or a copy.
Hard: READ COMMITTED interleavings of renewal, retry, sign-out, and change of password; replies lost
or late. Correct when: one pair of a sign-in works, a lost reply costs nobody their sign-in, a
sign-in that is over stays over.

**Event chain** (`appendEvent`): every change of a journey appends an event with the next sequence
and the hash of the one before, under the journey's lock. Hard: the handlers that write before they
lock. Correct when: one chain, without gaps, that nothing rewrites.

**Moments, images, places, hold keys** (`holdMoment`, `mutateMoment`), and **the phone's waiting
moments** (`waiting-moments.ts`, `use-waiting-moments.ts`): a moment written offline is kept on the
phone and sent with a key until the server has it. Hard: retries after a lost reply, accounts that
change while the queue is sent. Correct when: it arrives, once, from its own author.

**Settings, expenses, concerns, milestones, versions**: single rows, with a version compared on
change.

**Rest and grace** (`capacityFor`, `paymentFor`, `setRestOrder`, `requestMoreGrace`): when payment
lapses nobody is removed; those beyond what is covered rest read-only, and a payer may ask for time.
Hard: time, limits per year, the order changed meanwhile.

**Stripe** (`billing.js`): a webhook inbox with retries, subscriptions with events out of order,
reconciliation. **Stores** (`store-purchases.js`): purchases verified and granted once, rooms that
move with a journey, refunds and reversals, acknowledgement with back-off. Correct when: an event
has its effect once, the newest word wins, what was paid is granted and acknowledged in the end.

**Apple and Google sign-in, Apple's revocations** (`socialSignIn`, `collectAppleReturn`,
`drainAppleRevocations`): an answer is collected once; revocations go out after a deletion, with
retries. **Accounts** (register, verify, recover, browser sessions): single-use tokens.

**The phone** besides: session state, purchases, a pending invitation, views. **The web app**:
views, single calls, local ledgers. **Mail, configuration, scripts**: no state of their own.

They interact through the database (membership is checked by every handler; the payments decide the
places; a deleted account touches every table), through mail (a link is the only way in), and
through HTTP calls of which either half may be lost.

## 2. Plan, and what became of it

1. `Journey` and its proofs: how people come and go. Done.
2. `SignIn`: sign-ins. Done, and proved.
3. `Waiting`: the phone's waiting moments, with liveness. Done; safety proved.
4. `Ledger`: the event chain and the versions, as an implementation of `History`. Done, and proved.
5. `Resting`: what `Journey` lets the payment do freely. Done, and proved.
6. `WebPayments`: the inbox, events out of order, reconciliation. Done, with liveness; safety proved.
7. `StoreRoom`, `StorePurchases`: room that moves and is refunded; a purchase from the tap to the
   acknowledgement. Done for one product in each store, with liveness of the second; safety proved.
8. `Accounts`: locks of several journeys, the limit. Done, and proved.

What would come next: passes and subscriptions in Google Play, which share most of `StorePurchases`;
`SignIn` with two accounts on a phone, composed with `Waiting`.

How the models fit together: `Journey` lets the payment change as it likes, `Resting` lets the rows
of the payments change as `WebPayments` and `StoreRoom` may change them, and the event each handler
of `Journey` appends is a `Write` of `Ledger`. `Accounts` has the memberships of `Journey`, of
several journeys, and takes the locks one by one that `Journey` and `Ledger` take as one step.

### The runs

| run | module | distinct states | deadlock checked |
|---|---|---|---|
| `invitations` | `Journey` | 1.07 million | no |
| `places` | `Journey` | 582,000 | yes |
| `sign_ins` | `SignIn` | 1.41 million | yes |
| `waiting` | `Waiting` | 337,000 | yes |
| `ledger` | `Ledger` | 175,000 | no |
| `accounts` | `Accounts` | 1.03 million | no |
| `resting` | `Resting` | 946,000 | no |
| `web_payments` | `WebPayments` | 929,000 | no |
| `repaired` | `WebPayments` | 479,000 | no |
| `store_room` | `StoreRoom` | 1.05 million | no |
| `store_purchases` | `StorePurchases` | 385,000 | no |
| `another_account` | `Waiting` | ends with a counterexample | |

Where deadlock is not checked the model really may stop: the journey may be deleted with everybody
in it (`invitations`), every account may be deleted (`accounts`), or a bound on time, events,
periods or payments is reached and nothing is under way.

## 3. `Journey`

| model | code |
|---|---|
| `role`, `holder` | `journey_members.role`, `journeys.owner_user_id` |
| `erased` | `users.deleted_at` |
| `places`, `grace` | `availableCapacity` and the payment's state in `capacityFor` |
| `proposals` | `journey_invite_proposals`, with each person's consent as `answers` |
| `invitations` | `invitations`; `closed` is `revoked_at` and whether somebody withdrew it |
| `requests` | what the server is doing: passed its check, or seeing to a mail |
| `mailed` | which mails reached their mailbox |

**The lock.** A handler runs in a transaction: `requireMember` reads what is committed; then
`lockJourney` waits for the journey's advisory lock, held to the commit. So the part under the lock
is *one* action and what was read before it is *stale*: `Ask` records who asks and their role as it
was then, and a request waits in a slot for as long as it pleases. Where the code reads again under
the lock, the action's guard reads the state; where it does not (the asker's own membership or
ownership), the guard reads the slot. `leaveJourney` and `acceptInvitation` read everything that
matters under the lock and are one action.

**The mail.** Minting leaves the slot in `mail`. `MailSent`, or `MailFailed` (the mail may have
arrived all the same), then `RevokeUndelivered` and `ReopenProposal`: the two statements, each its
own transaction. `Lost` ends a request anywhere: refused, rolled back, or the process stopped.

**Time.** `Tick`; a mail's attempts end within seconds and an invitation's days are fourteen, so the
clock does not pass an invitation while its mail is being seen to (its guard). `NoticeRunOuts` is
what any read does first. **Payment.** `PaymentChanges` sets any paid capacity at any time.

A `Person` is an account *and* its address; the event chain, notes, names and moments are left out.
A proposal or invitation is never removed one by one by the code, so a row of the model is used
once.

### What the runs check

| run | instance | shows |
|---|---|---|
| `invitations` | 2 people, one of them here; 2 questions, 2 invitations, 2 requests; one deletion; 2 days | `TypeOK`, `LiveIsAgreed`, `OneEnding`, `OneMailEach`, `NothingLeftBehind`, `HolderIsOwner`, `SettledStays` |
| `places` | 3 people, one of them here; paid capacity that moves between 1 and 2 and falls into grace; a ceiling of 2 | `WithinPlaces`, `PlaceGivenOnlyWhenFree`, `EveryoneAsked` |

The bounds: two slots are every pair of requests; two questions and two invitations are an old and a
new one; in `invitations` a question outlives an invitation, as 30 days outlive 14. The levels of
`places` stand for the included places and the most that can be paid for (2 and 101 in the code).
Rows and slots, and the people who are alike at the start, are interchangeable, which is the
symmetry used.

### What is proved (`Journey_proofs.tla`)

For every set of people, rows, slots, places and days, from the module's four named assumptions:

* `TypeCorrect`: the shape of every row and request.
* `LiveStaysAgreed`, `MailsApart`, `NothingStays` by one inductive invariant, `Deliveries` = the
  three together. `LiveIsAgreed` alone is not inductive: that revoking and reopening leave nothing
  holding a place depends on the question still standing on the invitation whose mail failed
  (`OneMailEach`), and that in turn on a reopened or deleted row naming nothing
  (`NothingLeftBehind`). Each action is a lemma; each conjunct a step.
* `EndsOnce`: an invitation that ended otherwise never runs out too, using `Deliveries` for the mail
  whose failure is undone late.
* `PlacesKept`, `PlacesCountedFirst`: from a lemma, `Growth`, that bounds how each action changes
  the number of people and of places held: minting adds one, accepting turns one into the other,
  nothing else adds.
* `HolderKept`, `SettledKept`, `EveryoneIsAsked`: step by step from types, and, for the second,
  `Deliveries`.

## 4. `SignIn`

| model | code |
|---|---|
| `pairs` | `api_tokens`: the access and refresh row issued together, retired together |
| `expired`, `password` | `expires_at` of the refresh row; which `password_hash` |
| `held` | the tokens in the phone's secure store |
| `requests` | each HTTP request: on its way, on the server, on its way back |
| `ended` | a record of the sign-ins a sign-out or change of password has ended |

**READ COMMITTED.** `refreshTokens` locks rows (`FOR UPDATE`) and decides on them, so it is two
actions: what it writes (`Rotate`, `Replace`: a pair `issuing`, which nobody sees) and its commit.
An `UPDATE` by family, as signing out or refusing runs it, is two as well: the rows its snapshot has
(`seen`), then their change once nobody has them locked, looking at each again (`RetireSeen`), which
is how PostgreSQL does it: a row inserted meanwhile is missed. `tokenHolder` reads and marks in two
statements (`Find`, `Mark`).

**The phone.** One renewal at a time (`refreshing`), any number of other requests. Losing a request,
its transaction or its reply is `Lost`; a connection that broke while the request travels on is
`GiveUp`. Signing out forgets the tokens whatever became of the request.

| run | instance | shows |
|---|---|---|
| `sign_ins` | 1 phone, 3 pairs, 2 requests, signing out, one change of password, late arrivals | `TypeOK`, `OneLivePair`, `ReplacedUnseen`, `RefusedOnlyWhenOver`, `NoRevival` |

Three pairs are a sign-in, its renewal and the retry's replacement, or two sign-ins and a renewal.
Two requests are each pair that can cross. Signing out everywhere was added by hand (2.98 million
states). `RefusedOnlyWhenOver` excepts a phone one of whose requests was still on its way when it
stopped waiting (`late`): its own first attempt, arriving after its retry was answered and used, is
taken for a copied token, and the phone is signed out. No fairness is stated: nothing renews or
retries by itself.

### What is proved (`SignIn_proofs.tla`)

Every property of the run, for any phones, pairs, requests and ways to end a sign-in. The invariant
has three layers, each resting on the one before:

* `Server`: what a transaction has locked is as it was when it decided (`Decided`), no row is locked
  twice (`Locked`), and every pair hangs by `by` on one of its sign-in committed before it (`Rows`,
  `Seen`). `OneLivePair` is not inductive without them: a renewal makes its pair live while it
  retires the one it spent only because that one is still the live one. `TypeCorrect`,
  `OnePairWorks` and `ReplacedWasUnseen` follow, and `NothingRevived`, an action property, by one
  step for each action that can make a pair.
* `Client`: a sign-in is one phone's, a phone waits for one renewal, and a pair on its way to it is
  nobody's yet.
* `Standing`: while its sign-in lasts, the pair a phone keeps or presents works, or a pair issued
  for it does that nobody has used. This is why a retry is never taken for a copy, and
  `RefusedOnlyOnceOver` follows.

## 5. `Waiting`

| model | code |
|---|---|
| `waiting`, `refused` | each account's list in the phone's storage, oldest first, and which entries carry a refusal |
| `tokens`, `sender` | the tokens in the secure store; `sender.current`, who the service has confirmed |
| `run`, `again` | the drain under way (`running`), with the list it has read and its request; `again.current` |
| `holding` | forms that wait for the drain (`hold`) |
| `live` | accounts whose sign-in on this phone the server accepts |
| `member`, `row`, `made` | `journey_members`; `moment_hold_keys` (a moment, one deleted since, or no row); every moment ever made |
| `late` | requests the phone gave up on which may still arrive |
| `notes`, `balked`, `mishaps` | history: what was held in which order, what was ever refused; the bound's counter |

**The phone** is one thread, so an action is what happens between two waits. `Drain` starts a run or
asks the one under way for another round; `List` reads the list; then, entry by entry, `Send`, and
what is heard: `HearHeld`, `HearRefused`, `HearNothing` (which ends the round), or, when the token
was not accepted, `Renew` with whatever tokens are stored *by then*. **The network** fails, loses
the answer, or delivers a request after the phone gave up on it. **The server** (`Holds`) is one
transaction under the journey's lock: the key's moment answered again, one deleted since refused, a
new one made, or a refusal for other reasons. Deletion leaves the row without its moment; leaving
takes the rows.

| run | instance | shows |
|---|---|---|
| `waiting` | 1 account, 2 moments, 1 mishap, 1 return, under fairness | `TypeOK`, `HeldOncePerStay`, `SentInOrder`, `NotLeftBehind`, `KeptUntilHeld`, `WaitingIsSent` |
| `another_account` | 2 accounts, 1 moment, no mishap | `SentByItsHolder` is violated (section 11) |

A mishap is an answer lost, a request that arrives late, a sign-in that ended, or the app closed;
plain failures are not counted and may go on for ever. Two moments give an order and one held while
another is sent; one return is a stay after another. Two mishaps (1.13 million states), and two
accounts that take turns (1.9 million, safety only), were checked by hand and take too long to be
kept.

**Fairness.** `WF(RunStep)`: the phone's code goes on while the app is open. `WF(Wake)`: the
connection returns or the app comes to the foreground again and again; without it nothing is sent,
because the phone has no timer. `SF(Serve(k))` for each moment: of the requests made for it again
and again, some reach the server. A try may fail and then be over, so weak fairness would let every
one fail. `WaitingIsSent` asks only of the account that stays signed in.

### What is proved (`Waiting_proofs.tla`)

For any accounts, moments and bounds: `OnceEachStay`, `ArrivesInOrder`, `NothingLost` and
`NoneLeftBehind`, besides the types. What an entry leaving a list does to the rest is `Without`, a
recursive function; what it returns for *every* list is proved by induction over the set of the
lengths for which it holds, from the fact that a set of naturals has a least element (`Induction`,
`WithoutKeeps`). Each action then has a lemma that says what it does (`Effect`), and the invariant is
kept by whatever has such an effect. It says that what waits stands in the order it was held
(`Listed`), that what a round has left is in that order and misses nothing older (`Sorted`), that a
request on its way, or given up, has nothing older waiting (`Flying`), that a round nobody asked to
follow has every moment a form waits for (`Following`), that "held" is said of a moment that was made
(`Backed`), and that a key which may still be used has made one moment less (`Counted`). The order
property by itself says nothing of a request that still travels, so `Flying` is what makes it
inductive.

## 6. `Ledger` and `History`

| model | code |
|---|---|
| `rows` | the version of the settings, each entry, each milestone; whether the note of resting was taken |
| `events` | `journey_events`: sequence, the event it follows (its `previous_hash`), the record, `before_value`, `after_value` |
| `requests` | a transaction: asked, or holding the journey's lock, with what it has read |
| `Ask` | `requireMember`, which reads the settings; an entry's own id is new |
| `Lock` | `lockJourney`, then everything read under it and the last event (`appendEvent`) |
| `Write` | the version compared, the `UPDATE`, the event, the commit |

A hash is abstracted to the event it covers, which is what the chain's check tells apart. The
settings are the one record whose version is compared with a row read *before* the lock, and whose
`UPDATE` names that version again (`Unmoved`); without it, one of two changes would tell of a state
that never was.

`History` is what a reader of the journal is promised: each change is told once, at the end, with
what was there just before it. `TellsEverything` is `History!Spec` under the mapping `log` ← the
events' records and values, `current` ← `rows`.

Run `ledger`: one record of each kind, three requests, four events: each pair of changes crosses,
and a third follows. Proved for every instance (`Ledger_proofs.tla`): `LedgerTypes`, `ChainHolds`,
and the refinement `TellsAll`. The inductive invariant adds to types and chain that the lock has one
holder, and that what its holder has read as the last event still is. From these every `Write` is
`Happens` of `History`, and every other step a stutter.

## 7. `Accounts`

| model | code |
|---|---|
| `members`, `deleted` | `journey_members`, `users.deleted_at` |
| `held` | the locks a transaction has: a journey's (`lockJourney`, `appendEvent`), what a person holds (`journeysHeldBy`), a membership's row, a person's row (alone where it is selected `FOR UPDATE` or its email address changes; shared by every row written that references it) |
| `requests` | whose transaction, which locks are ahead of it, what it has read under one |
| `Create`, `Accept`, `Rename`, `Erase` | `createJourney`, `acceptInvitation`, `changeDisplayName`, `eraseAccount` |
| `Change`, `Transfer`, `Leave`, `Order` | any change that locks its journey first, `transferOwnership`, `leaveJourney` and `removeMember`, `setRestOrder` |
| `Take`, `Skip`, `Count`, `List`, `Commit`, `RollBack` | the next lock, or a membership that is gone; the count of journeys; the journeys a change of name tells, in order; the end of a transaction |

A change may reference anybody: asking somebody in writes a consent for everyone in the journey
(migration 022, `platform.js:1713`), an expense names who pays. Leaving, removing and handing over
select a membership and its person's row `FOR UPDATE`, which locks both. Most requests lock their
journey before any row. Three do not: a deletion, whose query gives its journeys in whatever order,
since it has no `ORDER BY`, and which keeps its memberships' rows while it waits for the next
journey; an order of rest, which writes every membership before it appends its event; and a change
of name, which has its person's row while it waits for journeys, in order. So two people may wait
for each other: one changes their name while the other asks somebody in, removes them or hands the
journey over to them, or one gives an order while the other leaves. PostgreSQL gives one of them up
(`RollBack`). `OnlyRowsFirstMeet` says that every circle has one of these three in it, and a change
of name only where another of them waits for that person's row; the rest, and changes of names
among themselves, never meet. The locks are those of these tables and requests: what Stripe and the
stores lock besides, and the rows of moments and expenses, which are locked under their journey's
lock only, are left out.

Run `accounts`: two people, three journeys, two requests, a limit of two (101 in the code). A circle
of three is out of TLC's reach with these locks; the proof has circles of any length.

Proved for every instance (`Accounts_proofs.tla`): `LimitKept` and `NobodyElseLosesTheirs`, with the
types. The inductive invariant: what is idle is idle, a lock that is not shared has one holder, who
joins or leaves a journey takes its lock first, a deletion waits for its own journeys' locks only,
who has counted still holds the lock on the count and the count still has room, and who has found
nobody else in a journey holds its lock and there still is nobody.

`RowsFirstMeetAlone` (`OnlyRowsFirstMeet`) needs a second one, `InTurn`: for each kind of request,
which locks it has by the time it waits for which, and that a change of a name has journeys of lower
ids only than those ahead of it. In a circle without the three exceptions nobody can wait for a
membership, for a person's row, or for what a person holds: who has it would have to wait in turn
for something that only a later place in the order gives. So somebody waits for a journey, and who
has that one waits for a later one. The last of finitely many journeys (`OneComesLast`) is waited
for by nobody who is waited for. The circle may have any length, and there may be any number of
requests.

## 8. `Resting`

| model | code |
|---|---|
| `joined`, `place` | `journey_members.joined_at` as an order, `rest_order` |
| `joining`, `ordering` | a transaction begun (which is what `joined_at` counts from); places checked and not yet written |
| `rows`, `payments` | `billing_entitlements`; the bound's counter |
| `asked` | `journey_grace_requests` |
| `Until`, `Current`, `Live`, `Grace` | `paymentFor`: how a row is read today, with the weeks asked for from its `grace_basis` |
| `RestsBefore`, `Resting` | `restQueue`, `restingMemberIds` |

Nothing is written when a grace is over or somebody rests: all of it is read again each time, so the
properties are about what a clock, a payment and people's requests make of it. Run `resting`: three
people, one row on the web and one in a store, a year of four units with one week allowed in each,
payments that change twice, five units of time from the second (so that the turn of a year is
crossed). Longer times (1.7 million states), two quantities (2.4 million) and both were checked by
hand.

Proved for every instance (`Room_proofs.tla`): all three. `GraceIsBounded` is a count. What was
asked for of a grace that ends by itself at b is stamped with years of times between b less a week
and b plus the weeks of two years (`WhileItGoesOn`); a year is longer than that by assumption, as it
is in the code, so they lie in two years (`TwoYears`), and each year allows so many
(`YearsCounted`); and each adds a week to the one before (`OneByOne`). The three are inductive only
together: that a request falls within the span follows from the count so far. `OverIsOver` holds
since a grace that is over can have no more asked of it, nor can another row that ends at the same
time. `PlacedKeepAdding`: somebody new has no place, so they rest before the placed, and add as much
to the queue before them as to the people here; that those not here have no place is the invariant.
The proof needs that payments can be for finitely many quantities (`MAX_PAID_CAPACITY`), which the
module now assumes.

## 9. `WebPayments`

| model | code |
|---|---|
| `truth`, `sent`, `offer`, `checkout` | Stripe (external): each subscription, the events about it, what it is for, its checkout |
| `inbox` | `billing_webhook_events.processing_state`; `stale` is one claimed and first received over five minutes ago |
| `row`, `room`, `slot` | `billing_subscriptions`, `billing_entitlements`, the slot of a place or an image |
| `job`, `listed` | what each request has read and is about to write; what the reconciliation has listed |
| `course`, `early` | history: whether what Stripe holds was applied once, again, before the change it follows, or after a snapshot that Stripe had outrun |
| `Claim`, `Write`, `Fail`, `Crash` | `handleWebhook` |
| `ApplyRoom`, `ApplyInvoice`, `ApplySlot` | `processSubscription`, `processInvoice`, `processCheckout` |
| `List`, `ReconcileNext`, `ReconcileWrite` | `reconcile` |

An event may arrive late, again, after a later one, or never. Its row is claimed by a statement of
its own, then its transaction reads the entitlement, and writes: two actions, so that two workers
cross. Each write compares the event's second with the one stored.

| run | instance | shows |
|---|---|---|
| `web_payments` | 1 subscription of any of the three offers, 2 workers, 3 events, 3 seconds | `TypeOK`, `AgreesWhenQuiet`, `ProcessedIsApplied`, `GraceHoldsStill` |
| `repaired` | the journey's room, 1 worker, 3 events, 2 seconds, 1 mishap, under fairness | `RepairedInTheEnd` |

Three events are one that begins, one that ends and one between, in any order; each change may have
a second of its own, hence as many seconds as events in `web_payments`; two workers are each pair. A
worker that stops is there one that is never heard of again, whose claim the other takes over after
five minutes; `repaired` has crashes and failures as such. With one mishap in `web_payments` as well
(4.6 million states) and, for `AgreesWhenQuiet`, with one request at a time
and four events in four seconds (2.7 million: a payment fails, is paid, and the room is given up)
the same was checked by hand; these take too long to be kept.

`AgreesWhenQuiet` says which state is right: of room that goes on, its own; of one given up while it
was paid for, its grace, also where a payment had failed before and was then paid; of one whose
payment was failing when it ended, none, even where Stripe gives no reason, as
`endedRoomGraceExpiry` means it (`billing.js:718`). Four things are left out, each a behaviour of the
code (section 11): two changes in one second; a snapshot that was outrun; an ending the payer asked
for that was read before the change it follows was applied; and the grace of an ending that came
after a failure once it is told again, of which the property says only that it is a grace or none.

**Fairness.** `WF(Reconciling)`: a timer starts the reconciliation every six hours
(`ops/together-ledger-stripe-reconciliation.timer`) and it goes on. `WF(Write(w))`: a request goes
on while its process runs. Nothing is assumed of Stripe's events; only mishaps are bounded.

### What is proved (`WebPayments_proofs.tla`)

For any subscriptions, workers, events and times: `DoneIsApplied`, `RoomAgrees`, `GraceStays` and
the types. The invariant says of Stripe that each change of a room's subscription has an event with
its own second (`Stripes`); of each request that what it read was so once (`Requests`); and of what
is stored that an event marked as done left a stamp no older than itself, and that once the last
change was applied, or a newer snapshot of it, the room is what Stripe says and its stamp says so
too (`Kept`, `FollowsStripe`). The stamp is what an event that comes late is compared with, so
without it `AgreesWhenQuiet` is not kept by an old event that arrives again. Whether there is a grace
is decided by what the ending's transaction read: unless it was early, what was stored then came of
the change it follows, or of a newer snapshot (`Awaiting`, `ReadInTime`), and that change decides;
from then on the room keeps what the first ending gave it until it is told again (`EndOf`, `Over`).
`RepairedInTheEnd` is liveness and stays with TLC.

## 10. The stores: `StoreRoom`, `StorePurchases`

**`StoreRoom`** is one App Store subscription.

| model | code |
|---|---|
| `paid`, `refunds`, `reversed` | the App Store (external): which journey each period was paid from, what was refunded and given back |
| `heard` | `billing_store_notifications` |
| `purchases`, `room`, `left` | `billing_store_purchases`; the subscription's entitlement; the graces of the journeys it left |
| `requests`, `amiss` | what a request has read before and under its lock; history: whether one acted on what had changed since |
| `Grant`, `Replay`, `Renewed`, `Refunded`, `Reinstated` | `grant`, `replay`, and each effect of `appleNotificationEffect` |

The lock is of the journey paid from, or of the one that had the room when the notification was
read; what was granted before takes none. So requests do cross, and `amiss` records it:
`RoomFollowsStore` is about the runs in which none acted on something stale, `LeftWithGrace` about
every step that was not itself stale. Run `store_room`: two journeys, two requests, two periods of
two units, a grace of one, one refund, three units of time. By hand TLC checked two refunds with two
requests in two units of time (10.3 million states) and, with one request, three periods and two refunds (4.9 million).

Proved for every instance (`Room_proofs.tla`), so for any number of periods, refunds and requests
at once: the types, `RoomFollowsStore`, and `LeftWithGrace` where there are days of grace
(`BILLING_GRACE_DAYS` is seven unless it is set; set to zero there are none to keep). The property
`RoomFollowsStore` says something only when everything was heard, so it needs an invariant that says
something in every state, whatever is still to come: the last period *held* decides (`AsPaid`). The
room ends with it and is in the journey that paid for it, as long as no refund of it was heard;
after one it ends no later than that, by the time of the refund or the end of the period before, and
earlier periods have no say any more. Three facts carry it. A purchase is held as refunded exactly
between its refund and its reversal as they are heard, in either order (`Withdrawn`). A period is
longer than every one before it, so what is granted of an earlier one changes a room only that a
refund of the last has cut short (`ShortenedRoom`), and then no further than that refund allows
(`AnEarlierOne`). And a request that is not amiss writes from what is still so (`Fresh`). The
proof also showed a premise of `RoomFollowsStore` to be needless: it was stated for at most one
period refunded, and holds for any number.

**`StorePurchases`** is one extra photo, from the tap to the refund.

| model | code |
|---|---|
| `play`, `listed` | Google Play (external): each purchase, and whether it is in the list of voided ones |
| `sends`, `GiveUp` | Pub/Sub (external): the message of a refund, which is kept for a time and then no longer |
| `intent`, `waiting`, `sending` | `intents`, `waitingExtras`, `settling` of `store-provider.tsx` |
| `rows`, `slots`, `notes` | `billing_store_purchases`, `moment_image_slots`, `billing_store_notifications` |
| `Send`, `Place`, `Answered`, `NoAnswer`, `Restart` | `sweep` and `settle`, `placeWaitingExtra`, `settleStorePurchase`, the app closed |
| `Verify`, `Grant`, `Acknowledge` | `verifyGoogle`, `grant`, `acknowledge` and `acknowledgePending` |
| `Hear`, `Apply`, `Lose` | `handleGoogleNotification` with `askGoogle` and `googleNotificationEffect` |

Run `store_purchases`: one purchase on two phones, one moment that may be deleted at any time, a
window of one unit, under fairness. Two phones send the same purchase at once, which is what could
grant it twice. A message is kept for one unit of time, so Google may list the refund before it is
told, while it is told again, or when it no longer is. With one phone, two moments and three units of
time `WithdrawnInTheEnd` was checked by hand (412,000 states).

Proved for every instance (`StorePurchases_proofs.tla`): `PaidIsGrantedAlways`. The invariant: a row
stands behind every slot, every answer that grants and everything Google was told; a row has one
slot, or its moment is gone (`Granted`); and only a purchase that Google refunded has a slot
cancelled (`Voided`). The two liveness properties stay with TLC.

**Fairness.** `WF(Acknowledge)`: `start.js` runs `acknowledgePending` by a timer, and Google is
reached sooner or later. `WF(List)`: Google lists what it refunded, when it pleases. `WF(Hear)`,
`SF(Apply)`: Pub/Sub sends again until it is answered, and the server is not stopped before *every*
commit; but only while Pub/Sub keeps the message (seven days, `store-purchases.js:1157`), since
`Hear` is possible only while `sends`, and `GiveUp` may end that at any time from then on, before
the refund is listed or heard. So `WithdrawnInTheEnd` does not promise a withdrawal however late
Google lists it: it says that a refund of a purchase held is withdrawn, or waits with nobody telling
of it any more, or was settled on Google's word that it does not know the purchase. Nothing else
may settle it.

## 11. Where the code and its documents disagree

`another_account` ends with a counterexample: one account signs out while its list is being sent,
another signs in on the phone, and, if both are in the journey, what the first held is made in the
second's name (`waiting-moments.ts:131`; line 14 says the list is "only ever read for" its own
account).

The models have more such behaviours, which no run asks about. Each was met while modelling, and the
properties above are stated so that they say exactly what holds beside it.

*People.* Two transfers, both checked before either takes the lock, leave two people with the
owner's role (`platform.js:2024`; `docs/API.md:127`). Somebody who joins between a deletion's check
and its lock is left in a journey held by a deleted account (`platform.js:2497`;
`docs/ARCHITECTURE.md:62`). An account that joins while its deletion is under way stays a member. A
stop between taking back an invitation and reopening its question leaves an agreement nobody can use
(`platform.js:1648`, the comment at 1646). A reopened question may stand beside a newer one about
the same person.

*Sign-ins.* Signing out misses a pair that a renewal commits meanwhile (`platform.js:607`;
`docs/API.md:34`). A renewal's answer is stored after signing out on the phone (`client.ts:174`, the
comment at 263). A sign-in or a recovery begun with the old password ends after the change and is
not ended by it.

*Names and accounts.* Somebody's change of name may deadlock with any request that references or
locks their row under a journey's lock, another person's too: asking somebody in, leaving, removing,
handing over. An order of rest may deadlock with leaving, removing, handing over or another order of
the same journey, and a deletion with any of these. PostgreSQL gives one up, and nothing tries it
again. Linking an Apple or Google identity may commit after `eraseAccount` has
deleted those there were; two first sign-ins with Apple at once keep one of the two grants; a
revocation older than a week is dropped without a last try (`platform.js:949`). These three are read
from the code and not modelled.

*Rest.* `joined_at` is the begin of the transaction, so somebody who waited long for the lock may
make another, unplaced, person rest. After a transfer the old owner has no place and rests first. A
row on the web past the end of its period, its webhook late, rests everyone beyond the included
places at once.

*Stripe.* Whether room that was given up has a grace depends on the order in which the events come,
though "event ordering is not trusted" (`docs/STRIPE.md:90`): if a payment fails, is paid, and the
payer cancels later, and the recovery is told last, the cancellation reads the failure's reason and
gives no grace, and the recovery is dropped by its stamp (`billing.js:731` and 813;
`tests/billing.test.js:734` and the comment at 718 have a grace). A subscription that ended while its
payment was failing, which rightly had none, is given one when its ending is told again, as the next
reconciliation does: the reason read by then is `subscription_canceled` (`tests/billing.test.js:726`).
TLC found both against stricter properties, in four events, and in three and a reconciliation. Two
changes of one second are applied in the order they are told. The state of a place's slot takes
whatever event comes last (`billing.js:789`; `docs/STRIPE.md:90`). Two events handled at once may
both begin a grace (the comment at `billing.js:718`). Two checkouts may both be opened, so that a
journey has two subscriptions (`docs/ARCHITECTURE.md:36`). The reconciliation stamps its snapshot
with the time it is applied, so that it beats an event that came in between, until the next run
(`docs/STRIPE_RECONCILIATION.md:52`).

*Stores.* A purchase sent again takes no lock, and overwrites what was committed in between. A
refund that Google lists only after Pub/Sub has stopped telling of it is never heard again, and its
slot stays to be used (`store-purchases.js:1249` leaves it to a reconciliation that there is not
yet); one whose purchase Google says it does not know is settled as it is. A refund notified before its purchase is known is only logged; so the slot of a purchase refunded
before it was granted stays to be used (the comment at `store-purchases.js:803` has a refund leave
"nothing new to add"). A reversal brings back no period but the first to its own end
(`store-purchases.js:724`). With two periods refunded the room ends, within the bounds of
`RoomFollowsStore`, where the order of the notifications puts it.

## 12. What is proved, and what is only model-checked

| module | proved for every instance | by TLC alone |
|---|---|---|
| `Journey` | all ten properties | |
| `Ledger` | all three, the refinement among them | |
| `Accounts` | types, `WithinLimit`, `NobodyStranded`, `OnlyRowsFirstMeet` | |
| `SignIn` | all five | |
| `Waiting` | types, `HeldOncePerStay`, `SentInOrder`, `NotLeftBehind`, `KeptUntilHeld` | `WaitingIsSent` |
| `Resting` | all three | |
| `WebPayments` | types, `AgreesWhenQuiet`, `ProcessedIsApplied`, `GraceHoldsStill` | `RepairedInTheEnd` |
| `StorePurchases` | types, `PaidIsGranted` | `AcknowledgedInTheEnd`, `WithdrawnInTheEnd` |
| `StoreRoom` | types, `RoomFollowsStore`; `LeftWithGrace` where there are days of grace | |

Each proof has the same shape: one invariant (`IInv`; `RoomInv` of `StoreRoom`), checked by TLC on
the instance of the run before it was proved; a lemma that the initial states satisfy it and one for
each action that it is kept; then each property from it. Where an action is long, a first lemma says
what it does, and the conjuncts follow from that alone.

The proofs rest on each module's named assumptions about its constants, and on nothing else. They
say what a value that stands for nothing must differ from, that bounds and lengths are naturals,
and: in `Resting`, that a year is longer than the weeks that can be asked for in two and one more,
and that quantities are finitely many; in `WebPayments`, that there is a second to be in; in
`StorePurchases`, that NULL is no row; in `StoreRoom`, that it is no room, and that a period has a
length; in `Accounts`, that journeys are finitely many and have numbers for ids.

Liveness, and everything that needs `ENABLED`, is out of the prover's reach and stays with TLC.
Liveness is stated only where the system tries again by itself: the phone's list, the
reconciliation, the acknowledgements and the stores' notifications. In the other parts nothing is
retried without a person (a mail that failed, a renewal that was lost), so no fairness would be
justified. Induction over lists and numbers is done where it is needed with sets of naturals and
recursive functions (`Waiting_proofs`, `Accounts_proofs`, `Room_proofs`).

## 13. Not modelled

* **Presentation**: the web app (`src/src/app.js` and its helpers), the phone's screens and views,
  themes, languages, public pages. They make single calls, most of whose handlers are modelled, and
  keep nothing to send later but the phone's waiting moments (the web app's own ledger of somebody
  without an account is one value in the browser). Together with the scripts they are most of the
  code, and most of what the map leaves out.
* **Single-use tokens**: registering, verifying an address, recovery, browser sessions, an answer
  from Apple collected by an Android phone. Each is locked or deleted as it is read, in the
  transaction that spends it; a recovery that crosses a change of password is in section 11.
* **Signing in with Google or Apple, revocations owed to Apple**: mostly cryptography and providers'
  words; what crosses with a deletion is in section 11.
* **In the payments**: amounts, periods and prices; the portal; the reconciliation of invoices and
  of image payments; passes and subscriptions in Google Play; places bought as extras. They follow
  the same paths (claim, read, write; grant, replay, refund) as what is modelled, beside rules about
  dates and money.
* **In a journey**: what the records hold, who sees a moment, uploads, locations, the export,
  private moment events, `publicGrace`.
* **Mail, configuration, migrations, operational and build scripts**: no state of their own, or run
  by hand one statement after another.

`PROJECT.json` lists every part under `components` with its status, and what a test would hardly
reach, covered or not, under `hazards`.
