------------------------------ MODULE Journey ------------------------------
(***************************************************************************)
(* One shared journey on the server: who is in it, who holds it, how       *)
(* somebody is asked in, and the places they take (server/platform.js).    *)
(*                                                                         *)
(* Every change is a database transaction of two parts.  First the route   *)
(* checks membership (requireMember), reading whatever is committed then.  *)
(* Only afterwards does the transaction take the journey's advisory lock,  *)
(* read the rest of what it needs, and write.  The lock is held until the  *)
(* commit, so the second part is one action; but the first part may be     *)
(* stale by then, so it is an action of its own (Ask), and a request waits *)
(* in a slot between the two.  The check depends on who asks and in which  *)
(* role, not on what is asked, so what is asked is chosen by the second.   *)
(* An invitation's mail goes out after the commit, and what happens to it  *)
(* is settled in separate statements, each an action here.  At any point   *)
(* the process may stop or a statement fail (Lost).                        *)
(*                                                                         *)
(* A Person stands for an account and its email address.  The journey's    *)
(* event chain, its moments and expenses, and the names and notes that     *)
(* these handlers also write are left out.                                 *)
(***************************************************************************)
EXTENDS Naturals, FiniteSets

CONSTANTS
  Person,          \* accounts
  Founders,        \* who is in the journey at the start: the creator, and people who joined
  Creator,         \* who started it
  ProposalId,      \* rows journey_invite_proposals may hold
  InvitationId,    \* rows invitations may hold
  Slot,            \* requests the server can be working on at once
  None,            \* SQL NULL
  PlaceLevels,     \* what availableCapacity may be: one value unless the mode is 'billing'
  MaxPlaces,       \* MAX_JOURNEY_CAPACITY
  ProposalDays,    \* INVITE_PROPOSAL_DAYS, in ticks
  InvitationDays,  \* config.invitationDays, in ticks
  MaxClock,        \* bound: the clock stops here
  MaxErased        \* bound: accounts that may be erased

ASSUME PeopleAssumption ==
  /\ IsFiniteSet(Person)
  /\ Founders \subseteq Person
  /\ Creator \in Founders

ASSUME RowsAssumption ==
  /\ IsFiniteSet(InvitationId)
  /\ None \notin Person \cup ProposalId \cup InvitationId

ASSUME PlacesAssumption ==
  /\ MaxPlaces \in Nat
  /\ PlaceLevels \subseteq 1..MaxPlaces
  /\ PlaceLevels # {}
  /\ Cardinality(Founders) <= MaxPlaces

ASSUME TimeAssumption ==
  /\ ProposalDays \in Nat \ {0}
  /\ InvitationDays \in Nat \ {0}
  /\ MaxClock \in Nat
  /\ MaxErased \in Nat

VARIABLES
  role,         \* journey_members.role of each person, "none" where there is no row
  holder,       \* journeys.owner_user_id, or None once the journey is deleted
  erased,       \* accounts with users.deleted_at set
  places,       \* availableCapacity, decided by the payments
  grace,        \* whether the payment is in grace
  proposals,    \* journey_invite_proposals with their journey_invite_consents
  invitations,  \* invitations
  requests,     \* what the server is doing, per slot
  mailed,       \* invitations whose mail reached the mailbox
  clock

vars == <<role, holder, erased, places, grace, proposals, invitations,
          requests, mailed, clock>>

people  == <<role, holder, erased>>
payment == <<places, grace>>
-----------------------------------------------------------------------------
Roles == {"none", "member", "owner"}

\* decision of each person's consent row; a row still waiting is "none", as no row is.
Answers == [Person -> {"none", "agree", "decline"}]

Proposals ==
  [status : {"none", "open", "agreed", "declined", "withdrawn", "lapsed"},
   by : Person \cup {None}, email : Person \cup {None}, expires : Nat,
   invitation : InvitationId \cup {None}, answers : Answers]

NoProposal ==
  [status |-> "none", by |-> None, email |-> None, expires |-> 0,
   invitation |-> None, answers |-> [p \in Person |-> "none"]]

\* closed: revoked_at, and whether withdrawn_by_user_id names somebody.
Invitations ==
  [proposal : ProposalId \cup {None}, by : Person \cup {None},
   email : Person \cup {None}, expires : Nat, accepted : BOOLEAN,
   closed : {"no", "revoked", "withdrawn"}, reserved : BOOLEAN,
   lapseNoted : BOOLEAN]

NoInvitation ==
  [proposal |-> None, by |-> None, email |-> None, expires |-> 0,
   accepted |-> FALSE, closed |-> "no", reserved |-> FALSE, lapseNoted |-> FALSE]

\* Requests that have passed their check, then those whose invitation's mail is being seen to.
Mailing == {"mail", "mailFailed", "mailRevoked"}

Idle == [op |-> "idle", who |-> None, role |-> "none", proposal |-> None,
         invitation |-> None, replaces |-> None]

\* role is the asker's as the check saw it; replaces is the invitation a mail sends again.
Requests ==
  {Idle}
  \cup [op : {"asked", "erase"}, who : Person, role : Roles,
        proposal : {None}, invitation : {None}, replaces : {None}]
  \cup [op : Mailing, who : Person, role : Roles,
        proposal : ProposalId, invitation : InvitationId, replaces : InvitationId \cup {None}]
-----------------------------------------------------------------------------
Members == {p \in Person : role[p] # "none"}

Exists(invs, i) == invs[i].proposal # None

\* An invitation capacityFor counts: an open reservation.
Holding(invs, i) ==
  /\ invs[i].reserved
  /\ ~invs[i].accepted
  /\ invs[i].closed = "no"
  /\ invs[i].expires > clock

Live(invs) == {i \in InvitationId : Holding(invs, i)}

Occupied == Cardinality(Members) + Cardinality(Live(invitations))

\* Mutants of CanInvite: only the people here are counted; a payment in grace still has places.
CanInviteMembersOnly(invs) == ~grace /\ Cardinality(Members) < places
CanInviteInGrace(invs) == Cardinality(Members) + Cardinality(Live(invs)) < places

\* capacityFor's canInvite.
CanInvite(invs) ==
  /\ ~grace
  /\ Cardinality(Members) + Cardinality(Live(invs)) < places

\* Mutant of EveryoneAgreed: silence counts as agreement.
EveryoneAgreedOrSilent(answers) == \A p \in Members : answers[p] # "decline"

\* requiredConsent: asked of who is here now; a journeyer with no answer is waiting.
EveryoneAgreed(answers) == \A p \in Members : answers[p] = "agree"

\* invitationStatus(row, now) = 'pending' and = 'expired'.
Unanswered(i) == ~invitations[i].accepted /\ invitations[i].closed = "no"
Pending(i)    == Unanswered(i) /\ invitations[i].expires > clock
Expired(i)    == Unanswered(i) /\ invitations[i].expires <= clock

OpenNow(p) == proposals[p].status = "open" /\ proposals[p].expires > clock

\* Mutant of LapsedProposals: a question that ran out gets the word an invitation would show.
LapsedProposalsExpired ==
  [p \in ProposalId |->
     IF proposals[p].status = "open" /\ proposals[p].expires <= clock
     THEN [proposals[p] EXCEPT !.status = "expired"]
     ELSE proposals[p]]

\* recordRunOuts: the two conditional updates.
LapsedProposals ==
  [p \in ProposalId |->
     IF proposals[p].status = "open" /\ proposals[p].expires <= clock
     THEN [proposals[p] EXCEPT !.status = "lapsed"]
     ELSE proposals[p]]

\* Mutant of RunOut: an invitation already accepted or taken back runs out as well.
RunOutAnswered(i) ==
  /\ Exists(invitations, i)
  /\ invitations[i].expires <= clock
  /\ ~invitations[i].lapseNoted

RunOut(i) ==
  /\ Exists(invitations, i)
  /\ Expired(i)
  /\ ~invitations[i].lapseNoted

LapsedInvitations ==
  [i \in InvitationId |->
     IF RunOut(i)
     THEN [invitations[i] EXCEPT !.lapseNoted = TRUE, !.reserved = FALSE]
     ELSE invitations[i]]

\* proposeInvitation also lets go of every reservation that no longer holds a place.
Released(invs) ==
  [i \in InvitationId |-> [invs[i] EXCEPT !.reserved = Holding(invs, i)]]
-----------------------------------------------------------------------------
Init ==
  /\ role = [p \in Person |-> IF p = Creator THEN "owner"
                              ELSE IF p \in Founders THEN "member" ELSE "none"]
  /\ holder = Creator
  /\ erased = {}
  /\ places \in PlaceLevels
  /\ grace = FALSE
  /\ proposals = [p \in ProposalId |-> NoProposal]
  /\ invitations = [i \in InvitationId |-> NoInvitation]
  /\ requests = [s \in Slot |-> Idle]
  /\ mailed = {}
  /\ clock = 0
-----------------------------------------------------------------------------
(***************************************************************************)
(* A request arrives and passes the checks made before the lock.           *)
(***************************************************************************)
Arrive(s, p, op) ==
  /\ requests[s] = Idle
  /\ requests' = [requests EXCEPT ![s] = [Idle EXCEPT !.op = op, !.who = p, !.role = role[p]]]
  /\ UNCHANGED <<people, payment, proposals, invitations, mailed, clock>>

\* requireMember.  While payments do not cover everybody here it also refuses whoever rests; who
\* that is follows an order the owner may change at any time, so any member may be one it lets by.
Ask(s) ==
  \E p \in Members \ erased : Arrive(s, p, "asked")

\* eraseAccount reads the memberships, and whether each journey held is shared, before any lock.
AskErase(s) ==
  \E p \in Person \ erased :
    /\ Cardinality(erased) < MaxErased
    /\ role[p] # "none" /\ holder = p => Members = {p}
    /\ Arrive(s, p, "erase")
-----------------------------------------------------------------------------
(***************************************************************************)
(* The transaction takes the journey's lock and does what was asked.       *)
(***************************************************************************)
Doing(s, op) == requests[s].op = op

Asker(s) == requests[s].who

Done(s) == requests' = [requests EXCEPT ![s] = Idle]

\* Ids are random, so one never names two invitations.
Fresh(invs, i) ==
  /\ ~Exists(invs, i)
  /\ i \notin mailed
  /\ \A s \in Slot : i \notin {requests[s].invitation, requests[s].replaces}

\* mintInvitationForProposal in the transaction of slot s.  The row is refused by
\* invitations_one_live_email_idx while another reservation for the same email stands.
Mint(s, q, i, props, invs, replaces) ==
  /\ Fresh(invs, i)
  /\ \A j \in InvitationId : invs[j].reserved => invs[j].email # props[q].email
  /\ invitations' = [invs EXCEPT ![i] =
       [proposal |-> q, by |-> props[q].by, email |-> props[q].email,
        expires |-> clock + InvitationDays, accepted |-> FALSE, closed |-> "no",
        reserved |-> TRUE, lapseNoted |-> FALSE]]
  /\ proposals' = [props EXCEPT ![q].status = "agreed", ![q].invitation = i]
  /\ requests' = [requests EXCEPT ![s] =
       [op |-> "mail", who |-> requests[s].who, role |-> requests[s].role,
        proposal |-> q, invitation |-> i, replaces |-> replaces]]

\* A question as it is asked: whoever asks has agreed to it, if they are still here.
Question(p, email) ==
  [NoProposal EXCEPT !.status = "open", !.by = p, !.email = email,
                     !.expires = clock + ProposalDays,
                     !.answers[p] = IF p \in Members THEN "agree" ELSE "none"]

Propose(s, email) ==
  /\ Doing(s, "asked")
  /\ LET kept  == Released(LapsedInvitations)
         asked == Question(Asker(s), email)
     IN /\ holder # None
        /\ role[email] = "none" \/ email \in erased
        /\ \A i \in InvitationId : kept[i].reserved => kept[i].email # email
        /\ \A q \in ProposalId : OpenNow(q) => proposals[q].email # email
        /\ CanInvite(kept)
        /\ \E q \in ProposalId :
             /\ proposals[q].status = "none"
             /\ LET props == [LapsedProposals EXCEPT ![q] = asked]
                IN IF EveryoneAgreed(asked.answers)
                   THEN \E i \in InvitationId : Mint(s, q, i, props, kept, None)
                   ELSE /\ proposals' = props
                        /\ invitations' = kept
                        /\ Done(s)
  /\ UNCHANGED <<people, payment, mailed, clock>>

\* Mutant of Answering: the question need not be open any more.
AnsweringLate(s, q) ==
  /\ Doing(s, "asked")
  /\ proposals[q].status # "none"
  /\ proposals[q].answers[Asker(s)] = "none"

\* decideInviteProposal: an answer is taken once, while the question is open.
Answering(s, q) ==
  /\ Doing(s, "asked")
  /\ OpenNow(q)
  /\ proposals[q].answers[Asker(s)] = "none"

Decline(s, q) ==
  /\ Answering(s, q)
  /\ proposals' = [proposals EXCEPT ![q].status = "declined",
                                    ![q].answers[Asker(s)] = "decline"]
  /\ Done(s)
  /\ UNCHANGED <<people, payment, invitations, mailed, clock>>

\* The last agreement mints the invitation, or, with no place free, is itself rolled back.
Agree(s, q) ==
  /\ Answering(s, q)
  /\ LET answered == [proposals[q] EXCEPT !.answers[Asker(s)] = "agree"]
     IN IF EveryoneAgreed(answered.answers)
        THEN /\ CanInvite(LapsedInvitations)
             /\ \E i \in InvitationId :
                  Mint(s, q, i, [LapsedProposals EXCEPT ![q] = answered], LapsedInvitations, None)
        ELSE /\ proposals' = [proposals EXCEPT ![q] = answered]
             /\ Done(s)
             /\ UNCHANGED invitations
  /\ UNCHANGED <<people, payment, mailed, clock>>

SendAgreed(s, q) ==
  /\ Doing(s, "asked")
  /\ OpenNow(q)
  /\ EveryoneAgreed(proposals[q].answers)
  /\ CanInvite(LapsedInvitations)
  /\ \E i \in InvitationId :
       Mint(s, q, i, LapsedProposals, LapsedInvitations, None)
  /\ UNCHANGED <<people, payment, mailed, clock>>

WithdrawProposal(s, q) ==
  /\ Doing(s, "asked")
  /\ OpenNow(q)
  /\ \/ proposals[q].by = Asker(s)
     \/ requests[s].role = "owner"
  /\ proposals' = [proposals EXCEPT ![q].status = "withdrawn"]
  /\ Done(s)
  /\ UNCHANGED <<people, payment, invitations, mailed, clock>>

WithdrawInvitation(s, i) ==
  /\ Doing(s, "asked")
  /\ Exists(invitations, i)
  /\ Pending(i)
  /\ \/ invitations[i].by = Asker(s)
     \/ requests[s].role = "owner"
  /\ invitations' = [invitations EXCEPT ![i].closed = "withdrawn",
                                        ![i].reserved = FALSE]
  /\ Done(s)
  /\ UNCHANGED <<people, payment, proposals, mailed, clock>>

\* Everyone agreed once, and that holds while the proposal's days last.
SendAgain(s, i) ==
  /\ Doing(s, "asked")
  /\ LET q    == invitations[i].proposal
         kept == LapsedInvitations
     IN /\ Exists(invitations, i)
        /\ invitations[i].by = Asker(s)
        /\ Expired(i)
        /\ proposals[q].status = "agreed" /\ proposals[q].invitation = i
        /\ proposals[q].expires > clock
        /\ role[invitations[i].email] = "none" \/ invitations[i].email \in erased
        /\ CanInvite(kept)
        /\ \E j \in InvitationId : Mint(s, q, j, LapsedProposals, kept, i)
  /\ UNCHANGED <<people, payment, mailed, clock>>

\* The invited person follows the link their mail carried.  Whatever acceptInvitation reads before
\* the lock it reads again under it.  The member count is checked against the ceiling, never
\* against what is paid for.
Accept(i) ==
  /\ i \in mailed
  /\ i \in Live(invitations)
  /\ invitations[i].email \notin erased
  /\ Cardinality(Members) < MaxPlaces
  /\ role' = [role EXCEPT ![invitations[i].email] = IF @ = "none" THEN "member" ELSE @]
  /\ invitations' = [invitations EXCEPT ![i].accepted = TRUE, ![i].reserved = FALSE]
  /\ UNCHANGED <<holder, erased, payment, proposals, requests, mailed, clock>>

\* The person removed is read under the lock; that the asker is still the owner is not.
RemoveMember(s, p) ==
  /\ Doing(s, "asked") /\ requests[s].role = "owner" /\ p # Asker(s)
  /\ role[p] = "member"
  /\ role' = [role EXCEPT ![p] = "none"]
  /\ Done(s)
  /\ UNCHANGED <<holder, erased, payment, proposals, invitations, mailed, clock>>

\* leaveJourney takes the lock before it reads anything.  What the person asked is taken back.
Leave(p) ==
  /\ p \notin erased
  /\ role[p] = "member"
  /\ Members # {p}
  /\ proposals' = [q \in ProposalId |->
       IF LapsedProposals[q].status = "open" /\ LapsedProposals[q].by = p
       THEN [LapsedProposals[q] EXCEPT !.status = "withdrawn"]
       ELSE LapsedProposals[q]]
  /\ invitations' = [i \in InvitationId |->
       IF Exists(invitations, i) /\ invitations[i].by = p /\ Pending(i)
       THEN [invitations[i] EXCEPT !.closed = "withdrawn", !.reserved = FALSE]
       ELSE LapsedInvitations[i]]
  /\ role' = [role EXCEPT ![p] = "none"]
  /\ UNCHANGED <<holder, erased, payment, requests, mailed, clock>>

\* Mutant of TransferOwnership: the journey's own row is not updated.
TransferOwnershipRolesOnly(s, p) ==
  /\ Doing(s, "asked") /\ requests[s].role = "owner" /\ p # Asker(s)
  /\ role[p] = "member"
  /\ role' = [role EXCEPT ![Asker(s)] = "member", ![p] = "owner"]
  /\ Done(s)
  /\ UNCHANGED <<holder, erased, payment, proposals, invitations, mailed, clock>>

\* The new owner is read under the lock, the old one before it, and none of the three updates
\* is conditional.
TransferOwnership(s, p) ==
  /\ Doing(s, "asked") /\ requests[s].role = "owner" /\ p # Asker(s)
  /\ role[p] = "member"
  /\ role' = [role EXCEPT ![Asker(s)]  = IF @ = "none" THEN "none" ELSE "member",
                          ![p] = "owner"]
  /\ holder' = p
  /\ Done(s)
  /\ UNCHANGED <<erased, payment, proposals, invitations, mailed, clock>>

\* An invitation the erased account sent is deleted, and its proposal's invitation_id set null;
\* one sent to it is revoked.
ErasedInvitations(p) ==
  [i \in InvitationId |->
     IF invitations[i].by = p THEN NoInvitation
     ELSE IF invitations[i].email = p /\ Unanswered(i)
          THEN [invitations[i] EXCEPT !.closed = "revoked"]
          ELSE invitations[i]]

ErasedProposals(p) ==
  [q \in ProposalId |->
     IF proposals[q].invitation # None /\ invitations[proposals[q].invitation].by = p
     THEN [proposals[q] EXCEPT !.invitation = None]
     ELSE proposals[q]]

\* eraseAccount, with the memberships read when it was asked: the last person in a journey takes
\* it with them, anyone else only their own part in it.
EraseAccount(s) ==
  /\ Doing(s, "erase")
  /\ LET p == requests[s].who IN
       /\ erased' = erased \cup {p}
       /\ IF requests[s].role # "none" /\ Members \subseteq {p}
          THEN /\ role' = [m \in Person |-> "none"]
               /\ holder' = None
               /\ proposals' = [q \in ProposalId |-> NoProposal]
               /\ invitations' = [i \in InvitationId |-> NoInvitation]
          ELSE /\ role' = IF requests[s].role = "none" THEN role
                          ELSE [role EXCEPT ![p] = "none"]
               /\ proposals' = ErasedProposals(p)
               /\ invitations' = ErasedInvitations(p)
               /\ UNCHANGED holder
  /\ Done(s)
  /\ UNCHANGED <<payment, mailed, clock>>

\* noticeRunOuts, before a member reads the journey.
NoticeRunOuts ==
  /\ Members \ erased # {}
  /\ \/ LapsedProposals # proposals
     \/ LapsedInvitations # invitations
  /\ proposals' = LapsedProposals
  /\ invitations' = LapsedInvitations
  /\ UNCHANGED <<people, payment, requests, mailed, clock>>
-----------------------------------------------------------------------------
(***************************************************************************)
(* deliverAgreedInvitation, after the transaction that minted.             *)
(***************************************************************************)
MailSent(s) ==
  /\ Doing(s, "mail")
  /\ mailed' = mailed \cup {requests[s].invitation}
  /\ Done(s)
  /\ UNCHANGED <<people, payment, proposals, invitations, clock>>

\* A sending that failed, or whose reply never came: the mail itself may have arrived.
MailFailed(s) ==
  /\ Doing(s, "mail")
  /\ mailed' \in {mailed, mailed \cup {requests[s].invitation}}
  /\ requests' = [requests EXCEPT ![s].op = "mailFailed"]
  /\ UNCHANGED <<people, payment, proposals, invitations, clock>>

\* Mutant of RevokeUndelivered: the place is not released.
RevokeNothing(s) ==
  /\ Doing(s, "mailFailed")
  /\ requests' = [requests EXCEPT ![s].op = "mailRevoked"]
  /\ UNCHANGED <<people, payment, proposals, invitations, mailed, clock>>

RevokeUndelivered(s) ==
  /\ Doing(s, "mailFailed")
  /\ LET i == requests[s].invitation IN
       invitations' =
         IF Exists(invitations, i) /\ ~invitations[i].accepted
         THEN [invitations EXCEPT ![i].reserved = FALSE,
                                  ![i].closed = IF @ = "no" THEN "revoked" ELSE @]
         ELSE invitations
  /\ requests' = [requests EXCEPT ![s].op = "mailRevoked"]
  /\ UNCHANGED <<people, payment, proposals, mailed, clock>>

\* Mutant of ReopenProposal: the question is open again and still names the undelivered invitation.
ReopenProposalNamed(s) ==
  /\ Doing(s, "mailRevoked")
  /\ proposals' = [proposals EXCEPT ![requests[s].proposal].status = "open"]
  /\ Done(s)
  /\ UNCHANGED <<people, payment, invitations, mailed, clock>>

\* Unconditional: whatever has become of the proposal and its proposer meanwhile.
ReopenProposal(s) ==
  /\ Doing(s, "mailRevoked")
  /\ LET q == requests[s].proposal IN
       proposals' =
         IF proposals[q].status = "none" THEN proposals
         ELSE IF requests[s].replaces = None
         THEN [proposals EXCEPT ![q].status = "open", ![q].invitation = None]
         ELSE [proposals EXCEPT ![q].invitation =
                 IF Exists(invitations, requests[s].replaces) THEN requests[s].replaces ELSE @]
  /\ Done(s)
  /\ UNCHANGED <<people, payment, invitations, mailed, clock>>

\* A refused request, a transaction rolled back, or a process that stops: what had committed
\* stays, and nothing more of the request happens.
Lost(s) ==
  /\ requests[s] # Idle
  /\ Done(s)
  /\ UNCHANGED <<people, payment, proposals, invitations, mailed, clock>>
-----------------------------------------------------------------------------
\* What is paid for changes on its own: entitlements begin, lapse and end.
PaymentChanges ==
  /\ places' \in PlaceLevels
  /\ grace' \in BOOLEAN
  /\ grace' => \E fewer \in PlaceLevels : fewer < places'
  /\ payment' # payment
  /\ UNCHANGED <<people, proposals, invitations, requests, mailed, clock>>

\* Attempts to send a mail are over long before the invitation it carries runs out.
Tick ==
  /\ clock < MaxClock
  /\ \A s \in Slot :
       requests[s].op \in Mailing /\ Exists(invitations, requests[s].invitation)
         => invitations[requests[s].invitation].expires > clock + 1
  /\ clock' = clock + 1
  /\ UNCHANGED <<people, payment, proposals, invitations, requests, mailed>>

Handling(s) ==
  \/ \E p \in Person : Propose(s, p) \/ RemoveMember(s, p) \/ TransferOwnership(s, p)
  \/ \E q \in ProposalId :
       Agree(s, q) \/ Decline(s, q) \/ SendAgreed(s, q) \/ WithdrawProposal(s, q)
  \/ \E i \in InvitationId : WithdrawInvitation(s, i) \/ SendAgain(s, i)
  \/ EraseAccount(s)

Delivering(s) ==
  \/ MailSent(s) \/ MailFailed(s) \/ RevokeUndelivered(s) \/ ReopenProposal(s)

Next ==
  \/ \E s \in Slot : Ask(s) \/ AskErase(s) \/ Handling(s) \/ Delivering(s) \/ Lost(s)
  \/ \E i \in InvitationId : Accept(i)
  \/ \E p \in Person : Leave(p)
  \/ NoticeRunOuts
  \/ PaymentChanges
  \/ Tick

Spec == Init /\ [][Next]_vars
-----------------------------------------------------------------------------
\* Every table and request holds rows of its own shape.
TypeOK ==
  /\ role \in [Person -> Roles]
  /\ holder \in Person \cup {None}
  /\ erased \subseteq Person
  /\ places \in PlaceLevels
  /\ grace \in BOOLEAN
  /\ proposals \in [ProposalId -> Proposals]
  /\ invitations \in [InvitationId -> Invitations]
  /\ requests \in [Slot -> Requests]
  /\ mailed \subseteq InvitationId
  /\ clock \in Nat

\* People here and places held for people invited never pass the ceiling together, whatever was
\* paid for when each place was given (capacityFor, read under the lock by every mint).
WithinPlaces == Occupied <= MaxPlaces

\* A place is only ever given out while one is free in what is paid for then and no payment is
\* in grace: accepting, sending again and retrying a failed mail never overbook.
PlaceGivenOnlyWhenFree ==
  [][Occupied' > Occupied => Occupied < places /\ ~grace]_vars

\* An invitation that holds a place is the newest of a question everyone settled in favour: a
\* question that is open again, declined, withdrawn or run out holds nobody's place.
LiveIsAgreed ==
  \A i \in Live(invitations) :
    /\ proposals[invitations[i].proposal].status = "agreed"
    /\ proposals[invitations[i].proposal].invitation = i

\* The question whose mail slot s is seeing to stands settled on the very invitation that mail
\* carries, not yet run out (on none, if the row was deleted meanwhile).
StandsOnItsMail(s) ==
  LET q == requests[s].proposal
      i == requests[s].invitation
  IN /\ proposals[q].status = IF holder = None THEN "none" ELSE "agreed"
     /\ proposals[q].invitation = IF Exists(invitations, i) THEN i ELSE None
     /\ Exists(invitations, i) =>
          /\ invitations[i].expires > clock
          /\ requests[s].op = "mailRevoked" => ~Unanswered(i)

\* A question has one mail being seen to at most and stands on that mail's invitation meanwhile: no
\* other sending and no answer slips between a mail and what is undone when it fails.
OneMailEach ==
  /\ \A s, r \in Slot :
       /\ requests[s].op \in Mailing /\ requests[r].op \in Mailing
       /\ requests[s].proposal = requests[r].proposal
       => s = r
  /\ \A s \in Slot : requests[s].op \in Mailing => StandsOnItsMail(s)

\* A deleted journey leaves nobody in it and no rows, a question names an invitation only once it
\* is agreed, and a deleted invitation leaves nothing that could hold a place.
NothingLeftBehind ==
  /\ holder = None =>
       /\ Members = {}
       /\ \A q \in ProposalId : proposals[q].status = "none"
       /\ \A i \in InvitationId : ~Exists(invitations, i)
  /\ \A q \in ProposalId : proposals[q].status # "agreed" => proposals[q].invitation = None
  /\ \A i \in InvitationId : ~Exists(invitations, i) => invitations[i] = NoInvitation

\* An invitation ends once: one that was accepted was neither taken back nor ran out, and one
\* withdrawn did not also run out, whatever the mail's own failure does later; none is recorded as
\* run out before its days are over.
OneEnding ==
  \A i \in InvitationId :
    /\ invitations[i].accepted => invitations[i].closed = "no" /\ ~invitations[i].lapseNoted
    /\ invitations[i].closed = "withdrawn" => ~invitations[i].lapseNoted
    /\ invitations[i].lapseNoted => invitations[i].expires <= clock

\* A question declined, withdrawn or run out is settled: no retry of a failed mail and no late
\* answer ever changes it while the journey lasts.
SettledStays ==
  [][\A q \in ProposalId :
       proposals[q].status \in {"declined", "withdrawn", "lapsed"} /\ holder' # None
         => proposals'[q] = proposals[q]]_vars

\* Nobody adds anybody alone: when a question first becomes agreed, everyone who is here then has
\* agreed to it, those who came after it was asked included.
EveryoneAsked ==
  [][\A q \in ProposalId :
       proposals[q].status # "agreed" /\ proposals'[q].status = "agreed"
         => \A p \in Members : proposals'[q].answers[p] = "agree"]_vars

\* Whoever the journey names as holding it has the owner's role, however transfers, removals and
\* deletions interleave; or, their membership gone, their account was erased.
HolderIsOwner ==
  holder # None =>
    \/ role[holder] = "owner"
    \/ role[holder] = "none" /\ holder \in erased
=============================================================================
