--------------------------- MODULE Journey_proofs ---------------------------
(***************************************************************************)
(* What TLAPS proves of Journey, for any number of people, rows, requests  *)
(* and places.                                                             *)
(***************************************************************************)
EXTENDS Journey, FiniteSetTheorems, TLAPS

\* What every row of a table is stays so when the run-outs are recorded.
LEMMA LapsedType ==
  ASSUME TypeOK
  PROVE  /\ LapsedProposals \in [ProposalId -> Proposals]
         /\ LapsedInvitations \in [InvitationId -> Invitations]
<1>1. ASSUME NEW p \in ProposalId
      PROVE  [proposals[p] EXCEPT !.status = "lapsed"] \in Proposals
  BY DEF TypeOK, Proposals
<1>2. ASSUME NEW i \in InvitationId
      PROVE  [invitations[i] EXCEPT !.lapseNoted = TRUE, !.reserved = FALSE] \in Invitations
  BY DEF TypeOK, Invitations
<1>. QED  BY <1>1, <1>2 DEF TypeOK, LapsedProposals, LapsedInvitations

\* Whether a row holds a place is a yes or a no.
LEMMA HoldingType ==
  ASSUME NEW invs \in [InvitationId -> Invitations], NEW i \in InvitationId
  PROVE  Holding(invs, i) \in BOOLEAN
  BY DEF Holding, Invitations

\* Letting go of the reservations that no longer hold (proposeInvitation) keeps the rows' shape.
LEMMA ReleasedType ==
  ASSUME NEW invs \in [InvitationId -> Invitations]
  PROVE  Released(invs) \in [InvitationId -> Invitations]
<1>1. ASSUME NEW i \in InvitationId
      PROVE  [invs[i] EXCEPT !.reserved = Holding(invs, i)] \in Invitations
  BY <1>1, HoldingType DEF Invitations
<1>. QED  BY <1>1 DEF Released

\* What an erased account takes with it (eraseAccount) leaves rows of their shape.
LEMMA ErasedType ==
  ASSUME TypeOK, NEW p \in Person
  PROVE  /\ ErasedProposals(p) \in [ProposalId -> Proposals]
         /\ ErasedInvitations(p) \in [InvitationId -> Invitations]
<1>1. ASSUME NEW q \in ProposalId
      PROVE  [proposals[q] EXCEPT !.invitation = None] \in Proposals
  BY DEF TypeOK, Proposals
<1>2. ASSUME NEW i \in InvitationId
      PROVE  [invitations[i] EXCEPT !.closed = "revoked"] \in Invitations
  BY DEF TypeOK, Invitations
<1>3. NoInvitation \in Invitations
  BY DEF NoInvitation, Invitations
<1>. QED  BY <1>1, <1>2, <1>3 DEF TypeOK, ErasedProposals, ErasedInvitations

\* A question as proposeInvitation asks it has the shape of a question.
LEMMA QuestionType ==
  ASSUME TypeOK, NEW s \in Slot, NEW email \in Person, Doing(s, "asked")
  PROVE  Question(Asker(s), email) \in Proposals
<1>1. clock + ProposalDays \in Nat
  BY TimeAssumption DEF TypeOK
<1>2. Asker(s) \in Person
  BY DEF TypeOK, Doing, Asker, Requests, Idle, Mailing
<1>3. ASSUME NEW answer \in {"none", "agree"}
      PROVE  [NoProposal.answers EXCEPT ![Asker(s)] = answer] \in Answers
  BY DEF NoProposal, Answers
<1>. QED  BY <1>1, <1>2, <1>3 DEF Question, NoProposal, Proposals

\* A mint writes one proposal, one invitation and the request that mails it.
LEMMA MintType ==
  ASSUME TypeOK, NEW s \in Slot, NEW q \in ProposalId, NEW i \in InvitationId,
         NEW props \in [ProposalId -> Proposals], NEW invs \in [InvitationId -> Invitations],
         NEW r \in InvitationId \cup {None},
         Doing(s, "asked"), Mint(s, q, i, props, invs, r)
  PROVE  /\ proposals' \in [ProposalId -> Proposals]
         /\ invitations' \in [InvitationId -> Invitations]
         /\ requests' \in [Slot -> Requests]
<1>1. clock + InvitationDays \in Nat
  BY TimeAssumption DEF TypeOK
<1>2. invitations' \in [InvitationId -> Invitations]
  <2>1. /\ props[q].by \in Person \cup {None}
        /\ props[q].email \in Person \cup {None}
    BY DEF Proposals
  <2>. QED  BY <1>1, <2>1 DEF Mint, Invitations
<1>3. proposals' \in [ProposalId -> Proposals]
  <2>1. [props[q] EXCEPT !.status = "agreed", !.invitation = i] \in Proposals
    BY DEF Proposals
  <2>2. proposals' = [props EXCEPT ![q] = [props[q] EXCEPT !.status = "agreed", !.invitation = i]]
    BY DEF Mint, Proposals
  <2>. QED  BY <2>1, <2>2
<1>4. requests' \in [Slot -> Requests]
  <2>1. requests[s].who \in Person /\ requests[s].role \in Roles
    BY DEF TypeOK, Doing, Requests, Idle, Mailing
  <2>. QED  BY <2>1 DEF Mint, TypeOK, Requests, Mailing
<1>. QED  BY <1>2, <1>3, <1>4

\* Every request, done or under way, has a shape of its own.
LEMMA RequestType ==
  ASSUME TypeOK, NEW s \in Slot
  PROVE  /\ Idle \in Requests
         /\ Done(s) => requests' \in [Slot -> Requests]
         /\ requests[s] \in Requests
<1>1. Idle \in Requests
  BY DEF Idle, Requests, Roles
<1>. QED  BY <1>1 DEF TypeOK, Done

\* The steps that see to a mail keep what its request names.
LEMMA MailStepType ==
  ASSUME TypeOK, NEW s \in Slot, NEW op \in Mailing, requests[s].op \in Mailing,
         requests' = [requests EXCEPT ![s].op = op]
  PROVE  requests' \in [Slot -> Requests]
<1>1. requests[s] \in [op : Mailing, who : Person, role : Roles, proposal : ProposalId,
                       invitation : InvitationId, replaces : InvitationId \cup {None}]
  BY DEF TypeOK, Requests, Idle, Mailing
<1>2. [requests[s] EXCEPT !.op = op] \in Requests
  BY <1>1 DEF Requests
<1>3. requests' = [requests EXCEPT ![s] = [requests[s] EXCEPT !.op = op]]
  BY DEF TypeOK
<1>. QED  BY <1>2, <1>3 DEF TypeOK

\* Every row and request keeps its shape: what a handler writes back after its lock is a row the
\* tables allow, the mail's own clean-up of a row deleted meanwhile included.
THEOREM TypeCorrect == Spec => []TypeOK
<1>1. Init => TypeOK
  <2>. SUFFICES ASSUME Init PROVE TypeOK
    OBVIOUS
  <2>1. NoProposal \in Proposals
    BY DEF NoProposal, Proposals, Answers
  <2>2. NoInvitation \in Invitations
    BY DEF NoInvitation, Invitations
  <2>3. Idle \in Requests
    BY DEF Idle, Requests, Roles
  <2>4. role \in [Person -> Roles] /\ holder \in Person
    BY PeopleAssumption DEF Init, Roles
  <2>. QED  BY <2>1, <2>2, <2>3, <2>4 DEF Init, TypeOK
<1>2. TypeOK /\ [Next]_vars => TypeOK'
  <2>. SUFFICES ASSUME TypeOK, [Next]_vars PROVE TypeOK'
    OBVIOUS
  <2>. USE LapsedType
  <2>1. ASSUME NEW s \in Slot, Ask(s) \/ AskErase(s) PROVE TypeOK'
    <3>1. ASSUME NEW p \in Person, NEW op \in {"asked", "erase"}, Arrive(s, p, op) PROVE TypeOK'
      <4>1. [Idle EXCEPT !.op = op, !.who = p, !.role = role[p]] \in Requests
        BY DEF Idle, Requests, TypeOK
      <4>. QED  BY <3>1, <4>1 DEF Arrive, TypeOK, people, payment
    <3>. QED  BY <2>1, <3>1 DEF Ask, AskErase, Members
  <2>2. ASSUME NEW s \in Slot, NEW p \in Person, Propose(s, p) PROVE TypeOK'
    <3>. DEFINE kept  == Released(LapsedInvitations)
                asked == Question(Asker(s), p)
    <3>1. asked \in Proposals
      BY <2>2, QuestionType DEF Propose
    <3>2. kept \in [InvitationId -> Invitations]
      BY ReleasedType
    <3>3. PICK q \in ProposalId :
            LET props == [LapsedProposals EXCEPT ![q] = asked]
            IN IF EveryoneAgreed(asked.answers)
               THEN \E i \in InvitationId : Mint(s, q, i, props, kept, None)
               ELSE /\ proposals' = props
                    /\ invitations' = kept
                    /\ Done(s)
      BY <2>2 DEF Propose
    <3>. DEFINE props == [LapsedProposals EXCEPT ![q] = asked]
    <3>4. props \in [ProposalId -> Proposals]
      BY <3>1
    <3>. HIDE DEF asked, kept
    <3>5. CASE \E i \in InvitationId : Mint(s, q, i, props, kept, None)
      <4>. HIDE DEF props
      <4>. QED  BY <2>2, <3>2, <3>4, <3>5, MintType DEF Propose, TypeOK, people, payment
    <3>6. CASE proposals' = props /\ invitations' = kept /\ Done(s)
      BY <2>2, <3>2, <3>4, <3>6, RequestType DEF Propose, TypeOK, people, payment
    <3>. QED  BY <3>3, <3>5, <3>6
  <2>3. ASSUME NEW s \in Slot, NEW p \in Person, RemoveMember(s, p) PROVE TypeOK'
    BY <2>3, RequestType DEF RemoveMember, TypeOK, payment, Roles
  <2>4. ASSUME NEW s \in Slot, NEW p \in Person, TransferOwnership(s, p) PROVE TypeOK'
    BY <2>4, RequestType DEF TransferOwnership, TypeOK, payment, Roles
  <2>5. ASSUME NEW s \in Slot, NEW q \in ProposalId, Agree(s, q) PROVE TypeOK'
    <3>. DEFINE answered == [proposals[q] EXCEPT !.answers[Asker(s)] = "agree"]
    <3>1. answered \in Proposals
      BY DEF TypeOK, Proposals, Answers
    <3>2. [LapsedProposals EXCEPT ![q] = answered] \in [ProposalId -> Proposals]
      BY <3>1
    <3>3. [proposals EXCEPT ![q] = answered] \in [ProposalId -> Proposals]
      BY <3>1 DEF TypeOK
    <3>4. \/ \E i \in InvitationId :
               Mint(s, q, i, [LapsedProposals EXCEPT ![q] = answered], LapsedInvitations, None)
          \/ proposals' = [proposals EXCEPT ![q] = answered] /\ Done(s) /\ UNCHANGED invitations
      BY <2>5 DEF Agree
    <3>. HIDE DEF answered
    <3>5. CASE \E i \in InvitationId :
                 Mint(s, q, i, [LapsedProposals EXCEPT ![q] = answered], LapsedInvitations, None)
      <4>. DEFINE props == [LapsedProposals EXCEPT ![q] = answered]
      <4>1. \E i \in InvitationId : Mint(s, q, i, props, LapsedInvitations, None)
        BY <3>5
      <4>2. props \in [ProposalId -> Proposals]
        BY <3>2
      <4>. HIDE DEF props
      <4>3. /\ proposals' \in [ProposalId -> Proposals]
            /\ invitations' \in [InvitationId -> Invitations]
            /\ requests' \in [Slot -> Requests]
        BY <2>5, <4>1, <4>2, MintType DEF Agree, Answering
      <4>. QED  BY <2>5, <4>3 DEF Agree, TypeOK, people, payment
    <3>6. CASE proposals' = [proposals EXCEPT ![q] = answered] /\ Done(s) /\ UNCHANGED invitations
      BY <2>5, <3>3, <3>6, RequestType DEF Agree, TypeOK, people, payment
    <3>. QED  BY <3>4, <3>5, <3>6
  <2>6. ASSUME NEW s \in Slot, NEW q \in ProposalId, Decline(s, q) PROVE TypeOK'
    <3>1. [proposals[q] EXCEPT !.status = "declined", !.answers[Asker(s)] = "decline"] \in Proposals
      <4>1. proposals[q] \in Proposals
        BY DEF TypeOK
      <4>2. [proposals[q].answers EXCEPT ![Asker(s)] = "decline"] \in Answers
        BY <4>1 DEF Proposals, Answers
      <4>. QED  BY <4>1, <4>2 DEF Proposals
    <3>2. proposals' = [proposals EXCEPT ![q] =
            [proposals[q] EXCEPT !.status = "declined", !.answers[Asker(s)] = "decline"]]
      BY <2>6 DEF Decline, TypeOK, Proposals
    <3>3. proposals' \in [ProposalId -> Proposals]
      BY <3>1, <3>2 DEF TypeOK
    <3>. QED  BY <2>6, <3>3, RequestType DEF Decline, TypeOK, people, payment
  <2>7. ASSUME NEW s \in Slot, NEW q \in ProposalId, SendAgreed(s, q) PROVE TypeOK'
    BY <2>7, MintType DEF SendAgreed, TypeOK, people, payment
  <2>8. ASSUME NEW s \in Slot, NEW q \in ProposalId, WithdrawProposal(s, q) PROVE TypeOK'
    <3>1. [proposals[q] EXCEPT !.status = "withdrawn"] \in Proposals
      BY DEF TypeOK, Proposals
    <3>. QED  BY <2>8, <3>1, RequestType DEF WithdrawProposal, TypeOK, people, payment
  <2>9. ASSUME NEW s \in Slot, NEW i \in InvitationId, WithdrawInvitation(s, i) PROVE TypeOK'
    <3>1. [invitations[i] EXCEPT !.closed = "withdrawn", !.reserved = FALSE] \in Invitations
      BY DEF TypeOK, Invitations
    <3>2. invitations' = [invitations EXCEPT ![i] =
                            [invitations[i] EXCEPT !.closed = "withdrawn", !.reserved = FALSE]]
      BY <2>9 DEF WithdrawInvitation, TypeOK, Invitations
    <3>. QED  BY <2>9, <3>1, <3>2, RequestType DEF WithdrawInvitation, TypeOK, people, payment
  <2>10. ASSUME NEW s \in Slot, NEW i \in InvitationId, SendAgain(s, i) PROVE TypeOK'
    <3>1. invitations[i].proposal \in ProposalId
      BY <2>10 DEF SendAgain, Exists, TypeOK, Invitations
    <3>2. \E j \in InvitationId :
            Mint(s, invitations[i].proposal, j, LapsedProposals, LapsedInvitations, i)
      BY <2>10 DEF SendAgain
    <3>3. /\ proposals' \in [ProposalId -> Proposals]
          /\ invitations' \in [InvitationId -> Invitations]
          /\ requests' \in [Slot -> Requests]
      BY <2>10, <3>1, <3>2, MintType DEF SendAgain
    <3>. QED  BY <2>10, <3>3 DEF SendAgain, TypeOK, people, payment
  <2>11. ASSUME NEW s \in Slot, EraseAccount(s) PROVE TypeOK'
    <3>. DEFINE p == requests[s].who
    <3>1. p \in Person
      BY <2>11, RequestType DEF EraseAccount, Doing, Requests, Idle, Mailing
    <3>2. NoProposal \in Proposals /\ NoInvitation \in Invitations
      BY DEF NoProposal, Proposals, Answers, NoInvitation, Invitations
    <3>3. proposals' \in [ProposalId -> Proposals] /\ invitations' \in [InvitationId -> Invitations]
      BY <2>11, <3>1, <3>2, ErasedType DEF EraseAccount
    <3>4. role' \in [Person -> Roles] /\ holder' \in Person \cup {None} /\ erased' \subseteq Person
      BY <2>11, <3>1 DEF EraseAccount, TypeOK, Roles
    <3>. QED  BY <2>11, <3>3, <3>4, RequestType DEF EraseAccount, TypeOK, payment
  <2>12. ASSUME NEW s \in Slot, MailSent(s) \/ MailFailed(s) PROVE TypeOK'
    <3>1. requests[s].invitation \in InvitationId
      BY <2>12, RequestType DEF MailSent, MailFailed, Doing, Requests, Idle, Mailing
    <3>2. CASE MailSent(s)
      BY <3>1, <3>2, RequestType DEF MailSent, TypeOK, people, payment
    <3>3. CASE MailFailed(s)
      <4>1. requests' \in [Slot -> Requests]
        BY <3>3, MailStepType DEF MailFailed, Doing, Mailing
      <4>. QED  BY <3>1, <3>3, <4>1 DEF MailFailed, TypeOK, people, payment
    <3>. QED  BY <2>12, <3>2, <3>3
  <2>13. ASSUME NEW s \in Slot, RevokeUndelivered(s) PROVE TypeOK'
    <3>1. requests' \in [Slot -> Requests]
      BY <2>13, MailStepType DEF RevokeUndelivered, Doing, Mailing
    <3>. DEFINE i == requests[s].invitation
                closed == IF invitations[i].closed = "no" THEN "revoked" ELSE invitations[i].closed
                revoked == [invitations[i] EXCEPT !.reserved = FALSE, !.closed = closed]
    <3>2. i \in InvitationId
      BY <2>13, RequestType DEF RevokeUndelivered, Doing, Requests, Idle, Mailing
    <3>3. revoked \in Invitations
      <4>1. invitations[i] \in Invitations
        BY <3>2 DEF TypeOK
      <4>2. closed \in {"no", "revoked", "withdrawn"}
        BY <4>1 DEF Invitations
      <4>. HIDE DEF closed
      <4>. QED  BY <4>1, <4>2 DEF Invitations
    <3>4. invitations' \in {invitations, [invitations EXCEPT ![i] = revoked]}
      BY <2>13, <3>2 DEF RevokeUndelivered, TypeOK, Invitations
    <3>5. invitations' \in [InvitationId -> Invitations]
      BY <3>2, <3>3, <3>4 DEF TypeOK
    <3>. QED  BY <2>13, <3>1, <3>5 DEF RevokeUndelivered, TypeOK, people, payment
  <2>14. ASSUME NEW s \in Slot, ReopenProposal(s) PROVE TypeOK'
    <3>. DEFINE q == requests[s].proposal
                r == requests[s].replaces
    <3>1. q \in ProposalId /\ r \in InvitationId \cup {None}
      BY <2>14, RequestType DEF ReopenProposal, Doing, Requests, Idle, Mailing
    <3>2. /\ [proposals[q] EXCEPT !.status = "open", !.invitation = None] \in Proposals
          /\ [proposals[q] EXCEPT !.invitation = r] \in Proposals
      <4>1. proposals[q] \in Proposals
        BY <3>1 DEF TypeOK
      <4>. HIDE DEF q, r
      <4>2. [proposals[q] EXCEPT !.status = "open", !.invitation = None] \in Proposals
        BY <4>1 DEF Proposals
      <4>3. [proposals[q] EXCEPT !.invitation = r] \in Proposals
        BY <3>1, <4>1 DEF Proposals
      <4>. QED  BY <4>2, <4>3
    <3>3. \/ proposals' = proposals
          \/ proposals' = [proposals EXCEPT ![q] =
                             [proposals[q] EXCEPT !.status = "open", !.invitation = None]]
          \/ proposals' = [proposals EXCEPT ![q] = [proposals[q] EXCEPT !.invitation = r]]
      BY <2>14, <3>1 DEF ReopenProposal, TypeOK, Proposals
    <3>4. proposals' \in [ProposalId -> Proposals]
      BY <3>1, <3>2, <3>3 DEF TypeOK
    <3>. QED  BY <2>14, <3>4, RequestType DEF ReopenProposal, TypeOK, people, payment
  <2>15. ASSUME NEW s \in Slot, Lost(s) PROVE TypeOK'
    BY <2>15, RequestType DEF Lost, TypeOK, people, payment
  <2>16. ASSUME NEW i \in InvitationId, Accept(i) PROVE TypeOK'
    <3>1. [invitations[i] EXCEPT !.accepted = TRUE, !.reserved = FALSE] \in Invitations
      BY DEF TypeOK, Invitations
    <3>2. invitations' = [invitations EXCEPT ![i] =
                            [invitations[i] EXCEPT !.accepted = TRUE, !.reserved = FALSE]]
      BY <2>16 DEF Accept, TypeOK, Invitations
    <3>3. invitations' \in [InvitationId -> Invitations]
      BY <3>1, <3>2 DEF TypeOK
    <3>4. role' \in [Person -> Roles]
      BY <2>16 DEF Accept, TypeOK, Roles
    <3>. QED  BY <2>16, <3>3, <3>4 DEF Accept, TypeOK, payment
  <2>17. ASSUME NEW p \in Person, Leave(p) PROVE TypeOK'
    <3>1. ASSUME NEW q \in ProposalId
          PROVE  [LapsedProposals[q] EXCEPT !.status = "withdrawn"] \in Proposals
      <4>1. LapsedProposals[q] \in Proposals
        OBVIOUS
      <4>. QED  BY <4>1 DEF Proposals
    <3>2. ASSUME NEW i \in InvitationId
          PROVE  [invitations[i] EXCEPT !.closed = "withdrawn", !.reserved = FALSE] \in Invitations
      BY DEF TypeOK, Invitations
    <3>3. proposals' \in [ProposalId -> Proposals] /\ invitations' \in [InvitationId -> Invitations]
      BY <2>17, <3>1, <3>2 DEF Leave, TypeOK
    <3>4. role' \in [Person -> Roles]
      BY <2>17 DEF Leave, TypeOK, Roles
    <3>. QED  BY <2>17, <3>3, <3>4 DEF Leave, TypeOK, payment
  <2>18. CASE NoticeRunOuts
    BY <2>18 DEF NoticeRunOuts, TypeOK, people, payment
  <2>19. CASE PaymentChanges
    BY <2>19 DEF PaymentChanges, TypeOK, people
  <2>20. CASE Tick
    BY <2>20 DEF Tick, TypeOK, people, payment
  <2>21. CASE UNCHANGED vars
    BY <2>21 DEF vars, TypeOK
  <2>. QED
    BY <2>1, <2>2, <2>3, <2>4, <2>5, <2>6, <2>7, <2>8, <2>9, <2>10, <2>11, <2>12, <2>13,
       <2>14, <2>15, <2>16, <2>17, <2>18, <2>19, <2>20, <2>21
    DEF Next, Handling, Delivering
<1>. QED  BY <1>1, <1>2, PTL DEF Spec
-----------------------------------------------------------------------------
(***************************************************************************)
(* Places.  Only a mint makes more of them taken, by one, and it counts    *)
(* them first; accepting trades a reservation for a seat.                  *)
(***************************************************************************)
LEMMA PlacesCounted ==
  ASSUME TypeOK
  PROVE  /\ IsFiniteSet(Members) /\ Cardinality(Members) \in Nat
         /\ IsFiniteSet(Live(invitations)) /\ Cardinality(Live(invitations)) \in Nat
<1>1. Members \subseteq Person /\ Live(invitations) \subseteq InvitationId
  BY DEF Members, Live
<1>. QED  BY <1>1, PeopleAssumption, RowsAssumption, FS_Subset, FS_CardinalityType

\* Nothing that holds a place is let go by recording the run-outs, nor by a proposal's sweep.
LEMMA SweepsFreeNothing ==
  ASSUME TypeOK
  PROVE  /\ Live(LapsedInvitations) = Live(invitations)
         /\ Live(Released(LapsedInvitations)) = Live(invitations)
<1>1. ASSUME NEW i \in InvitationId
      PROVE  Holding(LapsedInvitations, i) <=> Holding(invitations, i)
  <2>1. invitations[i].expires \in Nat /\ clock \in Nat
    BY DEF TypeOK, Invitations
  <2>2. CASE RunOut(i)
    BY <2>1, <2>2 DEF LapsedInvitations, RunOut, Expired, Unanswered, Holding, TypeOK, Invitations
  <2>3. CASE ~RunOut(i)
    BY <2>3 DEF LapsedInvitations, Holding
  <2>. QED  BY <2>2, <2>3
<1>2. ASSUME NEW i \in InvitationId
      PROVE  Holding(Released(LapsedInvitations), i) <=> Holding(LapsedInvitations, i)
  <2>. DEFINE invs == LapsedInvitations
  <2>1. invs[i] \in Invitations
    BY LapsedType
  <2>. HIDE DEF invs
  <2>2. /\ Released(invs)[i].reserved = Holding(invs, i)
        /\ Released(invs)[i].accepted = invs[i].accepted
        /\ Released(invs)[i].closed = invs[i].closed
        /\ Released(invs)[i].expires = invs[i].expires
    BY <2>1 DEF Released, Invitations
  <2>. QED  BY <2>2 DEF Holding, invs
<1>. QED  BY <1>1, <1>2 DEF Live

\* The step takes no place, or takes one that was free.
Growth ==
  \/ Occupied' <= Occupied
  \/ CanInvite(invitations) /\ Occupied' <= Occupied + 1

\* With nobody new here and no new place held, no more places are taken.
LEMMA NoMorePlaces ==
  ASSUME TypeOK, TypeOK', Members' \subseteq Members,
         Live(invitations)' \subseteq Live(invitations)
  PROVE  Occupied' <= Occupied
<1>1. /\ Cardinality(Members') <= Cardinality(Members)
      /\ Cardinality(Live(invitations)') <= Cardinality(Live(invitations))
  BY PlacesCounted, FS_Subset
<1>2. /\ Cardinality(Members') \in Nat /\ Cardinality(Members) \in Nat
      /\ Cardinality(Live(invitations)') \in Nat /\ Cardinality(Live(invitations)) \in Nat
  BY PlacesCounted, FS_Subset, FS_CardinalityType
<1>. QED  BY <1>1, <1>2 DEF Occupied

\* Minting an invitation takes one place at most, after capacityFor has found one free.
LEMMA MintTakesOne ==
  ASSUME TypeOK, TypeOK', NEW s \in Slot, NEW q \in ProposalId, NEW i \in InvitationId,
         NEW props, NEW invs \in [InvitationId -> Invitations], NEW r,
         Mint(s, q, i, props, invs, r), Live(invs) = Live(invitations),
         CanInvite(invs), role' = role, clock' = clock
  PROVE  Growth
<1>1. Members' = Members
  BY DEF Members
<1>2. Live(invitations)' \subseteq Live(invitations) \cup {i}
  <2>1. ASSUME NEW j \in InvitationId, j # i, Holding(invitations, j)'
        PROVE  Holding(invs, j)
    BY <2>1 DEF Mint, Holding
  <2>. QED  BY <2>1 DEF Live
<1>3. Cardinality(Live(invitations) \cup {i}) \in {Cardinality(Live(invitations)),
                                                   Cardinality(Live(invitations)) + 1}
  BY PlacesCounted, FS_AddElement
<1>4. Cardinality(Live(invitations)') <= Cardinality(Live(invitations) \cup {i})
  BY <1>2, PlacesCounted, FS_AddElement, FS_Subset
<1>5. Cardinality(Live(invitations)') \in Nat
  BY <1>2, PlacesCounted, FS_AddElement, FS_Subset, FS_CardinalityType
<1>6. CanInvite(invitations)
  BY DEF CanInvite
<1>. QED  BY <1>1, <1>3, <1>4, <1>5, <1>6, PlacesCounted DEF Growth, Occupied

\* No step takes more than one place, and none takes one that capacityFor has not found free.
LEMMA OccupiedStep ==
  ASSUME TypeOK, TypeOK', [Next]_vars
  PROVE  Growth
<1>1. ASSUME Members' \subseteq Members, Live(invitations)' \subseteq Live(invitations)
      PROVE  Growth
  BY <1>1, NoMorePlaces DEF Growth
<1>2. ASSUME Members' \subseteq Members,
             \A i \in InvitationId : Holding(invitations, i)' => Holding(invitations, i)
      PROVE  Growth
  BY <1>1, <1>2 DEF Live
<1>3. ASSUME UNCHANGED <<role, invitations, clock>> PROVE Growth
  BY <1>2, <1>3 DEF Members, Holding
<1>4. ASSUME NEW s \in Slot, Ask(s) \/ AskErase(s) PROVE Growth
  BY <1>3, <1>4 DEF Ask, AskErase, Arrive, people
<1>5. ASSUME NEW s \in Slot, NEW p \in Person, Propose(s, p) PROVE Growth
  <2>. DEFINE kept == Released(LapsedInvitations)
  <2>1. kept \in [InvitationId -> Invitations]
    BY LapsedType, ReleasedType
  <2>2. Live(kept) = Live(invitations)
    BY SweepsFreeNothing
  <2>3. CanInvite(kept) /\ role' = role /\ clock' = clock
    BY <1>5 DEF Propose, people
  <2>4. \/ \E q \in ProposalId, i \in InvitationId : \E props : Mint(s, q, i, props, kept, None)
        \/ invitations' = kept
    BY <1>5 DEF Propose
  <2>. HIDE DEF kept
  <2>5. CASE \E q \in ProposalId, i \in InvitationId : \E props : Mint(s, q, i, props, kept, None)
    BY <2>1, <2>2, <2>3, <2>5, MintTakesOne
  <2>6. CASE invitations' = kept
    <3>1. Live(invitations)' = Live(kept)
      BY <2>3, <2>6 DEF Live, Holding
    <3>2. Members' = Members
      BY <2>3 DEF Members
    <3>. QED  BY <1>1, <2>2, <3>1, <3>2
  <2>. QED  BY <2>4, <2>5, <2>6
<1>6. ASSUME NEW s \in Slot, NEW q \in ProposalId,
             CanInvite(LapsedInvitations), role' = role, clock' = clock,
             \E i \in InvitationId : \E props, r : Mint(s, q, i, props, LapsedInvitations, r)
      PROVE  Growth
  BY <1>6, LapsedType, SweepsFreeNothing, MintTakesOne
<1>7. ASSUME NEW s \in Slot, NEW q \in ProposalId, Agree(s, q) PROVE Growth
  <2>1. role' = role /\ clock' = clock
    BY <1>7 DEF Agree, people
  <2>2. CASE EveryoneAgreed([proposals[q] EXCEPT !.answers[Asker(s)] = "agree"].answers)
    BY <1>6, <1>7, <2>1, <2>2 DEF Agree
  <2>3. CASE UNCHANGED invitations
    BY <1>3, <2>1, <2>3
  <2>. QED  BY <1>7, <2>2, <2>3 DEF Agree
<1>8. ASSUME NEW s \in Slot, NEW q \in ProposalId, SendAgreed(s, q) PROVE Growth
  BY <1>6, <1>8 DEF SendAgreed, people
<1>9. ASSUME NEW s \in Slot, NEW i \in InvitationId, SendAgain(s, i) PROVE Growth
  <2>1. invitations[i].proposal \in ProposalId
    BY <1>9 DEF SendAgain, Exists, TypeOK, Invitations
  <2>. QED  BY <1>6, <1>9, <2>1 DEF SendAgain, people
<1>10. ASSUME NEW s \in Slot, NEW q \in ProposalId, Decline(s, q) \/ WithdrawProposal(s, q)
       PROVE  Growth
  BY <1>3, <1>10 DEF Decline, WithdrawProposal, people
<1>11. ASSUME NEW s \in Slot, NEW i \in InvitationId, WithdrawInvitation(s, i) PROVE Growth
  BY <1>2, <1>11 DEF WithdrawInvitation, people, Members, Holding, TypeOK, Invitations
<1>12. ASSUME NEW s \in Slot, NEW p \in Person, RemoveMember(s, p) PROVE Growth
  BY <1>2, <1>12 DEF RemoveMember, Members, Holding, TypeOK
<1>13. ASSUME NEW s \in Slot, NEW p \in Person, TransferOwnership(s, p) PROVE Growth
  BY <1>2, <1>13 DEF TransferOwnership, Members, Holding, TypeOK
<1>14. ASSUME NEW s \in Slot, EraseAccount(s) PROVE Growth
  <2>. DEFINE p == requests[s].who
  <2>1. Members' \subseteq Members
    BY <1>14 DEF EraseAccount, Members, TypeOK
  <2>2. clock' = clock
    BY <1>14 DEF EraseAccount
  <2>3. invitations' \in {[i \in InvitationId |-> NoInvitation], ErasedInvitations(p)}
    BY <1>14 DEF EraseAccount
  <2>4. ASSUME NEW i \in InvitationId
        PROVE  Holding(invitations, i)' => Holding(invitations, i)
    <3>1. invitations[i] \in Invitations
      BY DEF TypeOK
    <3>2. CASE invitations'[i] = NoInvitation
      BY <3>2 DEF Holding, NoInvitation
    <3>3. CASE invitations'[i] = [invitations[i] EXCEPT !.closed = "revoked"]
      BY <3>1, <3>3 DEF Holding, Invitations
    <3>4. CASE invitations'[i] = invitations[i]
      BY <2>2, <3>4 DEF Holding
    <3>. QED  BY <2>3, <3>2, <3>3, <3>4 DEF ErasedInvitations
  <2>. QED  BY <1>2, <2>1, <2>4
<1>15. ASSUME NEW s \in Slot, Delivering(s) \/ Lost(s) PROVE Growth
  <2>1. role' = role /\ clock' = clock
    BY <1>15 DEF Delivering, MailSent, MailFailed, RevokeUndelivered, ReopenProposal, Lost, people
  <2>2. ASSUME NEW i \in InvitationId
        PROVE  Holding(invitations, i)' => Holding(invitations, i)
    BY <1>15, <2>1 DEF Delivering, MailSent, MailFailed, RevokeUndelivered, ReopenProposal, Lost,
                       Holding, TypeOK, Invitations
  <2>. QED  BY <1>2, <2>1, <2>2 DEF Members
<1>16. ASSUME NEW i \in InvitationId, Accept(i) PROVE Growth
  <2>. DEFINE p == invitations[i].email
  <2>1. invitations[i] \in Invitations /\ i \in Live(invitations)
    BY <1>16 DEF TypeOK, Accept
  <2>2. Members' \subseteq Members \cup {p}
    BY <1>16 DEF Accept, Members, TypeOK
  <2>3. Live(invitations)' \subseteq Live(invitations) \ {i}
    <3>1. ~Holding(invitations, i)'
      BY <1>16, <2>1 DEF Accept, Holding, TypeOK, Invitations
    <3>2. ASSUME NEW j \in InvitationId, j # i, Holding(invitations, j)'
          PROVE  Holding(invitations, j)
      BY <1>16, <3>2 DEF Accept, Holding, TypeOK
    <3>. QED  BY <3>1, <3>2 DEF Live
  <2>4. /\ Cardinality(Members') \in Nat
        /\ Cardinality(Members') <= Cardinality(Members) + 1
    <3>1. /\ Cardinality(Members') \in Nat
          /\ Cardinality(Members') <= Cardinality(Members \cup {p})
      BY <2>2, PlacesCounted, FS_AddElement, FS_Subset, FS_CardinalityType
    <3>2. /\ Cardinality(Members \cup {p}) \in Nat
          /\ Cardinality(Members \cup {p}) <= Cardinality(Members) + 1
      BY PlacesCounted, FS_AddElement
    <3>. QED  BY <3>1, <3>2, PlacesCounted
  <2>5. /\ Cardinality(Live(invitations)') \in Nat
        /\ Cardinality(Live(invitations)') <= Cardinality(Live(invitations)) - 1
    <3>1. /\ Cardinality(Live(invitations)') \in Nat
          /\ Cardinality(Live(invitations)') <= Cardinality(Live(invitations) \ {i})
      BY <2>3, PlacesCounted, FS_RemoveElement, FS_Subset, FS_CardinalityType
    <3>2. Cardinality(Live(invitations) \ {i}) = Cardinality(Live(invitations)) - 1
      BY <2>1, PlacesCounted, FS_RemoveElement
    <3>. QED  BY <3>1, <3>2, PlacesCounted
  <2>. QED  BY <2>4, <2>5, PlacesCounted DEF Growth, Occupied
<1>17. ASSUME NEW p \in Person, Leave(p) PROVE Growth
  <2>1. Members' \subseteq Members /\ clock' = clock
    BY <1>17 DEF Leave, Members, TypeOK
  <2>2. ASSUME NEW i \in InvitationId
        PROVE  Holding(invitations, i)' => Holding(invitations, i)
    <3>1. CASE invitations'[i] = LapsedInvitations[i]
      <4>1. Holding(invitations, i)' => Holding(LapsedInvitations, i)
        BY <2>1, <3>1 DEF Holding
      <4>. QED  BY <4>1, SweepsFreeNothing DEF Live
    <3>2. CASE invitations'[i] = [invitations[i] EXCEPT !.closed = "withdrawn", !.reserved = FALSE]
      BY <3>2 DEF Holding, TypeOK, Invitations
    <3>. QED  BY <1>17, <3>1, <3>2 DEF Leave
  <2>. QED  BY <1>2, <2>1, <2>2
<1>18. CASE NoticeRunOuts
  <2>1. role' = role /\ clock' = clock /\ invitations' = LapsedInvitations
    BY <1>18 DEF NoticeRunOuts, people
  <2>2. Live(invitations)' = Live(LapsedInvitations)
    BY <2>1 DEF Live, Holding
  <2>. QED  BY <1>1, <2>1, <2>2, SweepsFreeNothing DEF Members
<1>19. CASE PaymentChanges
  BY <1>3, <1>19 DEF PaymentChanges, people
<1>20. CASE Tick
  <2>1. role' = role /\ invitations' = invitations /\ clock \in Nat /\ clock' = clock + 1
    BY <1>20 DEF Tick, people, TypeOK
  <2>2. ASSUME NEW i \in InvitationId
        PROVE  Holding(invitations, i)' => Holding(invitations, i)
    BY <2>1 DEF Holding, TypeOK, Invitations
  <2>. QED  BY <1>2, <2>1, <2>2 DEF Members
<1>21. CASE UNCHANGED vars
  BY <1>3, <1>21 DEF vars
<1>. QED
  BY <1>4, <1>5, <1>7, <1>8, <1>9, <1>10, <1>11, <1>12, <1>13, <1>14, <1>15, <1>16, <1>17,
     <1>18, <1>19, <1>20, <1>21
  DEF Next, Handling

\* The people here and the places held for people invited never pass the ceiling together, for any
\* number of requests at once and however payments, deliveries, answers and deletions interleave.
THEOREM PlacesKept == Spec => []WithinPlaces
<1>1. Init => WithinPlaces
  <2>. SUFFICES ASSUME Init PROVE WithinPlaces
    OBVIOUS
  <2>1. Members = Founders
    BY PeopleAssumption DEF Init, Members
  <2>2. Live(invitations) = {}
    BY DEF Init, Live, Holding, NoInvitation
  <2>3. Cardinality(Founders) \in Nat
    BY PeopleAssumption, FS_Subset, FS_CardinalityType
  <2>. QED  BY <2>1, <2>2, <2>3, FS_EmptySet, PlacesAssumption DEF WithinPlaces, Occupied
<1>2. TypeOK /\ TypeOK' /\ WithinPlaces /\ [Next]_vars => WithinPlaces'
  <2>. SUFFICES ASSUME TypeOK, TypeOK', WithinPlaces, [Next]_vars PROVE WithinPlaces'
    OBVIOUS
  <2>1. Occupied \in Nat /\ Occupied' \in Nat
    <3>1. Members' \subseteq Person /\ Live(invitations)' \subseteq InvitationId
      BY DEF Members, Live
    <3>2. Cardinality(Members') \in Nat /\ Cardinality(Live(invitations)') \in Nat
      BY <3>1, PeopleAssumption, RowsAssumption, FS_Subset, FS_CardinalityType
    <3>. QED  BY <3>2, PlacesCounted DEF Occupied
  <2>2. places \in Nat /\ places <= MaxPlaces
    BY PlacesAssumption DEF TypeOK
  <2>. QED  BY <2>1, <2>2, OccupiedStep, PlacesAssumption DEF Growth, CanInvite, Occupied, WithinPlaces
<1>. QED  BY <1>1, <1>2, TypeCorrect, PTL DEF Spec

\* Nothing but a mint that counted the places takes one, and never while a payment is in grace.
THEOREM PlacesCountedFirst == Spec => PlaceGivenOnlyWhenFree
<1>1. TypeOK /\ TypeOK' /\ [Next]_vars => [Occupied' > Occupied => Occupied < places /\ ~grace]_vars
  <2>. SUFFICES ASSUME TypeOK, TypeOK', [Next]_vars, Occupied' > Occupied
                PROVE  Occupied < places /\ ~grace
    OBVIOUS
  <2>1. Occupied \in Nat /\ Occupied' \in Nat
    <3>1. Members' \subseteq Person /\ Live(invitations)' \subseteq InvitationId
      BY DEF Members, Live
    <3>2. Cardinality(Members') \in Nat /\ Cardinality(Live(invitations)') \in Nat
      BY <3>1, PeopleAssumption, RowsAssumption, FS_Subset, FS_CardinalityType
    <3>. QED  BY <3>2, PlacesCounted DEF Occupied
  <2>. QED  BY <2>1, OccupiedStep DEF Growth, CanInvite, Occupied
<1>. QED  BY <1>1, TypeCorrect, PTL DEF Spec, PlaceGivenOnlyWhenFree
-----------------------------------------------------------------------------
(***************************************************************************)
(* Who holds the journey.  A transfer rests on a check made before the     *)
(* lock, so two may follow each other; the last one's journey row and      *)
(* role agree.                                                             *)
(***************************************************************************)

\* Whoever the journey names as holding it is its owner, unless their account was erased.
THEOREM HolderKept == Spec => []HolderIsOwner
<1>1. Init => HolderIsOwner
  BY PeopleAssumption DEF Init, HolderIsOwner
<1>2. TypeOK /\ HolderIsOwner /\ [Next]_vars => HolderIsOwner'
  <2>. SUFFICES ASSUME TypeOK, HolderIsOwner, [Next]_vars PROVE HolderIsOwner'
    OBVIOUS
  <2>1. ASSUME UNCHANGED people PROVE HolderIsOwner'
    BY <2>1 DEF HolderIsOwner, people
  <2>2. ASSUME NEW s \in Slot, NEW p \in Person, RemoveMember(s, p) PROVE HolderIsOwner'
    BY <2>2 DEF RemoveMember, HolderIsOwner, TypeOK
  <2>3. ASSUME NEW s \in Slot, NEW p \in Person, TransferOwnership(s, p) PROVE HolderIsOwner'
    BY <2>3 DEF TransferOwnership, HolderIsOwner, TypeOK
  <2>4. ASSUME NEW s \in Slot, EraseAccount(s) PROVE HolderIsOwner'
    <3>1. CASE holder' = None
      BY <3>1 DEF HolderIsOwner
    <3>2. CASE role' = role /\ holder' = holder /\ erased \subseteq erased'
      BY <3>2 DEF HolderIsOwner
    <3>3. CASE /\ role' = [role EXCEPT ![requests[s].who] = "none"]
               /\ holder' = holder
               /\ erased' = erased \cup {requests[s].who}
      BY <3>3 DEF HolderIsOwner, TypeOK
    <3>. QED  BY <2>4, <3>1, <3>2, <3>3 DEF EraseAccount
  <2>5. ASSUME NEW i \in InvitationId, Accept(i) PROVE HolderIsOwner'
    BY <2>5 DEF Accept, HolderIsOwner, TypeOK
  <2>6. ASSUME NEW p \in Person, Leave(p) PROVE HolderIsOwner'
    BY <2>6 DEF Leave, HolderIsOwner, TypeOK
  <2>7. ASSUME NEW s \in Slot, Ask(s) \/ AskErase(s) \/ Delivering(s) \/ Lost(s)
        PROVE  HolderIsOwner'
    BY <2>1, <2>7 DEF Ask, AskErase, Arrive, Delivering, MailSent, MailFailed, RevokeUndelivered,
                      ReopenProposal, Lost
  <2>8. ASSUME NEW s \in Slot, NEW p \in Person, Propose(s, p) PROVE HolderIsOwner'
    BY <2>1, <2>8 DEF Propose
  <2>9. ASSUME NEW s \in Slot, NEW q \in ProposalId,
               Agree(s, q) \/ Decline(s, q) \/ SendAgreed(s, q) \/ WithdrawProposal(s, q)
        PROVE  HolderIsOwner'
    BY <2>1, <2>9 DEF Agree, Decline, SendAgreed, WithdrawProposal
  <2>10. ASSUME NEW s \in Slot, NEW i \in InvitationId, WithdrawInvitation(s, i) \/ SendAgain(s, i)
         PROVE  HolderIsOwner'
    BY <2>1, <2>10 DEF WithdrawInvitation, SendAgain
  <2>11. CASE NoticeRunOuts \/ PaymentChanges \/ Tick \/ UNCHANGED vars
    BY <2>1, <2>11 DEF NoticeRunOuts, PaymentChanges, Tick, vars, people
  <2>. QED
    BY <2>2, <2>3, <2>4, <2>5, <2>6, <2>7, <2>8, <2>9, <2>10, <2>11 DEF Next, Handling
<1>. QED  BY <1>1, <1>2, TypeCorrect, PTL DEF Spec
-----------------------------------------------------------------------------
(***************************************************************************)
(* Deliveries.  What a failed mail undoes is unconditional, so that it     *)
(* undoes the right thing rests on nobody else having touched the question *)
(* meanwhile: the inductive invariant says so.                             *)
(***************************************************************************)
Deliveries == LiveIsAgreed /\ OneMailEach /\ NothingLeftBehind

\* A step that settles no question in favour, starts no sending and frees no invitation's name.
QuietQuestions ==
  \A q \in ProposalId :
    /\ proposals'[q].invitation = proposals[q].invitation
    /\ proposals'[q].status = "agreed" <=> proposals[q].status = "agreed"
    /\ holder = None => proposals'[q].status = proposals[q].status

QuietInvitations ==
  \A i \in InvitationId :
    /\ invitations'[i].proposal = invitations[i].proposal
    /\ invitations'[i].expires = invitations[i].expires
    /\ Holding(invitations, i)' => Holding(invitations, i)
    /\ Unanswered(i)' => Unanswered(i)
    /\ ~Exists(invitations, i) => invitations'[i] = invitations[i]

QuietRequests ==
  \A s \in Slot : requests'[s].op \in Mailing =>
    /\ requests[s].op \in Mailing
    /\ requests'[s].proposal = requests[s].proposal
    /\ requests'[s].invitation = requests[s].invitation
    /\ requests'[s].op = "mailRevoked" =>
         \/ requests[s].op = "mailRevoked"
         \/ \A i \in InvitationId : i = requests[s].invitation /\ Exists(invitations, i)
              => ~Unanswered(i)'

QuietPeople ==
  IF holder = None THEN holder' = None /\ Members' = {} ELSE holder' # None

\* What a mail in progress is about.
LEMMA MailNames ==
  ASSUME TypeOK, NEW s \in Slot, requests[s].op \in Mailing
  PROVE  requests[s].proposal \in ProposalId /\ requests[s].invitation \in InvitationId
  BY DEF TypeOK, Requests, Idle, Mailing

\* A step that only closes questions, ends invitations and finishes requests disturbs no delivery.
LEMMA QuietStep ==
  ASSUME TypeOK, Deliveries, TypeOK', clock' = clock,
         QuietQuestions, QuietInvitations, QuietRequests, QuietPeople
  PROVE  Deliveries'
<1>1. LiveIsAgreed'
  <2>. SUFFICES ASSUME NEW i \in InvitationId, Holding(invitations, i)'
                PROVE  /\ proposals'[invitations'[i].proposal].status = "agreed"
                       /\ proposals'[invitations'[i].proposal].invitation = i
    BY DEF LiveIsAgreed, Live
  <2>1. Holding(invitations, i) /\ invitations'[i].proposal = invitations[i].proposal
    BY DEF QuietInvitations
  <2>2. invitations[i].proposal \in ProposalId
    <3>1. Exists(invitations, i)
      BY <2>1 DEF Deliveries, NothingLeftBehind, Holding, NoInvitation
    <3>. QED  BY <3>1 DEF Exists, TypeOK, Invitations
  <2>. QED  BY <2>1, <2>2 DEF Deliveries, LiveIsAgreed, Live, QuietQuestions
<1>2. OneMailEach'
  <2>1. ASSUME NEW s \in Slot, NEW r \in Slot,
               requests'[s].op \in Mailing, requests'[r].op \in Mailing,
               requests'[s].proposal = requests'[r].proposal
        PROVE  s = r
    BY <2>1 DEF QuietRequests, Deliveries, OneMailEach
  <2>2. ASSUME NEW s \in Slot, requests'[s].op \in Mailing PROVE StandsOnItsMail(s)'
    <3>1. requests[s].op \in Mailing
      BY <2>2 DEF QuietRequests
    <3>2. PICK q \in ProposalId, i \in InvitationId :
            /\ requests[s].proposal = q /\ requests[s].invitation = i
            /\ requests'[s].proposal = q /\ requests'[s].invitation = i
      BY <2>2, <3>1, MailNames DEF QuietRequests
    <3>3. StandsOnItsMail(s)
      BY <3>1 DEF Deliveries, OneMailEach
    <3>4. proposals'[q].status = IF holder' = None THEN "none" ELSE "agreed"
      BY <3>2, <3>3 DEF QuietQuestions, QuietPeople, StandsOnItsMail
    <3>5. Exists(invitations, i)' <=> Exists(invitations, i)
      BY DEF QuietInvitations, Exists
    <3>6. proposals'[q].invitation = IF Exists(invitations, i)' THEN i ELSE None
      BY <3>2, <3>3, <3>5 DEF QuietQuestions, StandsOnItsMail
    <3>7. Exists(invitations, i)' => invitations'[i].expires > clock'
      BY <3>2, <3>3, <3>5 DEF QuietInvitations, StandsOnItsMail
    <3>8. Exists(invitations, i)' /\ requests'[s].op = "mailRevoked" => ~Unanswered(i)'
      BY <2>2, <3>2, <3>3, <3>5 DEF QuietInvitations, QuietRequests, StandsOnItsMail
    <3>. QED  BY <3>2, <3>4, <3>6, <3>7, <3>8 DEF StandsOnItsMail
  <2>. QED  BY <2>1, <2>2 DEF OneMailEach
<1>3. NothingLeftBehind'
  BY DEF NothingLeftBehind, Deliveries, QuietPeople, QuietQuestions, QuietInvitations, Exists
<1>. QED  BY <1>1, <1>2, <1>3 DEF Deliveries

\* What a mint starts from: the tables as they were, but for the run-outs and the question itself.
OthersKept(props, q) ==
  \A k \in ProposalId \ {q} :
    /\ props[k].invitation = proposals[k].invitation
    /\ props[k].status = "agreed" <=> proposals[k].status = "agreed"

RowsKept(invs) ==
  \A j \in InvitationId :
    /\ invs[j].proposal = invitations[j].proposal
    /\ invs[j].expires = invitations[j].expires
    /\ invs[j].accepted = invitations[j].accepted
    /\ invs[j].closed = invitations[j].closed
    /\ Holding(invs, j) => Holding(invitations, j)
    /\ ~Exists(invitations, j) => invs[j] = NoInvitation

\* recordRunOuts, and the release that proposeInvitation adds to it, settle no question on another
\* invitation and hold no new place.
LEMMA SweepsKeep ==
  ASSUME TypeOK, NothingLeftBehind
  PROVE  /\ \A q \in ProposalId : OthersKept(LapsedProposals, q)
         /\ RowsKept(LapsedInvitations)
         /\ RowsKept(Released(LapsedInvitations))
<1>1. ASSUME NEW k \in ProposalId
      PROVE  /\ LapsedProposals[k].invitation = proposals[k].invitation
             /\ LapsedProposals[k].status = "agreed" <=> proposals[k].status = "agreed"
  BY DEF LapsedProposals, TypeOK, Proposals
<1>2. ASSUME NEW j \in InvitationId
      PROVE  /\ LapsedInvitations[j].proposal = invitations[j].proposal
             /\ LapsedInvitations[j].expires = invitations[j].expires
             /\ LapsedInvitations[j].accepted = invitations[j].accepted
             /\ LapsedInvitations[j].closed = invitations[j].closed
             /\ ~Exists(invitations, j) => LapsedInvitations[j] = NoInvitation
  BY DEF LapsedInvitations, RunOut, TypeOK, Invitations, NothingLeftBehind
<1>3. \A j \in InvitationId : Holding(LapsedInvitations, j) <=> Holding(invitations, j)
  BY SweepsFreeNothing DEF Live
<1>4. RowsKept(LapsedInvitations)
  BY <1>2, <1>3 DEF RowsKept
<1>5. ASSUME NEW invs \in [InvitationId -> Invitations], RowsKept(invs)
      PROVE  RowsKept(Released(invs))
  <2>1. ASSUME NEW j \in InvitationId
        PROVE  /\ Released(invs)[j].proposal = invs[j].proposal
               /\ Released(invs)[j].expires = invs[j].expires
               /\ Released(invs)[j].accepted = invs[j].accepted
               /\ Released(invs)[j].closed = invs[j].closed
               /\ Released(invs)[j].reserved = Holding(invs, j)
    BY DEF Released, Invitations
  <2>2. ASSUME NEW j \in InvitationId, ~Exists(invitations, j)
        PROVE  Released(invs)[j] = NoInvitation
    <3>1. invs[j] = NoInvitation
      BY <1>5, <2>2 DEF RowsKept
    <3>2. Holding(invs, j) = FALSE
      BY <3>1 DEF Holding, NoInvitation
    <3>3. Released(invs)[j] = [NoInvitation EXCEPT !.reserved = FALSE]
      BY <3>1, <3>2 DEF Released
    <3>. QED  BY <3>3 DEF NoInvitation
  <2>3. ASSUME NEW j \in InvitationId, Holding(Released(invs), j)
        PROVE  Holding(invs, j)
    BY <2>1, <2>3 DEF Holding
  <2>. QED  BY <1>5, <2>1, <2>2, <2>3 DEF RowsKept
<1>. QED  BY <1>1, <1>4, <1>5, LapsedType DEF OthersKept

\* mintInvitationForProposal keeps deliveries apart, for a question with no place held and no mail
\* being seen to.
LEMMA MintStep ==
  ASSUME TypeOK, Deliveries, TypeOK', NEW s \in Slot, NEW q \in ProposalId, NEW i \in InvitationId,
         NEW props \in [ProposalId -> Proposals], NEW invs \in [InvitationId -> Invitations],
         NEW r \in InvitationId \cup {None},
         Mint(s, q, i, props, invs, r), UNCHANGED <<people, clock>>, holder # None,
         OthersKept(props, q), RowsKept(invs),
         \A j \in Live(invitations) : invitations[j].proposal # q,
         \A t \in Slot : requests[t].op \in Mailing => requests[t].proposal # q
  PROVE  Deliveries'
<1>1. /\ invitations' = [invs EXCEPT ![i] =
           [proposal |-> q, by |-> props[q].by, email |-> props[q].email,
            expires |-> clock + InvitationDays, accepted |-> FALSE, closed |-> "no",
            reserved |-> TRUE, lapseNoted |-> FALSE]]
      /\ proposals' = [props EXCEPT ![q].status = "agreed", ![q].invitation = i]
      /\ requests' = [requests EXCEPT ![s] =
           [op |-> "mail", who |-> requests[s].who, role |-> requests[s].role,
            proposal |-> q, invitation |-> i, replaces |-> r]]
      /\ Fresh(invs, i)
  BY DEF Mint
<1>2. /\ proposals'[q].status = "agreed" /\ proposals'[q].invitation = i
      /\ \A k \in ProposalId \ {q} : proposals'[k] = props[k]
  BY <1>1 DEF Proposals
<1>3. /\ invitations'[i].proposal = q /\ invitations'[i].expires = clock + InvitationDays
      /\ \A j \in InvitationId \ {i} : invitations'[j] = invs[j]
  BY <1>1
<1>4. /\ requests'[s].op = "mail" /\ requests'[s].proposal = q /\ requests'[s].invitation = i
      /\ \A t \in Slot \ {s} : requests'[t] = requests[t]
  BY <1>1 DEF TypeOK
<1>5. LiveIsAgreed'
  <2>. SUFFICES ASSUME NEW j \in InvitationId, Holding(invitations, j)'
                PROVE  /\ proposals'[invitations'[j].proposal].status = "agreed"
                       /\ proposals'[invitations'[j].proposal].invitation = j
    BY DEF LiveIsAgreed, Live
  <2>1. CASE j = i
    BY <1>2, <1>3, <2>1
  <2>2. CASE j # i
    <3>1. Holding(invs, j)
      BY <1>3, <2>2 DEF Holding
    <3>2. Holding(invitations, j) /\ invitations'[j].proposal = invitations[j].proposal
      BY <1>3, <2>2, <3>1 DEF RowsKept
    <3>3. invitations[j].proposal \in ProposalId \ {q}
      <4>1. Exists(invitations, j)
        BY <3>2 DEF Deliveries, NothingLeftBehind, Holding, NoInvitation
      <4>. QED  BY <3>2, <4>1 DEF Exists, TypeOK, Invitations, Live
    <3>. QED  BY <1>2, <3>2, <3>3 DEF Deliveries, LiveIsAgreed, Live, OthersKept
  <2>. QED  BY <2>1, <2>2
<1>6. OneMailEach'
  <2>1. ASSUME NEW t \in Slot, NEW u \in Slot,
               requests'[t].op \in Mailing, requests'[u].op \in Mailing,
               requests'[t].proposal = requests'[u].proposal
        PROVE  t = u
    BY <1>4, <2>1 DEF Deliveries, OneMailEach
  <2>2. StandsOnItsMail(s)'
    <3>1. Exists(invitations, i)' /\ invitations'[i].expires > clock'
      BY <1>3, RowsAssumption, TimeAssumption DEF Exists, TypeOK
    <3>. QED  BY <1>2, <1>4, <3>1 DEF StandsOnItsMail, people
  <2>3. ASSUME NEW t \in Slot, t # s, requests'[t].op \in Mailing PROVE StandsOnItsMail(t)'
    <3>1. requests'[t] = requests[t] /\ requests[t].op \in Mailing /\ StandsOnItsMail(t)
      BY <1>4, <2>3 DEF Deliveries, OneMailEach
    <3>2. PICK k \in ProposalId, j \in InvitationId :
            requests[t].proposal = k /\ requests[t].invitation = j
      BY <3>1, MailNames
    <3>3. k # q /\ j # i
      BY <1>1, <3>1, <3>2 DEF Fresh
    <3>4. /\ proposals'[k].status = "agreed"
          /\ proposals'[k].invitation = IF Exists(invitations, j) THEN j ELSE None
      BY <1>2, <3>1, <3>2, <3>3 DEF OthersKept, StandsOnItsMail
    <3>5. Exists(invitations, j)' <=> Exists(invitations, j)
      BY <1>3, <3>3 DEF Exists, RowsKept
    <3>6. Exists(invitations, j) => invitations'[j].expires > clock'
      BY <1>3, <3>1, <3>2, <3>3 DEF RowsKept, StandsOnItsMail
    <3>7. Exists(invitations, j) /\ requests[t].op = "mailRevoked" => ~Unanswered(j)'
      BY <1>3, <3>1, <3>2, <3>3 DEF RowsKept, StandsOnItsMail, Unanswered
    <3>. QED  BY <3>1, <3>2, <3>4, <3>5, <3>6, <3>7 DEF StandsOnItsMail, people
  <2>. QED  BY <2>1, <2>2, <2>3 DEF OneMailEach
<1>7. NothingLeftBehind'
  <2>1. holder' # None
    BY DEF people
  <2>2. ASSUME NEW k \in ProposalId, proposals'[k].status # "agreed"
        PROVE  proposals'[k].invitation = None
    BY <1>2, <2>2 DEF OthersKept, Deliveries, NothingLeftBehind
  <2>3. ASSUME NEW j \in InvitationId, ~Exists(invitations, j)'
        PROVE  invitations'[j] = NoInvitation
    BY <1>3, <2>3, RowsAssumption DEF Exists, RowsKept
  <2>. QED  BY <2>1, <2>2, <2>3 DEF NothingLeftBehind
<1>. QED  BY <1>5, <1>6, <1>7 DEF Deliveries

\* A question that is open has no mail in progress and no live invitation.
LEMMA OpenIsFree ==
  ASSUME TypeOK, Deliveries, NEW q \in ProposalId, proposals[q].status \notin {"agreed", "none"}
  PROVE  /\ holder # None
         /\ \A j \in Live(invitations) : invitations[j].proposal # q
         /\ \A t \in Slot : requests[t].op \in Mailing => requests[t].proposal # q
  BY DEF Deliveries, LiveIsAgreed, OneMailEach, StandsOnItsMail, NothingLeftBehind

\* Every step keeps the inductive invariant: one step per action, under it one per conjunct.
LEMMA DeliveriesStep ==
  ASSUME TypeOK, TypeOK', Deliveries, [Next]_vars
  PROVE  Deliveries'
<1>1. proposals' = proposals => QuietQuestions
  BY DEF QuietQuestions
<1>2. UNCHANGED <<invitations, clock>> => QuietInvitations
  BY DEF QuietInvitations, Holding, Unanswered
<1>3. ASSUME NEW s \in Slot, Done(s) PROVE QuietRequests
  BY <1>3 DEF Done, QuietRequests, Idle, Mailing, TypeOK
<1>4. requests' = requests => QuietRequests
  BY DEF QuietRequests
<1>5. UNCHANGED people => QuietPeople
  BY DEF QuietPeople, people, Members, Deliveries, NothingLeftBehind
<1>6. ASSUME NEW s \in Slot, Ask(s) \/ AskErase(s) PROVE Deliveries'
  <2>1. /\ requests'[s].op \notin Mailing
        /\ \A t \in Slot \ {s} : requests'[t] = requests[t]
    <3>1. PICK p \in Person, op \in {"asked", "erase"} : Arrive(s, p, op)
      BY <1>6 DEF Ask, AskErase, Members
    <3>2. [Idle EXCEPT !.op = op, !.who = p, !.role = role[p]].op = op
      BY DEF Idle
    <3>. QED  BY <3>1, <3>2 DEF Arrive, Mailing, TypeOK
  <2>2. QuietRequests
    BY <2>1 DEF QuietRequests
  <2>. QED  BY <1>1, <1>2, <1>5, <1>6, <2>2, QuietStep DEF Ask, AskErase, Arrive
<1>7. ASSUME NEW s \in Slot, NEW p \in Person, Propose(s, p) PROVE Deliveries'
  <2>. DEFINE kept  == Released(LapsedInvitations)
              asked == Question(Asker(s), p)
  <2>1. asked \in Proposals /\ kept \in [InvitationId -> Invitations] /\ RowsKept(kept)
    BY <1>7, QuestionType, LapsedType, ReleasedType, SweepsKeep DEF Propose, Deliveries
  <2>2. UNCHANGED <<people, clock>> /\ holder # None
    BY <1>7 DEF Propose
  <2>3. PICK q \in ProposalId :
          /\ proposals[q].status = "none"
          /\ LET props == [LapsedProposals EXCEPT ![q] = asked]
             IN IF EveryoneAgreed(asked.answers)
                THEN \E i \in InvitationId : Mint(s, q, i, props, kept, None)
                ELSE /\ proposals' = props
                     /\ invitations' = kept
                     /\ Done(s)
    BY <1>7 DEF Propose
  <2>. DEFINE props == [LapsedProposals EXCEPT ![q] = asked]
  <2>4. props \in [ProposalId -> Proposals] /\ OthersKept(props, q)
    BY <2>1, LapsedType, SweepsKeep DEF OthersKept, Deliveries
  <2>5. /\ props[q].invitation = None /\ props[q].status = "open"
    BY LapsedType DEF Question, NoProposal
  <2>. HIDE DEF asked, kept, props
  <2>6. CASE \E i \in InvitationId : Mint(s, q, i, props, kept, None)
    <3>1. /\ \A j \in Live(invitations) : invitations[j].proposal # q
          /\ \A t \in Slot : requests[t].op \in Mailing => requests[t].proposal # q
      BY <2>2, <2>3 DEF Deliveries, LiveIsAgreed, OneMailEach, StandsOnItsMail
    <3>. QED  BY <2>1, <2>2, <2>4, <2>6, <3>1, MintStep
  <2>7. CASE proposals' = props /\ invitations' = kept /\ Done(s)
    <3>1. QuietQuestions
      BY <2>2, <2>3, <2>4, <2>5, <2>7
      DEF QuietQuestions, OthersKept, Deliveries, NothingLeftBehind
    <3>2. QuietInvitations
      <4>1. ASSUME NEW j \in InvitationId, Holding(invitations, j)' PROVE Holding(kept, j)
        BY <2>2, <2>7, <4>1 DEF Holding
      <4>. QED  BY <2>1, <2>7, <4>1
               DEF RowsKept, QuietInvitations, Unanswered, Deliveries, NothingLeftBehind
    <3>. QED  BY <1>3, <1>5, <2>2, <2>7, <3>1, <3>2, QuietStep
  <2>. QED  BY <2>3, <2>6, <2>7 DEF props
<1>8. ASSUME NEW s \in Slot, NEW q \in ProposalId, Agree(s, q) PROVE Deliveries'
  <2>. DEFINE answered == [proposals[q] EXCEPT !.answers[Asker(s)] = "agree"]
              props    == [LapsedProposals EXCEPT ![q] = answered]
  <2>1. proposals[q].status = "open" /\ holder # None
    BY <1>8, OpenIsFree DEF Agree, Answering, OpenNow
  <2>2. /\ answered \in Proposals
        /\ answered.invitation = proposals[q].invitation /\ answered.status = "open"
    BY <2>1 DEF TypeOK, Proposals, Answers
  <2>3. props \in [ProposalId -> Proposals] /\ OthersKept(props, q)
    BY <2>2, LapsedType, SweepsKeep DEF OthersKept, Deliveries
  <2>4. UNCHANGED <<people, clock>>
    BY <1>8 DEF Agree
  <2>5. \/ \E i \in InvitationId : Mint(s, q, i, props, LapsedInvitations, None)
        \/ proposals' = [proposals EXCEPT ![q] = answered] /\ Done(s) /\ UNCHANGED invitations
    BY <1>8 DEF Agree
  <2>. HIDE DEF answered, props
  <2>6. CASE \E i \in InvitationId : Mint(s, q, i, props, LapsedInvitations, None)
    BY <2>1, <2>3, <2>4, <2>6, OpenIsFree, SweepsKeep, LapsedType, MintStep DEF Deliveries
  <2>7. CASE proposals' = [proposals EXCEPT ![q] = answered] /\ Done(s) /\ UNCHANGED invitations
    <3>1. QuietQuestions
      BY <2>1, <2>2, <2>7 DEF QuietQuestions, TypeOK
    <3>. QED  BY <1>2, <1>3, <1>5, <2>4, <2>7, <3>1, QuietStep
  <2>. QED  BY <2>5, <2>6, <2>7
<1>9. ASSUME NEW s \in Slot, NEW q \in ProposalId, SendAgreed(s, q) PROVE Deliveries'
  <2>1. proposals[q].status = "open"
    BY <1>9 DEF SendAgreed, OpenNow
  <2>. QED  BY <1>9, <2>1, OpenIsFree, SweepsKeep, LapsedType, MintStep DEF SendAgreed, Deliveries
<1>10. ASSUME NEW s \in Slot, NEW i \in InvitationId, SendAgain(s, i) PROVE Deliveries'
  <2>. DEFINE q == invitations[i].proposal
  <2>1. /\ q \in ProposalId
        /\ proposals[q].status = "agreed" /\ proposals[q].invitation = i
        /\ invitations[i].expires <= clock
    BY <1>10 DEF SendAgain, Exists, Expired, TypeOK, Invitations
  <2>2. invitations[i].expires \in Nat /\ clock \in Nat /\ ~Holding(invitations, i)
    BY <2>1 DEF Holding, TypeOK, Invitations
  <2>3. \A j \in Live(invitations) : invitations[j].proposal # q
    BY <2>1, <2>2 DEF Deliveries, LiveIsAgreed, Live
  <2>4. \A t \in Slot : requests[t].op \in Mailing => requests[t].proposal # q
    BY <2>1, <2>2, RowsAssumption DEF Deliveries, OneMailEach, StandsOnItsMail
  <2>5. holder # None
    BY <2>1 DEF Deliveries, NothingLeftBehind
  <2>6. \E j \in InvitationId : Mint(s, q, j, LapsedProposals, LapsedInvitations, i)
    BY <1>10 DEF SendAgain
  <2>7. UNCHANGED <<people, clock>>
    BY <1>10 DEF SendAgain
  <2>8. OthersKept(LapsedProposals, q) /\ RowsKept(LapsedInvitations)
    BY <2>1, SweepsKeep DEF Deliveries
  <2>. HIDE DEF q
  <2>. QED  BY <2>1, <2>3, <2>4, <2>5, <2>6, <2>7, <2>8, LapsedType, MintStep
<1>11. ASSUME NEW s \in Slot, NEW q \in ProposalId, Decline(s, q) \/ WithdrawProposal(s, q)
       PROVE  Deliveries'
  <2>1. proposals[q].status = "open" /\ holder # None
    BY <1>11, OpenIsFree DEF Decline, Answering, WithdrawProposal, OpenNow
  <2>2. QuietQuestions
    BY <1>11, <2>1 DEF Decline, WithdrawProposal, QuietQuestions, TypeOK, Proposals
  <2>. QED  BY <1>2, <1>3, <1>5, <1>11, <2>2, QuietStep DEF Decline, WithdrawProposal
<1>12. ASSUME NEW s \in Slot, NEW i \in InvitationId, WithdrawInvitation(s, i) PROVE Deliveries'
  <2>1. QuietInvitations
    BY <1>12 DEF WithdrawInvitation, QuietInvitations, Exists, Holding, Unanswered, TypeOK,
                 Invitations
  <2>. QED  BY <1>1, <1>3, <1>5, <1>12, <2>1, QuietStep DEF WithdrawInvitation
<1>13. ASSUME NEW s \in Slot, NEW p \in Person, RemoveMember(s, p) \/ TransferOwnership(s, p)
       PROVE  Deliveries'
  <2>1. holder # None
    BY <1>13 DEF RemoveMember, TransferOwnership, Deliveries, NothingLeftBehind, Members
  <2>2. QuietPeople
    BY <1>13, <2>1, RowsAssumption DEF RemoveMember, TransferOwnership, QuietPeople
  <2>. QED  BY <1>1, <1>2, <1>3, <1>13, <2>2, QuietStep DEF RemoveMember, TransferOwnership
<1>14. ASSUME NEW s \in Slot, EraseAccount(s) PROVE Deliveries'
  <2>. DEFINE p == requests[s].who
  <2>1. p \in Person
    BY <1>14 DEF EraseAccount, Doing, TypeOK, Requests, Idle, Mailing
  <2>2. clock' = clock /\ Done(s)
    BY <1>14 DEF EraseAccount
  <2>3. /\ requests[s].op \notin Mailing /\ requests'[s].op \notin Mailing
        /\ \A t \in Slot \ {s} : requests'[t] = requests[t]
    BY <1>14, <2>2 DEF EraseAccount, Doing, Done, Mailing, Idle, TypeOK
  <2>4. CASE /\ role' = [m \in Person |-> "none"]
             /\ holder' = None
             /\ proposals' = [q \in ProposalId |-> NoProposal]
             /\ invitations' = [i \in InvitationId |-> NoInvitation]
    <3>1. LiveIsAgreed'
      BY <2>4 DEF LiveIsAgreed, Live, Holding, NoInvitation
    <3>2. NothingLeftBehind'
      BY <2>4 DEF NothingLeftBehind, Members, NoProposal, Exists, NoInvitation
    <3>3. ASSUME NEW t \in Slot, requests'[t].op \in Mailing PROVE StandsOnItsMail(t)'
      <4>1. requests'[t] = requests[t] /\ requests[t].op \in Mailing
        BY <2>3, <3>3
      <4>2. requests'[t].proposal \in ProposalId /\ requests'[t].invitation \in InvitationId
        BY <4>1, MailNames
      <4>. QED  BY <2>4, <4>2 DEF StandsOnItsMail, NoProposal, NoInvitation, Exists
    <3>4. OneMailEach'
      BY <2>3, <3>3 DEF OneMailEach, Deliveries
    <3>. QED  BY <3>1, <3>2, <3>4 DEF Deliveries
  <2>5. CASE /\ proposals' = ErasedProposals(p)
             /\ invitations' = ErasedInvitations(p)
             /\ holder' = holder
             /\ role' \in {role, [role EXCEPT ![p] = "none"]}
    <3>1. ASSUME NEW q \in ProposalId
          PROVE  /\ proposals'[q].status = proposals[q].status
                 /\ proposals'[q].invitation =
                      IF /\ proposals[q].invitation # None
                         /\ invitations[proposals[q].invitation].by = p
                      THEN None ELSE proposals[q].invitation
      BY <2>5 DEF ErasedProposals, TypeOK, Proposals
    <3>2. ASSUME NEW i \in InvitationId, invitations[i].by = p
          PROVE  invitations'[i] = NoInvitation
      BY <2>5, <3>2 DEF ErasedInvitations
    <3>3. ASSUME NEW i \in InvitationId, invitations[i].by # p
          PROVE  /\ invitations'[i].proposal = invitations[i].proposal
                 /\ invitations'[i].expires = invitations[i].expires
                 /\ Holding(invitations, i)' => Holding(invitations, i)
                 /\ Unanswered(i)' => Unanswered(i)
      <4>1. \/ invitations'[i] = invitations[i]
            \/ invitations'[i] = [invitations[i] EXCEPT !.closed = "revoked"]
        BY <2>5, <3>3 DEF ErasedInvitations
      <4>. QED  BY <2>2, <4>1 DEF TypeOK, Invitations, Holding, Unanswered
    <3>4. ASSUME NEW i \in InvitationId, ~Exists(invitations, i)
          PROVE  invitations'[i] = NoInvitation
      <4>1. invitations[i] = NoInvitation
        BY <3>4 DEF Deliveries, NothingLeftBehind
      <4>2. invitations[i].by # p /\ invitations[i].email # p
        BY <2>1, <4>1, RowsAssumption DEF NoInvitation
      <4>. QED  BY <2>5, <4>1, <4>2 DEF ErasedInvitations
    <3>5. LiveIsAgreed'
      <4>. SUFFICES ASSUME NEW i \in InvitationId, Holding(invitations, i)'
                    PROVE  /\ proposals'[invitations'[i].proposal].status = "agreed"
                           /\ proposals'[invitations'[i].proposal].invitation = i
        BY DEF LiveIsAgreed, Live
      <4>1. invitations[i].by # p /\ Exists(invitations, i)
        BY <3>2, <3>4 DEF Holding, NoInvitation
      <4>2. /\ Holding(invitations, i) /\ invitations[i].proposal \in ProposalId
            /\ invitations'[i].proposal = invitations[i].proposal
        BY <3>3, <4>1 DEF Exists, TypeOK, Invitations
      <4>. QED  BY <3>1, <4>1, <4>2 DEF Deliveries, LiveIsAgreed, Live
    <3>6. NothingLeftBehind'
      <4>1. holder' = None => Members' = {}
        BY <2>5 DEF Deliveries, NothingLeftBehind, Members, TypeOK
      <4>2. ASSUME NEW i \in InvitationId, ~Exists(invitations, i)'
            PROVE  invitations'[i] = NoInvitation
        BY <3>2, <3>3, <3>4, <4>2 DEF Exists
      <4>3. ASSUME NEW i \in InvitationId, ~Exists(invitations, i) PROVE ~Exists(invitations, i)'
        BY <3>4, <4>3 DEF Exists, NoInvitation
      <4>. QED  BY <2>5, <3>1, <4>1, <4>2, <4>3 DEF Deliveries, NothingLeftBehind
    <3>7. ASSUME NEW t \in Slot, requests'[t].op \in Mailing PROVE StandsOnItsMail(t)'
      <4>1. requests'[t] = requests[t] /\ requests[t].op \in Mailing /\ StandsOnItsMail(t)
        BY <2>3, <3>7 DEF Deliveries, OneMailEach
      <4>2. PICK q \in ProposalId, i \in InvitationId :
              requests[t].proposal = q /\ requests[t].invitation = i
        BY <4>1, MailNames
      <4>3. proposals'[q].status = IF holder' = None THEN "none" ELSE "agreed"
        BY <2>5, <3>1, <4>1, <4>2 DEF StandsOnItsMail
      <4>4. CASE Exists(invitations, i) /\ invitations[i].by # p
        <5>1. proposals'[q].invitation = i /\ Exists(invitations, i)'
          BY <3>1, <3>3, <4>1, <4>2, <4>4 DEF StandsOnItsMail, Exists
        <5>. QED  BY <2>2, <3>3, <4>1, <4>2, <4>3, <4>4, <5>1 DEF StandsOnItsMail
      <4>5. CASE ~Exists(invitations, i) \/ invitations[i].by = p
        <5>1. ~Exists(invitations, i)' /\ proposals'[q].invitation = None
          BY <3>1, <3>2, <3>4, <4>1, <4>2, <4>5, RowsAssumption
          DEF StandsOnItsMail, Exists, NoInvitation
        <5>. QED  BY <4>1, <4>2, <4>3, <5>1 DEF StandsOnItsMail
      <4>. QED  BY <4>4, <4>5
    <3>8. OneMailEach'
      BY <2>3, <3>7 DEF OneMailEach, Deliveries
    <3>. QED  BY <3>5, <3>6, <3>8 DEF Deliveries
  <2>. QED  BY <1>14, <2>4, <2>5 DEF EraseAccount
<1>15. ASSUME NEW s \in Slot, MailSent(s) \/ Lost(s) PROVE Deliveries'
  BY <1>1, <1>2, <1>3, <1>5, <1>15, QuietStep DEF MailSent, Lost
<1>16. ASSUME NEW s \in Slot, MailFailed(s) PROVE Deliveries'
  <2>1. QuietRequests
    BY <1>16 DEF MailFailed, Doing, QuietRequests, Mailing, TypeOK
  <2>. QED  BY <1>1, <1>2, <1>5, <1>16, <2>1, QuietStep DEF MailFailed
<1>17. ASSUME NEW s \in Slot, RevokeUndelivered(s) PROVE Deliveries'
  <2>1. requests[s].op = "mailFailed" /\ requests[s].invitation \in InvitationId
    BY <1>17, MailNames DEF RevokeUndelivered, Doing, Mailing
  <2>2. QuietInvitations
    BY <1>17, <2>1 DEF RevokeUndelivered, QuietInvitations, Exists, Holding, Unanswered, TypeOK,
                       Invitations
  <2>3. \A i \in InvitationId :
          i = requests[s].invitation /\ Exists(invitations, i) => ~Unanswered(i)'
    BY <1>17, <2>1 DEF RevokeUndelivered, Unanswered, TypeOK, Invitations
  <2>4. /\ requests'[s] = [requests[s] EXCEPT !.op = "mailRevoked"]
        /\ \A t \in Slot \ {s} : requests'[t] = requests[t]
    BY <1>17 DEF RevokeUndelivered, TypeOK
  <2>5. /\ requests'[s].proposal = requests[s].proposal
        /\ requests'[s].invitation = requests[s].invitation
    BY <2>1, <2>4 DEF TypeOK, Requests, Idle, Mailing
  <2>6. QuietRequests
    BY <2>1, <2>3, <2>4, <2>5 DEF QuietRequests, Mailing
  <2>. QED  BY <1>1, <1>5, <1>17, <2>2, <2>6, QuietStep DEF RevokeUndelivered
<1>18. ASSUME NEW s \in Slot, ReopenProposal(s) PROVE Deliveries'
  <2>1. PICK q \in ProposalId, i \in InvitationId :
          requests[s].proposal = q /\ requests[s].invitation = i
    BY <1>18, MailNames DEF ReopenProposal, Doing, Mailing
  <2>2. requests[s].op = "mailRevoked" /\ StandsOnItsMail(s)
    BY <1>18 DEF ReopenProposal, Doing, Deliveries, OneMailEach, Mailing
  <2>3. /\ requests'[s].op \notin Mailing
        /\ \A t \in Slot \ {s} : requests'[t] = requests[t]
    BY <1>18 DEF ReopenProposal, Done, Mailing, Idle, TypeOK
  <2>4. UNCHANGED <<people, invitations, clock>>
    BY <1>18 DEF ReopenProposal
  <2>5. \A k \in ProposalId \ {q} : proposals'[k] = proposals[k]
    BY <1>18, <2>1 DEF ReopenProposal, TypeOK
  <2>6. /\ holder = None => proposals'[q] = proposals[q]
        /\ proposals'[q].status # "agreed" => proposals'[q].invitation = None
    <3>1. CASE holder = None
      BY <1>18, <2>1, <2>2, <3>1 DEF ReopenProposal, StandsOnItsMail, Deliveries, NothingLeftBehind
    <3>2. CASE holder # None
      <4>1. proposals[q].status = "agreed"
        BY <2>1, <2>2, <3>2 DEF StandsOnItsMail
      <4>. QED  BY <1>18, <2>1, <3>2, <4>1 DEF ReopenProposal, TypeOK, Proposals
    <3>. QED  BY <3>1, <3>2
  <2>7. \A j \in Live(invitations) : invitations[j].proposal # q
    BY <2>1, <2>2, RowsAssumption
    DEF StandsOnItsMail, Unanswered, Deliveries, LiveIsAgreed, Live, Holding
  <2>8. LiveIsAgreed'
    <3>1. Live(invitations)' = Live(invitations)
      BY <2>4 DEF Live, Holding
    <3>2. ASSUME NEW j \in Live(invitations)
          PROVE  invitations[j].proposal \in ProposalId \ {q}
      <4>1. Exists(invitations, j)
        BY <3>2 DEF Live, Holding, NoInvitation, Deliveries, NothingLeftBehind
      <4>. QED  BY <2>7, <4>1 DEF Exists, Live, TypeOK, Invitations
    <3>. QED  BY <2>4, <2>5, <3>1, <3>2 DEF Deliveries, LiveIsAgreed
  <2>9. OneMailEach'
    <3>1. ASSUME NEW t \in Slot, requests'[t].op \in Mailing
          PROVE  /\ requests'[t] = requests[t] /\ StandsOnItsMail(t)
                 /\ requests[t].proposal \in ProposalId \ {q}
      <4>1. t # s /\ requests'[t] = requests[t]
        BY <2>3, <3>1
      <4>. QED  BY <2>1, <2>2, <3>1, <4>1, MailNames DEF Deliveries, OneMailEach, Mailing
    <3>2. ASSUME NEW t \in Slot, requests'[t].op \in Mailing PROVE StandsOnItsMail(t)'
      BY <2>4, <2>5, <3>1, <3>2 DEF StandsOnItsMail, people, Exists, Unanswered
    <3>. QED  BY <3>1, <3>2 DEF Deliveries, OneMailEach
  <2>10. NothingLeftBehind'
    BY <2>4, <2>5, <2>6 DEF Deliveries, NothingLeftBehind, people, Members, Exists
  <2>. QED  BY <2>8, <2>9, <2>10 DEF Deliveries
<1>19. ASSUME NEW i \in InvitationId, Accept(i) PROVE Deliveries'
  <2>1. Exists(invitations, i) /\ holder # None
    BY <1>19 DEF Accept, Live, Holding, NoInvitation, Deliveries, NothingLeftBehind
  <2>2. QuietInvitations
    BY <1>19, <2>1 DEF Accept, QuietInvitations, Exists, Holding, Unanswered, TypeOK, Invitations
  <2>. QED  BY <1>1, <1>4, <1>19, <2>1, <2>2, QuietStep DEF Accept, QuietPeople
<1>20. ASSUME NEW p \in Person, Leave(p) PROVE Deliveries'
  <2>1. holder # None
    BY <1>20 DEF Leave, Members, Deliveries, NothingLeftBehind
  <2>2. QuietQuestions
    <3>1. ASSUME NEW q \in ProposalId
          PROVE  /\ LapsedProposals[q].invitation = proposals[q].invitation
                 /\ LapsedProposals[q].status = "agreed" <=> proposals[q].status = "agreed"
      BY DEF LapsedProposals, TypeOK, Proposals
    <3>2. ASSUME NEW q \in ProposalId, LapsedProposals[q].status = "open",
                 proposals'[q] = [LapsedProposals[q] EXCEPT !.status = "withdrawn"]
          PROVE  /\ proposals'[q].invitation = proposals[q].invitation
                 /\ proposals'[q].status # "agreed" /\ proposals[q].status # "agreed"
      <4>1. LapsedProposals[q] \in Proposals
        BY LapsedType
      <4>. QED  BY <3>1, <3>2, <4>1 DEF Proposals
    <3>. QED  BY <1>20, <2>1, <3>1, <3>2 DEF Leave, QuietQuestions
  <2>3. QuietInvitations
    <3>1. RowsKept(LapsedInvitations)
      BY SweepsKeep DEF Deliveries
    <3>2. ASSUME NEW j \in InvitationId, invitations'[j] = LapsedInvitations[j]
          PROVE  /\ Holding(invitations, j)' => Holding(invitations, j)
                 /\ invitations'[j].proposal = invitations[j].proposal
                 /\ invitations'[j].expires = invitations[j].expires
                 /\ Unanswered(j)' => Unanswered(j)
                 /\ ~Exists(invitations, j) => invitations'[j] = invitations[j]
      <4>1. Holding(invitations, j)' => Holding(LapsedInvitations, j)
        BY <1>20, <3>2 DEF Leave, Holding
      <4>. QED  BY <3>1, <3>2, <4>1 DEF RowsKept, Unanswered, Deliveries, NothingLeftBehind
    <3>3. ASSUME NEW j \in InvitationId, Exists(invitations, j),
                 invitations'[j] = [invitations[j] EXCEPT !.closed = "withdrawn", !.reserved = FALSE]
          PROVE  /\ ~Holding(invitations, j)'
                 /\ invitations'[j].proposal = invitations[j].proposal
                 /\ invitations'[j].expires = invitations[j].expires
                 /\ ~Unanswered(j)'
      BY <3>3 DEF Holding, Unanswered, TypeOK, Invitations
    <3>. QED  BY <1>20, <3>2, <3>3 DEF Leave, QuietInvitations
  <2>. QED  BY <1>4, <1>20, <2>1, <2>2, <2>3, QuietStep DEF Leave, QuietPeople
<1>21. CASE NoticeRunOuts
  <2>1. QuietQuestions
    BY <1>21, LapsedType
    DEF NoticeRunOuts, QuietQuestions, LapsedProposals, Deliveries, NothingLeftBehind, TypeOK, Proposals
  <2>2. QuietInvitations
    <3>1. RowsKept(LapsedInvitations)
      BY SweepsKeep DEF Deliveries
    <3>2. ASSUME NEW j \in InvitationId, Holding(invitations, j)' PROVE Holding(LapsedInvitations, j)
      BY <1>21, <3>2 DEF NoticeRunOuts, Holding
    <3>. QED  BY <1>21, <3>1, <3>2
             DEF NoticeRunOuts, RowsKept, QuietInvitations, Unanswered, Deliveries, NothingLeftBehind
  <2>. QED  BY <1>4, <1>5, <1>21, <2>1, <2>2, QuietStep DEF NoticeRunOuts
<1>22. CASE PaymentChanges \/ UNCHANGED vars
  BY <1>1, <1>2, <1>4, <1>5, <1>22, QuietStep DEF PaymentChanges, vars, people
<1>23. CASE Tick
  <2>1. /\ UNCHANGED <<people, proposals, invitations, requests>>
        /\ clock \in Nat /\ clock' = clock + 1
    BY <1>23 DEF Tick, TypeOK
  <2>2. LiveIsAgreed'
    <3>1. Live(invitations)' \subseteq Live(invitations)
      BY <2>1 DEF Live, Holding, TypeOK, Invitations
    <3>. QED  BY <2>1, <3>1 DEF Deliveries, LiveIsAgreed
  <2>3. ASSUME NEW s \in Slot, requests[s].op \in Mailing PROVE StandsOnItsMail(s)'
    BY <1>23, <2>1, <2>3 DEF Tick, StandsOnItsMail, people, Exists, Unanswered, Deliveries, OneMailEach
  <2>4. OneMailEach'
    BY <2>1, <2>3 DEF Deliveries, OneMailEach
  <2>5. NothingLeftBehind'
    BY <2>1 DEF Deliveries, NothingLeftBehind, people, Members, Exists
  <2>. QED  BY <2>2, <2>4, <2>5 DEF Deliveries
<1>. QED
  BY <1>6, <1>7, <1>8, <1>9, <1>10, <1>11, <1>12, <1>13, <1>14, <1>15, <1>16, <1>17, <1>18,
     <1>19, <1>20, <1>21, <1>22, <1>23
  DEF Next, Handling, Delivering

\* What is true of every place held, every mail being seen to and everything deleted, kept by every
\* step.
LEMMA DeliveriesKept == Spec => []Deliveries
<1>1. Init => Deliveries
  BY PeopleAssumption, RowsAssumption
  DEF Init, Deliveries, LiveIsAgreed, Live, Holding, OneMailEach, Mailing, Idle, NothingLeftBehind,
      NoProposal, NoInvitation, Exists
<1>2. TypeOK /\ TypeOK' /\ Deliveries /\ [Next]_vars => Deliveries'
  BY DeliveriesStep
<1>. QED  BY <1>1, <1>2, TypeCorrect, PTL DEF Spec

\* A place is held only for the newest invitation of a question everyone settled in favour, whatever
\* happens between a mail that fails and what is undone after it.
THEOREM LiveStaysAgreed == Spec => []LiveIsAgreed
  BY DeliveriesKept, PTL DEF Deliveries

\* At most one mail is seen to for a question, and the question waits for it.
THEOREM MailsApart == Spec => []OneMailEach
  BY DeliveriesKept, PTL DEF Deliveries

\* What is deleted leaves nothing that holds a place or asks anybody.
THEOREM NothingStays == Spec => []NothingLeftBehind
  BY DeliveriesKept, PTL DEF Deliveries
-----------------------------------------------------------------------------
(***************************************************************************)
(* How a question and an invitation end.                                   *)
(***************************************************************************)

\* A step that only closes an invitation still unanswered and not run out, or changes none.
ClosesOnly ==
  \A i \in InvitationId :
    \/ invitations'[i] = invitations[i]
    \/ /\ invitations'[i].accepted = invitations[i].accepted
       /\ invitations'[i].closed = invitations[i].closed
       /\ invitations'[i].lapseNoted = invitations[i].lapseNoted
       /\ invitations'[i].expires = invitations[i].expires
    \/ /\ ~invitations'[i].accepted /\ invitations'[i].closed # "withdrawn"
       /\ invitations'[i].lapseNoted => invitations'[i].expires <= clock'
    \/ ~invitations'[i].accepted /\ ~invitations'[i].lapseNoted
    \/ invitations'[i].closed = "no" /\ ~invitations'[i].lapseNoted

\* Time never runs back.
LEMMA ClockStep ==
  ASSUME TypeOK, [Next]_vars
  PROVE  clock' \in {clock, clock + 1}
<1>1. ASSUME NEW s \in Slot, Ask(s) \/ AskErase(s) \/ Lost(s) \/ Delivering(s) PROVE clock' = clock
  BY <1>1 DEF Ask, AskErase, Arrive, Lost, Delivering, MailSent, MailFailed, RevokeUndelivered,
              ReopenProposal
<1>2. ASSUME NEW s \in Slot, NEW p \in Person,
             Propose(s, p) \/ RemoveMember(s, p) \/ TransferOwnership(s, p)
      PROVE  clock' = clock
  BY <1>2 DEF Propose, RemoveMember, TransferOwnership
<1>3. ASSUME NEW s \in Slot, NEW q \in ProposalId,
             Agree(s, q) \/ Decline(s, q) \/ SendAgreed(s, q) \/ WithdrawProposal(s, q)
      PROVE  clock' = clock
  BY <1>3 DEF Agree, Decline, SendAgreed, WithdrawProposal
<1>4. ASSUME NEW s \in Slot, NEW i \in InvitationId, WithdrawInvitation(s, i) \/ SendAgain(s, i)
      PROVE  clock' = clock
  BY <1>4 DEF WithdrawInvitation, SendAgain
<1>5. ASSUME NEW s \in Slot, EraseAccount(s) PROVE clock' = clock
  BY <1>5 DEF EraseAccount
<1>6. ASSUME NEW i \in InvitationId, Accept(i) PROVE clock' = clock
  BY <1>6 DEF Accept
<1>7. ASSUME NEW p \in Person, Leave(p) PROVE clock' = clock
  BY <1>7 DEF Leave
<1>8. CASE NoticeRunOuts \/ PaymentChanges \/ Tick \/ UNCHANGED vars
  BY <1>8 DEF NoticeRunOuts, PaymentChanges, Tick, vars
<1>. QED  BY <1>1, <1>2, <1>3, <1>4, <1>5, <1>6, <1>7, <1>8 DEF Next, Handling

\* An invitation ends in one way only, and runs out only once its days are over.
THEOREM EndsOnce == Spec => []OneEnding
<1>1. Init => OneEnding
  BY DEF Init, OneEnding, NoInvitation
<1>2. TypeOK /\ TypeOK' /\ Deliveries /\ OneEnding /\ [Next]_vars => OneEnding'
  <2>. SUFFICES ASSUME TypeOK, TypeOK', Deliveries, OneEnding, [Next]_vars PROVE OneEnding'
    OBVIOUS
  <2>1. clock' >= clock /\ clock \in Nat /\ clock' \in Nat
    BY ClockStep DEF TypeOK
  <2>2. ASSUME ClosesOnly PROVE OneEnding'
    BY <2>1, <2>2 DEF ClosesOnly, OneEnding, TypeOK, Invitations
  <2>3. ASSUME NEW i \in InvitationId
        PROVE  /\ LapsedInvitations[i].accepted = invitations[i].accepted
               /\ LapsedInvitations[i].closed = invitations[i].closed
               /\ LapsedInvitations[i].expires = invitations[i].expires
               /\ \/ LapsedInvitations[i].lapseNoted = invitations[i].lapseNoted
                  \/ /\ ~invitations[i].accepted /\ invitations[i].closed = "no"
                     /\ invitations[i].expires <= clock
    BY DEF LapsedInvitations, RunOut, Expired, Unanswered, TypeOK, Invitations
  <2>4. ASSUME invitations' = LapsedInvitations, clock' = clock PROVE ClosesOnly
    BY <2>3, <2>4 DEF ClosesOnly
  <2>5. ASSUME NEW invs \in [InvitationId -> Invitations], invs = LapsedInvitations
        PROVE  \A i \in InvitationId :
                 /\ Released(invs)[i].accepted = invs[i].accepted
                 /\ Released(invs)[i].closed = invs[i].closed
                 /\ Released(invs)[i].expires = invs[i].expires
                 /\ Released(invs)[i].lapseNoted = invs[i].lapseNoted
    BY DEF Released, Invitations
  <2>6. ASSUME NEW s \in Slot, NEW q, NEW i \in InvitationId, NEW props, NEW r, clock' = clock,
               \/ Mint(s, q, i, props, LapsedInvitations, r)
               \/ Mint(s, q, i, props, Released(LapsedInvitations), r)
        PROVE  ClosesOnly
    <3>1. PICK invs : /\ invs \in {LapsedInvitations, Released(LapsedInvitations)}
                      /\ Mint(s, q, i, props, invs, r)
      BY <2>6
    <3>2. invs \in [InvitationId -> Invitations]
      BY <3>1, LapsedType, ReleasedType
    <3>3. ~invitations'[i].accepted /\ ~invitations'[i].lapseNoted
      BY <3>1, <3>2 DEF Mint
    <3>4. \A j \in InvitationId \ {i} : invitations'[j] = invs[j]
      BY <3>1, <3>2 DEF Mint
    <3>5. ASSUME NEW j \in InvitationId \ {i}
          PROVE  /\ invitations'[j].accepted = LapsedInvitations[j].accepted
                 /\ invitations'[j].closed = LapsedInvitations[j].closed
                 /\ invitations'[j].expires = LapsedInvitations[j].expires
                 /\ invitations'[j].lapseNoted = LapsedInvitations[j].lapseNoted
      BY <2>5, <3>1, <3>4, LapsedType
    <3>. QED  BY <2>3, <2>6, <3>3, <3>5 DEF ClosesOnly
  <2>7. ASSUME NEW s \in Slot, NEW p \in Person, Propose(s, p) PROVE ClosesOnly
    <3>1. \/ \E q \in ProposalId, i \in InvitationId :
               \E props : Mint(s, q, i, props, Released(LapsedInvitations), None)
          \/ invitations' = Released(LapsedInvitations)
      BY <2>7 DEF Propose
    <3>2. clock' = clock
      BY <2>7 DEF Propose
    <3>3. CASE invitations' = Released(LapsedInvitations)
      BY <2>3, <2>5, <3>2, <3>3, LapsedType DEF ClosesOnly
    <3>. QED  BY <2>6, <3>1, <3>2, <3>3
  <2>8. ASSUME NEW s \in Slot, NEW q \in ProposalId, Agree(s, q) \/ SendAgreed(s, q) PROVE ClosesOnly
    <3>1. \/ UNCHANGED invitations
          \/ \E i \in InvitationId : \E props : Mint(s, q, i, props, LapsedInvitations, None)
      BY <2>8 DEF Agree, SendAgreed
    <3>2. clock' = clock
      BY <2>8 DEF Agree, SendAgreed
    <3>. QED  BY <2>6, <3>1, <3>2 DEF ClosesOnly
  <2>9. ASSUME NEW s \in Slot, NEW i \in InvitationId, SendAgain(s, i) PROVE ClosesOnly
    BY <2>6, <2>9 DEF SendAgain
  <2>10. ASSUME NEW s \in Slot, NEW i \in InvitationId, WithdrawInvitation(s, i) PROVE ClosesOnly
    <3>1. ~invitations[i].accepted /\ ~invitations[i].lapseNoted
      BY <2>10 DEF WithdrawInvitation, Pending, Unanswered, OneEnding, TypeOK, Invitations
    <3>. QED  BY <2>10, <3>1 DEF WithdrawInvitation, ClosesOnly, TypeOK, Invitations
  <2>11. ASSUME NEW s \in Slot, EraseAccount(s) PROVE ClosesOnly
    <3>1. ASSUME NEW i \in InvitationId
          PROVE  \/ invitations'[i] \in {NoInvitation, invitations[i]}
                 \/ /\ Unanswered(i)
                    /\ invitations'[i] = [invitations[i] EXCEPT !.closed = "revoked"]
      BY <2>11 DEF EraseAccount, ErasedInvitations
    <3>2. clock' = clock
      BY <2>11 DEF EraseAccount
    <3>. QED  BY <3>1, <3>2 DEF ClosesOnly, NoInvitation, OneEnding, Unanswered, TypeOK, Invitations
  <2>12. ASSUME NEW s \in Slot, RevokeUndelivered(s) PROVE ClosesOnly
    BY <2>12 DEF RevokeUndelivered, ClosesOnly, OneEnding, TypeOK, Invitations
  <2>13. ASSUME NEW i \in InvitationId, Accept(i) PROVE ClosesOnly
    <3>1. Holding(invitations, i) /\ ~invitations[i].lapseNoted
      BY <2>13 DEF Accept, Live, Holding, OneEnding, TypeOK, Invitations
    <3>. QED  BY <2>13, <3>1 DEF Accept, ClosesOnly, Holding, TypeOK, Invitations
  <2>14. ASSUME NEW p \in Person, Leave(p) PROVE ClosesOnly
    <3>1. clock' = clock
      BY <2>14 DEF Leave
    <3>2. ASSUME NEW i \in InvitationId, Pending(i),
                 invitations'[i] = [invitations[i] EXCEPT !.closed = "withdrawn", !.reserved = FALSE]
          PROVE  ~invitations'[i].accepted /\ ~invitations'[i].lapseNoted
      BY <3>2 DEF Pending, Unanswered, OneEnding, TypeOK, Invitations
    <3>. QED  BY <2>3, <2>14, <3>1, <3>2 DEF Leave, ClosesOnly
  <2>15. ASSUME NoticeRunOuts PROVE ClosesOnly
    BY <2>4, <2>15 DEF NoticeRunOuts
  <2>16. ASSUME UNCHANGED invitations PROVE ClosesOnly
    BY <2>16 DEF ClosesOnly
  <2>17. ASSUME NEW s \in Slot, NEW p \in Person, RemoveMember(s, p) \/ TransferOwnership(s, p)
         PROVE  ClosesOnly
    BY <2>16, <2>17 DEF RemoveMember, TransferOwnership
  <2>18. ASSUME NEW s \in Slot, NEW q \in ProposalId, Decline(s, q) \/ WithdrawProposal(s, q)
         PROVE  ClosesOnly
    BY <2>16, <2>18 DEF Decline, WithdrawProposal
  <2>19. ASSUME NEW s \in Slot, Ask(s) \/ AskErase(s) \/ Lost(s) \/ MailSent(s) \/ MailFailed(s)
                                \/ ReopenProposal(s)
         PROVE  ClosesOnly
    BY <2>16, <2>19 DEF Ask, AskErase, Arrive, Lost, MailSent, MailFailed, ReopenProposal
  <2>20. ASSUME PaymentChanges \/ Tick \/ UNCHANGED vars PROVE ClosesOnly
    BY <2>16, <2>20 DEF PaymentChanges, Tick, vars
  <2>. QED
    BY <2>2, <2>7, <2>8, <2>9, <2>10, <2>11, <2>12, <2>13, <2>14, <2>15, <2>17, <2>18, <2>19, <2>20
    DEF Next, Handling, Delivering
<1>. QED  BY <1>1, <1>2, TypeCorrect, DeliveriesKept, PTL DEF Spec

Settled == {"declined", "withdrawn", "lapsed"}

\* What a step does to a question: a settled one stays, and none is agreed without everyone here.
StepKeeps(q) ==
  /\ proposals[q].status \in Settled /\ holder' # None => proposals'[q] = proposals[q]
  /\ proposals[q].status # "agreed" /\ proposals'[q].status = "agreed"
       => \A p \in Members : proposals'[q].answers[p] = "agree"

\* What every step does to a question: a settled one stays, and none is agreed without everyone here.
LEMMA QuestionStep ==
  ASSUME TypeOK, Deliveries, [Next]_vars, NEW q \in ProposalId
  PROVE  StepKeeps(q)
<1>1. proposals' = proposals => StepKeeps(q)
  BY DEF StepKeeps
<1>2. /\ proposals[q].status # "open" => LapsedProposals[q] = proposals[q]
      /\ proposals[q].status = "open" => LapsedProposals[q].status # "agreed"
  BY DEF LapsedProposals, TypeOK, Proposals
<1>3. proposals'[q] = LapsedProposals[q] => StepKeeps(q)
  BY <1>2 DEF StepKeeps, Settled
<1>4. ASSUME NEW s \in Slot, NEW k \in ProposalId, NEW i \in InvitationId,
             NEW props \in [ProposalId -> Proposals], NEW invs, NEW r,
             Mint(s, k, i, props, invs, r), proposals[k].status \notin Settled,
             \A j \in ProposalId \ {k} : props[j] = LapsedProposals[j],
             proposals[k].status = "agreed" \/ EveryoneAgreed(props[k].answers)
      PROVE  StepKeeps(q)
  <2>1. /\ proposals'[k].answers = props[k].answers
        /\ \A j \in ProposalId \ {k} : proposals'[j] = props[j]
    BY <1>4 DEF Mint, Proposals
  <2>2. CASE q = k
    BY <1>4, <2>1, <2>2 DEF StepKeeps, EveryoneAgreed
  <2>3. CASE q # k
    BY <1>3, <1>4, <2>1, <2>3
  <2>. QED  BY <2>2, <2>3
<1>5. ASSUME NEW s \in Slot, NEW p \in Person, Propose(s, p) PROVE StepKeeps(q)
  <2>. DEFINE asked == Question(Asker(s), p)
  <2>1. asked \in Proposals /\ asked.status = "open"
    BY <1>5, QuestionType DEF Propose, Question, NoProposal
  <2>2. PICK k \in ProposalId :
          /\ proposals[k].status = "none"
          /\ LET props == [LapsedProposals EXCEPT ![k] = asked]
             IN \/ /\ EveryoneAgreed(asked.answers)
                   /\ \E i \in InvitationId : \E invs : Mint(s, k, i, props, invs, None)
                \/ proposals' = props
    BY <1>5 DEF Propose
  <2>. DEFINE props == [LapsedProposals EXCEPT ![k] = asked]
  <2>3. /\ props \in [ProposalId -> Proposals] /\ props[k] = asked
        /\ \A j \in ProposalId \ {k} : props[j] = LapsedProposals[j]
    BY <2>1, LapsedType
  <2>. HIDE DEF asked, props
  <2>4. CASE EveryoneAgreed(asked.answers) /\ \E i \in InvitationId :
               \E invs : Mint(s, k, i, props, invs, None)
    BY <1>4, <2>2, <2>3, <2>4 DEF Settled
  <2>5. CASE proposals' = props
    BY <1>3, <2>1, <2>2, <2>3, <2>5 DEF StepKeeps, Settled
  <2>. QED  BY <2>2, <2>4, <2>5 DEF props
<1>6. ASSUME NEW s \in Slot, NEW k \in ProposalId, Agree(s, k) PROVE StepKeeps(q)
  <2>. DEFINE answered == [proposals[k] EXCEPT !.answers[Asker(s)] = "agree"]
              props    == [LapsedProposals EXCEPT ![k] = answered]
  <2>1. proposals[k].status = "open"
    BY <1>6 DEF Agree, Answering, OpenNow
  <2>2. answered \in Proposals /\ answered.status = "open"
    BY <2>1 DEF TypeOK, Proposals, Answers
  <2>3. /\ props \in [ProposalId -> Proposals] /\ props[k] = answered
        /\ \A j \in ProposalId \ {k} : props[j] = LapsedProposals[j]
    BY <2>2, LapsedType
  <2>4. \/ /\ EveryoneAgreed(answered.answers)
           /\ \E i \in InvitationId : \E invs : Mint(s, k, i, props, invs, None)
        \/ proposals' = [proposals EXCEPT ![k] = answered]
    BY <1>6 DEF Agree
  <2>. HIDE DEF answered, props
  <2>5. CASE EveryoneAgreed(answered.answers) /\ \E i \in InvitationId :
               \E invs : Mint(s, k, i, props, invs, None)
    BY <1>4, <2>1, <2>3, <2>5 DEF Settled
  <2>6. CASE proposals' = [proposals EXCEPT ![k] = answered]
    BY <2>1, <2>2, <2>6 DEF StepKeeps, Settled, TypeOK
  <2>. QED  BY <2>4, <2>5, <2>6
<1>7. ASSUME NEW s \in Slot, NEW k \in ProposalId, SendAgreed(s, k) PROVE StepKeeps(q)
  <2>1. LapsedProposals[k] = proposals[k] /\ proposals[k].status = "open"
    BY <1>7 DEF SendAgreed, OpenNow, LapsedProposals, TypeOK, Proposals
  <2>. QED  BY <1>4, <1>7, <2>1, LapsedType DEF SendAgreed, Settled
<1>8. ASSUME NEW s \in Slot, NEW i \in InvitationId, SendAgain(s, i) PROVE StepKeeps(q)
  <2>1. invitations[i].proposal \in ProposalId
    BY <1>8 DEF SendAgain, Exists, TypeOK, Invitations
  <2>. QED  BY <1>4, <1>8, <2>1, LapsedType DEF SendAgain, Settled
<1>9. ASSUME NEW s \in Slot, NEW k \in ProposalId, Decline(s, k) \/ WithdrawProposal(s, k)
      PROVE  StepKeeps(q)
  <2>1. proposals[k].status = "open"
    BY <1>9 DEF Decline, Answering, WithdrawProposal, OpenNow
  <2>2. proposals'[k].status # "agreed" /\ \A j \in ProposalId \ {k} : proposals'[j] = proposals[j]
    BY <1>9 DEF Decline, WithdrawProposal, TypeOK, Proposals
  <2>. QED  BY <2>1, <2>2 DEF StepKeeps, Settled
<1>10. ASSUME NEW s \in Slot, EraseAccount(s) PROVE StepKeeps(q)
  <2>1. CASE holder' = None /\ proposals' = [k \in ProposalId |-> NoProposal]
    BY <2>1 DEF StepKeeps, NoProposal
  <2>2. CASE proposals' = ErasedProposals(requests[s].who)
    <3>1. proposals[q].status # "agreed" => proposals'[q] = proposals[q]
      BY <2>2 DEF ErasedProposals, Deliveries, NothingLeftBehind
    <3>. QED  BY <3>1 DEF StepKeeps, Settled
  <2>. QED  BY <1>10, <2>1, <2>2 DEF EraseAccount
<1>11. ASSUME NEW s \in Slot, ReopenProposal(s) PROVE StepKeeps(q)
  <2>1. PICK k \in ProposalId : requests[s].proposal = k
    BY <1>11, MailNames DEF ReopenProposal, Doing, Mailing
  <2>2. proposals[k].status \in {"none", "agreed"}
    BY <1>11, <2>1 DEF ReopenProposal, Doing, Mailing, Deliveries, OneMailEach, StandsOnItsMail
  <2>3. /\ proposals[k].status = "none" => proposals' = proposals
        /\ \A j \in ProposalId \ {k} : proposals'[j] = proposals[j]
    BY <1>11, <2>1 DEF ReopenProposal, TypeOK
  <2>. QED  BY <2>2, <2>3 DEF StepKeeps, Settled
<1>12. ASSUME NEW p \in Person, Leave(p) PROVE StepKeeps(q)
  <2>1. CASE proposals'[q] = LapsedProposals[q]
    BY <1>3, <2>1
  <2>2. CASE /\ LapsedProposals[q].status = "open"
             /\ proposals'[q] = [LapsedProposals[q] EXCEPT !.status = "withdrawn"]
    <3>1. LapsedProposals[q] \in Proposals
      BY LapsedType
    <3>2. proposals'[q].status = "withdrawn" /\ proposals[q].status = "open"
      BY <1>2, <2>2, <3>1 DEF Proposals, LapsedProposals
    <3>. QED  BY <3>2 DEF StepKeeps, Settled
  <2>. QED  BY <1>12, <2>1, <2>2 DEF Leave
<1>13. CASE NoticeRunOuts
  BY <1>3, <1>13 DEF NoticeRunOuts
<1>14. ASSUME NEW s \in Slot, Ask(s) \/ AskErase(s) \/ Lost(s) \/ MailSent(s) \/ MailFailed(s)
                              \/ RevokeUndelivered(s)
       PROVE  StepKeeps(q)
  BY <1>1, <1>14 DEF Ask, AskErase, Arrive, Lost, MailSent, MailFailed, RevokeUndelivered
<1>15. ASSUME NEW s \in Slot, NEW p \in Person, RemoveMember(s, p) \/ TransferOwnership(s, p)
       PROVE  StepKeeps(q)
  BY <1>1, <1>15 DEF RemoveMember, TransferOwnership
<1>16. ASSUME NEW i \in InvitationId, Accept(i) \/ \E s \in Slot : WithdrawInvitation(s, i)
       PROVE  StepKeeps(q)
  BY <1>1, <1>16 DEF Accept, WithdrawInvitation
<1>17. CASE PaymentChanges \/ Tick \/ UNCHANGED vars
  BY <1>1, <1>17 DEF PaymentChanges, Tick, vars
<1>. QED
  BY <1>5, <1>6, <1>7, <1>8, <1>9, <1>10, <1>11, <1>12, <1>13, <1>14, <1>15, <1>16, <1>17
  DEF Next, Handling, Delivering

\* A question declined, withdrawn or run out is never touched again while the journey lasts.
THEOREM SettledKept == Spec => SettledStays
<1>1. TypeOK /\ Deliveries /\ [Next]_vars =>
        [\A q \in ProposalId :
           proposals[q].status \in {"declined", "withdrawn", "lapsed"} /\ holder' # None
             => proposals'[q] = proposals[q]]_vars
  BY QuestionStep DEF StepKeeps, Settled
<1>. QED  BY <1>1, TypeCorrect, DeliveriesKept, PTL DEF Spec, SettledStays

\* However many people, and whoever came or went while it was asked: a question is agreed to only by
\* everyone who is here then.
THEOREM EveryoneIsAsked == Spec => EveryoneAsked
<1>1. TypeOK /\ Deliveries /\ [Next]_vars =>
        [\A q \in ProposalId :
           proposals[q].status # "agreed" /\ proposals'[q].status = "agreed"
             => \A p \in Members : proposals'[q].answers[p] = "agree"]_vars
  BY QuestionStep DEF StepKeeps
<1>. QED  BY <1>1, TypeCorrect, DeliveriesKept, PTL DEF Spec, EveryoneAsked
=============================================================================
