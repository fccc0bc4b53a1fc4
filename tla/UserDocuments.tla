---------------------------- MODULE UserDocuments ----------------------------
(***************************************************************************)
(* Users of CGS and what they decide: invitations, user identities, the     *)
(* proposals by which users and members accept a user document, and the     *)
(* consent its approvers give and withdraw afterwards.                      *)
(*                                                                         *)
(* Every request is one transaction.  A caller is a member (certificate) or *)
(* a user (token); a user is named by its object id, and the claims of an    *)
(* invitation are reduced to the users whose token satisfies them.  Actions *)
(* of the members' constitution are validated when they are proposed and    *)
(* applied when the proposal is accepted; what lies between is in gov.       *)
(***************************************************************************)
EXTENDS FiniteSets, Naturals

CONSTANTS
    Members, Users, Invitations, Documents, Options, Contents, ProposalIds,
    ApproverLists,  \* the lists of approvers that are proposed
    MaxGov,         \* bound: open proposals of the members
    None

Callers == Members \cup Users


VARIABLES
    invitations,  \* user_invitations: the users who meet the claims, or None
    info,         \* user_invitations_info: who has accepted the invitation
    finalized,    \* accepted_user_invitations
    identities,   \* user_identities: the invitation, "direct", or None
    gov,          \* the members' open proposals
    proposals,    \* user_proposals and user_proposals_info
    accepted,     \* accepted_user_documents
    status        \* user_documents_runtime_option_status: those who disabled it

accessVars == <<invitations, info, finalized, identities, gov>>
documentVars == <<proposals, accepted, status>>
vars == <<accessVars, documentVars>>

Init ==
    /\ invitations = [i \in Invitations |-> None]
    /\ info = [i \in Invitations |-> None]
    /\ finalized = {}
    /\ identities = [u \in Users |-> None]
    /\ gov = {}
    /\ proposals = [p \in ProposalIds |-> None]
    /\ accepted = [d \in Documents |-> None]
    /\ status = [d \in Documents |-> [o \in Options |-> {}]]

(***************************************************************************)
(* Invitations and identities                                              *)
(***************************************************************************)
\* A mutant: an invitation is accepted again.
AlwaysOpen(i) == TRUE

\* 409 InvitationNotOpen.
InvitationOpen(i) == info[i] = None

\* acceptInvitation throws when the invitation has no claims left.
AcceptInvitation(u, i) ==
    /\ invitations[i] # None
    /\ InvitationOpen(i)
    /\ u \in invitations[i]
    /\ info' = [info EXCEPT ![i] = u]
    /\ UNCHANGED <<invitations, finalized, identities, gov, documentVars>>

\* The members' actions on users and invitations.
GovActions ==
    [name: {"set_user_identity"}, id: Users, invitationId: Invitations \cup {"direct"}]
    \cup [name: {"remove_user_identity"}, id: Users]
    \cup [name: {"add_claims", "remove_claims"}, invitationId: Invitations, claims: (SUBSET Users) \ {{}}]
    \cup [name: {"remove_user_invitation"}, invitationId: Invitations]

\* The client proposes an identity for an invitation only when its status is
\* Accepted, and takes the user from it; claims are not proposed for an
\* invitation that is finalized.
Validate(a) ==
    CASE a.name = "set_user_identity" ->
           a.invitationId # "direct" =>
             /\ invitations[a.invitationId] # None
             /\ a.invitationId \notin finalized
             /\ info[a.invitationId] = a.id
      [] a.name \in {"add_claims", "remove_claims"} -> a.invitationId \notin finalized
      [] OTHER -> TRUE

Propose(a) ==
    /\ Cardinality(gov) < MaxGov
    /\ Validate(a)
    /\ gov' = gov \cup {a}
    /\ UNCHANGED <<invitations, info, finalized, identities, documentVars>>

SetUserIdentity(a) ==
    /\ a.name = "set_user_identity"
    /\ finalized' = finalized \cup ({a.invitationId} \ {"direct"})
    /\ identities' = [identities EXCEPT ![a.id] = a.invitationId]
    /\ UNCHANGED invitations

RemoveUserIdentity(a) ==
    /\ a.name = "remove_user_identity"
    /\ identities' = [identities EXCEPT ![a.id] = None]
    /\ UNCHANGED <<invitations, finalized>>

Claims(i) == IF invitations[i] = None THEN {} ELSE invitations[i]

\* Values are added to the claims or removed from them; removing a value that
\* is not there throws, and the proposal fails without effect.
SetUserInvitation(a) ==
    /\ a.name \in {"add_claims", "remove_claims"}
    /\ invitations' =
         IF a.name = "add_claims"
         THEN [invitations EXCEPT ![a.invitationId] = Claims(a.invitationId) \cup a.claims]
         ELSE IF a.claims \subseteq Claims(a.invitationId)
         THEN [invitations EXCEPT ![a.invitationId] = Claims(a.invitationId) \ a.claims]
         ELSE invitations
    /\ UNCHANGED <<finalized, identities>>

\* Who accepted the invitation is remembered, and so is that it is finalized.
RemoveUserInvitation(a) ==
    /\ a.name = "remove_user_invitation"
    /\ invitations' = [invitations EXCEPT ![a.invitationId] = None]
    /\ UNCHANGED <<finalized, identities>>

\* The members accept the proposal, or reject it.
Resolve(a) ==
    /\ a \in gov
    /\ gov' = gov \ {a}
    /\ \/ SetUserIdentity(a) \/ RemoveUserIdentity(a) \/ SetUserInvitation(a) \/ RemoveUserInvitation(a)
       \/ UNCHANGED <<invitations, finalized, identities>>
    /\ UNCHANGED <<info, documentVars>>

\* Members need no identity.
validateCallerAuthorized(c) == c \in Members \cup {u \in Users : identities[u] # None}

(***************************************************************************)
(* User proposals                                                          *)
(***************************************************************************)
findOpenUserProposals(d) ==
    {p \in ProposalIds : proposals[p] # None /\ proposals[p].documentId = d /\ proposals[p].state = "Open"}

\* Mutants: one of the two checks is left out.
ValidateNotAccepted(d) == accepted[d] = None
ValidateNotProposed(d) == findOpenUserProposals(d) = {}

\* validate of set_user_document: 405 UserDocumentAlreadyAccepted, 409
\* UserDocumentAlreadyProposed.
ValidateUserDocument(d) == accepted[d] = None /\ findOpenUserProposals(d) = {}

\* A mutant: a proposal without approvers.
AnyApprovers(approvers) == TRUE

\* 400 EmptyApprovers.
ApproversGiven(approvers) == approvers # {}

PutUserProposal(c, p, d, data, approvers) ==
    /\ validateCallerAuthorized(c)
    /\ proposals[p] = None
    /\ ApproversGiven(approvers)
    /\ ValidateUserDocument(d)
    /\ proposals' = [proposals EXCEPT ![p] =
         [documentId |-> d, document |-> data, approvers |-> approvers,
          proposerId |-> c, state |-> "Open", ballots |-> {}]]
    /\ UNCHANGED <<accessVars, accepted, status>>

WithdrawUserProposal(c, p) ==
    /\ validateCallerAuthorized(c)
    /\ proposals[p] # None
    /\ proposals[p].proposerId = c
    /\ proposals[p].state = "Open"
    /\ proposals' = [proposals EXCEPT ![p].state = "Withdrawn"]
    /\ UNCHANGED <<accessVars, accepted, status>>

\* A mutant: one ballot is taken for all.
AnyBallotSubmitted(approvers, ballots) == ballots # {}

AllBallotsSubmitted(approvers, ballots) == approvers \subseteq ballots

\* apply of set_user_document.
Accepted(p, ballots) ==
    [proposalId |-> p, document |-> proposals[p].document, proposerId |-> proposals[p].proposerId,
     approvers |-> proposals[p].approvers, finalVotes |-> ballots]

\* Ballots that reject end the proposal, so ballots holds those that accept.
SubmitUserProposalBallot(c, p, ballot) ==
    LET ballots == proposals[p].ballots \cup {c} IN
    /\ validateCallerAuthorized(c)
    /\ proposals[p] # None
    /\ c \in proposals[p].approvers
    /\ proposals[p].state = "Open"
    /\ c \notin proposals[p].ballots
    /\ IF ballot = "rejected"
       THEN /\ proposals' = [proposals EXCEPT ![p].state = "Rejected"]
            /\ UNCHANGED accepted
       ELSE IF AllBallotsSubmitted(proposals[p].approvers, ballots)
       THEN /\ proposals' = [proposals EXCEPT ![p].ballots = ballots, ![p].state = "Accepted"]
            /\ accepted' = [accepted EXCEPT ![proposals[p].documentId] = Accepted(p, ballots)]
       ELSE /\ proposals' = [proposals EXCEPT ![p].ballots = ballots]
            /\ UNCHANGED accepted
    /\ UNCHANGED <<accessVars, status>>

(***************************************************************************)
(* Consent                                                                 *)
(***************************************************************************)
\* A mutant: an approver who is no longer a user still decides.
AnyApprover(c, d) == accepted[d] # None /\ c \in accepted[d].approvers

\* A mutant: who is not an approver decides.
AnyCaller(c, d) == validateCallerAuthorized(c) /\ accepted[d] # None

\* Only approvers of an accepted document decide on its runtime options.
MayDecide(c, d) ==
    /\ validateCallerAuthorized(c)
    /\ accepted[d] # None
    /\ c \in accepted[d].approvers

SetUserDocumentRuntimeOptionStatus(c, d, o, newStatus) ==
    /\ MayDecide(c, d)
    /\ status' = [status EXCEPT ![d][o] = IF newStatus = "disabled" THEN @ \cup {c} ELSE @ \ {c}]
    /\ UNCHANGED <<accessVars, proposals, accepted>>

CheckUserDocumentRuntimeOption(d, o) ==
    IF accepted[d] = None \/ status[d][o] # {} THEN "disabled" ELSE "enabled"

Next ==
    \/ \E u \in Users, i \in Invitations : AcceptInvitation(u, i)
    \/ \E a \in GovActions : Propose(a)
    \/ \E a \in gov : Resolve(a)
    \/ \E c \in Callers, p \in ProposalIds :
         \/ \E d \in Documents, data \in Contents, approvers \in ApproverLists :
              PutUserProposal(c, p, d, data, approvers)
         \/ WithdrawUserProposal(c, p)
         \/ \E ballot \in {"accepted", "rejected"} : SubmitUserProposalBallot(c, p, ballot)
    \/ \E c \in Callers, d \in Documents, o \in Options, s \in {"enabled", "disabled"} :
         SetUserDocumentRuntimeOptionStatus(c, d, o, s)

Spec == Init /\ [][Next]_vars

(***************************************************************************)
(* Properties                                                              *)
(***************************************************************************)
Proposal ==
    [documentId: Documents, document: Contents, approvers: (SUBSET Callers) \ {{}}, proposerId: Callers,
     state: {"Open", "Accepted", "Rejected", "Withdrawn"}, ballots: SUBSET Callers]
AcceptedDocument ==
    [proposalId: ProposalIds, document: Contents, proposerId: Callers,
     approvers: (SUBSET Callers) \ {{}}, finalVotes: SUBSET Callers]

ASSUME ConstantsAssumption ==
    /\ ApproverLists \subseteq SUBSET Callers
    /\ Members \cap Users = {}
    /\ "direct" \notin Invitations
    /\ None \notin Users \cup Invitations \cup {"direct"} \cup Proposal \cup AcceptedDocument

\* Every proposal has approvers, and an identity comes from an invitation or
\* from the members directly.
TypeOK ==
    /\ invitations \in [Invitations -> (SUBSET Users) \cup {None}]
    /\ info \in [Invitations -> Users \cup {None}]
    /\ finalized \subseteq Invitations
    /\ identities \in [Users -> Invitations \cup {"direct", None}]
    /\ gov \subseteq GovActions
    /\ proposals \in [ProposalIds -> Proposal \cup {None}]
    /\ accepted \in [Documents -> AcceptedDocument \cup {None}]
    /\ status \in [Documents -> [Options -> SUBSET Callers]]

\* Of all proposals for a document at most one is open or accepted, whatever
\* was withdrawn or rejected before: the checks at submission are enough, and
\* accepting a ballot needs none.
SettledOnce ==
    \A p, q \in ProposalIds :
      (/\ proposals[p] # None /\ proposals[q] # None
       /\ proposals[p].documentId = proposals[q].documentId
       /\ proposals[p].state \in {"Open", "Accepted"}
       /\ proposals[q].state \in {"Open", "Accepted"}) => p = q

\* What is accepted is what its proposal said, and it was accepted by each of
\* the approvers the proposal named, by no one else.
Unanimous ==
    \A d \in Documents :
      accepted[d] # None =>
        LET p == proposals[accepted[d].proposalId]
        IN  /\ p # None
            /\ p.state = "Accepted" /\ p.documentId = d /\ p.document = accepted[d].document
            /\ p.proposerId = accepted[d].proposerId
            /\ p.approvers = accepted[d].approvers
            /\ accepted[d].finalVotes = accepted[d].approvers

\* An accepted document is never replaced.
AcceptedForGood ==
    [][\A d \in Documents : accepted[d] # None => accepted'[d] = accepted[d]]_vars

\* An invitation lets in one user, the one who accepted it, even when the
\* invitation is removed and issued again for others, and however long the
\* members take to accept the identity.
OneUserPerInvitation ==
    \A u \in Users : identities[u] \in Invitations => info[identities[u]] = u

\* An approver's objection stands while the approver is not a user: neither
\* other approvers nor the members can give its consent again.
ObjectionStands ==
    [][\A d \in Documents, o \in Options, u \in Users :
         u \in status[d][o] /\ identities[u] = None =>
            u \in status'[d][o] /\ CheckUserDocumentRuntimeOption(d, o)' = "disabled"]_vars

\* What callers can see of the open proposals and of what was accepted.
BallotOf(p) ==
    [document |-> proposals[p].document, approvers |-> proposals[p].approvers,
     consents |-> proposals[p].ballots]
Boxes == [d \in Documents |-> {BallotOf(p) : p \in findOpenUserProposals(d)}]
Decisions ==
    [d \in Documents |->
       IF accepted[d] = None THEN {}
       ELSE {[document |-> accepted[d].document, approvers |-> accepted[d].approvers]}]

Box == INSTANCE BallotBox WITH box <- Boxes, decision <- Decisions, objections <- status

\* The proposals for a document, however many there are and whoever withdraws, rejects or
\* accepts them, are one ballot at a time, of which one is decided, by all its approvers, for
\* good; and consent to its options is withdrawn and given by its approvers only, each for
\* itself.
ImplementsBox == Box!BoxSpec
=============================================================================
