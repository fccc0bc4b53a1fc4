------------------------- MODULE UserDocuments_proofs -------------------------
(***************************************************************************)
(* Proofs about UserDocuments, for any users, members and documents and any *)
(* number of proposals.                                                    *)
(*                                                                         *)
(* An accepted proposal is the one its document was accepted by            *)
(* (AcceptedIsStored), so that the two checks at submission keep out every   *)
(* second proposal; and an identity that is proposed for an invitation is   *)
(* that of the user who accepted it (IdentityIsInvited), for as long as the *)
(* members take.                                                           *)
(***************************************************************************)
EXTENDS UserDocuments, TLAPS

AcceptedIsStored ==
    \A p \in ProposalIds :
      proposals[p] # None /\ proposals[p].state = "Accepted" =>
        /\ accepted[proposals[p].documentId] # None
        /\ accepted[proposals[p].documentId].proposalId = p

BallotsOfApprovers ==
    \A p \in ProposalIds : proposals[p] # None => proposals[p].ballots \subseteq proposals[p].approvers

IdentityIsInvited ==
    \A a \in gov :
      a.name = "set_user_identity" /\ a.invitationId \in Invitations => info[a.invitationId] = a.id

DocInv == TypeOK /\ SettledOnce /\ Unanimous /\ AcceptedIsStored /\ BallotsOfApprovers
AccessInv == OneUserPerInvitation /\ IdentityIsInvited
IInv == DocInv /\ AccessInv

LEMMA InitIInv == Init => IInv
<1> SUFFICES ASSUME Init PROVE IInv
  OBVIOUS
<1>1. TypeOK
  BY DEF Init, TypeOK
<1>2. SettledOnce /\ Unanimous /\ AcceptedIsStored /\ BallotsOfApprovers
  BY DEF Init, SettledOnce, Unanimous, AcceptedIsStored, BallotsOfApprovers
<1>3. OneUserPerInvitation /\ IdentityIsInvited
  BY ConstantsAssumption DEF Init, OneUserPerInvitation, IdentityIsInvited
<1> QED
  BY <1>1, <1>2, <1>3 DEF IInv, DocInv, AccessInv

\* Steps that leave the documents alone, and steps that leave the users alone.
LEMMA DocumentsUnchanged ==
    ASSUME DocInv, UNCHANGED documentVars, TypeOK'
    PROVE  DocInv'
BY DEF DocInv, documentVars, SettledOnce, Unanimous, AcceptedIsStored, BallotsOfApprovers

LEMMA AccessUnchanged ==
    ASSUME AccessInv, UNCHANGED accessVars
    PROVE  AccessInv'
BY DEF AccessInv, accessVars, OneUserPerInvitation, IdentityIsInvited

LEMMA AcceptInvitationPreserves ==
    ASSUME IInv, NEW u \in Users, NEW i \in Invitations, AcceptInvitation(u, i)
    PROVE  IInv'
<1>0. TypeOK /\ DocInv /\ AccessInv
  BY DEF IInv, DocInv
<1>1. TypeOK'
  BY <1>0 DEF TypeOK, AcceptInvitation, documentVars
<1>2. DocInv'
  BY <1>0, <1>1, DocumentsUnchanged DEF AcceptInvitation
<1>3. AccessInv'
  BY <1>0, ConstantsAssumption DEF AccessInv, AcceptInvitation, InvitationOpen, OneUserPerInvitation,
     IdentityIsInvited, TypeOK, GovActions
<1> QED
  BY <1>2, <1>3 DEF IInv

LEMMA ProposePreserves ==
    ASSUME IInv, NEW a \in GovActions, Propose(a)
    PROVE  IInv'
<1>0. TypeOK /\ DocInv /\ AccessInv
  BY DEF IInv, DocInv
<1>1. TypeOK'
  BY <1>0 DEF TypeOK, Propose, documentVars
<1>2. DocInv'
  BY <1>0, <1>1, DocumentsUnchanged DEF Propose
<1>3. a.name = "set_user_identity" /\ a.invitationId \in Invitations => info[a.invitationId] = a.id
  BY ConstantsAssumption DEF Propose, Validate
<1>4. AccessInv'
  BY <1>0, <1>3 DEF AccessInv, Propose, OneUserPerInvitation, IdentityIsInvited
<1> QED
  BY <1>2, <1>4 DEF IInv

LEMMA ResolvePreserves ==
    ASSUME IInv, NEW a \in gov, Resolve(a)
    PROVE  IInv'
<1>0. TypeOK /\ DocInv /\ AccessInv
  BY DEF IInv, DocInv
<1>1. /\ gov' = gov \ {a} /\ a \in GovActions
      /\ UNCHANGED <<info, documentVars>>
  BY <1>0 DEF Resolve, TypeOK
<1>2. CASE SetUserIdentity(a)
  <2>1. a.id \in Users /\ a.invitationId \in Invitations \cup {"direct"}
    BY <1>1, <1>2 DEF GovActions, SetUserIdentity
  <2>2. TypeOK'
    BY <1>0, <1>1, <1>2, <2>1 DEF TypeOK, SetUserIdentity, documentVars
  <2>3. AccessInv'
    BY <1>0, <1>1, <1>2, <2>1, ConstantsAssumption
    DEF AccessInv, SetUserIdentity, OneUserPerInvitation, IdentityIsInvited, TypeOK
  <2> QED
    BY <1>0, <1>1, <2>2, <2>3, DocumentsUnchanged DEF IInv
<1>3. CASE RemoveUserIdentity(a)
  <2>1. a.id \in Users
    BY <1>1, <1>3 DEF GovActions, RemoveUserIdentity
  <2>2. TypeOK'
    BY <1>0, <1>1, <1>3, <2>1 DEF TypeOK, RemoveUserIdentity, documentVars
  <2>3. AccessInv'
    BY <1>0, <1>1, <1>3, <2>1, ConstantsAssumption
    DEF AccessInv, RemoveUserIdentity, OneUserPerInvitation, IdentityIsInvited, TypeOK
  <2> QED
    BY <1>0, <1>1, <2>2, <2>3, DocumentsUnchanged DEF IInv
<1>4. CASE SetUserInvitation(a)
  <2>1. a.invitationId \in Invitations /\ a.claims \in SUBSET Users
    BY <1>1, <1>4 DEF GovActions, SetUserInvitation
  <2>2. Claims(a.invitationId) \in SUBSET Users
    BY <1>0, <2>1 DEF TypeOK, Claims
  <2>3. invitations' \in [Invitations -> (SUBSET Users) \cup {None}]
    BY <1>0, <1>4, <2>1, <2>2 DEF TypeOK, SetUserInvitation
  <2>4. TypeOK'
    BY <1>0, <1>1, <1>4, <2>3 DEF TypeOK, SetUserInvitation, documentVars
  <2>5. AccessInv'
    BY <1>0, <1>1, <1>4 DEF AccessInv, SetUserInvitation, OneUserPerInvitation, IdentityIsInvited
  <2> QED
    BY <1>0, <1>1, <2>4, <2>5, DocumentsUnchanged DEF IInv
<1>5. CASE RemoveUserInvitation(a)
  <2>1. a.invitationId \in Invitations
    BY <1>1, <1>5 DEF GovActions, RemoveUserInvitation
  <2>2. TypeOK'
    BY <1>0, <1>1, <1>5, <2>1 DEF TypeOK, RemoveUserInvitation, documentVars
  <2>3. AccessInv'
    BY <1>0, <1>1, <1>5 DEF AccessInv, RemoveUserInvitation, OneUserPerInvitation, IdentityIsInvited
  <2> QED
    BY <1>0, <1>1, <2>2, <2>3, DocumentsUnchanged DEF IInv
<1>6. CASE UNCHANGED <<invitations, finalized, identities>>
  <2>1. TypeOK'
    BY <1>0, <1>1, <1>6 DEF TypeOK, documentVars
  <2>2. AccessInv'
    BY <1>0, <1>1, <1>6 DEF AccessInv, OneUserPerInvitation, IdentityIsInvited
  <2> QED
    BY <1>0, <1>1, <2>1, <2>2, DocumentsUnchanged DEF IInv
<1> QED
  BY <1>2, <1>3, <1>4, <1>5, <1>6 DEF Resolve

LEMMA PutUserProposalPreserves ==
    ASSUME IInv, NEW c \in Callers, NEW p \in ProposalIds, NEW d \in Documents, NEW data \in Contents,
           NEW approvers \in ApproverLists, PutUserProposal(c, p, d, data, approvers)
    PROVE  IInv'
<1> DEFINE r == [documentId |-> d, document |-> data, approvers |-> approvers,
                 proposerId |-> c, state |-> "Open", ballots |-> {}]
<1>0. TypeOK /\ DocInv /\ AccessInv
  BY DEF IInv, DocInv
<1>1. /\ proposals[p] = None /\ accepted[d] = None /\ findOpenUserProposals(d) = {}
      /\ proposals' = [proposals EXCEPT ![p] = r] /\ UNCHANGED <<accessVars, accepted, status>>
  BY DEF PutUserProposal, ValidateUserDocument
<1>2. r \in Proposal /\ r # None
  BY ConstantsAssumption DEF Proposal, PutUserProposal, ApproversGiven
<1>3. r.documentId = d /\ r.state = "Open" /\ r.ballots = {}
  OBVIOUS
<1> HIDE DEF r
<1>4. proposals \in [ProposalIds -> Proposal \cup {None}]
  BY <1>0 DEF TypeOK
<1>5. proposals'[p] = r /\ \A q \in ProposalIds : q # p => proposals'[q] = proposals[q]
  BY <1>1, <1>4
<1>6. TypeOK'
  BY <1>0, <1>1, <1>2 DEF TypeOK, accessVars
<1>7. \A q \in ProposalIds : proposals[q] # None /\ proposals[q].documentId = d
                               => proposals[q].state \notin {"Open", "Accepted"}
  BY <1>0, <1>1 DEF findOpenUserProposals, DocInv, AcceptedIsStored
<1>8. SettledOnce'
  BY <1>0, <1>3, <1>5, <1>7 DEF DocInv, SettledOnce
<1>9. Unanimous'
  <2> SUFFICES ASSUME NEW e \in Documents, accepted[e] # None
               PROVE  accepted[e].proposalId \in ProposalIds /\ accepted[e].proposalId # p
    BY <1>0, <1>1, <1>5 DEF DocInv, Unanimous
  <2> QED
    BY <1>0, <1>1 DEF DocInv, Unanimous, TypeOK, AcceptedDocument
<1>10. AcceptedIsStored' /\ BallotsOfApprovers'
  BY <1>0, <1>1, <1>3, <1>5 DEF DocInv, AcceptedIsStored, BallotsOfApprovers
<1> QED
  BY <1>0, <1>1, <1>6, <1>8, <1>9, <1>10, AccessUnchanged DEF IInv, DocInv

\* A proposal that is withdrawn or rejected.
LEMMA ClosingPreserves ==
    ASSUME IInv, NEW p \in ProposalIds, NEW st \in {"Withdrawn", "Rejected"},
           proposals[p] # None, proposals[p].state = "Open",
           proposals' = [proposals EXCEPT ![p].state = st], UNCHANGED <<accessVars, accepted, status>>
    PROVE  IInv'
<1> DEFINE r == [proposals[p] EXCEPT !.state = st]
<1>0. TypeOK /\ DocInv /\ AccessInv
  BY DEF IInv, DocInv
<1>1. proposals[p] \in Proposal /\ proposals \in [ProposalIds -> Proposal \cup {None}]
  BY <1>0 DEF TypeOK
<1>2. /\ r \in Proposal /\ r # None /\ r.state = st /\ r.documentId = proposals[p].documentId
      /\ r.ballots = proposals[p].ballots /\ r.approvers = proposals[p].approvers
  BY <1>1, ConstantsAssumption DEF Proposal
<1>3. proposals' = [proposals EXCEPT ![p] = r]
  BY <1>1
<1> HIDE DEF r
<1>4. proposals'[p] = r /\ \A q \in ProposalIds : q # p => proposals'[q] = proposals[q]
  BY <1>1, <1>3
<1>5. TypeOK'
  BY <1>0, <1>2, <1>3 DEF TypeOK, accessVars
<1>6. SettledOnce' /\ AcceptedIsStored' /\ BallotsOfApprovers'
  BY <1>0, <1>2, <1>4 DEF DocInv, SettledOnce, AcceptedIsStored, BallotsOfApprovers
<1>7. \A e \in Documents : accepted[e] # None => accepted[e].proposalId \in ProposalIds \ {p}
  BY <1>0 DEF DocInv, Unanimous, TypeOK, AcceptedDocument
<1>8. Unanimous'
  BY <1>0, <1>4, <1>7 DEF DocInv, Unanimous
<1> QED
  BY <1>0, <1>5, <1>6, <1>8, AccessUnchanged DEF IInv, DocInv

LEMMA WithdrawUserProposalPreserves ==
    ASSUME IInv, NEW c \in Callers, NEW p \in ProposalIds, WithdrawUserProposal(c, p)
    PROVE  IInv'
BY ClosingPreserves DEF WithdrawUserProposal

LEMMA SubmitUserProposalBallotPreserves ==
    ASSUME IInv, NEW c \in Callers, NEW p \in ProposalIds, NEW ballot \in {"accepted", "rejected"},
           SubmitUserProposalBallot(c, p, ballot)
    PROVE  IInv'
<1> DEFINE b == proposals[p].ballots \cup {c}
           d == proposals[p].documentId
           r == [proposals[p] EXCEPT !.ballots = b]
           s == [proposals[p] EXCEPT !.ballots = b, !.state = "Accepted"]
           a == Accepted(p, b)
<1>0. TypeOK /\ DocInv /\ AccessInv
  BY DEF IInv, DocInv
<1>1. /\ proposals[p] # None /\ proposals[p].state = "Open"
      /\ c \in proposals[p].approvers /\ UNCHANGED <<accessVars, status>>
  BY DEF SubmitUserProposalBallot
<1>2. /\ proposals[p] \in Proposal /\ d \in Documents
      /\ proposals \in [ProposalIds -> Proposal \cup {None}]
      /\ accepted \in [Documents -> AcceptedDocument \cup {None}]
  BY <1>0, <1>1 DEF TypeOK, Proposal
<1>3. b \in SUBSET Callers /\ b \subseteq proposals[p].approvers
  BY <1>0, <1>1, <1>2 DEF DocInv, BallotsOfApprovers, Proposal
<1> HIDE DEF b
<1>4. /\ r \in Proposal /\ r # None /\ r.documentId = d /\ r.state = "Open" /\ r.ballots = b
      /\ r.approvers = proposals[p].approvers /\ r.document = proposals[p].document
      /\ r.proposerId = proposals[p].proposerId
  BY <1>1, <1>2, <1>3, ConstantsAssumption DEF Proposal
<1>5. /\ s \in Proposal /\ s # None /\ s.documentId = d /\ s.state = "Accepted" /\ s.ballots = b
      /\ s.approvers = proposals[p].approvers /\ s.document = proposals[p].document
      /\ s.proposerId = proposals[p].proposerId
  <2>1. s = [r EXCEPT !.state = "Accepted"]
    BY <1>2 DEF Proposal
  <2> HIDE DEF r, s
  <2> QED
    BY <1>4, <2>1, ConstantsAssumption DEF Proposal
<1>6. /\ a \in AcceptedDocument /\ a # None /\ a.proposalId = p /\ a.document = proposals[p].document
      /\ a.approvers = proposals[p].approvers /\ a.finalVotes = b
      /\ a.proposerId = proposals[p].proposerId
  BY <1>2, <1>3, ConstantsAssumption DEF AcceptedDocument, Proposal, Accepted
<1>7. \/ proposals' = [proposals EXCEPT ![p].state = "Rejected"] /\ UNCHANGED accepted
      \/ /\ proposals[p].approvers \subseteq b
         /\ proposals' = [proposals EXCEPT ![p] = s]
         /\ accepted' = [accepted EXCEPT ![d] = a]
      \/ proposals' = [proposals EXCEPT ![p] = r] /\ UNCHANGED accepted
  <2>1. [proposals EXCEPT ![p].ballots = b] = [proposals EXCEPT ![p] = r]
    BY <1>2
  <2>2. [proposals EXCEPT ![p].ballots = b, ![p].state = "Accepted"] = [proposals EXCEPT ![p] = s]
    BY <1>2
  <2> QED
    BY <2>1, <2>2 DEF SubmitUserProposalBallot, AllBallotsSubmitted, b
<1> HIDE DEF r, s, a, d
<1>8. CASE proposals' = [proposals EXCEPT ![p].state = "Rejected"] /\ UNCHANGED accepted
  BY <1>1, <1>8, ClosingPreserves
<1>9. CASE /\ proposals[p].approvers \subseteq b
           /\ proposals' = [proposals EXCEPT ![p] = s]
           /\ accepted' = [accepted EXCEPT ![d] = a]
  <2>1. /\ proposals'[p] = s /\ \A q \in ProposalIds : q # p => proposals'[q] = proposals[q]
        /\ accepted'[d] = a /\ \A e \in Documents : e # d => accepted'[e] = accepted[e]
    BY <1>2, <1>9
  <2>2. TypeOK'
    BY <1>0, <1>1, <1>2, <1>5, <1>6, <1>9 DEF TypeOK, accessVars
  <2>3. SettledOnce' /\ BallotsOfApprovers'
    BY <1>0, <1>1, <1>3, <1>5, <2>1 DEF DocInv, SettledOnce, BallotsOfApprovers, d
  <2>4. \A e \in Documents : accepted[e] # None => accepted[e].proposalId \in ProposalIds \ {p}
    BY <1>0, <1>1, <1>2 DEF DocInv, Unanimous, AcceptedDocument
  <2>5. Unanimous'
    <3> DEFINE Agreed(e) ==
                 LET x == proposals'[accepted'[e].proposalId]
                 IN  /\ x # None
                     /\ x.state = "Accepted" /\ x.documentId = e /\ x.document = accepted'[e].document
                     /\ x.proposerId = accepted'[e].proposerId
                     /\ x.approvers = accepted'[e].approvers
                     /\ accepted'[e].finalVotes = accepted'[e].approvers
    <3>1. Agreed(d)
      BY <1>3, <1>5, <1>6, <1>9, <2>1
    <3>2. ASSUME NEW e \in Documents, e # d, accepted'[e] # None
          PROVE  Agreed(e)
      <4>1. /\ accepted'[e] = accepted[e]
            /\ proposals'[accepted[e].proposalId] = proposals[accepted[e].proposalId]
        BY <2>1, <2>4, <3>2
      <4> QED
        BY <1>0, <3>2, <4>1 DEF DocInv, Unanimous
    <3> QED
      BY <3>1, <3>2 DEF Unanimous
  <2>6. \A q \in ProposalIds : q # p /\ proposals[q] # None /\ proposals[q].state = "Accepted"
                                 => proposals[q].documentId # d
    BY <1>0, <1>1 DEF DocInv, SettledOnce, d
  <2>7. AcceptedIsStored'
    <3> SUFFICES ASSUME NEW q \in ProposalIds, proposals'[q] # None, proposals'[q].state = "Accepted"
                 PROVE  /\ accepted'[proposals'[q].documentId] # None
                        /\ accepted'[proposals'[q].documentId].proposalId = q
      BY DEF AcceptedIsStored
    <3>1. CASE q = p
      BY <1>5, <1>6, <2>1, <3>1
    <3>2. CASE q # p
      <4>1. proposals'[q] = proposals[q] /\ proposals[q].documentId \in Documents \ {d}
        BY <1>2, <2>1, <2>6, <3>2 DEF Proposal
      <4> QED
        BY <1>0, <2>1, <4>1 DEF DocInv, AcceptedIsStored
    <3> QED
      BY <3>1, <3>2
  <2> QED
    BY <1>0, <1>1, <2>2, <2>3, <2>5, <2>7, AccessUnchanged DEF IInv, DocInv
<1>10. CASE proposals' = [proposals EXCEPT ![p] = r] /\ UNCHANGED accepted
  <2>1. proposals'[p] = r /\ \A q \in ProposalIds : q # p => proposals'[q] = proposals[q]
    BY <1>2, <1>10
  <2>2. TypeOK'
    BY <1>0, <1>1, <1>2, <1>4, <1>10 DEF TypeOK, accessVars
  <2>3. SettledOnce' /\ BallotsOfApprovers' /\ AcceptedIsStored'
    BY <1>0, <1>1, <1>3, <1>4, <1>10, <2>1
    DEF DocInv, SettledOnce, BallotsOfApprovers, AcceptedIsStored, d
  <2>4. \A e \in Documents : accepted[e] # None => accepted[e].proposalId \in ProposalIds \ {p}
    BY <1>0, <1>1, <1>2 DEF DocInv, Unanimous, AcceptedDocument
  <2>5. Unanimous'
    BY <1>0, <1>10, <2>1, <2>4 DEF DocInv, Unanimous
  <2> QED
    BY <1>0, <1>1, <2>2, <2>3, <2>5, AccessUnchanged DEF IInv, DocInv
<1> QED
  BY <1>7, <1>8, <1>9, <1>10

LEMMA RuntimeOptionPreserves ==
    ASSUME IInv, NEW c \in Callers, NEW d \in Documents, NEW o \in Options,
           NEW n \in {"enabled", "disabled"}, SetUserDocumentRuntimeOptionStatus(c, d, o, n)
    PROVE  IInv'
<1>0. TypeOK /\ DocInv /\ AccessInv
  BY DEF IInv, DocInv
<1>1. /\ UNCHANGED <<accessVars, proposals, accepted>>
      /\ status' = [status EXCEPT ![d][o] = IF n = "disabled" THEN status[d][o] \cup {c}
                                                               ELSE status[d][o] \ {c}]
  BY DEF SetUserDocumentRuntimeOptionStatus
<1>2. status' \in [Documents -> [Options -> SUBSET Callers]]
  BY <1>0, <1>1 DEF TypeOK
<1>3. TypeOK'
  BY <1>0, <1>1, <1>2 DEF TypeOK, accessVars
<1>4. SettledOnce' /\ Unanimous' /\ AcceptedIsStored' /\ BallotsOfApprovers'
  BY <1>0, <1>1 DEF DocInv, SettledOnce, Unanimous, AcceptedIsStored, BallotsOfApprovers
<1> QED
  BY <1>0, <1>1, <1>3, <1>4, AccessUnchanged DEF IInv, DocInv

LEMMA NextIInv == IInv /\ [Next]_vars => IInv'
<1> SUFFICES ASSUME IInv, [Next]_vars PROVE IInv'
  OBVIOUS
<1>1. CASE UNCHANGED vars
  <2>1. TypeOK' /\ DocInv'
    BY <1>1 DEF vars, accessVars, documentVars, IInv, DocInv, TypeOK, SettledOnce, Unanimous,
       AcceptedIsStored, BallotsOfApprovers
  <2> QED
    BY <1>1, <2>1, AccessUnchanged DEF vars, IInv
<1> QED
  BY <1>1, AcceptInvitationPreserves, ProposePreserves, ResolvePreserves, PutUserProposalPreserves,
     WithdrawUserProposalPreserves, SubmitUserProposalBallotPreserves, RuntimeOptionPreserves DEF Next

LEMMA Invariance == Spec => []IInv
BY InitIInv, NextIInv, PTL DEF Spec

\* Every proposal has approvers and every vote is a caller's, whatever callers
\* and members send and in whatever order the members decide.
THEOREM TypeCorrect == Spec => []TypeOK
BY Invariance, PTL DEF IInv, DocInv

\* putUserProposal checks for open and for accepted proposals only when a
\* proposal is submitted: that is enough for any number of proposals.
THEOREM SettledOnceHolds == Spec => []SettledOnce
BY Invariance, PTL DEF IInv, DocInv

\* submitUserProposalBallot accepts a document only by the ballots of all the
\* approvers the proposal named.
THEOREM UnanimousHolds == Spec => []Unanimous
BY Invariance, PTL DEF IInv, DocInv

\* acceptInvitation, the client and the members' actions together let one user
\* in by an invitation.
THEOREM OneUserPerInvitationHolds == Spec => []OneUserPerInvitation
BY Invariance, PTL DEF IInv, AccessInv

\* An accepted document stays as it is: only a ballot could replace it, and the
\* proposal it is for would be a second one for the document.
THEOREM AcceptedForGoodHolds == Spec => AcceptedForGood
<1>1. ASSUME IInv, [Next]_vars
      PROVE  [\A d \in Documents : accepted[d] # None => accepted'[d] = accepted[d]]_vars
  <2> SUFFICES ASSUME NEW d \in Documents, accepted[d] # None, accepted'[d] # accepted[d]
               PROVE  FALSE
    OBVIOUS
  <2>1. PICK c \in Callers, p \in ProposalIds, ballot \in {"accepted", "rejected"} :
          SubmitUserProposalBallot(c, p, ballot)
    BY <1>1 DEF Next, vars, documentVars, AcceptInvitation, Propose, Resolve, PutUserProposal,
       WithdrawUserProposal, SetUserDocumentRuntimeOptionStatus
  <2>2. proposals[p] # None /\ proposals[p].state = "Open" /\ proposals[p].documentId = d
    <3>1. accepted \in [Documents -> AcceptedDocument \cup {None}]
      BY <1>1 DEF IInv, DocInv, TypeOK
    <3> QED
      BY <2>1, <3>1 DEF SubmitUserProposalBallot
  <2>3. /\ accepted[d].proposalId \in ProposalIds
        /\ proposals[accepted[d].proposalId] # None
        /\ proposals[accepted[d].proposalId].state = "Accepted"
        /\ proposals[accepted[d].proposalId].documentId = d
    BY <1>1 DEF IInv, DocInv, TypeOK, AcceptedDocument, Unanimous
  <2> QED
    BY <1>1, <2>2, <2>3 DEF IInv, DocInv, SettledOnce
<1> QED
  BY <1>1, Invariance, PTL DEF Spec, AcceptedForGood

\* setUserDocumentRuntimeOptionStatus lets no one undo the objection of an
\* approver whose identity is removed.
THEOREM ObjectionStandsHolds == Spec => ObjectionStands
<1>1. ASSUME IInv, [Next]_vars
      PROVE  [\A d \in Documents, o \in Options, u \in Users :
                u \in status[d][o] /\ identities[u] = None =>
                  u \in status'[d][o] /\ CheckUserDocumentRuntimeOption(d, o)' = "disabled"]_vars
  <2> SUFFICES ASSUME NEW d \in Documents, NEW o \in Options, NEW u \in Users,
                      u \in status[d][o], identities[u] = None
               PROVE  u \in status'[d][o]
    BY DEF CheckUserDocumentRuntimeOption
  <2>1. CASE status' = status
    BY <2>1
  <2>2. CASE \E c \in Callers, e \in Documents, x \in Options, n \in {"enabled", "disabled"} :
               SetUserDocumentRuntimeOptionStatus(c, e, x, n)
    <3>1. PICK c \in Callers, e \in Documents, x \in Options, n \in {"enabled", "disabled"} :
            SetUserDocumentRuntimeOptionStatus(c, e, x, n)
      BY <2>2
    <3>2. c # u
      BY <3>1, ConstantsAssumption
      DEF SetUserDocumentRuntimeOptionStatus, MayDecide, validateCallerAuthorized
    <3>3. status \in [Documents -> [Options -> SUBSET Callers]]
      BY <1>1 DEF IInv, DocInv, TypeOK
    <3> QED
      BY <3>1, <3>2, <3>3 DEF SetUserDocumentRuntimeOptionStatus
  <2> QED
    BY <1>1, <2>1, <2>2 DEF Next, vars, documentVars, AcceptInvitation, Propose, Resolve,
       PutUserProposal, WithdrawUserProposal, SubmitUserProposalBallot
<1> QED
  BY <1>1, Invariance, PTL DEF Spec, ObjectionStands

(***************************************************************************)
(* The ballot box: the proposals for a document are one ballot at a time.  *)
(***************************************************************************)
LEMMA BoxInitOK == Init => Box!BoxInit
<1> SUFFICES ASSUME Init PROVE Box!BoxInit
  OBVIOUS
<1>1. \A d \in Documents : findOpenUserProposals(d) = {}
  BY DEF Init, findOpenUserProposals
<1>2. Boxes = [d \in Documents |-> {}]
  BY <1>1 DEF Boxes
<1>3. Decisions = [d \in Documents |-> {}]
  BY DEF Init, Decisions
<1> QED BY <1>2, <1>3 DEF Init, Box!BoxInit

\* An open proposal is the only one of its document.
LEMMA OneOpen ==
    ASSUME IInv, NEW p \in ProposalIds, proposals[p] # None, proposals[p].state = "Open"
    PROVE  /\ proposals[p].documentId \in Documents
           /\ findOpenUserProposals(proposals[p].documentId) = {p}
           /\ Boxes[proposals[p].documentId] = {BallotOf(p)}
<1> DEFINE d == proposals[p].documentId
<1>1. d \in Documents
  BY DEF IInv, DocInv, TypeOK, Proposal
<1>2. findOpenUserProposals(d) = {p}
  BY DEF findOpenUserProposals, IInv, DocInv, SettledOnce
<1> HIDE DEF d
<1>3. Boxes[d] = {BallotOf(p)}
  BY <1>1, <1>2 DEF Boxes
<1> QED BY <1>1, <1>2, <1>3 DEF d

ProposalBecomes(p, x) == proposals' = [proposals EXCEPT ![p] = x]
BoxBecomes(d, new) == Boxes' = [Boxes EXCEPT ![d] = new]

\* A step that changes one proposal changes the box of its document only.
LEMMA BoxMoves ==
    ASSUME NEW p \in ProposalIds, NEW d \in Documents, NEW x \in Proposal,
           x # None, x.documentId = d,
           proposals \in [ProposalIds -> Proposal \cup {None}],
           ProposalBecomes(p, x),
           proposals[p] # None => proposals[p].documentId = d,
           findOpenUserProposals(d) \subseteq {p}
    PROVE  /\ x.state = "Open" =>
                BoxBecomes(d, {[document |-> x.document, approvers |-> x.approvers,
                                consents |-> x.ballots]})
           /\ x.state # "Open" => BoxBecomes(d, {})
<1> DEFINE new == IF x.state = "Open"
                  THEN {[document |-> x.document, approvers |-> x.approvers, consents |-> x.ballots]}
                  ELSE {}
<1>1. proposals'[p] = x /\ \A q \in ProposalIds : q # p => proposals'[q] = proposals[q]
  BY DEF ProposalBecomes
<1>2. ASSUME NEW e \in Documents, e # d
      PROVE  {BallotOf(q) : q \in findOpenUserProposals(e)}'
               = {BallotOf(q) : q \in findOpenUserProposals(e)}
  <2>1. findOpenUserProposals(e)' = findOpenUserProposals(e)
    BY <1>1, <1>2 DEF findOpenUserProposals
  <2>2. \A q \in findOpenUserProposals(e) : q # p /\ BallotOf(q)' = BallotOf(q)
    BY <1>1, <1>2 DEF findOpenUserProposals, BallotOf
  <2> QED BY <2>1, <2>2
<1>3. {BallotOf(q) : q \in findOpenUserProposals(d)}' = new
  <2>1. findOpenUserProposals(d)' = IF x.state = "Open" THEN {p} ELSE {}
    BY <1>1 DEF findOpenUserProposals
  <2>2. BallotOf(p)' = [document |-> x.document, approvers |-> x.approvers, consents |-> x.ballots]
    BY <1>1 DEF BallotOf
  <2>3. CASE x.state = "Open"
    BY <2>1, <2>2, <2>3
  <2>4. CASE x.state # "Open"
    BY <2>1, <2>4
  <2> QED BY <2>3, <2>4
<1> HIDE DEF new
<1>4. Boxes' = [Boxes EXCEPT ![d] = new]
  BY <1>2, <1>3 DEF Boxes
<1> QED BY <1>4 DEF new, BoxBecomes


LEMMA PutOpens ==
    ASSUME IInv, NEW c \in Callers, NEW p \in ProposalIds, NEW d \in Documents,
           NEW data \in Contents, NEW approvers \in ApproverLists,
           PutUserProposal(c, p, d, data, approvers)
    PROVE  Box!BoxNext
<1> DEFINE x == [documentId |-> d, document |-> data, approvers |-> approvers,
                 proposerId |-> c, state |-> "Open", ballots |-> {}]
<1>1. /\ proposals[p] = None /\ approvers # {} /\ accepted[d] = None
      /\ findOpenUserProposals(d) = {}
      /\ proposals' = [proposals EXCEPT ![p] = x] /\ UNCHANGED <<accepted, status>>
  BY DEF PutUserProposal, ApproversGiven, ValidateUserDocument
<1>2. approvers \in (SUBSET Callers) \ {{}}
  BY <1>1, ConstantsAssumption
<1>3. x \in Proposal
  BY <1>2 DEF Proposal
<1>4. x # None
  BY <1>3, ConstantsAssumption
<1>5. /\ x.documentId = d /\ x.state = "Open" /\ x.document = data
      /\ x.approvers = approvers /\ x.ballots = {}
  OBVIOUS
<1>6. proposals \in [ProposalIds -> Proposal \cup {None}]
  BY DEF IInv, DocInv, TypeOK
<1> HIDE DEF x
<1> DEFINE b == [document |-> data, approvers |-> approvers, consents |-> {}]
<1>7. Boxes' = [Boxes EXCEPT ![d] = {b}]
  <2>1. ProposalBecomes(p, x)
    BY <1>1 DEF ProposalBecomes
  <2>2. BoxBecomes(d, {[document |-> x.document, approvers |-> x.approvers,
                        consents |-> x.ballots]})
    BY <1>1, <1>3, <1>4, <1>5, <1>6, <2>1, BoxMoves
  <2> QED BY <1>5, <2>2 DEF BoxBecomes
<1>8. b \in Box!NewBallots
  BY <1>2 DEF Box!NewBallots
<1>9. Boxes[d] = {} /\ Decisions[d] = {} /\ UNCHANGED Decisions /\ DOMAIN Boxes = Documents
  BY <1>1 DEF Boxes, Decisions
<1> HIDE DEF b
<1>10. b \in Boxes'[d]
  BY <1>7, <1>9
<1>11. Box!Open(d)
  BY <1>1, <1>7, <1>8, <1>9, <1>10 DEF Box!Open
<1> QED BY <1>11 DEF Box!BoxNext

\* A proposal that is withdrawn or rejected.
LEMMA ClosingCloses ==
    ASSUME IInv, NEW p \in ProposalIds, NEW state \in {"Withdrawn", "Rejected"},
           proposals[p] # None, proposals[p].state = "Open",
           proposals' = [proposals EXCEPT ![p].state = state], UNCHANGED <<accepted, status>>
    PROVE  Box!BoxNext
<1> DEFINE x == [proposals[p] EXCEPT !.state = state]
<1>1. PICK d \in Documents : d = proposals[p].documentId
  BY OneOpen
<1>2. proposals \in [ProposalIds -> Proposal \cup {None}] /\ proposals[p] \in Proposal
  BY DEF IInv, DocInv, TypeOK
<1>3. x \in Proposal
  BY <1>2 DEF Proposal
<1>4. x # None /\ x.documentId = d /\ x.state # "Open"
  BY <1>1, <1>2, <1>3, ConstantsAssumption DEF Proposal
<1>5. proposals' = [proposals EXCEPT ![p] = x]
  OBVIOUS
<1>6. findOpenUserProposals(d) = {p} /\ Boxes[d] = {BallotOf(p)}
  BY <1>1, OneOpen
<1> HIDE DEF x
<1>7. Boxes' = [Boxes EXCEPT ![d] = {}]
  <2>1. ProposalBecomes(p, x)
    BY <1>5 DEF ProposalBecomes
  <2>2. BoxBecomes(d, {})
    BY <1>1, <1>2, <1>3, <1>4, <1>6, <2>1, BoxMoves
  <2> QED BY <2>2 DEF BoxBecomes
<1>8. PICK b \in Boxes[d] : TRUE
  BY <1>6
<1>9. UNCHANGED Decisions
  BY DEF Decisions
<1>10. Box!Close(d, b)
  BY <1>7, <1>9 DEF Box!Close
<1> QED BY <1>8, <1>10 DEF Box!BoxNext

\* A ballot that accepts is a consent, and the last one decides.
LEMMA BallotConsents ==
    ASSUME IInv, NEW c \in Callers, NEW p \in ProposalIds,
           SubmitUserProposalBallot(c, p, "accepted")
    PROVE  Box!BoxNext
<1> DEFINE ballots == proposals[p].ballots \cup {c}
           approvers == proposals[p].approvers
           all == AllBallotsSubmitted(approvers, ballots)
           x == [proposals[p] EXCEPT !.ballots = ballots,
                                     !.state = IF all THEN "Accepted" ELSE "Open"]
<1>1. /\ proposals[p] # None /\ proposals[p].state = "Open"
      /\ c \in approvers /\ c \notin proposals[p].ballots /\ status' = status
  BY DEF SubmitUserProposalBallot
<1>2. proposals \in [ProposalIds -> Proposal \cup {None}] /\ proposals[p] \in Proposal
  BY <1>1 DEF IInv, DocInv, TypeOK
<1>3. PICK d \in Documents : d = proposals[p].documentId
  BY <1>1, OneOpen
<1>4. findOpenUserProposals(d) = {p} /\ Boxes[d] = {BallotOf(p)}
  BY <1>1, <1>3, OneOpen
<1>5. x \in Proposal
  BY <1>2 DEF Proposal
<1>6. /\ x # None /\ x.documentId = d /\ x.document = proposals[p].document
      /\ x.approvers = approvers /\ x.ballots = ballots
      /\ x.state = IF all THEN "Accepted" ELSE "Open"
  BY <1>2, <1>3, <1>5, ConstantsAssumption DEF Proposal
<1>7. proposals' = [proposals EXCEPT ![p] = x]
  <2>1. CASE all
    BY <2>1 DEF SubmitUserProposalBallot
  <2>2. CASE ~all
    <3>1. proposals' = [proposals EXCEPT ![p] = [proposals[p] EXCEPT !.ballots = ballots]]
      BY <2>2 DEF SubmitUserProposalBallot
    <3>2. [proposals[p] EXCEPT !.ballots = ballots] = x
      BY <1>1, <1>2, <2>2 DEF Proposal
    <3> QED BY <3>1, <3>2
  <2> QED BY <2>1, <2>2
<1>8. PICK b \in Boxes[d] :
        b = [document |-> proposals[p].document, approvers |-> approvers,
             consents |-> proposals[p].ballots]
  BY <1>4 DEF BallotOf
<1>9. b.document = proposals[p].document /\ b.approvers = approvers
      /\ b.consents = proposals[p].ballots /\ b.consents \cup {c} = ballots
  BY <1>8
<1>10. ballots \subseteq approvers
  BY <1>1 DEF IInv, DocInv, BallotsOfApprovers
<1>11. all <=> ballots = approvers
  BY <1>10 DEF AllBallotsSubmitted
<1>12. accepted' = IF all THEN [accepted EXCEPT ![d] = Accepted(p, ballots)] ELSE accepted
  BY <1>3 DEF SubmitUserProposalBallot
<1>13. accepted \in [Documents -> AcceptedDocument \cup {None}]
  BY DEF IInv, DocInv, TypeOK
<1> HIDE DEF x
<1>14. ProposalBecomes(p, x)
  BY <1>7 DEF ProposalBecomes
<1>15. CASE ~all
  <2>1. Boxes' = [Boxes EXCEPT ![d] = {Box!Ballot(b.document, b.approvers, b.consents \cup {c})}]
    <3>1. x.state = "Open"
      BY <1>6, <1>15
    <3>2. BoxBecomes(d, {[document |-> x.document, approvers |-> x.approvers,
                          consents |-> x.ballots]})
      BY <1>2, <1>3, <1>4, <1>5, <1>6, <1>14, <3>1, BoxMoves
    <3> QED BY <3>2, <1>6, <1>9 DEF Box!Ballot, BoxBecomes
  <2>2. UNCHANGED Decisions
    BY <1>12, <1>15 DEF Decisions
  <2>3. Box!Consent(d, b, c)
    BY <1>1, <1>9, <1>11, <1>15, <2>1, <2>2 DEF Box!Consent
  <2> QED BY <1>8, <2>3 DEF Box!BoxNext
<1>16. CASE all
  <2>1. Boxes' = [Boxes EXCEPT ![d] = {}]
    <3>1. x.state # "Open"
      BY <1>6, <1>16
    <3>2. BoxBecomes(d, {})
      BY <1>2, <1>3, <1>4, <1>5, <1>6, <1>14, <3>1, BoxMoves
    <3> QED BY <3>2 DEF BoxBecomes
  <2>2. Accepted(p, ballots) \in AcceptedDocument
    BY <1>2, <1>10 DEF Accepted, AcceptedDocument, Proposal
  <2>3. /\ Accepted(p, ballots) # None
        /\ Accepted(p, ballots).document = b.document
        /\ Accepted(p, ballots).approvers = b.approvers
    BY <2>2, <1>9, ConstantsAssumption DEF Accepted
  <2>4. Decisions' = [Decisions EXCEPT ![d] =
                        {[document |-> b.document, approvers |-> b.approvers]}]
    BY <1>12, <1>13, <1>16, <2>3 DEF Decisions
  <2>5. Box!Decide(d, b, c)
    BY <1>1, <1>9, <1>11, <1>16, <2>1, <2>4 DEF Box!Decide
  <2> QED BY <1>8, <2>5 DEF Box!BoxNext
<1> QED BY <1>15, <1>16

LEMMA OptionObjects ==
    ASSUME IInv, NEW c \in Callers, NEW d \in Documents, NEW o \in Options,
           NEW s \in {"enabled", "disabled"}, SetUserDocumentRuntimeOptionStatus(c, d, o, s)
    PROVE  Box!BoxNext
<1>1. /\ accepted[d] # None /\ c \in accepted[d].approvers
      /\ UNCHANGED <<proposals, accepted>>
      /\ status' = [status EXCEPT ![d][o] = IF s = "disabled" THEN @ \cup {c} ELSE @ \ {c}]
  BY DEF SetUserDocumentRuntimeOptionStatus, MayDecide
<1>2. PICK x \in Decisions[d] :
        x = [document |-> accepted[d].document, approvers |-> accepted[d].approvers]
  BY <1>1 DEF Decisions
<1>3. c \in x.approvers
  BY <1>1, <1>2
<1>4. UNCHANGED <<Boxes, Decisions>>
  <2>1. UNCHANGED Boxes
    BY <1>1 DEF Boxes, BallotOf, findOpenUserProposals
  <2>2. UNCHANGED Decisions
    BY <1>1 DEF Decisions
  <2> QED BY <2>1, <2>2
<1>5. Box!Object(d, o, c) \/ Box!Lift(d, o, c)
  <2>1. CASE s = "disabled"
    BY <1>1, <1>4, <2>1 DEF Box!Object
  <2>2. CASE s = "enabled"
    BY <1>1, <1>4, <2>2 DEF Box!Lift
  <2> QED BY <2>1, <2>2
<1> QED BY <1>2, <1>3, <1>5 DEF Box!BoxNext

LEMMA BoxStep == IInv /\ [Next]_vars => [Box!BoxNext]_(Box!boxVars)
<1> SUFFICES ASSUME IInv, [Next]_vars PROVE Box!BoxNext \/ UNCHANGED Box!boxVars
  OBVIOUS
<1>1. UNCHANGED documentVars => UNCHANGED Box!boxVars
  BY DEF documentVars, Box!boxVars, Boxes, BallotOf, findOpenUserProposals, Decisions
<1>2. ASSUME NEW u \in Users, NEW i \in Invitations, AcceptInvitation(u, i)
      PROVE  UNCHANGED Box!boxVars
  BY <1>1, <1>2 DEF AcceptInvitation
<1>3. ASSUME NEW a \in GovActions, Propose(a) PROVE UNCHANGED Box!boxVars
  BY <1>1, <1>3 DEF Propose
<1>4. ASSUME NEW a \in gov, Resolve(a) PROVE UNCHANGED Box!boxVars
  BY <1>1, <1>4 DEF Resolve
<1>5. ASSUME NEW c \in Callers, NEW p \in ProposalIds, WithdrawUserProposal(c, p)
      PROVE  Box!BoxNext
  BY <1>5, ClosingCloses DEF WithdrawUserProposal
<1>6. ASSUME NEW c \in Callers, NEW p \in ProposalIds, SubmitUserProposalBallot(c, p, "rejected")
      PROVE  Box!BoxNext
  BY <1>6, ClosingCloses DEF SubmitUserProposalBallot
<1>7. CASE UNCHANGED vars
  BY <1>1, <1>7 DEF vars
<1> QED BY <1>2, <1>3, <1>4, <1>5, <1>6, <1>7, PutOpens, BallotConsents, OptionObjects DEF Next

\* The user proposals, ballots and runtime options of CGS are a ballot box per document: one
\* ballot at a time, decided once by all the approvers it names, and then open to the
\* objection of each of them, for any number of proposals, users and documents.
THEOREM DocumentsAreBallotBoxes == Spec => ImplementsBox
<1>1. Spec => Box!BoxInit /\ [][Box!BoxNext]_(Box!boxVars)
  BY BoxInitOK, BoxStep, Invariance, PTL DEF Spec
<1> QED BY <1>1 DEF ImplementsBox, Box!BoxSpec
=============================================================================
