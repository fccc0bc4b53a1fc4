CONSTANTS
    m1 = m1
    u1 = u1
    u2 = u2
    i1 = i1
    d1 = d1
    v1 = v1
    p1 = p1
    p2 = p2
    None = None
    Members <- MCMembers
    Users <- MCUsers
    Invitations <- MCInvitations
    Documents <- MCDocuments
    Options <- MCOptions
    Contents <- MCContents
    ProposalIds <- MCProposalIds
    ApproverLists <- MCApproverLists
    MaxGov = 1
SPECIFICATION Spec
SYMMETRY MCSymmetry
INVARIANTS
    TypeOK
    SettledOnce
    Unanimous
    OneUserPerInvitation
PROPERTIES
    AcceptedForGood
    ObjectionStands
    ImplementsBox
