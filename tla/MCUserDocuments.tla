--------------------------- MODULE MCUserDocuments ---------------------------
(***************************************************************************)
(* One member and two users, an invitation, and a document that is proposed *)
(* twice.                                                                  *)
(***************************************************************************)
EXTENDS UserDocuments, TLC

CONSTANTS m1, u1, u2, i1, d1, v1, p1, p2

MCMembers == {m1}
MCUsers == {u1, u2}
MCInvitations == {i1}
MCDocuments == {d1}
MCOptions == {"execution"}
MCContents == {v1}
MCProposalIds == {p1, p2}
MCApproverLists == {{}, {m1, u1}, {u1}}
MCSymmetry == Permutations({p1, p2})
=============================================================================
