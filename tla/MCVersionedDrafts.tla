-------------------------- MODULE MCVersionedDrafts --------------------------
(***************************************************************************)
(* An instance of VersionedDrafts: two members and a contract.           *)
(***************************************************************************)
EXTENDS VersionedDrafts, TLC

CONSTANTS m1, m2, c1

MCSymmetry == Permutations(Members)
=============================================================================
