----------------------------- MODULE MCJobRecord -----------------------------
(***************************************************************************)
(* Instances of JobRecord for TLC.                                         *)
(***************************************************************************)
EXTENDS JobRecord, TLC

CONSTANTS f1, f2  \* replicas
CONSTANTS r1, r2, r3  \* runs

MCSymmetry == Permutations(Replicas) \cup Permutations(Runs)
=============================================================================
