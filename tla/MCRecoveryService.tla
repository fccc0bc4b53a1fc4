-------------------------- MODULE MCRecoveryService --------------------------
(***************************************************************************)
(* A small recovery service for TLC: two requests on one copy and one on   *)
(* another, one member, three key pairs.                                   *)
(***************************************************************************)
EXTENDS RecoveryService, TLC

CONSTANTS i1, i2, r1, r2, r3, a1, a2

MCInstanceOf == (r1 :> i1) @@ (r2 :> i1) @@ (r3 :> i2)
MCInitialPolicy == {a1}

(* r1 and r2 are slots of the same copy. *)
MCSymmetry == Permutations(Keys) \cup Permutations({r1, r2})

=============================================================================
