---------------------------- MODULE MCEncryptor ----------------------------
(***************************************************************************)
(* Instances of Encryptor for TLC.  The sizes are the ones the code uses,   *)
(* with blocks of 1 MB: they only enter arithmetic.                         *)
(***************************************************************************)
EXTENDS Encryptor, TLC

CONSTANTS w1, w2, d1

MCWorkers == {w1, w2}
MCSymmetry == Permutations(MCWorkers)
MCData == {d1}
MCLengths == {1, 1048576}
=============================================================================
