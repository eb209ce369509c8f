---------------------------- MODULE MCUserTable ----------------------------
(***************************************************************************)
(* UserTable for TLC.  The calls in flight are alike.                      *)
(***************************************************************************)
EXTENDS UserTable, TLC

JobSymmetry == Permutations(Jobs)
=============================================================================
