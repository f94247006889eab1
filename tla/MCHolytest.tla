----------------------------- MODULE MCHolytest ------------------------------
(* Instances of Holytest for TLC. *)
EXTENDS Holytest, TLC

Alike == Permutations(Buf)
=============================================================================
