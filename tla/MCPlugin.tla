------------------------------ MODULE MCPlugin ------------------------------
(* Plugin for TLC: two modules, three server interfaces in a row (two map  *)
(* changes) and one foreign one.                                           *)
EXTENDS Plugin, TLC

CONSTANTS m1, m2, s1, s2, s3, f1
=============================================================================
