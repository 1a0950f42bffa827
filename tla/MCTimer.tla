------------------------------ MODULE MCTimer ------------------------------
(* The instances TLC checks: two single shots and an interval, so that one *)
(* timer's callback can act on a timer of each kind.                       *)
EXTENDS Timer

CONSTANTS s1, s2, i1
=============================================================================
