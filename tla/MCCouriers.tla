----------------------------- MODULE MCCouriers -----------------------------
(* The instance TLC checks: two subscribers, so that one is the first to   *)
(* list itself, two publishers, and one thing to connect to beside "".     *)
EXTENDS Couriers

CONSTANTS o1, o2, a1, a2, t1
=============================================================================
