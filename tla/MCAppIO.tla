------------------------------ MODULE MCAppIO ------------------------------
(* The instance TLC checks: two subscribers, so that one can be dropped    *)
(* while the other serves, a timer that can hold either of them or the     *)
(* configuration, and a second configuration after a stop.                 *)
EXTENDS AppIO

CONSTANTS s1, s2, t1, c1, c2
=============================================================================
