--------------------------- MODULE MCSharedConfig ---------------------------
(* The instance TLC checks: two processes, and documents of three lengths, *)
(* so that a shorter text is written over a longer one of the other's.     *)
EXTENDS SharedConfig, FiniteSets

CONSTANTS p1, p2, created, other, value

MCSize == [d \in Docs |-> 1 + Cardinality({k \in Keys : d[k] # Absent})]
=============================================================================
