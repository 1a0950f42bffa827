------------------------------ MODULE MCConfig ------------------------------
(* The instance TLC checks: one key beside "_created", one value, so that  *)
(* a document can grow and shrink and an older text can be longer.         *)
EXTENDS Config, FiniteSets

CONSTANTS created, other, value

MCSize == [d \in Docs |-> 1 + Cardinality({k \in Keys : d[k] # Absent})]
=============================================================================
