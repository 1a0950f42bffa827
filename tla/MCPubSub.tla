------------------------------ MODULE MCPubSub ------------------------------
(* The instance TLC checks: two values of the type, one of another, one    *)
(* too long, and a pipe of two messages for three that are sent.           *)
EXTENDS PubSub

CONSTANTS s1, v0, v1, foreign, long
=============================================================================
