-------------------------------- MODULE Feed --------------------------------
(***************************************************************************)
(* What a publisher and its subscribers promise: each subscriber holds a   *)
(* value of the publisher's and only moves forward among them.  It may     *)
(* skip values, and nothing says that it ever gets to the last one.        *)
(***************************************************************************)
EXTENDS Integers, Sequences

CONSTANTS
    Subscribers,
    Values,      (* what a publisher can send                              *)
    Initial      (* what a subscriber holds before the first value         *)

VARIABLES
    sent,        (* every value sent so far                                *)
    view,        (* which of them each subscriber looked at last           *)
    state        (* the value it holds                                     *)

vars == <<sent, view, state>>

Init ==
    /\ sent = << >>
    /\ view = [s \in Subscribers |-> 0]
    /\ state = [s \in Subscribers |-> Initial]

Publish ==
    /\ \E v \in Values : sent' = Append(sent, v)
    /\ UNCHANGED <<view, state>>

Observe(s) ==
    /\ \E n \in view[s] + 1 .. Len(sent) :
          /\ view' = [view EXCEPT ![s] = n]
          /\ state' = [state EXCEPT ![s] = sent[n]]
    /\ UNCHANGED sent

(* A subscriber that starts again holds no value yet. *)
Restart(s) ==
    /\ state' = [state EXCEPT ![s] = Initial]
    /\ UNCHANGED <<sent, view>>

Next == Publish \/ \E s \in Subscribers : Observe(s) \/ Restart(s)

Spec == Init /\ [][Next]_vars
=============================================================================
