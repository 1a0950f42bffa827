------------------------------- MODULE PubSub -------------------------------
(***************************************************************************)
(* AppIO/Publisher.hpp and AppIO/Subscriber.hpp at work: one publisher and *)
(* the subscribers connected to it, each in a process of its own.          *)
(*                                                                         *)
(* Between them are ZeroMQ's PUB and SUB sockets.  A subscriber is sent to *)
(* from the moment the publisher has its subscription; its pipe keeps the  *)
(* order, and what does not fit into it is dropped without a word.  azmq   *)
(* completes each async_receive with the next message in _buf, or with an  *)
(* error when the message is longer than _buf.  The chains of receives     *)
(* that several setCallback()s start share _buf.                           *)
(*                                                                         *)
(* A message is its index in the sequence of all that was ever sent.       *)
(***************************************************************************)
EXTENDS Integers, Sequences

CONSTANTS
    Subscribers,
    Proper,      (* values of the subscribers' type T                      *)
    Foreign,     (* values of another type: parse() or get<T>() throws     *)
    Long,        (* values whose text is longer than the 256 bytes of _buf *)
    Initial,     (* the subscribers' initialValue                          *)
    Capacity,    (* ZeroMQ's high-water mark                               *)
    MaxSent,     (* bound: how many values are sent                        *)
    MaxCalls     (* bound: the setCallback()s of a subscriber              *)

Values == Proper \cup Foreign \cup Long

ASSUME PubSubAssumption ==
    /\ Initial \in Proper
    /\ Proper \cap (Foreign \cup Long) = {}
    /\ Foreign \cap Long = {}
    /\ Capacity \in Nat \ {0}
    /\ MaxSent \in Nat /\ MaxCalls \in Nat

VARIABLES
    up,          (* the publisher's process runs                           *)
    sent,        (* history: the values sent, by every publisher process   *)
    joined,      (* the subscribers the publisher knows of                 *)
    pipe,        (* the messages on their way to each subscriber           *)
    alive,       (* the subscribers whose process runs                     *)
    calls,       (* history: the setCallback()s of that process            *)
    waiting,     (* its pending async_receives                             *)
    queue,       (* the messages received whose handlers are queued        *)
    buf,         (* the message in _buf                                    *)
    last,        (* _lastState                                             *)
    taken,       (* history: the last message that became _lastState       *)
    missed       (* history: the subscribers that do not get the latest    *)

publisher == <<up, sent>>
process == <<alive, calls>>
vars == <<publisher, joined, pipe, process, waiting, queue, buf, last, taken, missed>>

Init ==
    /\ up = FALSE /\ sent = << >> /\ joined = {}
    /\ pipe = [s \in Subscribers |-> << >>]
    /\ alive = {} /\ calls = [s \in Subscribers |-> 0]
    /\ waiting = [s \in Subscribers |-> 0]
    /\ queue = [s \in Subscribers |-> << >>]
    /\ buf = [s \in Subscribers |-> 0]
    /\ last = [s \in Subscribers |-> Initial]
    /\ taken = [s \in Subscribers |-> 0]
    /\ missed = {}

-----------------------------------------------------------------------------
(* The publisher. *)

StartPublisher ==
    /\ ~up
    /\ up' = TRUE
    /\ UNCHANGED <<sent, joined, pipe, process, waiting, queue, buf, last, taken, missed>>

Reached == {s \in joined : Len(pipe[s]) < Capacity}

(* send(): the PUB socket never waits for a subscriber. *)
Send(v) ==
    /\ up /\ Len(sent) < MaxSent
    /\ sent' = Append(sent, v)
    /\ pipe' = [s \in Subscribers |->
                  IF s \in Reached THEN Append(pipe[s], Len(sent) + 1) ELSE pipe[s]]
    /\ missed' = Subscribers \ Reached
    /\ UNCHANGED <<up, joined, process, waiting, queue, buf, last, taken>>

(* The end of its process, with the end of what is still on its way. *)
StopPublisher ==
    /\ up
    /\ up' = FALSE
    /\ joined' = {}
    /\ \E kept \in [Subscribers -> 0..Capacity] :
          /\ \A s \in Subscribers : kept[s] <= Len(pipe[s])
          /\ pipe' = [s \in Subscribers |-> SubSeq(pipe[s], 1, kept[s])]
          /\ missed' = missed \cup {s \in Subscribers : kept[s] < Len(pipe[s])}
    /\ UNCHANGED <<sent, process, waiting, queue, buf, last, taken>>

-----------------------------------------------------------------------------
(* A subscriber. *)

(* The constructor, with an address to connect to in the configuration. *)
StartSubscriber(s) ==
    /\ s \notin alive
    /\ alive' = alive \cup {s}
    /\ last' = [last EXCEPT ![s] = Initial]
    /\ UNCHANGED <<publisher, joined, pipe, calls, waiting, queue, buf, taken, missed>>

(* ZeroMQ connects in the background, again and again. *)
Join(s) ==
    /\ up /\ s \in alive \ joined
    /\ joined' = joined \cup {s}
    /\ UNCHANGED <<publisher, pipe, process, waiting, queue, buf, last, taken, missed>>

SetCallback(s) ==
    /\ s \in alive /\ calls[s] < MaxCalls
    /\ calls' = [calls EXCEPT ![s] = @ + 1]
    /\ waiting' = [waiting EXCEPT ![s] = @ + 1]
    /\ UNCHANGED <<publisher, joined, pipe, alive, queue, buf, last, taken, missed>>

(* A pending receive gets the next message in _buf and queues its handler. *)
Receive(s) ==
    /\ waiting[s] > 0 /\ pipe[s] # << >>
    /\ waiting' = [waiting EXCEPT ![s] = @ - 1]
    /\ pipe' = [pipe EXCEPT ![s] = Tail(@)]
    /\ queue' = [queue EXCEPT ![s] = Append(@, Head(pipe[s]))]
    /\ buf' = [buf EXCEPT ![s] = Head(pipe[s])]
    /\ UNCHANGED <<publisher, joined, process, last, taken, missed>>

(* What the first handler of the queue finds in its part of _buf.  When    *)
(* another receive has written there that is a splice of two texts: it     *)
(* parses as any value, or as none.                                        *)
Own(s) == buf[s] = Head(queue[s])
Found(s) == IF Own(s) THEN {sent[buf[s]]} ELSE Proper \cup Foreign

(* Mutant of Parsed: what does not parse is taken as it is. *)
ParsedAlways(v) == TRUE

(* parse().get<T>() does not throw. *)
Parsed(v) == v \in Proper

(* Mutant of NewState: _lastState is not assigned. *)
NewStateForgotten(s, v) == last[s]

NewState(s, v) == v

(* Mutants of Again: the next async_receive only after a value that        *)
(* differs; one before the callback and one after it.                      *)
AgainIfNew(s, v) == waiting[s] + IF v = last[s] THEN 0 ELSE 1

AgainTwice(s, v) == waiting[s] + 2

Again(s, v) == waiting[s] + 1

(* A value other than _lastState becomes it and goes to the callback; the  *)
(* next message is awaited.                                                *)
Take(s) ==
    \E v \in Found(s) :
        /\ Parsed(v)
        /\ last' = [last EXCEPT ![s] = NewState(s, v)]
        /\ waiting' = [waiting EXCEPT ![s] = Again(s, v)]
        /\ taken' = [taken EXCEPT ![s] = Head(queue[s])]
        /\ queue' = [queue EXCEPT ![s] = Tail(@)]
        /\ UNCHANGED <<joined, pipe, process, buf, missed>>

(* The handler is left without another async_receive, as on an error. *)
GoDeaf(s) ==
    /\ queue' = [queue EXCEPT ![s] = Tail(@)]
    /\ missed' = IF Head(queue[s]) = Len(sent) THEN missed \cup {s} ELSE missed
    /\ UNCHANGED <<joined, pipe, process, waiting, buf, last, taken>>

(* The process of s is gone, with whatever was on its way to it. *)
End(s) ==
    /\ alive' = alive \ {s}
    /\ calls' = [calls EXCEPT ![s] = 0]
    /\ joined' = joined \ {s}
    /\ pipe' = [pipe EXCEPT ![s] = << >>]
    /\ waiting' = [waiting EXCEPT ![s] = 0]
    /\ queue' = [queue EXCEPT ![s] = << >>]
    /\ buf' = [buf EXCEPT ![s] = 0]
    /\ missed' = missed \cup {s}
    /\ UNCHANGED <<last, taken>>

(* An exception leaves run() and ends the process, or the application      *)
(* catches it and runs on with one chain of receives fewer.                *)
Throw(s) == (\E v \in Found(s) : ~Parsed(v)) /\ (End(s) \/ GoDeaf(s))

(* onCallback(). *)
Handle(s) ==
    /\ queue[s] # << >>
    /\ IF sent[Head(queue[s])] \in Long THEN GoDeaf(s) ELSE Take(s) \/ Throw(s)
    /\ UNCHANGED publisher

StopSubscriber(s) ==
    /\ s \in alive
    /\ End(s)
    /\ UNCHANGED publisher

Next ==
    \/ StartPublisher \/ StopPublisher
    \/ \E v \in Values : Send(v)
    \/ \E s \in Subscribers :
          \/ StartSubscriber(s) \/ Join(s) \/ SetCallback(s)
          \/ Receive(s) \/ Handle(s) \/ StopSubscriber(s)

Spec == Init /\ [][Next]_vars

(* The loop of a subscriber that runs completes its async_receive and runs *)
(* its handler; applications start, stop, send and connect as they like.   *)
FairSpec ==
    Spec /\ \A s \in Subscribers : WF_vars(Receive(s)) /\ WF_vars(Handle(s))

-----------------------------------------------------------------------------
(* Properties. *)

(* Every variable stays in its set: what becomes _lastState is of type T,  *)
(* and no chain of receives ever splits in two.                            *)
TypeOK ==
    /\ up \in BOOLEAN
    /\ sent \in Seq(Values)
    /\ joined \in SUBSET alive /\ alive \in SUBSET Subscribers
    /\ pipe \in [Subscribers -> Seq(Nat \ {0})]
    /\ calls \in [Subscribers -> 0..MaxCalls]
    /\ waiting \in [Subscribers -> 0..MaxCalls]
    /\ queue \in [Subscribers -> Seq(Nat \ {0})]
    /\ \A s \in Subscribers : waiting[s] + Len(queue[s]) <= calls[s]
    /\ buf \in [Subscribers -> Nat]
    /\ last \in [Subscribers -> Proper]
    /\ taken \in [Subscribers -> Nat]
    /\ missed \in SUBSET Subscribers

Idle(s) == waiting[s] > 0 /\ queue[s] = << >> /\ pipe[s] = << >>

(* A subscriber with nothing left to read holds the publisher's latest     *)
(* value, unless that very value was sent while it could not be reached,   *)
(* or was lost with a process.  No later value is needed to get there,     *)
(* dropping an earlier one does not matter, and neither does a second      *)
(* chain of receives: whatever splice one of them reads, the last handler  *)
(* finds its own message.                                                  *)
HoldsTheLatest ==
    \A s \in Subscribers \ missed :
        Idle(s) => last[s] = IF sent = << >> THEN Initial ELSE sent[Len(sent)]

Deaf(s) == waiting[s] = 0 /\ queue[s] = << >> /\ buf[s] > 0 /\ sent[buf[s]] \notin Proper

(* Once the publisher pauses, a subscriber that waits reads all it was     *)
(* sent: it goes on until its process ends, or messages that it cannot     *)
(* read, the last received among them, have ended its receiving.           *)
ReadsItAll ==
    \A s \in Subscribers : waiting[s] > 0 ~> Idle(s) \/ Deaf(s) \/ s \notin alive

TheFeed == INSTANCE Feed WITH view <- taken, state <- last

(* A handler that is not the last of its queue finds another text than     *)
(* its message's, which parses as some value.                              *)
Splices(s) ==
    /\ calls[s] > 1 /\ queue[s] # << >> /\ ~Own(s)
    /\ Head(queue[s]) > taken[s]
    /\ taken' = [taken EXCEPT ![s] = Head(queue[s])]
    /\ \E v \in Proper : last' = [last EXCEPT ![s] = v]
    /\ UNCHANGED sent

(* What a subscriber holds are values of the publisher in the order sent,  *)
(* none twice, across restarts of either side.  Only one on which          *)
(* setCallback() was called more than once may ever take a splice, and     *)
(* then in the place of a later message than it took before.               *)
ImplementsFeed ==
    /\ TheFeed!Init
    /\ [][TheFeed!Next \/ \E s \in Subscribers : Splices(s)]_<<sent, taken, last>>
=============================================================================
