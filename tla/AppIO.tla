------------------------------- MODULE AppIO -------------------------------
(***************************************************************************)
(* AppIO/AppIO.hpp: stop() and destruct() against everything that          *)
(* registers with addDestructor(): subscribers, timers, the configuration. *)
(*                                                                         *)
(* A destructor function, a pending receive and a running callback reach   *)
(* their object by a raw this.  What keeps it alive is its owner, its own  *)
(* _self (not a subscriber's), or the callback of a timer that holds it.   *)
(* The first use of an object that is freed, or of a socket that a stop()  *)
(* has reset, is recorded in fault; what follows is undefined.             *)
(*                                                                         *)
(* Of a timer's own handlers, module Timer's subject, only the outcome is  *)
(* here: that it lets go of itself.  A callback holds at most one object,  *)
(* and never a timer.                                                      *)
(***************************************************************************)
EXTENDS Integers, Sequences

CONSTANTS
    Subscribers,
    Timers,
    Configs,     (* the Config objects there can be, one after another     *)
    Nobody,      (* no object                                              *)
    MaxStops     (* bound: how often stop() is called                      *)

Selfish == Timers \cup Configs
Objects == Subscribers \cup Selfish

ASSUME AppIOAssumption ==
    /\ Subscribers \cap Selfish = {} /\ Timers \cap Configs = {}
    /\ Nobody \notin Objects
    /\ MaxStops \in Nat

VARIABLES
    functions,   (* _destructFunctions: the objects in the order they      *)
                 (* registered                                             *)
    built,       (* the objects whose constructor returned                 *)
    owner,       (* the application holds it                               *)
    self,        (* _self holds it                                         *)
    captured,    (* what the callback of a timer holds now                 *)
    socket,      (* the subscribers whose _subscriber is not null          *)
    receive,     (* of each subscriber: "none", "pending", or "read" with  *)
                 (* its handler queued                                     *)
    running,     (* the subscriber whose callback runs                     *)
    stops,       (* the stop()s so far                                     *)
    position,    (* where in functions destruct() is, 0 outside            *)
    fault,       (* the first undefined use, and where                     *)
    doomed       (* history: the objects in functions that the last stop() *)
                 (* was not to spare when it began                         *)

heap == <<functions, built, owner, self, captured>>
loop == <<socket, receive, running>>
stopping == <<stops, position, doomed>>
vars == <<heap, loop, stopping, fault>>

Sites == {"destructor", "receive", "handler", "aborted", "rearm"}
NoFault == [object |-> Nobody, site |-> "none"]

Fails(o, where) == fault' = [object |-> o, site |-> where]
Sound == fault = NoFault

Registered(o) == \E i \in DOMAIN functions : functions[i] = o
Held(o) == o \in built /\ (owner[o] \/ self[o])
Alive(o) == Held(o) \/ (o \in built /\ \E t \in Timers : captured[t] = o /\ Held(t))

(* The function of p is called before that of o. *)
Before(p, o) == \E i, j \in DOMAIN functions : i < j /\ functions[i] = p /\ functions[j] = o

(* Until its function is called o is held: by more than the callbacks of   *)
(* timers that nobody owns and whose turn comes first.                     *)
Spared(o) ==
    /\ o \in built
    /\ \/ Held(o)
       \/ \E t \in Timers :
             captured[t] = o /\ (owner[t] \/ (self[t] /\ ~Before(t, o)))

Init ==
    /\ functions = << >> /\ built = {}
    /\ owner = [o \in Objects |-> FALSE]
    /\ self = [o \in Objects |-> FALSE]
    /\ captured = [t \in Timers |-> Nobody]
    /\ socket = {} /\ receive = [s \in Subscribers |-> "none"] /\ running = Nobody
    /\ stops = 0 /\ position = 0 /\ doomed = {}
    /\ fault = NoFault

-----------------------------------------------------------------------------
(* The application, in a callback, before run() or after it. *)

Free == Sound /\ position = 0

(* Mutant of Selves: Config::get() leaves _self empty. *)
SelvesOfTimers(os) == os \cap Timers

Selves(os) == os \cap Selfish

(* Constructors register os, all but failed return, and the application    *)
(* holds mine. *)
Construct(os, failed, mine) ==
    LET new == {os[i] : i \in DOMAIN os} \ failed IN
        /\ functions' = functions \o os
        /\ built' = built \cup new
        /\ owner' = [o \in Objects |-> owner[o] \/ o \in mine]
        /\ self' = [o \in Objects |-> self[o] \/ o \in Selves(new)]

(* Config::get(): the one that is alive, or else a new one. *)
Obtained(c) == IF \E d \in Configs : Alive(d) THEN Alive(c) ELSE c \notin built

(* Mutant of NewConfig: get() registers, not the constructor. *)
NewConfigAgain(c) == <<c>>

NewConfig(c) == IF c \in built THEN << >> ELSE <<c>>

(* By the application, which holds it, or by a publisher's constructor,    *)
(* which does not.                                                         *)
Get(c) ==
    /\ Free /\ Obtained(c)
    /\ \E mine \in {{}, {c}} : Construct(NewConfig(c), {}, mine)
    /\ UNCHANGED <<captured, loop, stopping, fault>>

(* Mutant of Socket: only subscribeTo() makes one. *)
SocketIfConnected(s) == socket' \in {socket, socket \cup {s}}

Socket(s) == socket' = socket \cup {s}

(* Subscriber(): it registers first, then gets the configuration, and may  *)
(* throw at what it finds there, or when there is none and none can be     *)
(* made.                                                                   *)
NewSubscriber(s, c) ==
    /\ Free /\ ~Registered(s) /\ Obtained(c)
    /\ \/ Construct(<<s>> \o NewConfig(c), {}, {s}) /\ Socket(s)
       \/ Construct(<<s>> \o NewConfig(c), {s}, {}) /\ UNCHANGED socket
       \/ c \notin built /\ Construct(<<s>>, {s}, {}) /\ UNCHANGED socket
    /\ UNCHANGED <<captured, receive, running, stopping, fault>>

(* A callback is given something that is there, or nothing. *)
Holds(t) ==
    \E o \in {Nobody} \cup {p \in Subscribers \cup Configs : Alive(p)} :
        captured' = [captured EXCEPT ![t] = o]

NewTimer(t) ==
    /\ Free /\ t \notin built
    /\ Construct(<<t>>, {}, {t}) /\ Holds(t)
    /\ UNCHANGED <<loop, stopping, fault>>

(* A callback comes to hold something else, which may be younger than its  *)
(* timer: a mutable lambda that makes a subscriber on its first tick.      *)
Capture(t) ==
    /\ Free /\ Held(t) /\ Holds(t)
    /\ UNCHANGED <<functions, built, owner, self, loop, stopping, fault>>

Drop(o) ==
    /\ Free /\ owner[o]
    /\ owner' = [owner EXCEPT ![o] = FALSE]
    /\ UNCHANGED <<functions, built, self, captured, loop, stopping, fault>>

(* A timer is cancelled, or fires as a single shot. *)
LetGo(t) ==
    /\ Free /\ self[t]
    /\ self' = [self EXCEPT ![t] = FALSE]
    /\ UNCHANGED <<functions, built, owner, captured, loop, stopping, fault>>

(* setCallback(), once. *)
SetCallback(s) ==
    /\ Free /\ Alive(s) /\ receive[s] = "none" /\ running # s
    /\ \/ s \in socket /\ receive' = [receive EXCEPT ![s] = "pending"] /\ UNCHANGED fault
       \/ s \notin socket /\ Fails(s, "receive") /\ UNCHANGED receive
    /\ UNCHANGED <<heap, socket, running, stopping>>

-----------------------------------------------------------------------------
(* The loop. *)

Turn == Free /\ running = Nobody /\ stops = 0

Receive(s) ==
    /\ Turn /\ receive[s] = "pending" /\ Alive(s)
    /\ receive' = [receive EXCEPT ![s] = "read"]
    /\ UNCHANGED <<heap, socket, running, stopping, fault>>

(* onCallback(), up to the callback. *)
Callback(s) ==
    /\ Turn /\ receive[s] = "read"
    /\ receive' = [receive EXCEPT ![s] = "none"]
    /\ \/ Alive(s) /\ running' = s /\ UNCHANGED fault
       \/ ~Alive(s) /\ Fails(s, "handler") /\ UNCHANGED running
    /\ UNCHANGED <<heap, socket, stopping>>

(* A socket is destroyed with a receive pending: azmq may forget its       *)
(* handler or run it with an error, and then it asks the subscriber        *)
(* whether it is destructing.                                              *)
Aborted(s) ==
    /\ Turn /\ receive[s] = "pending" /\ ~Alive(s)
    /\ receive' = [receive EXCEPT ![s] = "none"]
    /\ UNCHANGED fault \/ Fails(s, "aborted")
    /\ UNCHANGED <<heap, socket, running, stopping>>

(* onCallback() after the callback, which may have stopped the             *)
(* application, or let go of the subscriber.                               *)
Return(s) ==
    /\ Free /\ running = s
    /\ running' = Nobody
    /\ \/ /\ Alive(s) /\ s \in socket
          /\ receive' = [receive EXCEPT ![s] = "pending"] /\ UNCHANGED fault
       \/ /\ ~(Alive(s) /\ s \in socket)
          /\ Fails(s, "rearm") /\ UNCHANGED receive
    /\ UNCHANGED <<heap, socket, stopping>>

-----------------------------------------------------------------------------
(* stop(). *)

Stop ==
    /\ Free /\ stops < MaxStops
    /\ stops' = stops + 1
    /\ position' = 1
    /\ doomed' = {o \in Objects : Registered(o) /\ ~Spared(o)}
    /\ UNCHANGED <<heap, loop, fault>>

(* Mutants of Turned: the functions are called in the reverse order; every *)
(* function is called twice and the last ones are not.                     *)
TurnedBack == functions[Len(functions) + 1 - position]

TurnedTwice == functions[(position + 1) \div 2]

(* The object whose function destruct() calls next. *)
Turned == functions[position]

(* A subscriber cancels and resets its socket, the others reset _self. *)
Destruct ==
    /\ Sound /\ position \in DOMAIN functions
    /\ position' = position + 1
    /\ LET o == Turned IN
          \/ /\ Alive(o) /\ o \in Selfish
             /\ self' = [self EXCEPT ![o] = FALSE]
             /\ UNCHANGED <<socket, fault>>
          \/ /\ Alive(o) /\ o \in socket
             /\ socket' = socket \ {o}
             /\ UNCHANGED <<self, fault>>
          \/ /\ ~(Alive(o) /\ o \in Selfish \cup socket)
             /\ Fails(o, "destructor")
             /\ UNCHANGED <<self, socket>>
    /\ UNCHANGED <<functions, built, owner, captured, receive, running, stops, doomed>>

Destructed ==
    /\ Sound /\ position > Len(functions)
    /\ position' = 0
    /\ UNCHANGED <<heap, loop, stops, doomed, fault>>

Next ==
    \/ \E c \in Configs : Get(c) \/ \E s \in Subscribers : NewSubscriber(s, c)
    \/ \E t \in Timers : NewTimer(t) \/ Capture(t) \/ LetGo(t)
    \/ \E o \in Objects : Drop(o)
    \/ \E s \in Subscribers :
          SetCallback(s) \/ Receive(s) \/ Callback(s) \/ Aborted(s) \/ Return(s)
    \/ Stop \/ Destruct \/ Destructed

Spec == Init /\ [][Next]_vars

-----------------------------------------------------------------------------
(* Properties. *)

(* Every variable stays in its set; nothing registers twice. *)
TypeOK ==
    /\ functions \in Seq(Objects)
    /\ \A i, j \in DOMAIN functions : functions[i] = functions[j] => i = j
    /\ built \in SUBSET Objects
    /\ owner \in [Objects -> BOOLEAN] /\ self \in [Objects -> BOOLEAN]
    /\ captured \in [Timers -> Subscribers \cup Configs \cup {Nobody}]
    /\ socket \in SUBSET Subscribers
    /\ receive \in [Subscribers -> {"none", "pending", "read"}]
    /\ running \in Subscribers \cup {Nobody}
    /\ stops \in 0..MaxStops /\ position \in 0 .. Len(functions) + 1
    /\ fault \in [object : Objects, site : Sites] \cup {NoFault}
    /\ doomed \in SUBSET Objects

(* destruct() lets go of the timers one by one, and with a timer goes what *)
(* only its callback holds.  Whether the first stop() calls a function of  *)
(* a freed object is settled when it begins: it does exactly if something  *)
(* registered is freed by then, or is held only by the callbacks of timers *)
(* that nobody owns and that registered before it.                         *)
FirstStopSettled ==
    stops = 1 =>
        /\ fault.site = "destructor" => fault.object \in doomed
        /\ Sound /\ position > Len(functions) => doomed = {}

(* The other undefined uses.  A subscriber that its owner keeps is safe    *)
(* from its own handlers as long as nobody calls stop(); after it nobody   *)
(* can receive.                                                            *)
Explains(o, site) ==
    CASE site = "handler"    -> ~owner[o]
      [] site = "aborted"    -> ~owner[o]
      [] site = "rearm"      -> ~owner[o] \/ stops > 0
      [] site = "receive"    -> stops > 0
      [] OTHER               -> TRUE

HandlersExplained == Explains(fault.object, fault.site)

(* get() gives everyone the same Config until the application stops: its   *)
(* edits are not lost between two couriers, and its write handler never    *)
(* finds it freed.                                                         *)
OneConfig ==
    /\ \A c, d \in Configs : Alive(c) /\ Alive(d) => c = d
    /\ stops = 0 => \A c \in Configs \cap built : Alive(c)

(* A stop() that comes to its end leaves alive what the application holds, *)
(* itself or through the callback of a timer that it holds.                *)
Reached(o) == owner[o] \/ \E t \in Timers : captured[t] = o /\ owner[t]

StopReleases ==
    [][position # 0 /\ position' = 0 => \A o \in Objects : Alive(o) => Reached(o)]_vars
=============================================================================
