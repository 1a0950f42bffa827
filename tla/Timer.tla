------------------------------- MODULE Timer -------------------------------
(***************************************************************************)
(* AppIO/Timer.hpp: timers that keep themselves alive while they wait, and *)
(* the part of AppIO/AppIO.hpp that releases them, stop() and destruct().  *)
(*                                                                         *)
(* Two references can hold a timer: its owner's and its own _self.  When   *)
(* both are gone it is freed, but three things still point to it with a    *)
(* raw this: the handler of its asio wait, the callback while it runs, and *)
(* the destructor it registered with AppIO, which is never taken back.     *)
(* Using any of them on a freed timer is undefined, and so is using the    *)
(* asio timer that cancel() gave up; the model records the first such use  *)
(* in fault and stops there.                                               *)
(*                                                                         *)
(* Everything runs on one thread: owners act in a callback or between      *)
(* handlers.  When a wait is over asio queues its handler; cancelling it   *)
(* later than that does not take it back.                                  *)
(***************************************************************************)

CONSTANTS
    Singles,     (* the timers of createSingleShot                         *)
    Intervals,   (* the timers of createInterval                           *)
    Nobody       (* no timer                                               *)

Timers == Singles \cup Intervals

ASSUME TimerAssumption ==
    /\ Singles \cap Intervals = {}
    /\ Nobody \notin Timers

VARIABLES
    destructors,  (* the timers created: each is in _destructFunctions     *)
    owner,        (* its owner holds it                                    *)
    self,         (* _self holds it                                        *)
    timer,        (* _timer is not null                                    *)
    wait,         (* its wait: "none", "armed", or over with the handler   *)
                  (* queued, "expired" or "aborted"                        *)
    running,      (* the timer whose callback runs                         *)
    stopped,      (* _ioContext->stop() was called                         *)
    fault,        (* the first undefined use of a timer, and where         *)
    cancelled,    (* history: the timers cancelled                         *)
    late,         (* history: those whose handler was queued by then       *)
    completed,    (* history: the single shots that fired                  *)
    released      (* history: the timers a stop() has released             *)

refs == <<owner, self>>
histories == <<cancelled, late, completed, released>>
vars == <<destructors, refs, timer, wait, running, stopped, fault, histories>>

Sites == {"callback", "return", "rearm", "abort", "cancel", "destructor"}
NoFault == [timer |-> Nobody, site |-> "none"]

Freed(t) == t \in destructors /\ ~owner[t] /\ ~self[t]

Fails(t, where) == fault' = [timer |-> t, site |-> where]
Sound == fault = NoFault

Init ==
    /\ destructors = {}
    /\ owner = [t \in Timers |-> FALSE]
    /\ self = [t \in Timers |-> FALSE]
    /\ timer = [t \in Timers |-> FALSE]
    /\ wait = [t \in Timers |-> "none"]
    /\ running = Nobody
    /\ stopped = FALSE
    /\ fault = NoFault
    /\ cancelled = {} /\ late = {} /\ completed = {} /\ released = {}

-----------------------------------------------------------------------------
(* The owners. *)

(* Mutant of Register. *)
RegisterNot(t) == UNCHANGED destructors

Register(t) == destructors' = destructors \cup {t}

(* Mutant of Arm. *)
ArmNot(t) == UNCHANGED wait

(* async_wait(). *)
Arm(t) == wait' = [wait EXCEPT ![t] = "armed"]

(* createSingleShot, createInterval. *)
Create(t) ==
    /\ Sound /\ t \notin destructors
    /\ Register(t)
    /\ owner' = [owner EXCEPT ![t] = TRUE]
    /\ self' = [self EXCEPT ![t] = TRUE]
    /\ timer' = [timer EXCEPT ![t] = TRUE]
    /\ Arm(t)
    /\ UNCHANGED <<running, stopped, fault, histories>>

Drop(t) ==
    /\ Sound /\ owner[t]
    /\ owner' = [owner EXCEPT ![t] = FALSE]
    /\ UNCHANGED <<destructors, self, timer, wait, running, stopped, fault, histories>>

(* Mutant of Disarm: the asio wait goes on. *)
DisarmNot(t) == UNCHANGED wait

(* asio's cancel(): a handler that is queued stays there. *)
Disarm(t) == wait' = [wait EXCEPT ![t] = IF @ = "armed" THEN "aborted" ELSE @]

(* cancel(): the second one finds _timer null. *)
Cancel(t) ==
    /\ Sound /\ owner[t]
    /\ \/ /\ timer[t]
          /\ timer' = [timer EXCEPT ![t] = FALSE]
          /\ self' = [self EXCEPT ![t] = FALSE]
          /\ Disarm(t)
          /\ cancelled' = cancelled \cup {t}
          /\ late' = late \cup ({t} \cap {u \in Timers : wait[u] = "expired"})
          /\ UNCHANGED fault
       \/ /\ ~timer[t]
          /\ Fails(t, "cancel")
          /\ UNCHANGED <<self, timer, wait, cancelled, late>>
    /\ UNCHANGED <<destructors, owner, running, stopped, completed, released>>

-----------------------------------------------------------------------------
(* The loop. *)

Turn == Sound /\ running = Nobody /\ ~stopped

(* The time has come, and asio queues the handler of the wait. *)
Expire(t) ==
    /\ Turn /\ wait[t] = "armed"
    /\ wait' = [wait EXCEPT ![t] = "expired"]
    /\ UNCHANGED <<destructors, refs, timer, running, stopped, fault, histories>>

(* onTimeout() without an error calls the owner back. *)
Callback(t) ==
    /\ Turn /\ wait[t] = "expired"
    /\ wait' = [wait EXCEPT ![t] = "none"]
    /\ \/ ~Freed(t) /\ running' = t /\ UNCHANGED fault
       \/ Freed(t) /\ Fails(t, "callback") /\ UNCHANGED running
    /\ UNCHANGED <<destructors, refs, timer, stopped, histories>>

(* onTimeout() with operation_aborted: an interval leaves it at that, a    *)
(* single shot releases itself once more.                                  *)
Abort(t) ==
    /\ Turn /\ wait[t] = "aborted"
    /\ wait' = [wait EXCEPT ![t] = "none"]
    /\ \/ t \in Intervals /\ UNCHANGED <<self, fault>>
       \/ t \in Singles /\ ~Freed(t) /\ self' = [self EXCEPT ![t] = FALSE] /\ UNCHANGED fault
       \/ t \in Singles /\ Freed(t) /\ Fails(t, "abort") /\ UNCHANGED self
    /\ UNCHANGED <<destructors, owner, timer, running, stopped, histories>>

(* singleShotTimeout() after the callback. *)
ReturnSingle(t) ==
    /\ t \in Singles /\ running = t
    /\ \/ /\ ~Freed(t)
          /\ self' = [self EXCEPT ![t] = FALSE]
          /\ completed' = completed \cup {t}
          /\ UNCHANGED fault
       \/ /\ Freed(t)
          /\ Fails(t, "return")
          /\ UNCHANGED <<self, completed>>
    /\ UNCHANGED wait

(* recurringTimeout() after the callback: it goes through _timer, which    *)
(* the callback may have cancelled.                                        *)
ReturnInterval(t) ==
    /\ t \in Intervals /\ running = t
    /\ \/ /\ ~Freed(t) /\ timer[t]
          /\ Arm(t)
          /\ UNCHANGED fault
       \/ /\ Freed(t) \/ ~timer[t]
          /\ Fails(t, "rearm")
          /\ UNCHANGED wait
    /\ UNCHANGED <<self, completed>>

Return(t) ==
    /\ Sound
    /\ ReturnSingle(t) \/ ReturnInterval(t)
    /\ running' = Nobody
    /\ UNCHANGED <<destructors, owner, timer, stopped, cancelled, late, released>>

(* destruct() calls every destructor ever registered, on whatever is left  *)
(* of its timer.                                                           *)
Destruct ==
    \/ /\ \A t \in Timers : ~Freed(t)
       /\ self' = [t \in Timers |-> self[t] /\ t \notin destructors]
       /\ released' = released \cup destructors
       /\ UNCHANGED fault
    \/ /\ \E t \in Timers : Freed(t) /\ Fails(t, "destructor")
       /\ UNCHANGED <<self, released>>

(* stop(): by the signal handler between two callbacks, or by the          *)
(* application at any time.                                                *)
Stop ==
    /\ Sound
    /\ stopped' = TRUE
    /\ Destruct
    /\ UNCHANGED <<destructors, owner, timer, wait, running, cancelled, late, completed>>

Next ==
    \/ \E t \in Timers :
          \/ Create(t) \/ Drop(t) \/ Cancel(t)
          \/ Expire(t) \/ Callback(t) \/ Abort(t) \/ Return(t)
    \/ Stop

Spec == Init /\ [][Next]_vars

(* Time passes, run() takes its handlers from a queue, and callbacks       *)
(* return.  A callback of another timer only postpones an expiry or a      *)
(* queued handler, which the queue keeps in its place: hence SF.           *)
Fairness ==
    \A t \in Timers : SF_vars(Expire(t)) /\ SF_vars(Callback(t)) /\ WF_vars(Return(t))

FairSpec == Spec /\ Fairness

-----------------------------------------------------------------------------
(* Properties. *)

(* Every variable stays in its set; only single shots complete and only    *)
(* timers that exist are cancelled or released.                            *)
TypeOK ==
    /\ destructors \in SUBSET Timers
    /\ owner \in [Timers -> BOOLEAN]
    /\ self \in [Timers -> BOOLEAN]
    /\ timer \in [Timers -> BOOLEAN]
    /\ wait \in [Timers -> {"none", "armed", "expired", "aborted"}]
    /\ running \in Timers \cup {Nobody}
    /\ stopped \in BOOLEAN
    /\ fault \in [timer : Timers, site : Sites] \cup {NoFault}
    /\ cancelled \in SUBSET destructors
    /\ late \in SUBSET cancelled
    /\ completed \in SUBSET (Singles \cap destructors)
    /\ released \in SUBSET destructors

(* A timer is used after it was freed, or through a _timer it gave up,     *)
(* only where an earlier cancel(), stop() or completion explains it.  In   *)
(* particular a timer nobody cancelled is safe from its own handler until  *)
(* the application stops, whenever its owner lets go of it.                *)
Explains(t, site) ==
    CASE site = "callback"   -> t \in late
      [] site = "abort"      -> t \in cancelled \cap Singles
      [] site = "cancel"     -> t \in cancelled
      [] site = "return"     -> t \in Singles \cap (cancelled \cup released)
      [] site = "rearm"      -> t \in Intervals \cap (cancelled \cup released)
      [] site = "destructor" -> t \in cancelled \cup released \cup completed
      [] OTHER               -> TRUE

FaultsExplained == Explains(fault.timer, fault.site)

(* _self is held exactly while something of the loop still needs the       *)
(* timer: its wait, its queued handler or its running callback.            *)
SelfWhileNeeded ==
    \A t \in Timers \ (cancelled \cup released) :
        self[t] <=> wait[t] \in {"armed", "expired"} \/ running = t

(* After cancel() the owner is not called back, unless the handler was     *)
(* already queued.                                                         *)
CancelSilences ==
    [][\A t \in Timers : running' = t /\ running # t => t \notin cancelled \/ t \in late]_vars

(* A stop() that gets through destruct() leaves no timer alive but those   *)
(* an owner still holds.                                                   *)
StopReleases ==
    [][Stop /\ fault' = NoFault => \A t \in Timers : ~self'[t]]_vars

Over == stopped \/ ~Sound

(* A single shot fires, whatever becomes of its owner, unless it is        *)
(* cancelled or the application stops.                                     *)
SingleFires ==
    \A t \in Singles :
        t \in destructors ~> (t \in completed \cup cancelled \/ Over)

(* An interval never stops firing by itself.                               *)
IntervalKeepsFiring ==
    \A t \in Intervals :
        []<>(t \notin destructors \/ running = t \/ t \in cancelled \/ Over)

(* Timer.hpp:63 speaks of the timer that "goes out of owner's scope": a    *)
(* timer may be used that way.  Then nothing that is not cancelled ends in *)
(* undefined behaviour, up to and including the first stop().              *)
OutOfScopeIsSafe == cancelled = {} /\ released = {} => Sound
=============================================================================
