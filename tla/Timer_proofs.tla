---------------------------- MODULE Timer_proofs ----------------------------
(***************************************************************************)
(* The safety of timers, proved for any number of single shots and         *)
(* intervals, each on its way through its life on its own.                 *)
(***************************************************************************)
EXTENDS Timer, TLAPS

(* A timer that was not created is nowhere. *)
Unborn(t) ==
    t \notin destructors => ~owner[t] /\ ~self[t] /\ ~timer[t] /\ wait[t] = "none" /\ running # t

(* Three things make a timer let go of itself, and one of its asio timer.  *)
LetGo(t) ==
    /\ t \in destructors /\ ~self[t] => t \in cancelled \cup released \cup completed
    /\ t \in destructors => (~timer[t] <=> t \in cancelled)

(* What is queued for a cancelled timer, and what is not for one that is   *)
(* over or calling its owner.                                              *)
Waits(t) ==
    /\ t \in cancelled => wait[t] # "armed"
    /\ t \in cancelled /\ wait[t] = "expired" => t \in late
    /\ wait[t] = "aborted" => t \in cancelled
    /\ t \in completed => wait[t] \notin {"armed", "expired"} /\ running # t
    /\ running = t => wait[t] = "none"
    /\ t \in released => stopped

IInv ==
    /\ TypeOK
    /\ \A t \in Timers : Unborn(t) /\ LetGo(t) /\ Waits(t)
    /\ SelfWhileNeeded
    /\ FaultsExplained

LEMMA NobodyIsNone == Nobody \notin Timers /\ (\A t \in Timers : t \in Singles <=> t \notin Intervals)
BY TimerAssumption DEF Timers

LEMMA NoFaultExplained == Explains(NoFault.timer, NoFault.site)
BY DEF Explains, NoFault

(* A fault that is recorded has the type of one, and is one. *)
LEMMA FaultType ==
    ASSUME NEW t \in Timers, NEW where \in Sites, Fails(t, where)
    PROVE  /\ fault' \in [timer : Timers, site : Sites]
           /\ fault'.timer = t /\ fault'.site = where
           /\ fault' # NoFault
BY NobodyIsNone DEF Fails, NoFault, Sites

LEMMA InitIInv == Init => IInv
<1> SUFFICES ASSUME Init PROVE IInv
  OBVIOUS
<1>1. TypeOK
  BY DEF Init, TypeOK
<1>2. \A t \in Timers : Unborn(t) /\ LetGo(t) /\ Waits(t)
  BY NobodyIsNone DEF Init, Unborn, LetGo, Waits
<1>3. SelfWhileNeeded
  BY NobodyIsNone DEF Init, SelfWhileNeeded
<1>4. FaultsExplained
  BY NoFaultExplained DEF Init, FaultsExplained
<1> QED
  BY <1>1, <1>2, <1>3, <1>4 DEF IInv

LEMMA CreateKeeps ==
    ASSUME IInv, NEW t \in Timers, Create(t)
    PROVE  IInv'
<1> USE DEF IInv, Create, Register, Arm, refs, histories
<1>1. TypeOK'
  BY DEF TypeOK
<1>2. ASSUME NEW u \in Timers PROVE (Unborn(u) /\ LetGo(u) /\ Waits(u))'
  BY NobodyIsNone DEF TypeOK, Unborn, LetGo, Waits
<1>3. SelfWhileNeeded'
  BY DEF SelfWhileNeeded, TypeOK
<1>4. FaultsExplained'
  BY DEF FaultsExplained, Explains
<1> QED
  BY <1>1, <1>2, <1>3, <1>4

LEMMA DropKeeps ==
    ASSUME IInv, NEW t \in Timers, Drop(t)
    PROVE  IInv'
<1> USE DEF IInv, Drop, refs, histories
<1>1. TypeOK'
  BY DEF TypeOK
<1>2. ASSUME NEW u \in Timers PROVE (Unborn(u) /\ LetGo(u) /\ Waits(u))'
  BY NobodyIsNone DEF TypeOK, Unborn, LetGo, Waits
<1>3. SelfWhileNeeded'
  BY DEF SelfWhileNeeded, TypeOK
<1>4. FaultsExplained'
  BY DEF FaultsExplained, Explains
<1> QED
  BY <1>1, <1>2, <1>3, <1>4

LEMMA ExpireKeeps ==
    ASSUME IInv, NEW t \in Timers, Expire(t)
    PROVE  IInv'
<1> USE DEF IInv, Expire, Turn, refs, histories
<1>1. TypeOK'
  BY DEF TypeOK
<1>2. ASSUME NEW u \in Timers PROVE (Unborn(u) /\ LetGo(u) /\ Waits(u))'
  BY NobodyIsNone DEF TypeOK, Unborn, LetGo, Waits
<1>3. SelfWhileNeeded'
  BY DEF SelfWhileNeeded, TypeOK
<1>4. FaultsExplained'
  BY DEF FaultsExplained, Explains
<1> QED
  BY <1>1, <1>2, <1>3, <1>4

(* cancel() gives up the wait, _timer and _self at once; a handler that is *)
(* queued by then makes t late.                                            *)
LEMMA CancelKeeps ==
    ASSUME IInv, NEW t \in Timers, Cancel(t)
    PROVE  IInv'
<1> USE DEF IInv, histories
<1>1. CASE timer[t]
  <2> USE <1>1 DEF Cancel, Disarm
  <2>1. t \in destructors
    BY DEF Unborn
  <2>2. TypeOK'
    BY <2>1 DEF TypeOK
  <2>3. ASSUME NEW u \in Timers PROVE (Unborn(u) /\ LetGo(u) /\ Waits(u))'
    BY <2>1, NobodyIsNone DEF TypeOK, Unborn, LetGo, Waits
  <2>4. SelfWhileNeeded'
    BY DEF SelfWhileNeeded, TypeOK
  <2>5. FaultsExplained'
    BY NoFaultExplained DEF FaultsExplained, Sound, Explains, NoFault
  <2> QED
    BY <2>2, <2>3, <2>4, <2>5
<1>2. CASE ~timer[t]
  <2>1. Fails(t, "cancel") /\ UNCHANGED <<destructors, refs, timer, wait, running, stopped, histories>>
    BY <1>2 DEF Cancel, Disarm, refs
  <2>2. t \in cancelled
    BY <1>2 DEF Cancel, Disarm, Unborn, LetGo
  <2>3. TypeOK' /\ FaultsExplained'
    BY <2>1, <2>2, FaultType DEF TypeOK, FaultsExplained, Explains, Sites, refs
  <2>4. ASSUME NEW u \in Timers PROVE (Unborn(u) /\ LetGo(u) /\ Waits(u))'
    BY <2>1 DEF Unborn, LetGo, Waits, refs
  <2>5. SelfWhileNeeded'
    BY <2>1 DEF SelfWhileNeeded, refs
  <2> QED
    BY <2>3, <2>4, <2>5
<1> QED
  BY <1>1, <1>2

(* A queued handler finds its timer freed only if it was cancelled late:   *)
(* it holds itself while its wait is over, and stop() ends the loop.       *)
LEMMA CallbackKeeps ==
    ASSUME IInv, NEW t \in Timers, Callback(t)
    PROVE  IInv'
<1> USE DEF IInv, histories
<1>1. CASE ~Freed(t) /\ running' = t /\ UNCHANGED fault
  <2> USE <1>1 DEF Callback, Turn, refs
  <2>1. t \in destructors /\ t \notin completed
    BY DEF Unborn, Waits
  <2>2. TypeOK'
    BY DEF TypeOK
  <2>3. ASSUME NEW u \in Timers PROVE (Unborn(u) /\ LetGo(u) /\ Waits(u))'
    BY <2>1, NobodyIsNone DEF TypeOK, Unborn, LetGo, Waits
  <2>4. SelfWhileNeeded'
    BY NobodyIsNone DEF SelfWhileNeeded, TypeOK
  <2>5. FaultsExplained'
    BY DEF FaultsExplained, Explains
  <2> QED
    BY <2>2, <2>3, <2>4, <2>5
<1>2. CASE Freed(t) /\ Fails(t, "callback") /\ UNCHANGED running
  <2> USE <1>2 DEF Callback, Turn, refs
  <2>1. t \in late
    BY DEF Freed, LetGo, Waits
  <2>2. TypeOK' /\ FaultsExplained'
    BY <2>1, FaultType DEF TypeOK, FaultsExplained, Explains, Sites
  <2>3. ASSUME NEW u \in Timers PROVE (Unborn(u) /\ LetGo(u) /\ Waits(u))'
    BY <2>1 DEF TypeOK, Unborn, LetGo, Waits, Freed
  <2>4. SelfWhileNeeded'
    BY <2>1 DEF SelfWhileNeeded, TypeOK
  <2> QED
    BY <2>2, <2>3, <2>4
<1> QED
  BY <1>1, <1>2 DEF Callback

(* An aborted handler belongs to a cancelled timer. *)
LEMMA AbortKeeps ==
    ASSUME IInv, NEW t \in Timers, Abort(t)
    PROVE  IInv'
<1> USE DEF IInv, Abort, Turn, histories
<1>1. t \in cancelled /\ t \in destructors
  BY DEF Waits, TypeOK
<1>2. TypeOK' /\ FaultsExplained'
  <2>1. CASE UNCHANGED fault
    BY <2>1, <1>1 DEF TypeOK, FaultsExplained, Explains
  <2>2. CASE t \in Singles /\ Fails(t, "abort") /\ UNCHANGED self
    BY <2>2, <1>1, FaultType DEF TypeOK, FaultsExplained, Explains, Sites
  <2> QED
    BY <2>1, <2>2
<1>3. ASSUME NEW u \in Timers PROVE (Unborn(u) /\ LetGo(u) /\ Waits(u))'
  BY <1>1 DEF TypeOK, Unborn, LetGo, Waits
<1>4. SelfWhileNeeded'
  BY <1>1 DEF SelfWhileNeeded, TypeOK
<1> QED
  BY <1>2, <1>3, <1>4

(* A callback that returns finds its timer freed only after cancel() or    *)
(* stop(), and an interval's _timer null only after cancel().              *)
LEMMA ReturnKeeps ==
    ASSUME IInv, NEW t \in Timers, Return(t)
    PROVE  IInv'
<1> USE NobodyIsNone DEF IInv, Return
<1>1. /\ running = t /\ t \in destructors /\ t \notin completed /\ wait[t] = "none"
      /\ Freed(t) \/ ~timer[t] => t \in cancelled \cup released
  BY DEF ReturnSingle, ReturnInterval, Arm, Unborn, LetGo, Waits, Freed
<1>2. CASE ReturnSingle(t) /\ UNCHANGED fault
  <2>1. /\ self' = [self EXCEPT ![t] = FALSE] /\ completed' = completed \cup {t}
        /\ UNCHANGED wait /\ t \in Singles
    BY <1>2, FaultType DEF ReturnSingle, Sound, Sites
  <2>2. TypeOK' /\ FaultsExplained'
    BY <1>1, <1>2, <2>1, NoFaultExplained DEF TypeOK, FaultsExplained, Explains, Sound, NoFault
  <2>3. ASSUME NEW u \in Timers PROVE (Unborn(u) /\ LetGo(u) /\ Waits(u))'
    BY <1>1, <2>1 DEF TypeOK, Unborn, LetGo, Waits
  <2>4. SelfWhileNeeded'
    BY <1>1, <2>1 DEF SelfWhileNeeded, TypeOK
  <2> QED
    BY <2>2, <2>3, <2>4
<1>3. CASE ReturnInterval(t) /\ UNCHANGED fault
  <2>1. /\ wait' = [wait EXCEPT ![t] = "armed"] /\ timer[t]
        /\ UNCHANGED <<self, completed>> /\ t \in Intervals
    BY <1>3, FaultType DEF ReturnInterval, Arm, Sound, Sites
  <2>2. TypeOK' /\ FaultsExplained'
    BY <1>1, <1>3, <2>1 DEF TypeOK, FaultsExplained, Explains
  <2>3. ASSUME NEW u \in Timers PROVE (Unborn(u) /\ LetGo(u) /\ Waits(u))'
    BY <1>1, <2>1 DEF TypeOK, Unborn, LetGo, Waits
  <2>4. SelfWhileNeeded'
    BY <1>1, <2>1 DEF SelfWhileNeeded, TypeOK
  <2> QED
    BY <2>2, <2>3, <2>4
<1>4. CASE \/ t \in Singles /\ Fails(t, "return")
           \/ t \in Intervals /\ Fails(t, "rearm")
  <2>1. t \in cancelled \cup released /\ UNCHANGED <<self, wait, completed>>
    BY <1>1, <1>4, FaultType DEF ReturnSingle, ReturnInterval, Arm, Sound, Sites
  <2>2. TypeOK' /\ FaultsExplained'
    BY <1>1, <1>4, <2>1, FaultType DEF TypeOK, FaultsExplained, Explains, Sites
  <2>3. ASSUME NEW u \in Timers PROVE (Unborn(u) /\ LetGo(u) /\ Waits(u))'
    BY <1>1, <2>1 DEF TypeOK, Unborn, LetGo, Waits
  <2>4. SelfWhileNeeded'
    BY <1>1, <2>1 DEF SelfWhileNeeded, TypeOK
  <2> QED
    BY <2>2, <2>3, <2>4
<1> QED
  BY <1>2, <1>3, <1>4 DEF ReturnSingle, ReturnInterval, Arm

(* destruct() finds a timer freed that let go of itself before. *)
LEMMA StopKeeps ==
    ASSUME IInv, Stop
    PROVE  IInv'
<1> USE DEF IInv, Stop, Destruct
<1>1. CASE /\ self' = [t \in Timers |-> self[t] /\ t \notin destructors]
           /\ released' = released \cup destructors /\ UNCHANGED fault
  <2>1. TypeOK' /\ FaultsExplained'
    BY <1>1 DEF TypeOK, FaultsExplained, Explains, Sound, NoFault
  <2>2. ASSUME NEW u \in Timers PROVE (Unborn(u) /\ LetGo(u) /\ Waits(u))'
    BY <1>1 DEF TypeOK, Unborn, LetGo, Waits
  <2>3. SelfWhileNeeded'
    BY <1>1 DEF SelfWhileNeeded, Unborn, TypeOK
  <2> QED
    BY <2>1, <2>2, <2>3
<1>2. CASE \E t \in Timers : Freed(t) /\ Fails(t, "destructor") /\ UNCHANGED <<self, released>>
  <2>1. PICK t \in Timers : Freed(t) /\ Fails(t, "destructor")
    BY <1>2
  <2>2. t \in cancelled \cup released \cup completed
    BY <2>1 DEF Freed, LetGo
  <2>3. TypeOK' /\ FaultsExplained'
    BY <1>2, <2>1, <2>2, FaultType DEF TypeOK, FaultsExplained, Explains, Sites
  <2>4. ASSUME NEW u \in Timers PROVE (Unborn(u) /\ LetGo(u) /\ Waits(u))'
    BY <1>2 DEF TypeOK, Unborn, LetGo, Waits
  <2>5. SelfWhileNeeded'
    BY <1>2 DEF SelfWhileNeeded
  <2> QED
    BY <2>3, <2>4, <2>5
<1> QED
  BY <1>1, <1>2

LEMMA StutterKeeps == IInv /\ UNCHANGED vars => IInv'
BY DEF IInv, TypeOK, Unborn, LetGo, Waits, SelfWhileNeeded, FaultsExplained, Explains,
       vars, refs, histories

(* The invariant above holds of every reachable state. *)
THEOREM Inductive == Spec => []IInv
<1>1. IInv /\ [Next]_vars => IInv'
  BY CreateKeeps, DropKeeps, CancelKeeps, ExpireKeeps, CallbackKeeps, AbortKeeps, ReturnKeeps,
     StopKeeps, StutterKeeps DEF Next
<1> QED
  BY <1>1, InitIInv, PTL DEF Spec

(* Timer.hpp, all of it: the types, and that only single shots complete.   *)
THEOREM TypeCorrect == Spec => []TypeOK
<1>1. IInv => TypeOK
  BY DEF IInv
<1> QED
  BY <1>1, Inductive, PTL

(* Every use of a freed timer, or of a null _timer, has its explanation in *)
(* an earlier cancel(), stop() or completion, however many timers act on   *)
(* each other from their callbacks.                                        *)
THEOREM FaultsAreExplained == Spec => []FaultsExplained
<1>1. IInv => FaultsExplained
  BY DEF IInv
<1> QED
  BY <1>1, Inductive, PTL

(* _self: held from creation to the end of the last callback and no longer. *)
THEOREM SelfHeldWhileNeeded == Spec => []SelfWhileNeeded
<1>1. IInv => SelfWhileNeeded
  BY DEF IInv
<1> QED
  BY <1>1, Inductive, PTL

(* cancel(): the owner of a cancelled timer is not called back, unless the *)
(* handler was queued before.                                              *)
THEOREM CancelledIsSilent == Spec => CancelSilences
<1> DEFINE Silent == \A t \in Timers :
                        running' = t /\ running # t => t \notin cancelled \/ t \in late
<1>1. IInv /\ [Next]_vars => [Silent]_vars
  <2> SUFFICES ASSUME IInv, Next, NEW t \in Timers, running' = t, running # t
               PROVE  t \notin cancelled \/ t \in late
    BY Zenon
  <2>1. Callback(t)
    BY NobodyIsNone DEF Next, Create, Register, Arm, Drop, Cancel, Disarm, Expire, Callback, Abort, Return, Stop
  <2> QED
    BY <2>1 DEF Callback, IInv, Waits
<1> QED
  BY <1>1, Inductive, PTL DEF Spec, CancelSilences

(* stop(): when destruct() gets through, no timer holds itself any more.   *)
THEOREM StopReleasesAll == Spec => StopReleases
<1> DEFINE Releases == Stop /\ fault' = NoFault => \A t \in Timers : ~self'[t]
<1>1. IInv /\ [Next]_vars => [Releases]_vars
  <2> SUFFICES ASSUME IInv, Stop, fault' = NoFault, NEW t \in Timers PROVE ~self'[t]
    BY Zenon
  <2>1. self' = [u \in Timers |-> self[u] /\ u \notin destructors]
    BY FaultType DEF Stop, Destruct, Sites
  <2> QED
    BY <2>1 DEF IInv, Unborn
<1> QED
  BY <1>1, Inductive, PTL DEF Spec, StopReleases
=============================================================================
