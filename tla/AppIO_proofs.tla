---------------------------- MODULE AppIO_proofs ----------------------------
(***************************************************************************)
(* What the run of MCAppIO shows on two subscribers, a timer and two       *)
(* configurations, proved for any numbers of them and of stop()s.          *)
(***************************************************************************)
EXTENDS AppIO, SequenceTheorems, TLAPS

(***************************************************************************)
(* The inductive invariant.                                                *)
(***************************************************************************)

(* What is held was built, and what was built has registered; for those    *)
(* that hold themselves the two are the same. *)
BuiltFirst ==
    /\ \A o \in Objects : owner[o] \/ self[o] => o \in built
    /\ \A o \in Objects : self[o] => o \in Selfish
    /\ \A o \in built : \E i \in 1..Len(functions) : functions[i] = o
    /\ \A i \in 1..Len(functions) : functions[i] \in Selfish => functions[i] \in built

(* No function is called, and nothing it undoes is undone, before stop(). *)
NotStopped ==
    stops = 0 =>
        /\ position = 0
        /\ \A c \in Configs \cap built : self[c]
        /\ Subscribers \cap built \subseteq socket

(* Only subscribers that were built receive. *)
ReceiversBuilt ==
    \A s \in Subscribers : receive[s] # "none" \/ running = s => s \in built

(* destruct() has reset _self as far as it got, *)
ResetSoFar ==
    \A i \in 1..Len(functions) : i < position => ~self[functions[i]]

(* and the first one has met nothing doomed there, *)
NoneDoomedSoFar ==
    stops = 1 /\ position # 0 /\ Sound =>
        /\ \A o \in doomed : \E i \in 1..Len(functions) : functions[i] = o
        /\ \A i \in 1..Len(functions) : i < position => functions[i] \notin doomed

(* and what lies ahead of it is spared, and connected, as it was when      *)
(* stop() began.                                                           *)
AheadUntouched ==
    stops = 1 /\ position # 0 /\ Sound =>
        \A i \in 1..Len(functions) : i >= position =>
            /\ functions[i] \in doomed <=> ~Spared(functions[i])
            /\ functions[i] \in Subscribers \cap built => functions[i] \in socket

AtMostOneConfig == \A c, d \in Configs : Alive(c) /\ Alive(d) => c = d

IInv ==
    /\ TypeOK
    /\ BuiltFirst /\ NotStopped /\ ReceiversBuilt
    /\ ResetSoFar /\ NoneDoomedSoFar /\ AheadUntouched /\ AtMostOneConfig
    /\ HandlersExplained /\ FirstStopSettled

(***************************************************************************)
(* Lemmas for several steps.                                               *)
(***************************************************************************)

LEMMA Facts ==
    ASSUME IInv
    PROVE  /\ functions \in Seq(Objects) /\ Len(functions) \in Nat
           /\ DOMAIN functions = 1..Len(functions)
           /\ \A i \in 1..Len(functions) : functions[i] \in Objects
           /\ \A i, j \in 1..Len(functions) : functions[i] = functions[j] => i = j
           /\ position \in Nat /\ stops \in Nat
           /\ Timers \subseteq Objects /\ Configs \subseteq Objects /\ Subscribers \subseteq Objects
<1>1. functions \in Seq(Objects)
  BY DEF IInv, TypeOK
<1>2. /\ Len(functions) \in Nat /\ DOMAIN functions = 1..Len(functions)
      /\ \A i \in 1..Len(functions) : functions[i] \in Objects
  BY <1>1, LenProperties, ElementOfSeq
<1>3. position \in Nat /\ stops \in Nat
  BY <1>2, AppIOAssumption DEF IInv, TypeOK
<1> QED
  BY <1>1, <1>2, <1>3 DEF IInv, TypeOK, Objects, Selfish

(* Without a fault there is nothing to explain, *)
LEMMA SoundIsExplained == Sound => HandlersExplained
BY DEF Sound, NoFault, HandlersExplained, Explains

(* and nothing is said of the first stop() outside it. *)
LEMMA OutsideStop ==
    ASSUME Sound, UNCHANGED fault, position' = 0, Len(functions') \in Nat
    PROVE  /\ HandlersExplained' /\ FirstStopSettled'
           /\ NoneDoomedSoFar' /\ AheadUntouched'
<1>1. HandlersExplained'
  BY DEF Sound, NoFault, HandlersExplained, Explains
<1>2. fault'.site # "destructor" /\ ~(position' > Len(functions'))
  BY DEF Sound, NoFault
<1>3. FirstStopSettled'
  BY <1>2 DEF FirstStopSettled
<1>4. NoneDoomedSoFar' /\ AheadUntouched'
  BY DEF NoneDoomedSoFar, AheadUntouched
<1> QED
  BY <1>1, <1>3, <1>4

(* Nothing comes alive when nothing is built or held anew. *)
LEMMA NothingRevives ==
    ASSUME UNCHANGED <<built, captured>>, \A o \in Objects : Held(o)' => Held(o),
           Timers \subseteq Objects
    PROVE  \A o \in Objects : Alive(o)' => Alive(o)
BY DEF Alive

LEMMA ConfigsAfter ==
    ASSUME IInv, NEW c \in Configs, Obtained(c),
           \A d \in Configs : Alive(d)' => Alive(d) \/ d = c
    PROVE  AtMostOneConfig'
<1> SUFFICES ASSUME NEW d \in Configs, Alive(d)' PROVE d = c
  BY DEF AtMostOneConfig
<1>1. CASE Alive(d)
  BY <1>1 DEF Obtained, IInv, AtMostOneConfig
<1> QED
  BY <1>1

(* What constructors leave, whichever they are. *)
LEMMA ConstructKeeps ==
    ASSUME IInv, NEW os \in Seq(Objects), NEW failed \in SUBSET Subscribers,
           NEW mine \in SUBSET Objects, Construct(os, failed, mine),
           \A i \in 1..Len(os) : ~Registered(os[i]),
           \A i, j \in 1..Len(os) : os[i] = os[j] => i = j,
           mine \subseteq built'
    PROVE  /\ functions' \in Seq(Objects) /\ Len(functions') \in Nat
           /\ Len(functions') = Len(functions) + Len(os) /\ Len(os) \in Nat
           /\ DOMAIN functions' = 1..Len(functions')
           /\ \A i \in 1..Len(functions) : functions'[i] = functions[i]
           /\ \A i \in 1..Len(functions') : i > Len(functions) =>
                 i - Len(functions) \in 1..Len(os) /\ functions'[i] = os[i - Len(functions)]
           /\ \A i, j \in DOMAIN functions' : functions'[i] = functions'[j] => i = j
           /\ built \subseteq built' /\ built' \subseteq Objects
           /\ built' \subseteq built \cup {os[i] : i \in 1..Len(os)}
           /\ owner' \in [Objects -> BOOLEAN] /\ self' \in [Objects -> BOOLEAN]
           /\ BuiltFirst'
<1> DEFINE n == Len(functions)
<1>1. /\ functions' = functions \o os
      /\ built' = built \cup ({os[i] : i \in DOMAIN os} \ failed)
      /\ owner' = [o \in Objects |-> owner[o] \/ o \in mine]
      /\ self' = [o \in Objects |->
                    self[o] \/ o \in Selves({os[i] : i \in DOMAIN os} \ failed)]
  BY DEF Construct
<1>2. /\ functions \in Seq(Objects) /\ n \in Nat /\ Len(os) \in Nat
      /\ DOMAIN functions = 1..n /\ DOMAIN os = 1..Len(os)
      /\ \A i \in 1..Len(os) : os[i] \in Objects
      /\ \A i, j \in 1..n : functions[i] = functions[j] => i = j
  BY Facts, LenProperties, ElementOfSeq
<1>3. /\ functions' \in Seq(Objects) /\ Len(functions') = n + Len(os)
      /\ \A i \in 1..n + Len(os) :
            functions'[i] = IF i <= n THEN functions[i] ELSE os[i - n]
  BY <1>1, <1>2, ConcatProperties
<1>4. Len(functions') \in Nat /\ DOMAIN functions' = 1..Len(functions')
  BY <1>3, LenProperties
<1> HIDE DEF n
<1>5. /\ \A i \in 1..n : i \in 1..n + Len(os) /\ i <= n
      /\ \A i \in 1..n + Len(os) : i > n => i - n \in 1..Len(os) /\ ~(i <= n)
      /\ \A i \in 1..Len(os) : n + i \in 1..n + Len(os) /\ (n + i) - n = i /\ n + i > n
      /\ \A i \in 1..n + Len(os) : i > n \/ i \in 1..n
  BY <1>2
<1>6. /\ \A i \in 1..n : functions'[i] = functions[i]
      /\ \A i \in 1..n + Len(os) : i > n => functions'[i] = os[i - n]
      /\ \A i \in 1..Len(os) : functions'[n + i] = os[i]
  BY <1>3, <1>5
<1>7. \A i \in 1..n, j \in 1..Len(os) : functions[i] # os[j]
  BY <1>2 DEF Registered
<1>8. ASSUME NEW i \in 1..n + Len(os), NEW j \in 1..n + Len(os), functions'[i] = functions'[j]
      PROVE  i = j
  <2>1. CASE i \in 1..n /\ j \in 1..n
    BY <1>2, <1>6, <1>8, <2>1
  <2>2. CASE i > n /\ j > n
    <3>1. i - n = j - n
      BY <1>5, <1>6, <1>8, <2>2
    <3> QED
      BY <1>2, <3>1
  <2>3. CASE i \in 1..n /\ j > n
    BY <1>5, <1>6, <1>7, <1>8, <2>3
  <2>4. CASE i > n /\ j \in 1..n
    BY <1>5, <1>6, <1>7, <1>8, <2>4
  <2> QED
    BY <1>5, <2>1, <2>2, <2>3, <2>4
<1>9. built \subseteq Objects /\ owner \in [Objects -> BOOLEAN] /\ self \in [Objects -> BOOLEAN]
  BY DEF IInv, TypeOK
<1>10. /\ built \subseteq built' /\ built' \subseteq Objects
       /\ built' \subseteq built \cup {os[i] : i \in 1..Len(os)}
       /\ \A i \in 1..Len(os) : os[i] \in Selfish => os[i] \in built'
  BY <1>1, <1>2, <1>9, AppIOAssumption
<1>11. owner' \in [Objects -> BOOLEAN] /\ self' \in [Objects -> BOOLEAN]
  BY <1>1, <1>9
<1>12. BuiltFirst'
  <2>1. /\ \A o \in Objects : owner[o] \/ self[o] => o \in built
        /\ \A o \in Objects : self[o] => o \in Selfish
        /\ \A o \in built : \E i \in 1..n : functions[i] = o
        /\ \A i \in 1..n : functions[i] \in Selfish => functions[i] \in built
    BY DEF IInv, BuiltFirst, n
  <2>2. \A o \in Objects : owner'[o] => o \in built'
    BY <1>1, <1>10, <2>1
  <2>3. \A o \in Objects : self'[o] => o \in built' /\ o \in Selfish
    BY <1>1, <1>10, <2>1 DEF Selves
  <2>4. \A o \in built' : \E i \in 1..n + Len(os) : functions'[i] = o
    BY <1>5, <1>6, <1>10, <2>1
  <2>5. \A i \in 1..n + Len(os) : functions'[i] \in Selfish => functions'[i] \in built'
    BY <1>5, <1>6, <1>10, <2>1
  <2> QED
    BY <1>3, <2>2, <2>3, <2>4, <2>5 DEF BuiltFirst
<1> QED
  BY <1>2, <1>3, <1>4, <1>5, <1>6, <1>8, <1>10, <1>11, <1>12 DEF n

(* A configuration that is not there yet has not registered. *)
LEMMA NewConfigFacts ==
    ASSUME IInv, NEW c \in Configs
    PROVE  /\ NewConfig(c) \in Seq(Objects) /\ Len(NewConfig(c)) \in 0..1
           /\ \A i \in 1..Len(NewConfig(c)) : i = 1 /\ NewConfig(c)[i] = c /\ ~Registered(c)
<1>1. c \in Objects /\ c \in Selfish
  BY DEF Objects, Selfish
<1>2. c \notin built => ~Registered(c)
  BY <1>1, Facts DEF Registered, IInv, BuiltFirst
<1>3. CASE c \in built
  BY <1>3 DEF NewConfig
<1>4. CASE c \notin built
  <2>1. NewConfig(c) = <<c>>
    BY <1>4 DEF NewConfig
  <2>2. <<c>> \in Seq(Objects) /\ Len(<<c>>) = 1 /\ <<c>>[1] = c
    BY <1>1
  <2> QED
    BY <1>2, <1>4, <2>1, <2>2
<1> QED
  BY <1>3, <1>4

(***************************************************************************)
(* The invariant is kept by every step.                                    *)
(***************************************************************************)

LEMMA InitIInv == Init => IInv
<1> SUFFICES ASSUME Init PROVE IInv
  OBVIOUS
<1>1. functions = << >> /\ Len(functions) = 0 /\ DOMAIN functions = {} /\ functions \in Seq(Objects)
  BY DEF Init
<1>2. TypeOK
  BY <1>1, AppIOAssumption DEF Init, TypeOK
<1>3. BuiltFirst /\ NotStopped /\ ResetSoFar /\ NoneDoomedSoFar /\ AheadUntouched
  BY <1>1 DEF Init, BuiltFirst, NotStopped, ResetSoFar, NoneDoomedSoFar, AheadUntouched
<1>4. ReceiversBuilt
  BY AppIOAssumption DEF Init, ReceiversBuilt, Objects
<1>5. AtMostOneConfig
  BY DEF Init, AtMostOneConfig, Alive, Held
<1>6. HandlersExplained /\ FirstStopSettled
  BY SoundIsExplained DEF Init, Sound, FirstStopSettled
<1> QED
  BY <1>2, <1>3, <1>4, <1>5, <1>6 DEF IInv

LEMMA GetKeeps ==
    ASSUME IInv, NEW c \in Configs, Get(c)
    PROVE  IInv'
<1> DEFINE os == NewConfig(c)
<1>1. PICK mine \in {{}, {c}} : Construct(os, {}, mine)
  BY DEF Get
<1>2. /\ Sound /\ position = 0 /\ Obtained(c)
      /\ UNCHANGED <<captured, socket, receive, running, stops, position, doomed, fault>>
  BY DEF Get, Free, loop, stopping
<1>3. /\ os \in Seq(Objects) /\ Len(os) \in 0..1
      /\ \A i \in 1..Len(os) : i = 1 /\ os[i] = c /\ ~Registered(c)
  BY NewConfigFacts
<1>4. c \in Objects /\ c \in Selfish /\ c \notin Timers /\ c \notin Subscribers
  BY AppIOAssumption DEF Objects, Selfish
<1>5. /\ built' = built \cup {c} /\ \A o \in Objects \ {c} : owner'[o] = owner[o] /\ self'[o] = self[o]
      /\ self'[c] = (self[c] \/ c \notin built)
  <2>1. /\ built' = built \cup ({os[i] : i \in DOMAIN os} \ {})
        /\ owner' = [o \in Objects |-> owner[o] \/ o \in mine]
        /\ self' = [o \in Objects |-> self[o] \/ o \in Selves({os[i] : i \in DOMAIN os} \ {})]
    BY <1>1 DEF Construct
  <2>2. {os[i] : i \in DOMAIN os} = {c} \ built
    <3>1. CASE c \in built
      BY <3>1 DEF NewConfig
    <3>2. CASE c \notin built
      <4>1. os = <<c>> /\ DOMAIN <<c>> = {1} /\ <<c>>[1] = c
        BY <3>2 DEF NewConfig
      <4> QED
        BY <3>2, <4>1
    <3> QED
      BY <3>1, <3>2
  <2>3. owner \in [Objects -> BOOLEAN] /\ self \in [Objects -> BOOLEAN]
    BY DEF IInv, TypeOK
  <2> QED
    BY <1>1, <1>4, <2>1, <2>2, <2>3 DEF Selves
<1> HIDE DEF os
<1>6. /\ functions' \in Seq(Objects) /\ Len(functions') \in Nat
      /\ Len(functions') = Len(functions) + Len(os) /\ Len(os) \in Nat
      /\ DOMAIN functions' = 1..Len(functions')
      /\ \A i \in 1..Len(functions) : functions'[i] = functions[i]
      /\ \A i \in 1..Len(functions') : i > Len(functions) =>
            i - Len(functions) \in 1..Len(os) /\ functions'[i] = os[i - Len(functions)]
      /\ \A i, j \in DOMAIN functions' : functions'[i] = functions'[j] => i = j
      /\ built \subseteq built' /\ built' \subseteq Objects
      /\ owner' \in [Objects -> BOOLEAN] /\ self' \in [Objects -> BOOLEAN]
      /\ BuiltFirst'
  BY <1>1, <1>3, <1>4, <1>5, ConstructKeeps
<1>7. TypeOK'
  BY <1>2, <1>6 DEF IInv, TypeOK
<1>8. NotStopped'
  BY <1>2, <1>4, <1>5 DEF IInv, NotStopped, Objects, Selfish
<1>9. ReceiversBuilt'
  BY <1>2, <1>6 DEF IInv, ReceiversBuilt
<1>10. ResetSoFar'
  BY <1>2, <1>6 DEF ResetSoFar
<1>11. AtMostOneConfig'
  <2>1. \A d \in Configs : Alive(d)' => Alive(d) \/ d = c
    BY <1>2, <1>4, <1>5, Facts DEF Alive, Held
  <2> QED
    BY <1>2, <2>1, ConfigsAfter
<1>12. /\ HandlersExplained' /\ FirstStopSettled'
       /\ NoneDoomedSoFar' /\ AheadUntouched'
  BY <1>2, <1>6, OutsideStop
<1>13. BuiltFirst'
  BY <1>6
<1> QED
  BY <1>7, <1>8, <1>9, <1>10, <1>11, <1>12, <1>13 DEF IInv

LEMMA SubscriberAndConfigKeep ==
    ASSUME IInv, NEW s \in Subscribers, NEW c \in Configs,
           Free, ~Registered(s), Obtained(c),
           \/ Construct(<<s>> \o NewConfig(c), {}, {s}) /\ Socket(s)
           \/ Construct(<<s>> \o NewConfig(c), {s}, {}) /\ UNCHANGED socket,
           UNCHANGED <<captured, receive, running, stopping, fault>>
    PROVE  IInv'
<1> DEFINE os == <<s>> \o NewConfig(c)
<1>1. PICK failed \in {{}, {s}} :
        /\ Construct(os, failed, {s} \ failed)
        /\ socket' = socket \cup ({s} \ failed)
  <2>1. {s} \ {} = {s} /\ {s} \ {s} = {} /\ socket \cup {} = socket
    OBVIOUS
  <2>2. CASE Construct(os, {}, {s}) /\ Socket(s)
    BY <2>1, <2>2 DEF Socket
  <2>3. CASE Construct(os, {s}, {}) /\ UNCHANGED socket
    BY <2>1, <2>3
  <2> QED
    BY <2>2, <2>3
<1>2. /\ Sound /\ position = 0 /\ Obtained(c) /\ ~Registered(s)
      /\ UNCHANGED <<captured, receive, running, stops, position, doomed, fault>>
  BY DEF Free, stopping
<1>3. /\ c \in Objects /\ c \in Selfish /\ c \notin Timers /\ c \notin Subscribers
      /\ s \in Objects /\ s \notin Selfish /\ s \notin Timers /\ s \notin Configs /\ s # c
  BY AppIOAssumption DEF Objects, Selfish
<1>4. /\ os \in Seq(Objects) /\ Len(os) \in 1..2
      /\ \A i \in 1..Len(os) : (i = 1 /\ os[i] = s) \/ (i = 2 /\ os[i] = c /\ ~Registered(c))
      /\ {os[i] : i \in DOMAIN os} = {s} \cup ({c} \ built)
  <2> DEFINE q == NewConfig(c)
  <2>1. /\ q \in Seq(Objects) /\ Len(q) \in 0..1
        /\ \A i \in 1..Len(q) : i = 1 /\ q[i] = c /\ ~Registered(c)
    BY NewConfigFacts
  <2>2. Len(q) = IF c \in built THEN 0 ELSE 1
    BY DEF NewConfig
  <2>3. <<s>> \in Seq(Objects) /\ Len(<<s>>) = 1 /\ <<s>>[1] = s
    BY <1>3
  <2> HIDE DEF q
  <2>4. /\ <<s>> \o q \in Seq(Objects) /\ Len(<<s>> \o q) = 1 + Len(q)
        /\ \A i \in 1..1 + Len(q) : (<<s>> \o q)[i] = IF i <= 1 THEN <<s>>[i] ELSE q[i - 1]
    <3> DEFINE r == <<s>>
    <3>1. r \in Seq(Objects) /\ Len(r) = 1
      BY <2>3
    <3> HIDE DEF r
    <3>2. /\ r \o q \in Seq(Objects) /\ Len(r \o q) = Len(r) + Len(q)
          /\ \A i \in 1..Len(r) + Len(q) : (r \o q)[i] = IF i <= Len(r) THEN r[i] ELSE q[i - Len(r)]
      BY <2>1, <3>1, ConcatProperties
    <3>3. /\ r \o q \in Seq(Objects) /\ Len(r \o q) = 1 + Len(q)
          /\ \A i \in 1..1 + Len(q) : (r \o q)[i] = IF i <= 1 THEN r[i] ELSE q[i - 1]
      BY <3>1, <3>2
    <3> QED
      BY <3>3 DEF r
  <2>5. /\ os \in Seq(Objects) /\ Len(os) = 1 + Len(q) /\ os[1] = s
        /\ \A i \in 1..1 + Len(q) : i > 1 => os[i] = q[i - 1]
    BY <2>1, <2>3, <2>4 DEF q
  <2> HIDE DEF os
  <2>6. \A i \in 1..Len(os) : i > 1 => i = 2 /\ os[i] = c /\ ~Registered(c) /\ c \notin built
    <3> SUFFICES ASSUME NEW i \in 1..Len(os), i > 1
                 PROVE  i = 2 /\ os[i] = c /\ ~Registered(c) /\ c \notin built
      OBVIOUS
    <3>1. i = 2 /\ 1 \in 1..Len(q) /\ i \in 1..1 + Len(q)
      BY <2>1, <2>5
    <3>2. os[i] = q[1]
      BY <2>5, <3>1
    <3> QED
      BY <2>1, <2>2, <3>1, <3>2
  <2>7. \A i \in 1..Len(os) : (i = 1 /\ os[i] = s) \/ (i = 2 /\ os[i] = c /\ ~Registered(c))
    <3>1. \A i \in 1..Len(os) : i = 1 \/ i > 1
      BY <2>5
    <3> QED
      BY <2>5, <2>6, <3>1
  <2>8. DOMAIN os = 1..Len(os) /\ Len(os) \in 1..2
    BY <2>1, <2>5, LenProperties
  <2>9. {os[i] : i \in DOMAIN os} = {s} \cup ({c} \ built)
    <3>1. c \notin built => 2 \in DOMAIN os /\ os[2] = c
      BY <2>2, <2>5, <2>6, <2>8
    <3>2. 1 \in DOMAIN os /\ os[1] = s
      BY <2>5, <2>8
    <3>3. \A i \in DOMAIN os : os[i] \in {s} \cup ({c} \ built)
      BY <2>6, <2>7, <2>8, <3>2
    <3> QED
      BY <3>1, <3>2, <3>3
  <2> QED
    BY <2>5, <2>7, <2>8, <2>9
<1>5. /\ built' = built \cup {c} \cup ({s} \ failed)
      /\ \A o \in Objects \ {s, c} : owner'[o] = owner[o] /\ self'[o] = self[o]
      /\ owner'[c] = owner[c] /\ self'[s] = self[s] /\ self'[c] = (self[c] \/ c \notin built)
  <2>1. /\ built' = built \cup ({os[i] : i \in DOMAIN os} \ failed)
        /\ owner' = [o \in Objects |-> owner[o] \/ o \in {s} \ failed]
        /\ self' = [o \in Objects |->
                      self[o] \/ o \in Selves({os[i] : i \in DOMAIN os} \ failed)]
    BY <1>1 DEF Construct
  <2>2. owner \in [Objects -> BOOLEAN] /\ self \in [Objects -> BOOLEAN]
    BY DEF IInv, TypeOK
  <2>3. {os[i] : i \in DOMAIN os} \ failed = ({s} \ failed) \cup ({c} \ built)
    BY <1>3, <1>4
  <2>4. Selves({os[i] : i \in DOMAIN os} \ failed) = {c} \ built
    BY <1>3, <2>3 DEF Selves
  <2> QED
    BY <1>3, <2>1, <2>2, <2>3, <2>4
<1> HIDE DEF os
<1>6. /\ functions' \in Seq(Objects) /\ Len(functions') \in Nat
      /\ Len(functions') = Len(functions) + Len(os) /\ Len(os) \in Nat
      /\ DOMAIN functions' = 1..Len(functions')
      /\ \A i \in 1..Len(functions) : functions'[i] = functions[i]
      /\ \A i \in 1..Len(functions') : i > Len(functions) =>
            i - Len(functions) \in 1..Len(os) /\ functions'[i] = os[i - Len(functions)]
      /\ \A i, j \in DOMAIN functions' : functions'[i] = functions'[j] => i = j
      /\ built \subseteq built' /\ built' \subseteq Objects
      /\ owner' \in [Objects -> BOOLEAN] /\ self' \in [Objects -> BOOLEAN]
      /\ BuiltFirst'
  <2>1. /\ \A i \in 1..Len(os) : ~Registered(os[i])
        /\ \A i, j \in 1..Len(os) : os[i] = os[j] => i = j
    BY <1>2, <1>3, <1>4
  <2>2. /\ {s} \ failed \in SUBSET Objects /\ {s} \ failed \subseteq built'
        /\ failed \in SUBSET Subscribers
    BY <1>3, <1>5
  <2> QED
    BY <1>1, <1>4, <2>1, <2>2, ConstructKeeps
<1>7. TypeOK'
  <2>1. socket' \in SUBSET Subscribers
    BY <1>1 DEF IInv, TypeOK
  <2> QED
    BY <1>2, <1>6, <2>1 DEF IInv, TypeOK
<1>8. NotStopped'
  BY <1>1, <1>2, <1>3, <1>5 DEF IInv, NotStopped, Objects, Selfish
<1>9. ReceiversBuilt'
  BY <1>2, <1>6 DEF IInv, ReceiversBuilt
<1>10. ResetSoFar'
  BY <1>2, <1>6 DEF ResetSoFar
<1>11. AtMostOneConfig'
  <2>1. \A d \in Configs : Alive(d)' => Alive(d) \/ d = c
    <3>1. \A t \in Timers : Held(t)' => Held(t)
      BY <1>3, <1>5, Facts DEF Held
    <3>2. \A d \in Configs \ {c} : Held(d)' => Held(d)
      BY <1>3, <1>5, Facts DEF Held
    <3>3. \A d \in Configs \ {c} : d \in built' => d \in built
      BY <1>3, <1>5
    <3> QED
      BY <1>2, <3>1, <3>2, <3>3 DEF Alive
  <2> QED
    BY <1>2, <2>1, ConfigsAfter
<1>12. /\ HandlersExplained' /\ FirstStopSettled'
       /\ NoneDoomedSoFar' /\ AheadUntouched'
  BY <1>2, <1>6, OutsideStop
<1>13. BuiltFirst'
  BY <1>6
<1> QED
  BY <1>7, <1>8, <1>9, <1>10, <1>11, <1>12, <1>13 DEF IInv

LEMMA SubscriberAloneKeeps ==
    ASSUME IInv, NEW s \in Subscribers, Free, ~Registered(s),
           Construct(<<s>>, {s}, {}),
           UNCHANGED <<socket, captured, receive, running, stopping, fault>>
    PROVE  IInv'
<1>1. /\ Sound /\ position = 0
      /\ UNCHANGED <<captured, socket, receive, running, stops, position, doomed, fault>>
  BY DEF Free, stopping
<1>2. s \in Objects
  BY DEF Objects
<1>3. UNCHANGED <<built, owner, self>>
  <2> DEFINE os == <<s>>
  <2>1. /\ built' = built \cup ({os[i] : i \in DOMAIN os} \ {s})
        /\ owner' = [o \in Objects |-> owner[o] \/ o \in {}]
        /\ self' = [o \in Objects |-> self[o] \/ o \in Selves({os[i] : i \in DOMAIN os} \ {s})]
    BY DEF Construct
  <2>2. {os[i] : i \in DOMAIN os} \ {s} = {}
    OBVIOUS
  <2>3. owner \in [Objects -> BOOLEAN] /\ self \in [Objects -> BOOLEAN]
    BY DEF IInv, TypeOK
  <2> QED
    BY <2>1, <2>2, <2>3 DEF Selves
<1>4. /\ functions' \in Seq(Objects) /\ Len(functions') \in Nat
      /\ \A i, j \in DOMAIN functions' : functions'[i] = functions'[j] => i = j
      /\ BuiltFirst'
  <2> DEFINE os == <<s>>
             failed == {s}
             mine == {}
  <2>1. /\ os \in Seq(Objects) /\ Len(os) = 1 /\ \A i \in 1..Len(os) : i = 1 /\ os[i] = s
        /\ failed \in SUBSET Subscribers /\ mine \in SUBSET Objects /\ mine \subseteq built'
        /\ Construct(os, failed, mine)
    BY <1>2
  <2> HIDE DEF os, failed, mine
  <2>2. /\ \A i \in 1..Len(os) : ~Registered(os[i])
        /\ \A i, j \in 1..Len(os) : os[i] = os[j] => i = j
    BY <2>1
  <2> QED
    BY <2>1, <2>2, ConstructKeeps
<1>5. TypeOK'
  <2>1. position' \in 0..Len(functions') + 1
    BY <1>1, <1>4
  <2> QED
    BY <1>1, <1>3, <1>4, <2>1 DEF IInv, TypeOK
<1>6. NotStopped' /\ ReceiversBuilt'
  BY <1>1, <1>3 DEF IInv, NotStopped, ReceiversBuilt
<1>7. ResetSoFar'
  BY <1>1, <1>4 DEF ResetSoFar
<1>8. AtMostOneConfig'
  BY <1>1, <1>3 DEF IInv, AtMostOneConfig, Alive, Held
<1>9. /\ HandlersExplained' /\ FirstStopSettled'
      /\ NoneDoomedSoFar' /\ AheadUntouched'
  BY <1>1, <1>4, OutsideStop
<1> QED
  BY <1>4, <1>5, <1>6, <1>7, <1>8, <1>9 DEF IInv

LEMMA NewSubscriberKeeps ==
    ASSUME IInv, NEW s \in Subscribers, NEW c \in Configs, NewSubscriber(s, c)
    PROVE  IInv'
<1>1. /\ Free /\ ~Registered(s) /\ Obtained(c)
      /\ UNCHANGED <<captured, receive, running, stopping, fault>>
  BY DEF NewSubscriber
<1>2. CASE Construct(<<s>>, {s}, {}) /\ UNCHANGED socket
  BY <1>1, <1>2, SubscriberAloneKeeps
<1>3. CASE \/ Construct(<<s>> \o NewConfig(c), {}, {s}) /\ Socket(s)
           \/ Construct(<<s>> \o NewConfig(c), {s}, {}) /\ UNCHANGED socket
  BY <1>1, <1>3, SubscriberAndConfigKeep
<1> QED
  BY <1>2, <1>3 DEF NewSubscriber

LEMMA NewTimerKeeps ==
    ASSUME IInv, NEW t \in Timers, NewTimer(t)
    PROVE  IInv'
<1>1. /\ Sound /\ position = 0 /\ t \notin built /\ Construct(<<t>>, {}, {t})
      /\ UNCHANGED <<socket, receive, running, stops, position, doomed, fault>>
  BY DEF NewTimer, Free, loop, stopping
<1>2. PICK h \in {Nobody} \cup {p \in Subscribers \cup Configs : Alive(p)} :
        captured' = [captured EXCEPT ![t] = h]
  BY DEF NewTimer, Holds
<1>3. /\ t \in Objects /\ t \in Selfish /\ t \notin Configs /\ t \notin Subscribers
      /\ h # Nobody => Alive(h)
  BY <1>2, AppIOAssumption DEF Objects, Selfish
<1>4. /\ <<t>> \in Seq(Objects) /\ Len(<<t>>) = 1 /\ <<t>>[1] = t /\ DOMAIN <<t>> = {1}
  BY <1>3
<1>5. ~Registered(t)
  BY <1>1, <1>3, Facts DEF Registered, IInv, BuiltFirst
<1>6. /\ built' = built \cup {t}
      /\ \A o \in Objects \ {t} : owner'[o] = owner[o] /\ self'[o] = self[o]
  <2>1. /\ built' = built \cup ({<<t>>[i] : i \in DOMAIN <<t>>} \ {})
        /\ owner' = [o \in Objects |-> owner[o] \/ o \in {t}]
        /\ self' = [o \in Objects |-> self[o] \/ o \in Selves({<<t>>[i] : i \in DOMAIN <<t>>} \ {})]
    BY <1>1 DEF Construct
  <2>2. {<<t>>[i] : i \in DOMAIN <<t>>} = {t}
    BY <1>4
  <2>3. owner \in [Objects -> BOOLEAN] /\ self \in [Objects -> BOOLEAN]
    BY DEF IInv, TypeOK
  <2> QED
    BY <2>1, <2>2, <2>3 DEF Selves
<1>7. /\ functions' \in Seq(Objects) /\ Len(functions') \in Nat
      /\ Len(functions') = Len(functions) + 1
      /\ DOMAIN functions' = 1..Len(functions')
      /\ \A i \in 1..Len(functions) : functions'[i] = functions[i]
      /\ \A i \in 1..Len(functions') : i > Len(functions) => functions'[i] = t
      /\ \A i, j \in DOMAIN functions' : functions'[i] = functions'[j] => i = j
      /\ built \subseteq built' /\ built' \subseteq Objects
      /\ owner' \in [Objects -> BOOLEAN] /\ self' \in [Objects -> BOOLEAN]
      /\ BuiltFirst'
  <2> DEFINE os == <<t>>
             none == {}
             mine == {t}
  <2>1. os \in Seq(Objects) /\ Len(os) = 1 /\ \A i \in 1..Len(os) : i = 1 /\ os[i] = t
    BY <1>4
  <2>2. /\ Construct(os, none, mine) /\ mine \in SUBSET Objects /\ mine \subseteq built'
        /\ none \in SUBSET Subscribers
    BY <1>1, <1>3, <1>6
  <2> HIDE DEF os, none, mine
  <2>3. /\ functions' \in Seq(Objects) /\ Len(functions') \in Nat
        /\ Len(functions') = Len(functions) + Len(os) /\ Len(os) \in Nat
        /\ DOMAIN functions' = 1..Len(functions')
        /\ \A i \in 1..Len(functions) : functions'[i] = functions[i]
        /\ \A i \in 1..Len(functions') : i > Len(functions) =>
              i - Len(functions) \in 1..Len(os) /\ functions'[i] = os[i - Len(functions)]
        /\ \A i, j \in DOMAIN functions' : functions'[i] = functions'[j] => i = j
        /\ built \subseteq built' /\ built' \subseteq Objects
        /\ owner' \in [Objects -> BOOLEAN] /\ self' \in [Objects -> BOOLEAN]
        /\ BuiltFirst'
    <3>1. /\ \A i \in 1..Len(os) : ~Registered(os[i])
          /\ \A i, j \in 1..Len(os) : os[i] = os[j] => i = j
      BY <1>5, <2>1
    <3> QED
      BY <2>1, <2>2, <3>1, ConstructKeeps
  <2> QED
    BY <2>1, <2>3
<1>8. TypeOK'
  BY <1>1, <1>2, <1>7 DEF IInv, TypeOK
<1>9. NotStopped'
  BY <1>1, <1>3, <1>6 DEF IInv, NotStopped, Objects, Selfish
<1>10. ReceiversBuilt'
  BY <1>1, <1>7 DEF IInv, ReceiversBuilt
<1>11. ResetSoFar'
  BY <1>1, <1>7 DEF ResetSoFar
<1>12. AtMostOneConfig'
  <2> SUFFICES \A d \in Configs : Alive(d)' => Alive(d)
    BY DEF IInv, AtMostOneConfig
  <2> SUFFICES ASSUME NEW d \in Configs, Alive(d)' PROVE Alive(d)
    OBVIOUS
  <2>1. d \in Objects /\ d # t /\ d # Nobody
    BY <1>3, Facts, AppIOAssumption
  <2>2. CASE Held(d)'
    BY <1>6, <2>1, <2>2 DEF Alive, Held
  <2>3. ASSUME NEW u \in Timers, captured'[u] = d, Held(u)', d \in built' PROVE Alive(d)
    <3>1. d \in built
      BY <1>6, <2>1, <2>3
    <3>2. CASE u = t
      <4>1. h = d
        BY <1>2, <2>3, <3>2 DEF IInv, TypeOK
      <4> QED
        BY <1>3, <2>1, <4>1
    <3>3. CASE u # t
      <4>1. captured[u] = d /\ Held(u)
        BY <1>2, <1>6, <2>3, <3>3, Facts DEF Held, IInv, TypeOK
      <4> QED
        BY <3>1, <4>1 DEF Alive
    <3> QED
      BY <3>2, <3>3
  <2> QED
    BY <2>2, <2>3 DEF Alive
<1>13. /\ HandlersExplained' /\ FirstStopSettled'
       /\ NoneDoomedSoFar' /\ AheadUntouched'
  BY <1>1, <1>7, OutsideStop
<1>14. BuiltFirst'
  BY <1>7
<1> QED
  BY <1>8, <1>9, <1>10, <1>11, <1>12, <1>13, <1>14 DEF IInv

LEMMA CaptureKeeps ==
    ASSUME IInv, NEW t \in Timers, Capture(t)
    PROVE  IInv'
<1>1. /\ Sound /\ position = 0 /\ Held(t)
      /\ UNCHANGED <<functions, built, owner, self, socket, receive, running,
                     stops, position, doomed, fault>>
  BY DEF Capture, Free, loop, stopping
<1>2. PICK h \in {Nobody} \cup {p \in Subscribers \cup Configs : Alive(p)} :
        captured' = [captured EXCEPT ![t] = h]
  BY DEF Capture, Holds
<1>3. TypeOK'
  BY <1>1, <1>2 DEF IInv, TypeOK
<1>4. BuiltFirst' /\ NotStopped' /\ ReceiversBuilt'
  BY <1>1 DEF IInv, BuiltFirst, NotStopped, ReceiversBuilt
<1>5. ResetSoFar'
  BY <1>1, Facts DEF ResetSoFar
<1>6. AtMostOneConfig'
  <2> SUFFICES ASSUME NEW d \in Configs, Alive(d)' PROVE Alive(d)
    BY DEF IInv, AtMostOneConfig
  <2>1. d # Nobody
    BY Facts, AppIOAssumption
  <2>2. CASE Held(d)'
    BY <1>1, <2>2 DEF Alive, Held
  <2>3. ASSUME NEW u \in Timers, captured'[u] = d, Held(u)', d \in built' PROVE Alive(d)
    <3>1. CASE u = t
      BY <1>2, <2>1, <2>3, <3>1 DEF IInv, TypeOK
    <3>2. CASE u # t
      <4>1. captured[u] = d /\ Held(u)
        BY <1>1, <1>2, <2>3, <3>2 DEF Held, IInv, TypeOK
      <4> QED
        BY <1>1, <2>3, <4>1 DEF Alive
    <3> QED
      BY <3>1, <3>2
  <2> QED
    BY <2>2, <2>3 DEF Alive
<1>7. /\ HandlersExplained' /\ FirstStopSettled'
      /\ NoneDoomedSoFar' /\ AheadUntouched'
  BY <1>1, Facts, OutsideStop
<1> QED
  BY <1>3, <1>4, <1>5, <1>6, <1>7 DEF IInv

LEMMA DropKeeps ==
    ASSUME IInv, NEW o \in Objects, Drop(o)
    PROVE  IInv'
<1>1. /\ Sound /\ position = 0 /\ owner' = [owner EXCEPT ![o] = FALSE]
      /\ UNCHANGED <<functions, built, self, captured, socket, receive, running,
                     stops, position, doomed, fault>>
  BY DEF Drop, Free, loop, stopping
<1>2. TypeOK'
  BY <1>1 DEF IInv, TypeOK
<1>3. \A p \in Objects : owner'[p] => owner[p]
  BY <1>1 DEF IInv, TypeOK
<1>4. BuiltFirst' /\ NotStopped' /\ ReceiversBuilt'
  BY <1>1, <1>3 DEF IInv, BuiltFirst, NotStopped, ReceiversBuilt
<1>5. ResetSoFar'
  BY <1>1, Facts DEF ResetSoFar
<1>6. AtMostOneConfig'
  <2>1. \A p \in Objects : Alive(p)' => Alive(p)
    BY <1>1, <1>3, Facts, NothingRevives DEF Held
  <2> QED
    BY <2>1, Facts DEF IInv, AtMostOneConfig
<1>7. /\ HandlersExplained' /\ FirstStopSettled'
      /\ NoneDoomedSoFar' /\ AheadUntouched'
  BY <1>1, Facts, OutsideStop
<1> QED
  BY <1>2, <1>4, <1>5, <1>6, <1>7 DEF IInv

LEMMA LetGoKeeps ==
    ASSUME IInv, NEW t \in Timers, LetGo(t)
    PROVE  IInv'
<1>1. /\ Sound /\ position = 0 /\ self' = [self EXCEPT ![t] = FALSE]
      /\ UNCHANGED <<functions, built, owner, captured, socket, receive, running,
                     stops, position, doomed, fault>>
  BY DEF LetGo, Free, loop, stopping
<1>2. TypeOK'
  BY <1>1 DEF IInv, TypeOK
<1>3. /\ \A p \in Objects : self'[p] => self[p]
      /\ \A p \in Objects \ {t} : self'[p] = self[p]
  BY <1>1 DEF IInv, TypeOK
<1>4. BuiltFirst' /\ ReceiversBuilt'
  BY <1>1, <1>3 DEF IInv, BuiltFirst, ReceiversBuilt
<1>5. NotStopped'
  BY <1>1, <1>3, Facts, AppIOAssumption DEF IInv, NotStopped
<1>6. ResetSoFar'
  BY <1>1, Facts DEF ResetSoFar
<1>7. AtMostOneConfig'
  <2>1. \A p \in Objects : Alive(p)' => Alive(p)
    BY <1>1, <1>3, Facts, NothingRevives DEF Held
  <2> QED
    BY <2>1, Facts DEF IInv, AtMostOneConfig
<1>8. /\ HandlersExplained' /\ FirstStopSettled'
      /\ NoneDoomedSoFar' /\ AheadUntouched'
  BY <1>1, Facts, OutsideStop
<1> QED
  BY <1>2, <1>4, <1>5, <1>6, <1>7, <1>8 DEF IInv

(* Steps that touch neither the heap nor stop(). *)
LEMMA LoopKeeps ==
    ASSUME IInv, position = 0, UNCHANGED <<heap, socket, stopping>>,
           TypeOK', ReceiversBuilt', HandlersExplained', FirstStopSettled'
    PROVE  IInv'
<1>1. UNCHANGED <<functions, built, owner, self, captured, stops, position, doomed>>
  BY DEF heap, stopping
<1>2. BuiltFirst' /\ NotStopped'
  BY <1>1 DEF IInv, BuiltFirst, NotStopped
<1>3. ResetSoFar' /\ NoneDoomedSoFar' /\ AheadUntouched'
  BY <1>1, Facts DEF ResetSoFar, NoneDoomedSoFar, AheadUntouched
<1>4. AtMostOneConfig'
  BY <1>1 DEF IInv, AtMostOneConfig, Alive, Held
<1> QED
  BY <1>2, <1>3, <1>4 DEF IInv

(* A subscriber of which something is pending, and what undefined uses of  *)
(* it there may be. *)
LEMMA SubscriberFaults ==
    ASSUME IInv, NEW s \in Subscribers, NEW where \in {"receive", "handler", "aborted", "rearm"},
           fault' = [object |-> s, site |-> where], UNCHANGED <<owner, stops>>,
           where \in {"handler", "aborted"} => ~owner[s],
           where = "rearm" => ~owner[s] \/ stops # 0,
           where = "receive" => stops # 0
    PROVE  /\ HandlersExplained' /\ FirstStopSettled'
           /\ fault' \in [object : Objects, site : Sites]
<1>1. fault'.object = s /\ fault'.site = where /\ stops' = stops /\ owner'[s] = owner[s]
  OBVIOUS
<1>2. stops # 0 => stops > 0
  BY Facts
<1>3. HandlersExplained'
  BY <1>1, <1>2 DEF HandlersExplained, Explains
<1>4. FirstStopSettled'
  BY <1>1 DEF FirstStopSettled, Sound, NoFault
<1>5. fault' \in [object : Objects, site : Sites]
  BY DEF Objects, Sites
<1> QED
  BY <1>3, <1>4, <1>5

LEMMA SetCallbackKeeps ==
    ASSUME IInv, NEW s \in Subscribers, SetCallback(s)
    PROVE  IInv'
<1>1. /\ Sound /\ position = 0 /\ Alive(s) /\ s \in built
      /\ UNCHANGED <<heap, socket, running, stopping>>
  BY DEF SetCallback, Free, Alive, Held
<1>2. UNCHANGED <<functions, built, owner, self, captured, stops, position, doomed>>
  BY <1>1 DEF heap, stopping
<1>3. CASE receive' = [receive EXCEPT ![s] = "pending"] /\ UNCHANGED fault
  <2>1. TypeOK'
    BY <1>1, <1>2, <1>3 DEF IInv, TypeOK
  <2>2. ReceiversBuilt'
    BY <1>1, <1>2, <1>3 DEF IInv, TypeOK, ReceiversBuilt
  <2>3. HandlersExplained' /\ FirstStopSettled'
    BY <1>1, <1>3, Facts, OutsideStop DEF heap, stopping
  <2> QED
    BY <1>1, <2>1, <2>2, <2>3, LoopKeeps
<1>4. CASE s \notin socket /\ Fails(s, "receive") /\ UNCHANGED receive
  <2>1. stops # 0
    BY <1>1, <1>4 DEF IInv, NotStopped
  <2>2. /\ HandlersExplained' /\ FirstStopSettled'
        /\ fault' \in [object : Objects, site : Sites]
    BY <1>2, <1>4, <2>1, SubscriberFaults DEF Fails
  <2>3. TypeOK'
    BY <1>1, <1>2, <1>4, <2>2 DEF IInv, TypeOK
  <2>4. ReceiversBuilt'
    BY <1>1, <1>2, <1>4 DEF IInv, ReceiversBuilt
  <2> QED
    BY <1>1, <2>2, <2>3, <2>4, LoopKeeps
<1> QED
  BY <1>3, <1>4 DEF SetCallback

LEMMA ReceiveKeeps ==
    ASSUME IInv, NEW s \in Subscribers, Receive(s)
    PROVE  IInv'
<1>1. /\ Sound /\ position = 0 /\ receive[s] = "pending"
      /\ receive' = [receive EXCEPT ![s] = "read"]
      /\ UNCHANGED <<heap, socket, running, stopping, fault>>
  BY DEF Receive, Turn, Free
<1>2. TypeOK' /\ ReceiversBuilt'
  BY <1>1 DEF heap, stopping, IInv, TypeOK, ReceiversBuilt
<1>3. HandlersExplained' /\ FirstStopSettled'
  BY <1>1, Facts, OutsideStop DEF heap, stopping
<1> QED
  BY <1>1, <1>2, <1>3, LoopKeeps

LEMMA CallbackKeeps ==
    ASSUME IInv, NEW s \in Subscribers, Callback(s)
    PROVE  IInv'
<1>1. /\ Sound /\ position = 0 /\ receive[s] = "read" /\ s \in built
      /\ receive' = [receive EXCEPT ![s] = "none"]
      /\ UNCHANGED <<heap, socket, stopping>>
  BY DEF Callback, Turn, Free, IInv, ReceiversBuilt
<1>2. UNCHANGED <<functions, built, owner, self, captured, stops, position, doomed>>
  BY <1>1 DEF heap, stopping
<1>3. CASE running' = s /\ UNCHANGED fault
  <2>1. TypeOK' /\ ReceiversBuilt'
    BY <1>1, <1>2, <1>3 DEF IInv, TypeOK, ReceiversBuilt
  <2>2. HandlersExplained' /\ FirstStopSettled'
    BY <1>1, <1>3, Facts, OutsideStop DEF heap, stopping
  <2> QED
    BY <1>1, <2>1, <2>2, LoopKeeps
<1>4. CASE ~Alive(s) /\ Fails(s, "handler") /\ UNCHANGED running
  <2>1. ~owner[s]
    BY <1>1, <1>4 DEF Alive, Held
  <2>2. /\ HandlersExplained' /\ FirstStopSettled'
        /\ fault' \in [object : Objects, site : Sites]
    BY <1>2, <1>4, <2>1, SubscriberFaults DEF Fails
  <2>3. TypeOK' /\ ReceiversBuilt'
    BY <1>1, <1>2, <1>4, <2>2 DEF IInv, TypeOK, ReceiversBuilt
  <2> QED
    BY <1>1, <2>2, <2>3, LoopKeeps
<1> QED
  BY <1>3, <1>4 DEF Callback

LEMMA AbortedKeeps ==
    ASSUME IInv, NEW s \in Subscribers, Aborted(s)
    PROVE  IInv'
<1>1. /\ Sound /\ position = 0 /\ receive[s] = "pending" /\ s \in built /\ ~Alive(s)
      /\ receive' = [receive EXCEPT ![s] = "none"]
      /\ UNCHANGED <<heap, socket, running, stopping>>
  BY DEF Aborted, Turn, Free, IInv, ReceiversBuilt
<1>2. UNCHANGED <<functions, built, owner, self, captured, stops, position, doomed>>
  BY <1>1 DEF heap, stopping
<1>3. ReceiversBuilt'
  BY <1>1, <1>2 DEF IInv, TypeOK, ReceiversBuilt
<1>4. CASE UNCHANGED fault
  <2>1. TypeOK'
    BY <1>1, <1>2, <1>4 DEF IInv, TypeOK
  <2>2. HandlersExplained' /\ FirstStopSettled'
    BY <1>1, <1>4, Facts, OutsideStop DEF heap, stopping
  <2> QED
    BY <1>1, <1>3, <2>1, <2>2, LoopKeeps
<1>5. CASE Fails(s, "aborted")
  <2>1. ~owner[s]
    BY <1>1 DEF Alive, Held
  <2>2. /\ HandlersExplained' /\ FirstStopSettled'
        /\ fault' \in [object : Objects, site : Sites]
    BY <1>2, <1>5, <2>1, SubscriberFaults DEF Fails
  <2>3. TypeOK'
    BY <1>1, <1>2, <2>2 DEF IInv, TypeOK
  <2> QED
    BY <1>1, <1>3, <2>2, <2>3, LoopKeeps
<1> QED
  BY <1>4, <1>5 DEF Aborted

LEMMA ReturnKeeps ==
    ASSUME IInv, NEW s \in Subscribers, Return(s)
    PROVE  IInv'
<1>1. /\ Sound /\ position = 0 /\ running = s /\ s \in built /\ running' = Nobody
      /\ UNCHANGED <<heap, socket, stopping>>
  BY DEF Return, Free, IInv, ReceiversBuilt
<1>2. UNCHANGED <<functions, built, owner, self, captured, stops, position, doomed>>
  BY <1>1 DEF heap, stopping
<1>3. \A r \in Subscribers : r # Nobody
  BY AppIOAssumption, Facts
<1>4. CASE receive' = [receive EXCEPT ![s] = "pending"] /\ UNCHANGED fault
  <2>1. TypeOK' /\ ReceiversBuilt'
    BY <1>1, <1>2, <1>3, <1>4 DEF IInv, TypeOK, ReceiversBuilt
  <2>2. HandlersExplained' /\ FirstStopSettled'
    BY <1>1, <1>4, Facts, OutsideStop DEF heap, stopping
  <2> QED
    BY <1>1, <2>1, <2>2, LoopKeeps
<1>5. CASE ~(Alive(s) /\ s \in socket) /\ Fails(s, "rearm") /\ UNCHANGED receive
  <2>1. ~owner[s] \/ stops # 0
    BY <1>1, <1>5 DEF Alive, Held, IInv, NotStopped
  <2>2. /\ HandlersExplained' /\ FirstStopSettled'
        /\ fault' \in [object : Objects, site : Sites]
    BY <1>2, <1>5, <2>1, SubscriberFaults DEF Fails
  <2>3. TypeOK' /\ ReceiversBuilt'
    BY <1>1, <1>2, <1>3, <1>5, <2>2 DEF IInv, TypeOK, ReceiversBuilt
  <2> QED
    BY <1>1, <2>2, <2>3, LoopKeeps
<1> QED
  BY <1>4, <1>5 DEF Return

(* A first stop() that has called every function has met all that was       *)
(* doomed.                                                                 *)
LEMMA ComesToEnd ==
    ASSUME NoneDoomedSoFar', Sound', stops' = 1, position' \in Nat, position' # 0,
           Len(functions') \in Nat, position' > Len(functions')
    PROVE  doomed' = {}
BY DEF NoneDoomedSoFar

(* What destruct() has reset no longer counts. *)
LEMMA SparedIsAlive ==
    ASSUME IInv, position \in 1..Len(functions)
    PROVE  Spared(functions[position]) <=> Alive(functions[position])
<1> DEFINE o == functions[position]
<1>1. o \in Objects
  BY Facts
<1>2. \A t \in Timers : self[t] /\ Before(t, o) => FALSE
  <2> SUFFICES ASSUME NEW t \in Timers, self[t], Before(t, o) PROVE FALSE
    OBVIOUS
  <2>1. PICK i \in 1..Len(functions), j \in 1..Len(functions) :
            i < j /\ functions[i] = t /\ functions[j] = o
    BY Facts DEF Before
  <2>2. i < position
    BY <2>1, Facts
  <2> QED
    BY <2>1, <2>2 DEF IInv, ResetSoFar
<1>3. \A t \in Timers : owner[t] \/ self[t] => Held(t)
  BY Facts DEF Held, IInv, BuiltFirst
<1> HIDE DEF o
<1>4. Spared(o) => Alive(o)
  BY <1>3 DEF Spared, Alive, Held
<1>5. Alive(o) => Spared(o)
  BY <1>2 DEF Spared, Alive, Held
<1> QED
  BY <1>4, <1>5 DEF o

LEMMA StopKeeps ==
    ASSUME IInv, Stop
    PROVE  IInv'
<1>1. /\ Sound /\ position = 0 /\ stops < MaxStops /\ stops' = stops + 1 /\ position' = 1
      /\ doomed' = {o \in Objects : Registered(o) /\ ~Spared(o)}
      /\ UNCHANGED <<functions, built, owner, self, captured, socket, receive, running, fault>>
  BY DEF Stop, Free, heap, loop
<1>2. TypeOK'
  <2>1. stops' \in 0..MaxStops /\ position' \in 0..Len(functions) + 1
    BY <1>1, Facts, AppIOAssumption
  <2> QED
    BY <1>1, <2>1 DEF IInv, TypeOK
<1>3. BuiltFirst' /\ ReceiversBuilt'
  BY <1>1 DEF IInv, BuiltFirst, ReceiversBuilt
<1>4. NotStopped' /\ ResetSoFar'
  BY <1>1, Facts DEF NotStopped, ResetSoFar
<1>5. AheadUntouched'
  <2> SUFFICES ASSUME stops' = 1, NEW i \in 1..Len(functions)
               PROVE  /\ functions[i] \in doomed' <=> ~Spared(functions[i])'
                      /\ functions[i] \in Subscribers \cap built => functions[i] \in socket
    BY <1>1 DEF AheadUntouched
  <2>1. Spared(functions[i])' <=> Spared(functions[i])
    BY <1>1 DEF Spared, Before, Held
  <2>2. functions[i] \in Objects /\ Registered(functions[i])
    BY Facts DEF Registered
  <2>3. stops = 0
    BY <1>1, Facts
  <2> QED
    BY <1>1, <2>1, <2>2, <2>3 DEF IInv, NotStopped
<1>6. AtMostOneConfig'
  BY <1>1 DEF IInv, AtMostOneConfig, Alive, Held
<1>7. NoneDoomedSoFar'
  BY <1>1, Facts DEF NoneDoomedSoFar, Registered
<1>8. HandlersExplained'
  BY <1>1 DEF Sound, NoFault, HandlersExplained, Explains
<1>9. FirstStopSettled'
  <2>1. fault'.site # "destructor"
    BY <1>1 DEF Sound, NoFault
  <2> QED
    BY <1>1, <1>7, <2>1, ComesToEnd DEF FirstStopSettled
<1> QED
  BY <1>2, <1>3, <1>4, <1>5, <1>6, <1>7, <1>8, <1>9 DEF IInv

LEMMA DestructKeeps ==
    ASSUME IInv, Destruct
    PROVE  IInv'
<1> DEFINE o == functions[position]
<1>1. /\ Sound /\ position \in 1..Len(functions) /\ position' = position + 1
      /\ UNCHANGED <<functions, built, owner, captured, receive, running, stops, doomed>>
      /\ \/ /\ Alive(o) /\ o \in Selfish
            /\ self' = [self EXCEPT ![o] = FALSE]
            /\ UNCHANGED <<socket, fault>>
         \/ /\ Alive(o) /\ o \in socket
            /\ socket' = socket \ {o}
            /\ UNCHANGED <<self, fault>>
         \/ /\ ~(Alive(o) /\ o \in Selfish \cup socket)
            /\ Fails(o, "destructor")
            /\ UNCHANGED <<self, socket>>
  BY Facts DEF Destruct, Turned
<1>2. o \in Objects
  BY <1>1, Facts
<1> HIDE DEF o
<1>3. self \in [Objects -> BOOLEAN] /\ self' \in [Objects -> BOOLEAN] /\ socket' \subseteq socket
  BY <1>1 DEF IInv, TypeOK
<1>4. /\ \A p \in Objects : self'[p] => self[p]
      /\ \A p \in Objects \ {o} : self'[p] = self[p]
      /\ \A p \in socket \ {o} : p \in socket'
  BY <1>1, <1>3
<1>5. TypeOK'
  <2>1. position' \in 0..Len(functions') + 1
    BY <1>1, Facts
  <2>2. fault' \in [object : Objects, site : Sites] \cup {NoFault}
    BY <1>1, <1>2 DEF Fails, Sites, IInv, TypeOK
  <2> QED
    BY <1>1, <1>3, <2>1, <2>2 DEF IInv, TypeOK
<1>6. BuiltFirst' /\ ReceiversBuilt'
  BY <1>1, <1>4 DEF IInv, BuiltFirst, ReceiversBuilt
<1>7. NotStopped'
  BY <1>1 DEF IInv, NotStopped
<1>8. ResetSoFar'
  <2> SUFFICES ASSUME NEW i \in 1..Len(functions), i < position + 1 PROVE ~self'[functions[i]]
    BY <1>1 DEF ResetSoFar
  <2>1. i < position \/ i = position
    BY <1>1
  <2>2. functions[i] \in Objects
    BY Facts
  <2>3. CASE i < position
    BY <1>4, <2>2, <2>3 DEF IInv, ResetSoFar
  <2>4. CASE i = position
    <3>1. functions[i] = o
      BY <2>4 DEF o
    <3>2. self[o] => o \in Selfish /\ Alive(o) /\ o \notin Subscribers
      BY <1>2, AppIOAssumption DEF IInv, BuiltFirst, Alive, Held
    <3>3. socket \subseteq Subscribers
      BY DEF IInv, TypeOK
    <3>4. ~self'[o]
      BY <1>1, <1>2, <1>3, <3>2, <3>3
    <3> QED
      BY <3>1, <3>4
  <2> QED
    BY <2>1, <2>3, <2>4
<1>9. AheadUntouched'
  <2> SUFFICES ASSUME stops = 1, fault' = NoFault, NEW i \in 1..Len(functions), i >= position + 1
               PROVE  /\ functions[i] \in doomed <=> ~Spared(functions[i])'
                      /\ functions[i] \in Subscribers \cap built => functions[i] \in socket'
    BY <1>1 DEF AheadUntouched, Sound
  <2>1. i >= position /\ i # position /\ position < i
    BY <1>1
  <2>2. PICK q \in Objects : q = functions[i] /\ q # o
    BY <1>1, <2>1, Facts DEF o
  <2>3. /\ q \in doomed <=> ~Spared(q)
        /\ q \in Subscribers \cap built => q \in socket
    BY <1>1, <2>1, <2>2 DEF IInv, AheadUntouched
  <2>4. Before(o, q)
    BY <1>1, <2>1, <2>2, Facts DEF Before, o
  <2>5. \A t \in Timers : Before(t, q)' <=> Before(t, q)
    BY <1>1 DEF Before
  <2>6. Held(q)' <=> Held(q)
    BY <1>1, <1>4, <2>2 DEF Held
  <2>7. \A t \in Timers : (self'[t] /\ ~Before(t, q)) <=> (self[t] /\ ~Before(t, q))
    BY <1>3, <1>4, <2>4, Facts
  <2>8. Spared(q)' <=> Spared(q)
    BY <1>1, <2>5, <2>6, <2>7 DEF Spared
  <2> QED
    BY <1>1, <1>4, <2>2, <2>3, <2>8
<1>10. AtMostOneConfig'
  <2>1. \A p \in Objects : Alive(p)' => Alive(p)
    BY <1>1, <1>4, Facts, NothingRevives DEF Held
  <2> QED
    BY <2>1, Facts DEF IInv, AtMostOneConfig
<1>11. ASSUME stops = 1 PROVE o \in doomed <=> ~Alive(o)
  <2>1. position >= position /\ position # 0
    BY <1>1
  <2> QED
    BY <1>1, <1>11, <2>1, SparedIsAlive DEF IInv, AheadUntouched, o
<1>12. ASSUME stops = 1, o \in Subscribers, Alive(o) PROVE o \in socket
  <2>1. position >= position /\ position # 0 /\ o \in built
    BY <1>1, <1>12 DEF Alive, Held
  <2> QED
    BY <1>1, <1>12, <2>1 DEF IInv, AheadUntouched, o
<1>13. CASE UNCHANGED fault /\ Alive(o)
  <2>1. HandlersExplained'
    BY <1>1, <1>13 DEF Sound, NoFault, HandlersExplained, Explains
  <2>2. NoneDoomedSoFar'
    <3> SUFFICES ASSUME stops = 1
                 PROVE  /\ \A p \in doomed : \E i \in 1..Len(functions) : functions[i] = p
                        /\ \A i \in 1..Len(functions) : i < position + 1 => functions[i] \notin doomed
      BY <1>1 DEF NoneDoomedSoFar
    <3>1. /\ \A p \in doomed : \E i \in 1..Len(functions) : functions[i] = p
          /\ \A i \in 1..Len(functions) : i < position => functions[i] \notin doomed
      BY <1>1 DEF IInv, NoneDoomedSoFar
    <3>2. functions[position] \notin doomed
      BY <1>11, <1>13 DEF o
    <3>3. \A i \in 1..Len(functions) : i < position + 1 => i < position \/ i = position
      BY <1>1, Facts
    <3> QED
      BY <3>1, <3>2, <3>3
  <2>3. FirstStopSettled'
    <3>1. fault'.site # "destructor" /\ position' \in Nat /\ position' # 0 /\ Len(functions') \in Nat
      BY <1>1, <1>13, Facts DEF Sound, NoFault
    <3> QED
      BY <2>2, <3>1, ComesToEnd DEF FirstStopSettled
  <2> QED
    BY <1>5, <1>6, <1>7, <1>8, <1>9, <1>10, <2>1, <2>2, <2>3 DEF IInv
<1>14. CASE ~(Alive(o) /\ o \in Selfish \cup socket) /\ Fails(o, "destructor")
  <2>1. fault'.object = o /\ fault'.site = "destructor" /\ ~Sound'
    BY <1>14 DEF Fails, Sound, NoFault
  <2>2. HandlersExplained' /\ NoneDoomedSoFar'
    BY <2>1 DEF HandlersExplained, Explains, NoneDoomedSoFar
  <2>3. FirstStopSettled'
    <3>1. stops = 1 => ~Alive(o)
      BY <1>2, <1>12, <1>14 DEF Objects
    <3> QED
      BY <1>1, <1>11, <2>1, <3>1 DEF FirstStopSettled
  <2> QED
    BY <1>5, <1>6, <1>7, <1>8, <1>9, <1>10, <2>1, <2>2, <2>3 DEF IInv
<1> QED
  BY <1>1, <1>13, <1>14

LEMMA DestructedKeeps ==
    ASSUME IInv, Destructed
    PROVE  IInv'
<1>1. /\ Sound /\ position' = 0
      /\ UNCHANGED <<functions, built, owner, self, captured, socket, receive, running,
                     stops, doomed, fault>>
  BY DEF Destructed, heap, loop
<1>2. TypeOK'
  <2>1. 0 \in 0..Len(functions) + 1
    BY Facts
  <2> QED
    BY <1>1, <2>1 DEF IInv, TypeOK
<1>3. BuiltFirst' /\ NotStopped' /\ ReceiversBuilt'
  BY <1>1 DEF IInv, BuiltFirst, NotStopped, ReceiversBuilt
<1>4. ResetSoFar'
  BY <1>1, Facts DEF ResetSoFar
<1>5. AtMostOneConfig'
  BY <1>1 DEF IInv, AtMostOneConfig, Alive, Held
<1>6. /\ HandlersExplained' /\ FirstStopSettled'
      /\ NoneDoomedSoFar' /\ AheadUntouched'
  BY <1>1, Facts, OutsideStop
<1> QED
  BY <1>2, <1>3, <1>4, <1>5, <1>6 DEF IInv

LEMMA NextKeeps == IInv /\ [Next]_vars => IInv'
<1> SUFFICES ASSUME IInv, [Next]_vars PROVE IInv'
  OBVIOUS
<1>1. CASE UNCHANGED vars
  <2>1. UNCHANGED <<functions, built, owner, self, captured, socket, receive, running,
                    stops, position, doomed, fault>>
    BY <1>1 DEF vars, heap, loop, stopping
  <2>2. TypeOK' /\ BuiltFirst' /\ NotStopped' /\ ReceiversBuilt' /\ ResetSoFar'
    BY <2>1 DEF IInv, TypeOK, BuiltFirst, NotStopped, ReceiversBuilt, ResetSoFar
  <2>3. NoneDoomedSoFar' /\ AheadUntouched' /\ AtMostOneConfig'
    BY <2>1 DEF IInv, NoneDoomedSoFar, AheadUntouched, Spared, Before,
                AtMostOneConfig, Alive, Held, Sound
  <2>4. HandlersExplained' /\ FirstStopSettled'
    BY <2>1 DEF IInv, HandlersExplained, Explains, FirstStopSettled, Sound
  <2> QED
    BY <2>2, <2>3, <2>4 DEF IInv
<1>2. CASE Next
  <2>1. ASSUME NEW c \in Configs, Get(c) \/ \E s \in Subscribers : NewSubscriber(s, c)
        PROVE  IInv'
    BY <2>1, GetKeeps, NewSubscriberKeeps
  <2>2. ASSUME NEW t \in Timers, NewTimer(t) \/ Capture(t) \/ LetGo(t) PROVE IInv'
    BY <2>2, NewTimerKeeps, CaptureKeeps, LetGoKeeps
  <2>3. ASSUME NEW o \in Objects, Drop(o) PROVE IInv'
    BY <2>3, DropKeeps
  <2>4. ASSUME NEW s \in Subscribers,
               SetCallback(s) \/ Receive(s) \/ Callback(s) \/ Aborted(s) \/ Return(s)
        PROVE  IInv'
    BY <2>4, SetCallbackKeeps, ReceiveKeeps, CallbackKeeps, AbortedKeeps, ReturnKeeps
  <2>5. CASE Stop \/ Destruct \/ Destructed
    BY <2>5, StopKeeps, DestructKeeps, DestructedKeeps
  <2> QED
    BY <1>2, <2>1, <2>2, <2>3, <2>4, <2>5 DEF Next
<1> QED
  BY <1>1, <1>2

LEMMA AlwaysIInv == Spec => []IInv
BY InitIInv, NextKeeps, PTL DEF Spec

(***************************************************************************)
(* The theorems.                                                           *)
(***************************************************************************)

(* Type correctness: no object registers its destructor twice. *)
THEOREM TypeCorrect == Spec => []TypeOK
<1>1. IInv => TypeOK
  BY DEF IInv
<1> QED
  BY <1>1, AlwaysIInv, PTL

(* When the first stop() begins it is settled whether it will call a       *)
(* function of a freed object, and of which objects it may be: resetting   *)
(* the others does not change what lies ahead.                             *)
THEOREM FirstStopIsSettled == Spec => []FirstStopSettled
<1>1. IInv => FirstStopSettled
  BY DEF IInv
<1> QED
  BY <1>1, AlwaysIInv, PTL

(* A subscriber's handlers find it freed only when its owner let go of it, *)
(* and without a socket only after a stop(). *)
THEOREM HandlersAreExplained == Spec => []HandlersExplained
<1>1. IInv => HandlersExplained
  BY DEF IInv
<1> QED
  BY <1>1, AlwaysIInv, PTL

(* There is one Config at most, and none is lost before stop(). *)
THEOREM OneConfigAtATime == Spec => []OneConfig
<1>1. IInv => OneConfig
  BY Facts DEF IInv, AtMostOneConfig, NotStopped, OneConfig, Alive, Held
<1> QED
  BY <1>1, AlwaysIInv, PTL

(* A stop() that comes to its end has reset every _self. *)
THEOREM StopReleasesAll == Spec => StopReleases
<1>1. ASSUME IInv, [Next]_vars, position # 0, position' = 0, NEW o \in Objects, Alive(o)
      PROVE  Reached(o)
  <2>1. position > Len(functions)
    <3>1. ~UNCHANGED vars /\ ~Free
      BY <1>1 DEF vars, stopping, Free
    <3>2. ~Destruct
      BY <1>1, Facts DEF Destruct
    <3>3. Destructed
      BY <1>1, <3>1, <3>2 DEF Next, Get, NewSubscriber, NewTimer, Capture, LetGo, Drop, SetCallback,
                              Receive, Callback, Aborted, Return, Turn, Stop
    <3> QED
      BY <3>3 DEF Destructed
  <2>2. \A p \in Objects : ~self[p]
    <3> SUFFICES ASSUME NEW p \in Objects, self[p] PROVE FALSE
      OBVIOUS
    <3>1. PICK i \in 1..Len(functions) : functions[i] = p
      BY <1>1 DEF IInv, BuiltFirst
    <3>2. i < position
      BY <1>1, <2>1, Facts
    <3> QED
      BY <1>1, <3>1, <3>2 DEF IInv, ResetSoFar
  <2> QED
    BY <1>1, <2>2, Facts DEF Alive, Held, Reached
<1>2. IInv /\ [Next]_vars =>
        [position # 0 /\ position' = 0 => \A o \in Objects : Alive(o) => Reached(o)]_vars
  BY <1>1
<1> QED
  BY <1>2, AlwaysIInv, PTL DEF Spec, StopReleases
=============================================================================
