-------------------------- MODULE Couriers_proofs --------------------------
(***************************************************************************)
(* What the run of MCCouriers shows on two addresses of either kind,       *)
(* proved for any addresses and anything a user may write for them.        *)
(***************************************************************************)
EXTENDS Couriers, TLAPS

(***************************************************************************)
(* The inductive invariant.                                                *)
(***************************************************************************)

(* A process has a document, and only then subscribers and owed writes. *)
MemoryHeld ==
    /\ mode = "off" <=> config = Nothing
    /\ mode = "off" => ~owed /\ \A a \in Inputs : connected[a] = Nothing
    /\ config # Nothing => stored # Nothing

(* What the user wrote is also in memory, from where it will be written. *)
TargetInMemory ==
    \A a \in Inputs :
        edited[a] # Nothing /\ config # Nothing => Entry(config, a) = edited[a]

Somewhere(a) == Present(a) \/ (config # Nothing /\ Entry(config, a) \in Names)

(* Of the addresses no user listed one is present, in memory included, and *)
(* none as long as the document in memory has no "_subscribers" to list it.*)
OneSomewhere ==
    /\ \A a, b \in Inputs \ listed : Somewhere(a) /\ Somewhere(b) => a = b
    /\ config # Nothing /\ config.subs = Missing
          => \A a \in Inputs \ listed : ~Somewhere(a)

IInv ==
    /\ TypeOK
    /\ MemoryHeld
    /\ TargetInMemory
    /\ UserTargetKept
    /\ ConnectsAsEdited
    /\ OneSomewhere

(***************************************************************************)
(* Documents.                                                              *)
(***************************************************************************)

LEMMA DocFields ==
    ASSUME NEW d \in Docs
    PROVE  /\ d.pubs \in {Missing} \cup SUBSET Outputs
           /\ d.subs \in {Missing} \cup Tables
           /\ d.subs # Missing => d.subs \in [Inputs -> Names \cup {Null, Unlisted}]
           /\ d = [pubs |-> d.pubs, subs |-> d.subs]
           /\ d # Nothing
BY CouriersAssumption DEF Docs, Tables

LEMMA WithPublisherKeeps ==
    ASSUME NEW d \in Docs, NEW p \in Outputs
    PROVE  /\ WithPublisher(d, p) \in Docs
           /\ WithPublisher(d, p).subs = d.subs
           /\ WithPublisher(d, p).pubs = IF d.pubs = Missing THEN {p} ELSE d.pubs
           /\ \A a : Entry(WithPublisher(d, p), a) = Entry(d, a)
<1>1. CASE d.pubs = Missing
  <2>1. WithPublisher(d, p) = [pubs |-> {p}, subs |-> d.subs]
    <3>1. WithPublisher(d, p) = [d EXCEPT !.pubs = {p}]
      BY <1>1 DEF WithPublisher
    <3>2. d \in [pubs : {Missing} \cup SUBSET Outputs, subs : {Missing} \cup Tables]
      BY DEF Docs
    <3> QED
      BY <3>1, <3>2
  <2>2. WithPublisher(d, p) \in Docs
    BY <2>1, DocFields DEF Docs
  <2> QED
    BY <1>1, <2>1, <2>2 DEF Entry
<1>2. CASE d.pubs # Missing
  BY <1>2 DEF WithPublisher
<1> QED
  BY <1>1, <1>2

(* Only a subscriber that finds no "_subscribers" is entered, alone. *)
LEMMA WithSubscriberEnters ==
    ASSUME NEW d \in Docs, NEW a \in Inputs
    PROVE  /\ WithSubscriber(d, a) \in Docs
           /\ WithSubscriber(d, a).subs # Missing
           /\ d.subs # Missing => WithSubscriber(d, a) = d
           /\ d.subs = Missing =>
                \A b \in Inputs : Entry(WithSubscriber(d, a), b) = IF b = a THEN Empty ELSE Unlisted
<1> DEFINE t == [b \in Inputs |-> IF b = a THEN Empty ELSE Unlisted]
<1>1. t \in Tables /\ t # Missing
  BY CouriersAssumption DEF Tables, Names
<1>2. CASE d.subs = Missing
  <2>1. WithSubscriber(d, a) = [pubs |-> d.pubs, subs |-> t]
    BY <1>2, DocFields DEF WithSubscriber
  <2> QED
    BY <1>1, <1>2, <2>1, DocFields DEF Docs, Entry
<1>3. CASE d.subs # Missing
  BY <1>3 DEF WithSubscriber
<1> QED
  BY <1>2, <1>3

LEMMA NullEnters ==
    ASSUME NEW d \in Docs, NEW a \in Inputs, d.subs # Missing,
           NEW e, e = [d EXCEPT !.subs[a] = Null]
    PROVE  /\ e \in Docs /\ e.subs # Missing
           /\ \A b \in Inputs : Entry(e, b) = IF b = a THEN Null ELSE Entry(d, b)
<1> DEFINE t == [d.subs EXCEPT ![a] = Null]
<1>1. t \in Tables /\ t # Missing
  BY DocFields, CouriersAssumption DEF Tables
<1>2. e = [pubs |-> d.pubs, subs |-> t]
  BY DocFields
<1> QED
  BY <1>1, <1>2, DocFields DEF Docs, Entry

LEMMA UserEnters ==
    ASSUME NEW d \in Docs, NEW a \in Inputs, NEW t \in Names, NEW e,
           e = [d EXCEPT !.subs = [IF d.subs = Missing THEN [b \in Inputs |-> Unlisted]
                                                       ELSE d.subs EXCEPT ![a] = t]]
    PROVE  /\ e \in Docs /\ e.subs # Missing /\ e.pubs = d.pubs
           /\ \A b \in Inputs : Entry(e, b) = IF b = a THEN t ELSE Entry(d, b)
<1> DEFINE old == IF d.subs = Missing THEN [b \in Inputs |-> Unlisted] ELSE d.subs
           new == [old EXCEPT ![a] = t]
<1>1. old \in Tables /\ \A b \in Inputs : old[b] = Entry(d, b)
  BY DocFields DEF Tables, Entry
<1>2. new \in Tables /\ new # Missing
  BY <1>1, CouriersAssumption DEF Tables
<1>3. e = [pubs |-> d.pubs, subs |-> new]
  BY DocFields
<1>4. \A b \in Inputs : new[b] = IF b = a THEN t ELSE Entry(d, b)
  BY <1>1 DEF Tables
<1> QED
  BY <1>2, <1>3, <1>4, DocFields DEF Docs, Entry

LEMMA UnlistedIsNoName == Unlisted \notin Names /\ Null \notin Names /\ Nothing \notin Names
BY CouriersAssumption

(***************************************************************************)
(* The invariant is kept by every step.                                    *)
(***************************************************************************)

LEMMA InitIInv == Init => IInv
BY UnlistedIsNoName, CouriersAssumption
   DEF Init, Store!Init, IInv, TypeOK, MemoryHeld, TargetInMemory, UserTargetKept,
       ConnectsAsEdited, OneSomewhere, Somewhere, Present

(* A constructor that keeps every entry, or lists its address where there  *)
(* is no "_subscribers", and connects at most that address to its entry.   *)
LEMMA ConstructorKeeps ==
    ASSUME IInv, mode # "off", NEW d \in Docs, EditAndCommit(d), UNCHANGED users,
           publishers' \in SUBSET Outputs,
           NEW a \in Inputs,
           \/ d.subs = config.subs /\ UNCHANGED connected
           \/ /\ d = WithSubscriber(config, a) /\ Entry(d, a) \in Names
              /\ connected' = [connected EXCEPT ![a] = Entry(d, a)]
    PROVE  IInv'
<1> USE DEF IInv
<1>1. config \in Docs /\ config' = d /\ config # Nothing /\ d # Nothing
  BY DocFields DEF TypeOK, MemoryHeld, EditAndCommit
<1>2. /\ stored' \in {d, stored} /\ stored' \in Docs /\ stored' # Nothing
      /\ owed' \in BOOLEAN /\ acceptable' = {d} /\ mode' = mode
  BY <1>1, DocFields DEF TypeOK, MemoryHeld, EditAndCommit
<1>3. \A b \in Inputs : Entry(config, b) \in Names => Entry(d, b) = Entry(config, b)
  BY <1>1, WithSubscriberEnters, UnlistedIsNoName DEF Entry
<1>4. TypeOK'
  BY <1>1, <1>2 DEF TypeOK, users
<1>5. MemoryHeld'
  BY <1>1, <1>2 DEF MemoryHeld
<1>6. \A b \in Inputs : edited[b] # Nothing => edited[b] \in Names /\ Entry(d, b) = edited[b]
  BY <1>1, <1>3 DEF TypeOK, TargetInMemory
<1>7. TargetInMemory' /\ UserTargetKept'
  BY <1>1, <1>2, <1>6 DEF TargetInMemory, UserTargetKept, users
<1>8. ConnectsAsEdited'
  BY <1>6 DEF ConnectsAsEdited, users, TypeOK
<1>9. OneSomewhere'
  <2>1. CASE d.subs = config.subs /\ UNCHANGED connected
    <3>1. \A b : Entry(d, b) = Entry(config, b)
      BY <2>1 DEF Entry
    <3>2. \A b \in Inputs : Somewhere(b)' => Somewhere(b)
      BY <1>1, <1>2, <2>1, <3>1 DEF Somewhere, Present
    <3> QED
      BY <1>1, <2>1, <3>2 DEF OneSomewhere, users
  <2>2. CASE /\ d = WithSubscriber(config, a) /\ Entry(d, a) \in Names
             /\ connected' = [connected EXCEPT ![a] = Entry(d, a)]
    <3>1. d.subs # Missing
      BY <1>1, <2>2, WithSubscriberEnters
    <3>2. CASE config.subs = Missing
      <4>1. \A b \in Inputs \ listed : Somewhere(b)' => b = a
        BY <1>1, <1>2, <2>2, <3>2, WithSubscriberEnters, UnlistedIsNoName
           DEF OneSomewhere, Somewhere, Present, TypeOK
      <4> QED
        BY <1>1, <3>1, <4>1 DEF OneSomewhere, users
    <3>3. CASE config.subs # Missing
      <4>1. d = config
        BY <1>1, <2>2, <3>3, WithSubscriberEnters
      <4>2. \A b \in Inputs : Somewhere(b)' => Somewhere(b)
        BY <1>1, <1>2, <2>2, <4>1 DEF Somewhere, Present, TypeOK
      <4> QED
        BY <1>1, <3>1, <4>2 DEF OneSomewhere, users
    <3> QED
      BY <3>2, <3>3
  <2> QED
    BY <2>1, <2>2
<1> QED
  BY <1>4, <1>5, <1>7, <1>8, <1>9

LEMMA NextKeeps == IInv /\ [Next]_vars => IInv'
<1> SUFFICES ASSUME IInv, [Next]_vars PROVE IInv'
  OBVIOUS
<1> USE DEF IInv
<1>0. CASE UNCHANGED vars
  BY <1>0 DEF vars, couriers, users, TypeOK, MemoryHeld, TargetInMemory, UserTargetKept,
              ConnectsAsEdited, OneSomewhere, Somewhere, Present
<1>1. CASE Format
  <2>1. DefaultConfig \in Docs /\ DefaultConfig.subs = Missing
    BY DEF DefaultConfig, Docs
  <2> QED
    BY <1>1, <2>1, DocFields, UnlistedIsNoName
       DEF Format, Store!Format, couriers, users, TypeOK, MemoryHeld, TargetInMemory,
           UserTargetKept, ConnectsAsEdited, OneSomewhere, Somewhere, Present, Entry
<1>2. CASE Open
  <2>1. stored \in Docs /\ config' = stored /\ stored' = stored /\ mode' = "on" /\ config = Nothing
    BY <1>2 DEF Open, Store!Open, TypeOK, MemoryHeld
  <2>2. TypeOK' /\ MemoryHeld' /\ TargetInMemory' /\ UserTargetKept' /\ ConnectsAsEdited'
    BY <1>2, <2>1, DocFields
       DEF Open, Store!Open, couriers, users, TypeOK, MemoryHeld, TargetInMemory,
           UserTargetKept, ConnectsAsEdited
  <2>3. \A a \in Inputs : Somewhere(a)' <=> Somewhere(a)
    BY <1>2, <2>1, DocFields DEF Open, couriers, Somewhere, Present
  <2>4. stored.subs = Missing => \A a \in Inputs : ~Somewhere(a)
    BY <1>2, <2>1, UnlistedIsNoName
       DEF Open, Store!Open, Somewhere, Present, Entry, MemoryHeld
  <2> QED
    BY <1>2, <2>1, <2>2, <2>3, <2>4 DEF Open, users, OneSomewhere
<1>3. CASE Flush
  BY <1>3, DocFields DEF Flush, Store!Flush, couriers, users, TypeOK, MemoryHeld, TargetInMemory,
     UserTargetKept, ConnectsAsEdited, OneSomewhere, Somewhere, Present
<1>4. CASE Stop
  BY <1>4 DEF Stop, Store!Stop, couriers, users, TypeOK, MemoryHeld, TargetInMemory,
     UserTargetKept, ConnectsAsEdited, OneSomewhere, Somewhere, Present
<1>5. CASE Close
  <2>1. TypeOK' /\ MemoryHeld' /\ TargetInMemory' /\ UserTargetKept' /\ ConnectsAsEdited'
    BY <1>5 DEF Close, Store!Close, users, TypeOK, MemoryHeld, TargetInMemory,
       UserTargetKept, ConnectsAsEdited
  <2>2. \A a \in Inputs : Somewhere(a)' => Somewhere(a)
    BY <1>5 DEF Close, Store!Close, Somewhere, Present
  <2> QED
    BY <1>5, <2>1, <2>2 DEF Close, Store!Close, users, OneSomewhere
<1>6. ASSUME NEW p \in Outputs, NewPublisher(p) PROVE IInv'
  <2>1. config \in Docs
    BY <1>6 DEF NewPublisher, TypeOK, MemoryHeld
  <2>2. /\ WithPublisher(config, p) \in Docs
        /\ WithPublisher(config, p).subs = config.subs
    BY <2>1, WithPublisherKeeps
  <2>3. CASE Inputs # {}
    <3>1. PICK a \in Inputs : TRUE
      BY <2>3
    <3> QED
      BY <1>6, <2>2, <3>1, ConstructorKeeps DEF NewPublisher, users, TypeOK
  <2>4. CASE Inputs = {}
    BY <1>6, <2>1, <2>2, <2>4, DocFields
       DEF NewPublisher, EditAndCommit, users, TypeOK, MemoryHeld, TargetInMemory,
           UserTargetKept, ConnectsAsEdited, OneSomewhere
  <2> QED
    BY <2>3, <2>4
<1>7. ASSUME NEW a \in Inputs, NewSubscriber(a) PROVE IInv'
  <2>1. config \in Docs
    BY <1>7 DEF NewSubscriber, TypeOK, MemoryHeld
  <2>2. WithSubscriber(config, a) \in Docs
    BY <2>1, WithSubscriberEnters
  <2> QED
    BY <1>7, <2>2, ConstructorKeeps DEF NewSubscriber, IsName, Target, TypeOK
<1>8. ASSUME NEW a \in Inputs, NewSubscriberThrows(a) PROVE IInv'
  <2>1. config \in Docs /\ config # Nothing
    BY <1>8, DocFields DEF NewSubscriberThrows, TypeOK, MemoryHeld
  <2>2. config.subs # Missing
    BY <1>8, <2>1, WithSubscriberEnters DEF NewSubscriberThrows, IsName, Names
  <2>3. Entry(config, a) \notin Names
    BY <1>8, <2>1, <2>2, WithSubscriberEnters DEF NewSubscriberThrows, IsName
  <2>4. /\ config' \in Docs /\ config' # Nothing /\ config'.subs # Missing
        /\ \A b \in Inputs : Entry(config', b) = IF b = a THEN Null ELSE Entry(config, b)
    BY <1>8, <2>1, <2>2, NullEnters, DocFields DEF NewSubscriberThrows
  <2>5. TypeOK' /\ MemoryHeld'
    BY <1>8, <2>1, <2>4 DEF NewSubscriberThrows, couriers, users, TypeOK, MemoryHeld
  <2>6. TargetInMemory' /\ UserTargetKept' /\ ConnectsAsEdited'
    BY <1>8, <2>1, <2>3, <2>4
       DEF NewSubscriberThrows, couriers, users, TypeOK, TargetInMemory, UserTargetKept,
           ConnectsAsEdited
  <2>7. \A b \in Inputs : Somewhere(b)' => Somewhere(b)
    BY <1>8, <2>1, <2>4, UnlistedIsNoName DEF NewSubscriberThrows, couriers, Somewhere, Present
  <2> QED
    BY <1>8, <2>4, <2>5, <2>6, <2>7 DEF NewSubscriberThrows, users, OneSomewhere
<1>9. ASSUME NEW a \in Inputs, DestroySubscriber(a) PROVE IInv'
  <2>1. \A b \in Inputs : Somewhere(b)' => Somewhere(b)
    BY <1>9 DEF DestroySubscriber, Somewhere, Present, TypeOK
  <2> QED
    BY <1>9, <2>1 DEF DestroySubscriber, users, TypeOK, MemoryHeld, TargetInMemory,
       UserTargetKept, ConnectsAsEdited, OneSomewhere
<1>10. CASE UserEdit
  <2>1. PICK a \in Inputs, t \in Names :
          /\ stored' = [stored EXCEPT !.subs =
                [IF stored.subs = Missing THEN [b \in Inputs |-> Unlisted] ELSE stored.subs
                    EXCEPT ![a] = t]]
          /\ edited' = [edited EXCEPT ![a] = IF mode = "off" THEN t ELSE Nothing]
          /\ listed' = listed \cup {a}
    BY <1>10 DEF UserEdit
  <2>2. stored \in Docs
    BY <1>10 DEF UserEdit, TypeOK
  <2>3. /\ stored' \in Docs /\ stored' # Nothing
        /\ \A b \in Inputs : Entry(stored', b) = IF b = a THEN t ELSE Entry(stored, b)
    BY <2>1, <2>2, UserEnters, DocFields
  <2>4. TypeOK' /\ MemoryHeld'
    BY <1>10, <2>1, <2>3 DEF UserEdit, couriers, TypeOK, MemoryHeld
  <2>5. TargetInMemory' /\ UserTargetKept' /\ ConnectsAsEdited'
    BY <1>10, <2>1, <2>3 DEF UserEdit, couriers, TypeOK, MemoryHeld, TargetInMemory,
       UserTargetKept, ConnectsAsEdited
  <2>6. \A b \in Inputs \ listed' : Somewhere(b)' => Somewhere(b)
    BY <1>10, <2>1, <2>2, <2>3, DocFields DEF UserEdit, couriers, Somewhere, Present
  <2> QED
    BY <1>10, <2>1, <2>4, <2>5, <2>6 DEF UserEdit, OneSomewhere
<1> QED
  BY <1>0, <1>1, <1>2, <1>3, <1>4, <1>5, <1>6, <1>7, <1>8, <1>9, <1>10 DEF Next

LEMMA AlwaysIInv == Spec => []IInv
BY InitIInv, NextKeeps, PTL DEF Spec

(***************************************************************************)
(* The theorems.                                                           *)
(***************************************************************************)

(* Type correctness. *)
THEOREM TypeCorrect == Spec => []TypeOK
<1>1. IInv => TypeOK
  BY DEF IInv
<1> QED
  BY <1>1, AlwaysIInv, PTL

(* What a user wrote for a subscriber stays what is written for it. *)
THEOREM UserIsObeyed == Spec => []UserTargetKept
<1>1. IInv => UserTargetKept
  BY DEF IInv
<1> QED
  BY <1>1, AlwaysIInv, PTL

(* Every subscriber that comes up connects to what the user wrote for it.  *)
THEOREM ConnectedAsEdited == Spec => []ConnectsAsEdited
<1>1. IInv => ConnectsAsEdited
  BY DEF IInv
<1> QED
  BY <1>1, AlwaysIInv, PTL

(* The application lists one subscriber by itself. *)
THEOREM OnlyOneListsItself == Spec => []OneListsItself
<1>1. IInv => OneListsItself
  BY DEF IInv, OneSomewhere, OneListsItself, Somewhere
<1> QED
  BY <1>1, AlwaysIInv, PTL

(***************************************************************************)
(* The publishers.  What the file lists is what memory lists, from the     *)
(* load on, so a write has nothing else to put in its place.               *)
(***************************************************************************)

Sole(d) == d.pubs # Missing => \A p, q \in d.pubs : p = q

PublisherInMemory ==
    /\ stored # Nothing => Sole(stored)
    /\ config # Nothing => Sole(config) /\ (stored.pubs # Missing => config.pubs = stored.pubs)

FirstPublisher == stored # Nothing /\ stored.pubs # Missing => stored'.pubs = stored.pubs

(* A step that leaves the publishers in memory, and stores at most memory. *)
LEMMA ListKept ==
    ASSUME IInv, PublisherInMemory, IInv', stored' \in {stored, config, config'},
           config # Nothing, stored' # Nothing, config' # Nothing => config'.pubs = config.pubs
    PROVE  PublisherInMemory' /\ FirstPublisher
<1>1. stored # Nothing
  BY DEF IInv, MemoryHeld
<1>2. CASE config' = Nothing
  BY <1>1, <1>2 DEF PublisherInMemory, FirstPublisher, Sole
<1>3. CASE config' # Nothing
  BY <1>1, <1>3 DEF PublisherInMemory, FirstPublisher, Sole
<1> QED
  BY <1>2, <1>3

LEMMA PublisherStep ==
    ASSUME IInv, IInv', PublisherInMemory, [Next]_vars
    PROVE  PublisherInMemory' /\ FirstPublisher
<1>0. CASE UNCHANGED vars
  BY <1>0 DEF vars, PublisherInMemory, FirstPublisher, Sole
<1>1. CASE Format
  <2>1. DefaultConfig.pubs = Missing /\ config = Nothing
    BY <1>1 DEF DefaultConfig, Format, Store!Format, IInv, MemoryHeld
  <2> QED
    BY <1>1, <2>1 DEF Format, Store!Format, PublisherInMemory, FirstPublisher, Sole
<1>2. CASE Open
  BY <1>2 DEF Open, Store!Open, PublisherInMemory, FirstPublisher, Sole
<1>3. CASE Flush \/ Stop \/ Close
  <2>1. config # Nothing /\ stored # Nothing
    BY <1>3 DEF Flush, Store!Flush, Stop, Store!Stop, Close, Store!Close, IInv, MemoryHeld
  <2>2. stored' \in {stored, config} /\ (config' # Nothing => config' = config)
    BY <1>3 DEF Flush, Store!Flush, Stop, Store!Stop, Close, Store!Close
  <2> QED
    BY <2>1, <2>2, ListKept
<1>4. ASSUME NEW p \in Outputs, NewPublisher(p) PROVE PublisherInMemory' /\ FirstPublisher
  <2>1. config \in Docs /\ config # Nothing /\ stored # Nothing
    BY <1>4 DEF NewPublisher, IInv, TypeOK, MemoryHeld
  <2>2. /\ config'.pubs = IF config.pubs = Missing THEN {p} ELSE config.pubs
        /\ stored' \in {stored, config'} /\ config' # Nothing
    BY <1>4, <2>1, WithPublisherKeeps, DocFields DEF NewPublisher, EditAndCommit
  <2>3. {p} # Missing
    BY CouriersAssumption
  <2> QED
    BY <2>1, <2>2, <2>3 DEF PublisherInMemory, FirstPublisher, Sole
<1>5. ASSUME NEW a \in Inputs, NewSubscriber(a) PROVE PublisherInMemory' /\ FirstPublisher
  <2>1. config \in Docs /\ config # Nothing
    BY <1>5 DEF NewSubscriber, IInv, TypeOK, MemoryHeld
  <2>2. config'.pubs = config.pubs /\ stored' \in {stored, config'} /\ config' # Nothing
    BY <1>5, <2>1, WithSubscriberEnters, DocFields
       DEF NewSubscriber, EditAndCommit, WithSubscriber
  <2> QED
    BY <2>1, <2>2, ListKept DEF IInv, MemoryHeld
<1>6. ASSUME NEW a \in Inputs, NewSubscriberThrows(a) \/ DestroySubscriber(a)
      PROVE  PublisherInMemory' /\ FirstPublisher
  <2>1. config \in Docs /\ config # Nothing
    BY <1>6 DEF NewSubscriberThrows, DestroySubscriber, IInv, TypeOK, MemoryHeld
  <2>2. config'.pubs = config.pubs /\ stored' = stored
    BY <1>6, <2>1, DocFields DEF NewSubscriberThrows, DestroySubscriber
  <2> QED
    BY <2>1, <2>2, ListKept DEF IInv, MemoryHeld
<1>7. CASE UserEdit
  <2>1. stored \in Docs /\ config' = config
    BY <1>7 DEF UserEdit, IInv, TypeOK
  <2>2. stored'.pubs = stored.pubs
    BY <1>7, <2>1, UserEnters DEF UserEdit
  <2> QED
    BY <1>7, <2>1, <2>2 DEF UserEdit, PublisherInMemory, FirstPublisher, Sole
<1> QED
  BY <1>0, <1>1, <1>2, <1>3, <1>4, <1>5, <1>6, <1>7 DEF Next

(* The first publisher config.json lists is the only one it ever lists.    *)
THEOREM FirstPublisherListed == Spec => FirstPublisherStays
<1>1. Init => PublisherInMemory
  BY DEF Init, Store!Init, PublisherInMemory
<1>2. PublisherInMemory /\ FirstPublisher =>
        (stored # Nothing /\ stored.pubs # Missing
            => /\ \A p, q \in stored.pubs : p = q
               /\ stored'.pubs = stored.pubs)
  BY DEF PublisherInMemory, FirstPublisher, Sole
<1>3. IInv /\ IInv' /\ PublisherInMemory /\ [Next]_vars => PublisherInMemory' /\ FirstPublisher
  BY PublisherStep
<1> QED
  BY <1>1, <1>2, <1>3, AlwaysIInv, PTL DEF Spec, FirstPublisherStays

(***************************************************************************)
(* The nulls.  One that is stored is in memory, and one in memory has no   *)
(* subscriber, because it was there at the start or because the            *)
(* constructor that entered it threw.                                      *)
(***************************************************************************)

IsNull(d, a) == d # Nothing /\ Entry(d, a) = Null

NullInMemory ==
    \A a \in Inputs :
        /\ IsNull(stored, a) /\ config # Nothing => IsNull(config, a)
        /\ IsNull(config, a) => connected[a] = Nothing

NullStands ==
    \A a \in Inputs :
        IsNull(stored, a) => connected'[a] = Nothing /\ (IsNull(stored', a) \/ UserEdit)

(* A step that stores at most memory, and takes no null from there. *)
LEMMA NullKept ==
    ASSUME NullInMemory, config # Nothing, stored' \in {stored, config, config'},
           \A a \in Inputs : config' # Nothing /\ IsNull(config, a) => IsNull(config', a),
           stored' = config' => config' # Nothing,
           \A a \in Inputs : IsNull(config', a) => connected'[a] = Nothing,
           \A a \in Inputs : connected[a] = Nothing /\ IsNull(config, a) => connected'[a] = Nothing
    PROVE  NullInMemory' /\ NullStands
<1> SUFFICES ASSUME NEW a \in Inputs
             PROVE  /\ IsNull(stored', a) /\ config' # Nothing => IsNull(config', a)
                    /\ IsNull(stored, a) => connected'[a] = Nothing /\ IsNull(stored', a)
  BY DEF NullInMemory, NullStands, IsNull, Entry
<1>1. IsNull(stored, a) => IsNull(config, a) /\ connected[a] = Nothing
  BY DEF NullInMemory
<1>2. IsNull(stored, a) => IsNull(stored', a)
  BY <1>1
<1>3. IsNull(stored', a) /\ config' # Nothing => IsNull(config', a)
  BY <1>1
<1> QED
  BY <1>1, <1>2, <1>3

LEMMA NullStep ==
    ASSUME IInv, IInv', NullInMemory, [Next]_vars
    PROVE  NullInMemory' /\ NullStands
<1>0. CASE UNCHANGED vars
  BY <1>0 DEF vars, couriers, IInv, MemoryHeld, NullInMemory, NullStands, IsNull, Entry
<1>1. CASE Format
  <2>1. DefaultConfig.subs = Missing /\ config' = Nothing /\ stored = Nothing /\ stored' = DefaultConfig
    BY <1>1 DEF DefaultConfig, Format, Store!Format, IInv, MemoryHeld
  <2> QED
    BY <2>1, CouriersAssumption DEF NullInMemory, NullStands, IsNull, Entry
<1>2. CASE Open
  <2>1. config' = stored /\ stored' = stored /\ UNCHANGED connected
    BY <1>2 DEF Open, Store!Open, couriers
  <2>2. \A a \in Inputs : connected[a] = Nothing
    BY <1>2 DEF Open, Store!Open, IInv, MemoryHeld
  <2> QED
    BY <2>1, <2>2 DEF NullInMemory, NullStands, IsNull, Entry
<1>3. CASE Flush \/ Stop
  <2>1. /\ config # Nothing /\ stored' \in {stored, config} /\ config' = config
        /\ UNCHANGED connected
    BY <1>3 DEF Flush, Store!Flush, Stop, Store!Stop, IInv, MemoryHeld, couriers
  <2> QED
    BY <2>1, NullKept DEF NullInMemory
<1>4. CASE Close
  <2>1. stored' = stored /\ config' = Nothing /\ \A a \in Inputs : connected'[a] = Nothing
    BY <1>4 DEF Close, Store!Close
  <2> QED
    BY <2>1 DEF NullInMemory, NullStands, IsNull, Entry
<1>5. ASSUME NEW p \in Outputs, NewPublisher(p) PROVE NullInMemory' /\ NullStands
  <2>1. config \in Docs /\ config # Nothing
    BY <1>5 DEF NewPublisher, IInv, TypeOK, MemoryHeld
  <2>2. /\ config' # Nothing /\ stored' \in {stored, config'} /\ UNCHANGED connected
        /\ \A a : Entry(config', a) = Entry(config, a)
    BY <1>5, <2>1, WithPublisherKeeps, DocFields DEF NewPublisher, EditAndCommit
  <2>3. \A a \in Inputs : IsNull(config', a) <=> IsNull(config, a)
    BY <2>1, <2>2 DEF IsNull
  <2> QED
    BY <2>1, <2>2, <2>3, NullKept DEF NullInMemory
<1>6. ASSUME NEW a \in Inputs, NewSubscriber(a) PROVE NullInMemory' /\ NullStands
  <2>1. config \in Docs /\ config # Nothing
    BY <1>6 DEF NewSubscriber, IInv, TypeOK, MemoryHeld
  <2>2. /\ config' = WithSubscriber(config, a) /\ config' # Nothing
        /\ Entry(config', a) \in Names
        /\ stored' \in {stored, config'} /\ \A b \in Inputs \ {a} : connected'[b] = connected[b]
    BY <1>6, <2>1, WithSubscriberEnters, DocFields
       DEF NewSubscriber, EditAndCommit, IsName, IInv, TypeOK
  <2>3. \A b \in Inputs : IsNull(config', b) => b # a /\ IsNull(config, b)
    BY <2>1, <2>2, WithSubscriberEnters, UnlistedIsNoName, CouriersAssumption DEF IsNull, Names
  <2>4. \A b \in Inputs : IsNull(config, b) => IsNull(config', b)
    <3>1. CASE config.subs = Missing
      BY <3>1, CouriersAssumption DEF IsNull, Entry
    <3>2. CASE config.subs # Missing
      BY <2>1, <2>2, <3>2, WithSubscriberEnters
    <3> QED
      BY <3>1, <3>2
  <2> QED
    BY <2>1, <2>2, <2>3, <2>4, NullKept DEF NullInMemory
<1>7. ASSUME NEW a \in Inputs, NewSubscriberThrows(a) PROVE NullInMemory' /\ NullStands
  <2>1. config \in Docs /\ config # Nothing
    BY <1>7, DocFields DEF NewSubscriberThrows, IInv, TypeOK, MemoryHeld
  <2>2. config.subs # Missing
    BY <1>7, <2>1, WithSubscriberEnters DEF NewSubscriberThrows, IsName, Names
  <2>3. /\ config' # Nothing /\ stored' = stored /\ UNCHANGED connected /\ connected[a] = Nothing
        /\ \A b \in Inputs : Entry(config', b) = IF b = a THEN Null ELSE Entry(config, b)
    BY <1>7, <2>1, <2>2, NullEnters, DocFields DEF NewSubscriberThrows, couriers
  <2>4. \A b \in Inputs : IsNull(config', b) <=> b = a \/ IsNull(config, b)
    BY <2>1, <2>3 DEF IsNull
  <2> QED
    BY <2>1, <2>3, <2>4, NullKept DEF NullInMemory
<1>8. ASSUME NEW a \in Inputs, DestroySubscriber(a) PROVE NullInMemory' /\ NullStands
  <2>1. /\ stored' = stored /\ config' = config
        /\ \A b \in Inputs : connected[b] = Nothing => connected'[b] = Nothing
    BY <1>8 DEF DestroySubscriber, IInv, TypeOK
  <2>2. config # Nothing
    BY <1>8 DEF DestroySubscriber, IInv, MemoryHeld
  <2> QED
    BY <2>1, <2>2, NullKept DEF NullInMemory
<1>9. CASE UserEdit
  <2>1. PICK a \in Inputs, t \in Names :
          stored' = [stored EXCEPT !.subs =
                [IF stored.subs = Missing THEN [b \in Inputs |-> Unlisted] ELSE stored.subs
                    EXCEPT ![a] = t]]
    BY <1>9 DEF UserEdit
  <2>2. stored \in Docs /\ stored # Nothing /\ config' = config /\ UNCHANGED connected
    BY <1>9 DEF UserEdit, couriers, IInv, TypeOK
  <2>3. \A b \in Inputs : Entry(stored', b) = IF b = a THEN t ELSE Entry(stored, b)
    BY <2>1, <2>2, UserEnters
  <2>4. \A b \in Inputs : IsNull(stored', b) => IsNull(stored, b)
    BY <2>2, <2>3, UnlistedIsNoName DEF IsNull
  <2>5. NullInMemory'
    BY <2>2, <2>4 DEF NullInMemory, IsNull, Entry
  <2>6. \A b \in Inputs : IsNull(stored, b) => connected'[b] = Nothing
    <3>1. config = Nothing => \A b \in Inputs : connected[b] = Nothing
      BY DEF IInv, MemoryHeld
    <3> QED
      BY <2>2, <3>1 DEF NullInMemory
  <2> QED
    BY <1>9, <2>5, <2>6 DEF NullStands
<1> QED
  BY <1>0, <1>1, <1>2, <1>3, <1>4, <1>5, <1>6, <1>7, <1>8, <1>9 DEF Next

(* A null in config.json stays until a user edits it, and its subscriber   *)
(* throws at every start until then.                                       *)
THEOREM NullStaysNull == Spec => NullIsFinal
<1>1. Init => NullInMemory
  BY DEF Init, Store!Init, NullInMemory, IsNull
<1>2. NullStands =>
        \A a \in Inputs : stored # Nothing /\ Entry(stored, a) = Null
            => /\ connected'[a] = Nothing
               /\ Entry(stored', a) = Null \/ UserEdit
  BY DEF NullStands, IsNull
<1>3. IInv /\ IInv' /\ NullInMemory /\ [Next]_vars => NullInMemory' /\ NullStands
  BY NullStep
<1> QED
  BY <1>1, <1>2, <1>3, AlwaysIInv, PTL DEF Spec, NullIsFinal
=============================================================================
