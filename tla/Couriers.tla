------------------------------ MODULE Couriers ------------------------------
(***************************************************************************)
(* AppIO/Publisher.hpp and AppIO/Subscriber.hpp as users of the            *)
(* configuration: their constructors enter themselves in config.json, and  *)
(* a subscriber connects to what stands there, which a user writes.        *)
(*                                                                         *)
(* The configuration is the one ConfigStore specifies, which Config        *)
(* implements.  Of a document only "_publishers" and "_subscribers" count: *)
(* either key can be Missing; a list of publishers is a set, a table of    *)
(* subscribers gives each address what stands for it.                      *)
(***************************************************************************)
CONSTANTS
    Outputs,     (* the addresses publishers are constructed with          *)
    Inputs,      (* the addresses subscribers are constructed with         *)
    Targets,     (* what a user has a subscriber connect to                *)
    Missing,     (* the key is not in the document                         *)
    Unlisted,    (* the address is not in the table                        *)
    Null,        (* the JSON null                                          *)
    Empty,       (* "", connected to nothing                               *)
    Nothing      (* no document, no connection, no edit                    *)

Names == Targets \cup {Empty}
Tables == [Inputs -> Names \cup {Null, Unlisted}]
Docs == [pubs : {Missing} \cup SUBSET Outputs, subs : {Missing} \cup Tables]
DefaultConfig == [pubs |-> Missing, subs |-> Missing]

ASSUME CouriersAssumption ==
    /\ Missing \notin Tables /\ \A pubs \in SUBSET Outputs : pubs # Missing
    /\ Empty \notin Targets
    /\ {Null, Unlisted, Nothing} \cap Names = {}
    /\ Null # Unlisted
    /\ Nothing \notin Docs

VARIABLES
    mode, config, stored, owed, acceptable,   (* the configuration         *)
    publishers,  (* the publishers constructed by this process             *)
    connected,   (* what each subscriber of this process was connected to  *)
    edited,      (* history: what a user wrote for an address while no     *)
                 (* process ran, and nothing since                         *)
    listed       (* history: the addresses a user ever wrote something for *)

Store == INSTANCE ConfigStore WITH Default <- DefaultConfig

couriers == <<publishers, connected>>
users == <<edited, listed>>
vars == <<mode, config, stored, owed, acceptable, couriers, users>>

Init ==
    /\ Store!Init
    /\ publishers = {}
    /\ connected = [a \in Inputs |-> Nothing]
    /\ edited = [a \in Inputs |-> Nothing]
    /\ listed = {}

(* What stands for a in a document. *)
Entry(d, a) == IF d.subs = Missing THEN Unlisted ELSE d.subs[a]

-----------------------------------------------------------------------------
(* The configuration: Config::get() at the first courier, the handler of   *)
(* its write, the end of the process. *)

Format == Store!Format /\ UNCHANGED <<couriers, users>>
Open == Store!Open /\ UNCHANGED <<couriers, users>>
Flush == Store!Flush /\ UNCHANGED <<couriers, users>>
Stop == Store!Stop /\ UNCHANGED <<couriers, users>>

Close ==
    /\ Store!Close
    /\ publishers' = {}
    /\ connected' = [a \in Inputs |-> Nothing]
    /\ UNCHANGED users

(* insert() and commit() in one constructor: Store!Edit, then Store!Commit. *)
EditAndCommit(d) ==
    /\ config' = d
    /\ acceptable' = {d}
    /\ \/ ~owed /\ stored' = d /\ UNCHANGED owed
       \/ owed' = TRUE /\ UNCHANGED stored
    /\ UNCHANGED mode

-----------------------------------------------------------------------------
(* The constructors. *)

(* Mutant of WithPublisher: the address is entered in a list that is there. *)
WithPublisherToo(d, p) == [d EXCEPT !.pubs = IF @ = Missing THEN {p} ELSE @ \cup {p}]

(* insert() leaves a "_publishers" that is there as it is. *)
WithPublisher(d, p) == IF d.pubs = Missing THEN [d EXCEPT !.pubs = {p}] ELSE d

NewPublisher(p) ==
    /\ mode # "off" /\ p \notin publishers
    /\ EditAndCommit(WithPublisher(config, p))
    /\ publishers' = publishers \cup {p}
    /\ UNCHANGED <<connected, users>>

(* Mutants of WithSubscriber: the table is replaced; the address is        *)
(* entered in a table that is there; it is entered in the place of a null. *)
WithOnlySubscriber(d, a) ==
    [d EXCEPT !.subs = [b \in Inputs |-> IF b = a THEN Empty ELSE Unlisted]]

WithSubscriberToo(d, a) ==
    IF d.subs # Missing /\ d.subs[a] = Unlisted THEN [d EXCEPT !.subs[a] = Empty]
    ELSE IF d.subs = Missing THEN WithOnlySubscriber(d, a) ELSE d

WithSubscriberHealed(d, a) ==
    IF d.subs = Missing THEN WithOnlySubscriber(d, a)
    ELSE IF d.subs[a] = Null THEN [d EXCEPT !.subs[a] = Empty] ELSE d

(* insert() leaves a "_subscribers" that is there as it is. *)
WithSubscriber(d, a) ==
    IF d.subs = Missing
    THEN [d EXCEPT !.subs = [b \in Inputs |-> IF b = a THEN Empty ELSE Unlisted]]
    ELSE d

(* Mutant of IsName: a null is taken for a name. *)
IsNameAlways(x) == TRUE

(* The conversion to std::string. *)
IsName(x) == x \in Names

(* Mutant of Target: a subscriber is connected to nothing. *)
TargetEmpty(d, a) == Empty

Target(d, a) == Entry(d, a)

(* What stands for a is what it is connected to, nothing if it is "". *)
NewSubscriber(a) ==
    /\ mode # "off" /\ connected[a] = Nothing
    /\ LET d == WithSubscriber(config, a) IN
          /\ IsName(Entry(d, a))
          /\ EditAndCommit(d)
          /\ connected' = [connected EXCEPT ![a] = Target(d, a)]
    /\ UNCHANGED <<publishers, users>>

(* operator[] enters a null for an address that is not in the table, and a *)
(* null is no string: the constructor throws, and an application that      *)
(* catches it goes on with the null in its configuration.                  *)
NewSubscriberThrows(a) ==
    /\ mode # "off" /\ connected[a] = Nothing
    /\ ~IsName(Entry(WithSubscriber(config, a), a))
    /\ config' = [config EXCEPT !.subs[a] = Null]
    /\ acceptable' = acceptable \cup {config'}
    /\ UNCHANGED <<mode, stored, owed, couriers, users>>

(* The end of a subscriber's life leaves the configuration alone. *)
DestroySubscriber(a) ==
    /\ connected[a] # Nothing
    /\ connected' = [connected EXCEPT ![a] = Nothing]
    /\ UNCHANGED <<mode, config, stored, owed, acceptable, publishers, users>>

-----------------------------------------------------------------------------
(* A user edits config.json, at any time.  A process reads it once, so     *)
(* what is edited under a running one lasts until its next write.          *)
UserEdit ==
    /\ stored # Nothing
    /\ \E a \in Inputs, t \in Names :
          LET table == IF stored.subs = Missing THEN [b \in Inputs |-> Unlisted] ELSE stored.subs
          IN  /\ stored' = [stored EXCEPT !.subs = [table EXCEPT ![a] = t]]
              /\ edited' = [edited EXCEPT ![a] = IF mode = "off" THEN t ELSE Nothing]
              /\ listed' = listed \cup {a}
    /\ UNCHANGED <<mode, config, owed, acceptable, couriers>>

Next ==
    \/ Format \/ Open \/ Flush \/ Stop \/ Close
    \/ \E p \in Outputs : NewPublisher(p)
    \/ \E a \in Inputs : NewSubscriber(a) \/ NewSubscriberThrows(a) \/ DestroySubscriber(a)
    \/ UserEdit

Spec == Init /\ [][Next]_vars

-----------------------------------------------------------------------------
(* Properties. *)

(* Every variable stays in its set. *)
TypeOK ==
    /\ mode \in {"off", "on", "closing"}
    /\ config \in {Nothing} \cup Docs
    /\ stored \in {Nothing} \cup Docs
    /\ owed \in BOOLEAN
    /\ acceptable \in SUBSET Docs
    /\ publishers \in SUBSET Outputs
    /\ connected \in [Inputs -> Names \cup {Nothing}]
    /\ edited \in [Inputs -> Names \cup {Nothing}]
    /\ listed \in SUBSET Inputs

(* What a user wrote for an address while no process ran stands in         *)
(* config.json until a user writes something else for it: no constructor   *)
(* and no write of any later process overrides it.                         *)
UserTargetKept ==
    \A a \in Inputs : edited[a] # Nothing => stored # Nothing /\ Entry(stored, a) = edited[a]

(* And every subscriber that comes up is connected to it.                  *)
ConnectsAsEdited ==
    \A a \in Inputs : edited[a] # Nothing => connected[a] \in {edited[a], Nothing}

Present(a) ==
    connected[a] # Nothing \/ (stored # Nothing /\ Entry(stored, a) \in Names)

(* The application lists one subscriber by itself, the first of a          *)
(* config.json without "_subscribers".  Any other is connected only after  *)
(* a user listed it, through whatever restarts.                            *)
OneListsItself ==
    \A a, b \in Inputs \ listed : Present(a) /\ Present(b) => a = b

(* The publisher that config.json lists is the first that was ever written *)
(* there, alone, and stays through all restarts: no constructor of any     *)
(* later process adds its own, or replaces one the application no longer   *)
(* has.  (A user's edits are of "_subscribers".)                           *)
FirstPublisherStays ==
    [][stored # Nothing /\ stored.pubs # Missing
          => /\ \A p, q \in stored.pubs : p = q
             /\ stored'.pubs = stored.pubs]_vars

(* A null that another courier's commit carried into config.json stays     *)
(* there until a user edits it, and as long as it stands there every       *)
(* constructor of that subscriber throws, in this process and all later    *)
(* ones: nothing else puts a string in its place.                          *)
NullIsFinal ==
    [][\A a \in Inputs : stored # Nothing /\ Entry(stored, a) = Null
          => /\ connected'[a] = Nothing
             /\ Entry(stored', a) = Null \/ UserEdit]_vars

(* README.md: config.json "also specifies pub/sub topics".  The publishers *)
(* of an application stand in it once no write is owed.                    *)
TopicsSpecified ==
    mode = "on" /\ ~owed => publishers = {} \/ publishers \subseteq stored.pubs
=============================================================================
