-------------------------------- MODULE Lua --------------------------------
(***************************************************************************)
(* bindings/lua: the configuration of a Lua script.  The script never sees *)
(* Config's own document: it edits a table made of it when the library was *)
(* loaded, and its commit() makes a document of that table again.          *)
(*                                                                         *)
(* A document, and a table, maps the path to every value in it to the kind *)
(* of the value; << >> is the path to the whole.  Its labels are names     *)
(* and, in arrays and tables, indices; Text[i] is the name that reads like *)
(* the index i.  A "wide" number is an integer that no double equals.      *)
(*                                                                         *)
(* Memory and file are related as ConfigStore says; a script that was      *)
(* stopped by a signal may commit on, with no handler to write what is     *)
(* owed, which here is a Flush that does not happen.                       *)
(***************************************************************************)
EXTENDS Integers, SequencesExt

CONSTANTS
    Names,       (* the strings: keys of objects, and of tables            *)
    Binding,     (* the name "_binding"                                    *)
    Text,        (* the names that read like indices                       *)
    UserDocs,    (* the documents a user, or a program in C++, leaves      *)
    Edits,       (* what the script writes where: [path, value]            *)
    Inserted     (* what it gives to insert(): [name, value]               *)

Kinds == {"null", "boolean", "number", "wide", "string", "object", "array"}
LuaKinds == {"boolean", "number", "string", "table"}

(* No document and no table, and what is assigned to clear an entry: nil.  *)
Nothing == << >>

(* Nothing hangs in the air. *)
Tree(t, nodes) ==
    /\ << >> \in DOMAIN t
    /\ \A p \in DOMAIN t \ {<< >>} : Front(p) \in DOMAIN t /\ t[Front(p)] \in nodes

(* Objects have names and arrays have indices, from 0. *)
Document(d) ==
    /\ d \in [DOMAIN d -> Kinds] /\ IsFiniteSet(DOMAIN d)
    /\ DOMAIN d \subseteq Seq(Names \cup {i - 1 : i \in DOMAIN Text})
    /\ Tree(d, {"object", "array"})
    /\ \A p \in DOMAIN d \ {<< >>} : Last(p) \in Names <=> d[Front(p)] = "object"

(* A Lua table may have both. *)
Value(v) ==
    /\ v \in [DOMAIN v -> LuaKinds] /\ IsFiniteSet(DOMAIN v)
    /\ DOMAIN v \subseteq Seq(Names \cup DOMAIN Text)
    /\ Tree(v, {"table"})

ASSUME TextAssumption ==
    /\ DOMAIN Text \subseteq Nat \ {0} /\ Names \cap Nat = {}
    /\ Text \in [DOMAIN Text -> Names] /\ IsInjective(Text)
    /\ Binding \in Names \ Range(Text)

ASSUME LuaAssumption ==
    /\ \A d \in UserDocs : Document(d) /\ d[<< >>] = "object"
    /\ \A e \in Edits :
          /\ e.path \in Seq(Names \cup DOMAIN Text) \ {<< >>}
          /\ e.value = Nothing \/ Value(e.value)
    /\ \A i \in Inserted : i.name \in Names /\ Value(i.value)

VARIABLES
    config,      (* *_config, Nothing while no process runs                *)
    table,       (* configDataPtr                                          *)
    stored,      (* the document in config.json                            *)
    owed,        (* _pendingWrite                                          *)
    touched,     (* history: the names it wrote to, or to what reads alike *)
    added,       (* history: the names its insert() added to the document  *)
    cleared      (* history: the user's last edit left a "_binding" that   *)
                 (* is no string, or a script has written one since        *)

histories == <<touched, added, cleared>>
vars == <<config, table, stored, owed, histories>>

-----------------------------------------------------------------------------
(* Trees. *)

Leaf(kind) == [p \in {<< >>} |-> kind]
Below(p, q) == IsStrictPrefix(p, q)
Without(t, p) == Restrict(t, {q \in DOMAIN t : ~IsPrefix(p, q)})

(* t with v at p, and nothing else there. *)
Put(t, p, v) ==
    [q \in {p \o r : r \in DOMAIN v} \cup DOMAIN Without(t, p) |->
        IF IsPrefix(p, q) THEN v[SubSeq(q, Len(p) + 1, Len(q))] ELSE t[q]]

(* t with every path p of it moved to F(p). *)
Moved(t, F(_)) ==
    [q \in {F(p) : p \in DOMAIN t} |-> t[CHOOSE p \in DOMAIN t : F(p) = q]]

Has(t, name) == <<name>> \in DOMAIN t

-----------------------------------------------------------------------------
(* JsonConversions.hpp. *)

LuaKind(kind) ==
    CASE kind \in {"object", "array"} -> "table"
      [] kind = "wide"                -> "number"
      [] OTHER                        -> kind

LuaPath(p) == [i \in DOMAIN p |-> IF p[i] \in Nat THEN p[i] + 1 ELSE p[i]]

(* Mutant of Present: null is a value like any other. *)
PresentAlways(j) == DOMAIN j

Present(j) == {p \in DOMAIN j : j[p] # "null"}

(* jsonToLuaObject: what is assigned nil is not in the table. *)
ToLua(j) ==
    LET t == Moved(Restrict(j, Present(j)), LuaPath)
    IN  [p \in DOMAIN t |-> LuaKind(t[p])]

(* Mutant of JsonKind: j starts as an object. *)
JsonKindOfObject(t, p) == IF t[p] \in {"table", "boolean"} THEN "object" ELSE t[p]

(* A table without entries leaves j null, as any unhandled type does. *)
JsonKind(t, p) ==
    CASE t[p] = "table"   -> IF \E q \in DOMAIN t : Below(p, q) THEN "object" ELSE "null"
      [] t[p] = "boolean" -> "null"
      [] OTHER            -> t[p]

(* Mutant of JsonPath: an entry whose key is a number is left out. *)
JsonPathOfNames(p) == SelectSeq(p, LAMBDA x : x \notin Nat)

(* key.as<std::string>() gives a number as its text. *)
JsonPath(p) == [i \in DOMAIN p |-> IF p[i] \in Nat THEN Text[p[i]] ELSE p[i]]

(* luaObjectToJson.  Of two entries whose keys read the same, [1] and      *)
(* ["1"], the one that the table yields last wins: either may.             *)
Twins(t) ==
    {p \in DOMAIN t : \E q \in DOMAIN t \ {p} :
        p # << >> /\ q # << >> /\ Front(p) = Front(q) /\ JsonPath(p) = JsonPath(q)}

Overwritten(t) ==
    {L \in SUBSET Twins(t) : \A p \in Twins(t) :
        p \in L <=> ~\E q \in L \ {p} : Front(p) = Front(q) /\ JsonPath(p) = JsonPath(q)}

ToJson(t) ==
    {LET kept == Restrict(t, {p \in DOMAIN t : ~\E l \in L : IsPrefix(l, p)})
         j == [p \in DOMAIN kept |-> JsonKind(kept, p)]
     IN  Moved(j, JsonPath) : L \in Overwritten(t)}

-----------------------------------------------------------------------------
(* LuaBinding.cpp. *)

Null == Leaf("null")
IsObject(d) == d[<< >>] = "object"
Unbound(d) == Has(d, Binding) /\ d[<<Binding>>] # "string"

Init ==
    /\ stored \in UserDocs
    /\ config = Nothing /\ table = Nothing /\ owed = FALSE
    /\ touched = {} /\ added = {} /\ cleared = Unbound(stored)

Serving == config # Nothing

(* std::map::insert: a name that is present keeps its value. *)
Insert(d, name, v) == IF Has(d, name) THEN d ELSE Put(d, <<name>>, v)

(* Mutant of Snapshot: the table is made before "_binding" is inserted. *)
SnapshotBefore(loaded, d) == ToLua(loaded)

Snapshot(loaded, d) == ToLua(d)

(* open_AppIO.  insert() throws on a document that is not an object. *)
Open ==
    /\ ~Serving /\ IsObject(stored)
    /\ config' = Insert(stored, Binding, Leaf("string"))
    /\ table' = Snapshot(stored, config')
    /\ touched' = {} /\ added' = {}
    /\ UNCHANGED <<stored, owed, cleared>>

(* The script assigns in the table that data() gave it, nil included. *)
Assign(e) ==
    /\ Serving
    /\ Front(e.path) \in DOMAIN table /\ table[Front(e.path)] = "table"
    /\ table' = IF e.value = Nothing THEN Without(table, e.path)
                                   ELSE Put(table, e.path, e.value)
    /\ touched' = touched \cup {JsonPath(e.path)[1]}
    /\ cleared' = (cleared \/ (e.path[1] = Binding /\ e.value # Leaf("string")))
    /\ UNCHANGED <<config, stored, owed, added>>

(* insert(), given a table of one entry; it throws if the document is no   *)
(* object any more.                                                        *)
LuaInsert(i) ==
    /\ Serving /\ IsObject(config)
    /\ \E v \in ToJson(i.value) : config' = Insert(config, i.name, v)
    /\ added' = IF Has(config, i.name) THEN added ELSE added \cup {i.name}
    /\ UNCHANGED <<table, stored, owed, touched, cleared>>

(* Mutant of Restructured: commit() merges the table into the document. *)
Merged(d) ==
    LET names == {q \in DOMAIN config : Len(q) > 0 /\ ~Has(d, q[1])}
    IN  d @@ Restrict(config, names)

Restructured(d) == d

(* commit(): the document made of the table is written at once, or owed.   *)
LuaCommit ==
    /\ Serving
    /\ \E d \in ToJson(table) : config' = Restructured(d)
    /\ \/ ~owed /\ stored' = config' /\ UNCHANGED owed
       \/ owed' = TRUE /\ UNCHANGED stored
    /\ UNCHANGED <<table, histories>>

(* The handler of a write finds that a commit is owed. *)
Flush ==
    /\ Serving /\ owed
    /\ stored' = config /\ owed' = FALSE
    /\ UNCHANGED <<config, table, histories>>

Close ==
    /\ Serving
    /\ config' = Nothing /\ table' = Nothing /\ owed' = FALSE
    /\ UNCHANGED <<stored, histories>>

(* Somebody edits config.json between two processes. *)
UserEdit ==
    /\ ~Serving
    /\ stored' \in UserDocs /\ cleared' = Unbound(stored')
    /\ UNCHANGED <<config, table, owed, touched, added>>

Next ==
    \/ Open \/ LuaCommit \/ Flush \/ Close \/ UserEdit
    \/ \E e \in Edits : Assign(e)
    \/ \E i \in Inserted : LuaInsert(i)

Spec == Init /\ [][Next]_vars

-----------------------------------------------------------------------------
(* Properties. *)

(* Every variable stays in its set: what the conversions and the script    *)
(* make are documents and tables.                                          *)
TypeOK ==
    /\ Document(stored)
    /\ Serving => Document(config) /\ Value(table)
    /\ ~Serving => table = Nothing /\ owed = FALSE
    /\ owed \in BOOLEAN /\ cleared \in BOOLEAN
    /\ touched \subseteq Names /\ added \subseteq Names

Writes == Serving /\ stored' # stored
Firm(d) == {p \in DOMAIN d : d[p] \in {"string", "number"}}

(* A process that writes config.json loses no string and no number that    *)
(* stands there under a name its script left alone: an array becomes an    *)
(* object, what is beside it may become null, but the entry stays, under   *)
(* the name that reads like its index.                                     *)
FirmKept ==
    [][Writes => \A p \in Firm(stored) :
          p[1] \notin touched \cup added =>
              LET q == JsonPath(LuaPath(p))
              IN  q \in DOMAIN stored' /\ stored'[q] = stored[p]]_vars

(* An array weighs 3, an object or a boolean 2, a null or wide number 1. *)
Of(d, kinds) == Cardinality({p \in DOMAIN d : d[p] \in kinds})
Weight(d) == 3 * Of(d, {"array"}) + 2 * Of(d, {"object", "boolean"}) + Of(d, {"null", "wide"})

(* The conversions are not inverse to each other, but a commit of a table  *)
(* that nobody edited only adds "_binding", or brings the document nearer  *)
(* to one that stays: booleans become null, nulls go, empty tables become  *)
(* null, arrays objects, wide integers doubles, and nothing comes back.    *)
Erodes ==
    [][Writes /\ touched \cup added = {}
          => \/ stored' = Insert(stored, Binding, Leaf("string"))
             \/ Weight(stored') < Weight(stored)]_vars

(* The document null, with which no script starts any more, is only        *)
(* written after the user or a script has cleared "_binding": the library  *)
(* sees to it that there is a string in the table.  The script that writes *)
(* null need not be the one that cleared it: the library does not look     *)
(* whether the "_binding" that config.json has is a string.                *)
StartsAgain == stored = Null => cleared

(* What a script gives to insert() is in no document that a commit() of it *)
(* writes at once: only a write that was owed already may carry it to      *)
(* config.json, and the next commit() takes it back.                       *)
InsertNotCommitted ==
    [][Writes /\ ~owed => \A name \in added \ touched : ~Has(stored', name)]_vars
=============================================================================
