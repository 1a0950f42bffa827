------------------------------- MODULE MCLua -------------------------------
(* The instance TLC checks: under one name beside "_binding", every kind   *)
(* of value and lists and objects of every kind, an array of two; the      *)
(* script clears and writes them, by index and by the name that reads like *)
(* it, and inserts under a second name.                                    *)
EXTENDS Lua

CONSTANTS binding, k, other, t1, t2

Scalars == {"null", "boolean", "number", "wide", "string"}
Object(name, v) == Put(Leaf("object"), <<name>>, v)
List(v, w) == Put(Put(Leaf("array"), <<0>>, v), <<1>>, w)

UserValues ==
    {Leaf(s) : s \in Scalars \cup {"object", "array"}}
        \cup {Object(k, Leaf(s)) : s \in Scalars}
        \cup {List(Leaf(s), Leaf("string")) : s \in Scalars}
        \cup {Object(k, Object(k, Leaf("boolean")))}

MCUserDocs ==
    {Leaf("object")} \cup {Object(k, v) : v \in UserValues}
        \cup {Object(binding, Leaf(s)) : s \in {"null", "string"}}

MCNames == {binding, k, other, t1, t2}
MCText == <<t1, t2>>

Writing(path, kinds) == [path : {path}, value : {Leaf(s) : s \in kinds}]

MCEdits ==
    [path : {<<binding>>, <<k>>, <<k, t1>>}, value : {<< >>, Leaf("string")}]
        \cup Writing(<<k>>, {"table"}) \cup Writing(<<k, 1>>, {"boolean", "string"})

MCInserted ==
    [name : {other}, value : {Leaf("table"), Put(Leaf("table"), <<k>>, Leaf("string"))}]
=============================================================================
