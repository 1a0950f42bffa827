----------------------------- MODULE Lua_proofs -----------------------------
(***************************************************************************)
(* The theorems of module Lua, for any names, documents, edits and         *)
(* insertions.                                                             *)
(***************************************************************************)
EXTENDS Lua, SequenceTheorems, FiniteSetTheorems, TLAPS

-----------------------------------------------------------------------------
(* The inductive invariant. *)

(* Before LuaPath and JsonPath, a path of a document reads as after both. *)
Reads(p) == JsonPath(LuaPath(p))

(* The text of the first label of a path of the table. *)
Top(t) == JsonPath(t)[1]

(* The root of a document is an object, or null when the table was empty. *)
Roots ==
    /\ stored[<< >>] \in {"object", "null"}
    /\ Serving => config[<< >>] \in {"object", "null"} /\ table[<< >>] = "table"

(* No two entries of the table read alike, but under a touched name. *)
NoTwins ==
    Serving => \A t, u \in DOMAIN table :
        t # u /\ JsonPath(t) = JsonPath(u) => Top(t) \in touched

(* What is firm in d stands in the table. *)
Held(d) ==
    \A p \in Firm(d) : p[1] \notin touched \cup added =>
        \E t \in DOMAIN table : JsonPath(t) = Reads(p) /\ table[t] = d[p]

FirmHeld == Serving => Held(stored) /\ Held(config)

(* What is firm in the table stands in the document whose write is owed. *)
OwedHolds ==
    owed => \A t \in Firm(table) : Top(t) \notin touched =>
        JsonPath(t) \in DOMAIN config /\ config[JsonPath(t)] = table[t]

(* The table has no entry under an added name. *)
AddedApart ==
    Serving => \A t \in DOMAIN table \ {<< >>} : Top(t) \notin touched =>
        Top(t) \notin added /\ Has(config, Top(t))

(* Until it is cleared, "_binding" is a string wherever it stands. *)
BindingHeld ==
    ~cleared =>
        /\ ~Unbound(stored) /\ stored[<< >>] # "null"
        /\ Serving => Has(config, Binding) /\ config[<<Binding>>] = "string"
        /\ Serving => Has(table, Binding) /\ table[<<Binding>>] = "string"

IInv ==
    /\ TypeOK /\ Roots /\ NoTwins /\ FirmHeld /\ OwedHolds /\ AddedApart /\ BindingHeld

-----------------------------------------------------------------------------
(* Paths. *)

Labels == Names \cup Nat
JsonLabels == Names \cup {i - 1 : i \in DOMAIN Text}
LuaLabels == Names \cup DOMAIN Text

LEMMA LabelFacts ==
    /\ JsonLabels \subseteq Labels /\ LuaLabels \subseteq Labels
    /\ \A x \in Names : x \notin Nat
    /\ \A x \in JsonLabels \ Names : x \in Nat /\ x + 1 \in DOMAIN Text
    /\ \A x \in LuaLabels \ Names : x \in Nat /\ x \in DOMAIN Text
    /\ \A x \in DOMAIN Text : Text[x] \in Names /\ x \notin Names
    /\ \A x, y \in DOMAIN Text : Text[x] = Text[y] => x = y
<1>1. \A x \in DOMAIN Text : x \in Nat /\ x - 1 \in Nat /\ (x - 1) + 1 = x
  BY TextAssumption
<1>2. \A x \in Names : x \notin Nat
  BY TextAssumption
<1>3. \A x, y \in DOMAIN Text : Text[x] = Text[y] => x = y
  BY TextAssumption DEF IsInjective
<1>4. \A x \in DOMAIN Text : Text[x] \in Names
  BY TextAssumption
<1> QED
  BY <1>1, <1>2, <1>3, <1>4 DEF Labels, JsonLabels, LuaLabels

(* Every set of natural numbers has a smallest one. *)
LEMMA Smallest ==
    ASSUME NEW S \in SUBSET Nat, S # {}
    PROVE  \E n \in S : \A m \in S : n <= m
<1> DEFINE R == {e \in Nat \X Nat : e[1] < e[2]}
<1>1. IsWellFoundedOn(R, Nat)
  BY NatLessThanWellFounded DEF OpToRel
<1> HIDE DEF R
<1>2. PICK n \in S : \A m \in S : ~ (<<m, n>> \in R)
  BY <1>1, WFMin
<1>3. \A m \in S : ~ (m < n)
  BY <1>2 DEF R
<1> QED
  BY <1>3

LEMMA PathFacts ==
    ASSUME NEW S, NEW p \in Seq(S)
    PROVE  /\ Len(p) \in Nat /\ DOMAIN p = 1..Len(p)
           /\ \A i \in 1..Len(p) : p[i] \in S
           /\ p = << >> <=> Len(p) = 0
  BY LenProperties, EmptySeq

LEMMA FrontFacts ==
    ASSUME NEW S, NEW p \in Seq(S), p # << >>
    PROVE  /\ Front(p) \in Seq(S) /\ Len(Front(p)) = Len(p) - 1
           /\ \A i \in 1..Len(p) - 1 : Front(p)[i] = p[i]
           /\ Len(p) \in Nat \ {0} /\ Last(p) = p[Len(p)] /\ Last(p) \in S
<1>1. Len(p) \in Nat \ {0} /\ \A i \in 1..Len(p) : p[i] \in S
  BY PathFacts
<1> DEFINE n == Len(p) - 1
<1>2. n \in Nat /\ 1 \in Int /\ \A i \in 1..n : p[i] \in S
  BY <1>1
<1> HIDE DEF n
<1>3. /\ SubSeq(p, 1, n) \in Seq(S)
      /\ Len(SubSeq(p, 1, n)) = IF 1 <= n THEN n - 1 + 1 ELSE 0
      /\ \A i \in 1..n - 1 + 1 : SubSeq(p, 1, n)[i] = p[1 + i - 1]
  BY <1>2, SubSeqProperties
<1>4. Len(SubSeq(p, 1, n)) = n /\ \A i \in 1..n : SubSeq(p, 1, n)[i] = p[i]
  BY <1>2, <1>3
<1> QED
  BY <1>1, <1>3, <1>4 DEF Front, Last, n

LEMMA FrontLast ==
    ASSUME NEW S, NEW p \in Seq(S), NEW q \in Seq(S), p # << >>, q # << >>,
           Front(p) = Front(q), Last(p) = Last(q)
    PROVE  p = q
<1>1. /\ Len(p) \in Nat \ {0} /\ Len(q) = Len(p) /\ p[Len(p)] = q[Len(p)]
      /\ \A i \in 1..Len(p) - 1 : p[i] = q[i]
  BY FrontFacts
<1> QED
  BY <1>1, SeqEqual

LEMMA PrefixFacts ==
    ASSUME NEW S, NEW p \in Seq(S), NEW q \in Seq(S)
    PROVE  IsPrefix(p, q) <=> Len(p) <= Len(q) /\ \A i \in 1..Len(p) : p[i] = q[i]
<1>1. Len(p) \in Nat /\ Len(q) \in Nat
  BY PathFacts
<1>2. SubSeq(p, 1, Len(p)) = p
  BY SubSeqFull
<1>3. CASE Len(p) <= Len(q)
  <2>1. \A i \in 1..Len(p) : q[i] \in S
    BY <1>1, <1>3, PathFacts
  <2>2. /\ SubSeq(q, 1, Len(p)) \in Seq(S) /\ Len(SubSeq(q, 1, Len(p))) = Len(p)
        /\ \A i \in 1..Len(p) : SubSeq(q, 1, Len(p))[i] = q[i]
    <3>1. 1 \in Int /\ Len(p) \in Int
      BY <1>1
    <3> QED
      BY <1>1, <2>1, <3>1, SubSeqProperties
  <2>3. SubSeq(q, 1, Len(p)) = p <=> \A i \in 1..Len(p) : p[i] = q[i]
    BY <2>2, SeqEqual
  <2> QED
    BY <1>2, <1>3, <2>3 DEF IsPrefix
<1> QED
  BY <1>1, <1>3 DEF IsPrefix

LEMMA SequenceIntro ==
    ASSUME NEW S, NEW n \in Nat, NEW f \in [1..n -> S]
    PROVE  f \in Seq(S) /\ Len(f) = n
<1>1. f \in Seq(S)
  BY SeqDef
<1>2. 1..Len(f) = 1..n /\ Len(f) \in Nat
  BY <1>1, LenProperties
<1> QED
  BY <1>1, <1>2

LEMMA TakeFacts ==
    ASSUME NEW S, NEW p \in Seq(S), NEW n \in 0..Len(p)
    PROVE  /\ SubSeq(p, 1, n) \in Seq(S) /\ Len(SubSeq(p, 1, n)) = n
           /\ \A i \in 1..n : SubSeq(p, 1, n)[i] = p[i]
           /\ IsPrefix(SubSeq(p, 1, n), p)
<1>1. Len(p) \in Nat /\ n \in Nat /\ n <= Len(p) /\ \A i \in 1..n : p[i] \in S
  BY PathFacts
<1>2. /\ SubSeq(p, 1, n) \in Seq(S)
      /\ Len(SubSeq(p, 1, n)) = IF 1 <= n THEN n - 1 + 1 ELSE 0
      /\ \A i \in 1..n - 1 + 1 : SubSeq(p, 1, n)[i] = p[1 + i - 1]
  BY <1>1, SubSeqProperties
<1>3. Len(SubSeq(p, 1, n)) = n /\ \A i \in 1..n : SubSeq(p, 1, n)[i] = p[i]
  BY <1>1, <1>2
<1> QED
  BY <1>1, <1>2, <1>3, PrefixFacts

(* Two paths of one length part somewhere. *)
LEMMA FirstDifference ==
    ASSUME NEW S, NEW p \in Seq(S), NEW q \in Seq(S), Len(p) = Len(q), p # q
    PROVE  \E n \in 1..Len(p) :
              p[n] # q[n] /\ SubSeq(p, 1, n - 1) = SubSeq(q, 1, n - 1)
<1> DEFINE D == {i \in 1..Len(p) : p[i] # q[i]}
<1>1. Len(p) \in Nat /\ D \in SUBSET Nat
  BY PathFacts
<1>2. D # {}
  BY SeqEqual
<1>3. PICK n \in D : \A m \in D : n <= m
  BY <1>1, <1>2, Smallest
<1>4. /\ n \in 1..Len(p) /\ n - 1 \in 0..Len(p) /\ n - 1 \in 0..Len(q) /\ p[n] # q[n]
      /\ \A i \in 1..n - 1 : p[i] = q[i]
  BY <1>1, <1>3
<1>5. SubSeq(p, 1, n - 1) = SubSeq(q, 1, n - 1)
  BY <1>4, TakeFacts, SeqEqual
<1> QED
  BY <1>4, <1>5

(* What is above a node of a tree is a node of it. *)
LEMMA TreeClosed ==
    ASSUME NEW S, NEW t, NEW nodes, Tree(t, nodes), DOMAIN t \subseteq Seq(S),
           NEW q \in DOMAIN t, NEW p \in Seq(S), IsPrefix(p, q)
    PROVE  p \in DOMAIN t /\ (p # q => t[p] \in nodes)
<1>1. /\ Len(p) \in Nat /\ q \in Seq(S) /\ Len(q) \in Nat /\ Len(p) <= Len(q)
      /\ \A i \in 1..Len(p) : p[i] = q[i]
  BY PathFacts, PrefixFacts
<1> DEFINE T == {n \in 0..Len(q) : SubSeq(q, 1, n) \in DOMAIN t}
<1>2. Len(q) \in T
  <2>1. SubSeq(q, 1, Len(q)) = q
    BY <1>1, SubSeqFull
  <2>2. Len(q) \in 0..Len(q)
    BY <1>1
  <2>3. SubSeq(q, 1, Len(q)) \in DOMAIN t
    BY <2>1, Zenon
  <2> QED
    BY <2>2, <2>3, Zenon
<1>3. ASSUME NEW n \in T, n > 0
      PROVE  n - 1 \in T /\ t[SubSeq(q, 1, n - 1)] \in nodes
  <2> DEFINE r == SubSeq(q, 1, n)
  <2>1. n \in 0..Len(q) /\ n - 1 \in 0..Len(q) /\ r \in DOMAIN t
    BY <1>1, <1>3
  <2>2. r \in Seq(S) /\ Len(r) = n /\ \A i \in 1..n : r[i] = q[i]
    BY <1>1, <2>1, TakeFacts
  <2> HIDE DEF r
  <2>3. r # << >>
    BY <1>1, <1>3, <2>1, <2>2, PathFacts
  <2>4. Front(r) = SubSeq(q, 1, n - 1)
    <3>1. /\ Front(r) \in Seq(S) /\ Len(Front(r)) = n - 1
          /\ \A i \in 1..n - 1 : Front(r)[i] = r[i]
      BY <2>2, <2>3, FrontFacts
    <3>2. /\ SubSeq(q, 1, n - 1) \in Seq(S) /\ Len(SubSeq(q, 1, n - 1)) = n - 1
          /\ \A i \in 1..n - 1 : SubSeq(q, 1, n - 1)[i] = q[i]
      BY <1>1, <2>1, TakeFacts
    <3>3. \A i \in 1..n - 1 : i \in 1..n
      BY <2>1
    <3> QED
      BY <2>2, <3>1, <3>2, <3>3, SeqEqual
  <2> QED
    BY <2>1, <2>3, <2>4 DEF Tree
<1>4. \A n \in T : n \in Nat /\ n <= Len(q)
  BY <1>1
<1> HIDE DEF T
<1>5. ASSUME NEW k \in Nat, k < Len(q)
      PROVE  k \in T /\ t[SubSeq(q, 1, k)] \in nodes
  <2> DEFINE V == {m \in T : m > k}
  <2>1. V \in SUBSET Nat /\ V # {}
    BY <1>1, <1>2, <1>4, <1>5
  <2>2. \E m \in V : \A l \in V : m <= l
    <3> HIDE DEF V
    <3> QED
      BY <2>1, Smallest
  <2>3. PICK m \in T : m > k /\ \A l \in T : l > k => m <= l
    BY <2>2
  <2>4. m \in Nat /\ m > 0 /\ m - 1 \in Nat
    BY <1>4, <1>5, <2>3
  <2>5. m - 1 \in T /\ t[SubSeq(q, 1, m - 1)] \in nodes
    BY <1>3, <2>4
  <2>6. m - 1 = k
    BY <1>5, <2>3, <2>4, <2>5
  <2> QED
    BY <2>5, <2>6
<1>6. p = SubSeq(q, 1, Len(p))
  BY <1>1, TakeFacts, SeqEqual
<1>7. p # q => Len(p) < Len(q)
  BY <1>1, SeqEqual
<1> QED
  BY <1>1, <1>5, <1>6, <1>7 DEF T

(* The two conversions of a path go label by label. *)
LEMMA LuaPathFacts ==
    ASSUME NEW p \in Seq(JsonLabels)
    PROVE  /\ LuaPath(p) \in Seq(LuaLabels) /\ Len(LuaPath(p)) = Len(p)
           /\ \A i \in 1..Len(p) : LuaPath(p)[i] = IF p[i] \in Nat THEN p[i] + 1 ELSE p[i]
<1>1. Len(p) \in Nat /\ DOMAIN p = 1..Len(p) /\ \A i \in 1..Len(p) : p[i] \in JsonLabels
  BY PathFacts
<1>2. \A x \in JsonLabels : (IF x \in Nat THEN x + 1 ELSE x) \in LuaLabels
  BY LabelFacts DEF LuaLabels
<1>3. LuaPath(p) \in [1..Len(p) -> LuaLabels]
  BY <1>1, <1>2 DEF LuaPath
<1> QED
  BY <1>1, <1>3, SequenceIntro DEF LuaPath

LEMMA JsonPathFacts ==
    ASSUME NEW p \in Seq(LuaLabels)
    PROVE  /\ JsonPath(p) \in Seq(Names) /\ Len(JsonPath(p)) = Len(p)
           /\ \A i \in 1..Len(p) : JsonPath(p)[i] = IF p[i] \in Nat THEN Text[p[i]] ELSE p[i]
<1>1. Len(p) \in Nat /\ DOMAIN p = 1..Len(p) /\ \A i \in 1..Len(p) : p[i] \in LuaLabels
  BY PathFacts
<1>2. \A x \in LuaLabels : (IF x \in Nat THEN Text[x] ELSE x) \in Names
  BY LabelFacts DEF LuaLabels
<1>3. JsonPath(p) \in [1..Len(p) -> Names]
  BY <1>1, <1>2 DEF JsonPath
<1> QED
  BY <1>1, <1>3, SequenceIntro DEF JsonPath

LEMMA LuaPathFront ==
    ASSUME NEW p \in Seq(JsonLabels), p # << >>
    PROVE  LuaPath(p) # << >> /\ Front(LuaPath(p)) = LuaPath(Front(p))
<1> DEFINE f == Front(p)
           l == LuaPath(p)
<1>1. /\ f \in Seq(JsonLabels) /\ Len(f) = Len(p) - 1 /\ Len(p) \in Nat \ {0}
      /\ \A i \in 1..Len(p) - 1 : f[i] = p[i]
  BY FrontFacts
<1>2. /\ l \in Seq(LuaLabels) /\ Len(l) = Len(p)
      /\ \A i \in 1..Len(p) : l[i] = IF p[i] \in Nat THEN p[i] + 1 ELSE p[i]
  BY LuaPathFacts
<1>3. /\ LuaPath(f) \in Seq(LuaLabels) /\ Len(LuaPath(f)) = Len(f)
      /\ \A i \in 1..Len(f) : LuaPath(f)[i] = IF f[i] \in Nat THEN f[i] + 1 ELSE f[i]
  BY <1>1, LuaPathFacts
<1> HIDE DEF f, l
<1>4. l # << >>
  BY <1>1, <1>2, PathFacts
<1>5. /\ Front(l) \in Seq(LuaLabels) /\ Len(Front(l)) = Len(p) - 1
      /\ \A i \in 1..Len(p) - 1 : Front(l)[i] = l[i]
  BY <1>2, <1>4, FrontFacts
<1>6. ASSUME NEW i \in 1..Len(p) - 1
      PROVE  Front(l)[i] = LuaPath(f)[i]
  <2>1. i \in 1..Len(p) /\ i \in 1..Len(f) /\ f[i] = p[i] /\ Front(l)[i] = l[i]
    BY <1>1, <1>5
  <2> QED
    BY <1>2, <1>3, <2>1, Zenon
<1>7. Front(l) = LuaPath(f)
  BY <1>1, <1>3, <1>5, <1>6, SeqEqual
<1> QED
  BY <1>4, <1>7 DEF f, l

LEMMA JsonPathFront ==
    ASSUME NEW p \in Seq(LuaLabels), p # << >>
    PROVE  JsonPath(p) # << >> /\ Front(JsonPath(p)) = JsonPath(Front(p))
<1> DEFINE f == Front(p)
           l == JsonPath(p)
<1>1. /\ f \in Seq(LuaLabels) /\ Len(f) = Len(p) - 1 /\ Len(p) \in Nat \ {0}
      /\ \A i \in 1..Len(p) - 1 : f[i] = p[i]
  BY FrontFacts
<1>2. /\ l \in Seq(Names) /\ Len(l) = Len(p)
      /\ \A i \in 1..Len(p) : l[i] = IF p[i] \in Nat THEN Text[p[i]] ELSE p[i]
  BY JsonPathFacts
<1>3. /\ JsonPath(f) \in Seq(Names) /\ Len(JsonPath(f)) = Len(f)
      /\ \A i \in 1..Len(f) : JsonPath(f)[i] = IF f[i] \in Nat THEN Text[f[i]] ELSE f[i]
  BY <1>1, JsonPathFacts
<1> HIDE DEF f, l
<1>4. l # << >>
  BY <1>1, <1>2, PathFacts
<1>5. /\ Front(l) \in Seq(Names) /\ Len(Front(l)) = Len(p) - 1
      /\ \A i \in 1..Len(p) - 1 : Front(l)[i] = l[i]
  BY <1>2, <1>4, FrontFacts
<1>6. ASSUME NEW i \in 1..Len(p) - 1
      PROVE  Front(l)[i] = JsonPath(f)[i]
  <2>1. i \in 1..Len(p) /\ i \in 1..Len(f) /\ f[i] = p[i] /\ Front(l)[i] = l[i]
    BY <1>1, <1>5
  <2> QED
    BY <1>2, <1>3, <2>1, Zenon
<1>7. Front(l) = JsonPath(f)
  BY <1>1, <1>3, <1>5, <1>6, SeqEqual
<1> QED
  BY <1>4, <1>7 DEF f, l

LEMMA LuaPathInjective ==
    ASSUME NEW p \in Seq(JsonLabels), NEW q \in Seq(JsonLabels), LuaPath(p) = LuaPath(q)
    PROVE  p = q
<1>1. /\ Len(p) = Len(q)
      /\ \A i \in 1..Len(p) : /\ p[i] \in JsonLabels /\ q[i] \in JsonLabels
                              /\ LuaPath(p)[i] = IF p[i] \in Nat THEN p[i] + 1 ELSE p[i]
                              /\ LuaPath(q)[i] = IF q[i] \in Nat THEN q[i] + 1 ELSE q[i]
  BY LuaPathFacts, PathFacts
<1>2. ASSUME NEW i \in 1..Len(p)
      PROVE  p[i] = q[i]
  <2>1. p[i] \in Names \/ p[i] \in Nat
    BY <1>1, LabelFacts
  <2>2. q[i] \in Names \/ q[i] \in Nat
    BY <1>1, LabelFacts
  <2> QED
    BY <1>1, <2>1, <2>2, LabelFacts
<1> QED
  BY <1>1, <1>2, SeqEqual

(* A path of names reads as it stands. *)
LEMMA NamePaths ==
    ASSUME NEW p \in Seq(Names)
    PROVE  /\ p \in Seq(JsonLabels) /\ p \in Seq(LuaLabels)
           /\ LuaPath(p) = p /\ JsonPath(p) = p
<1>1. p \in Seq(JsonLabels) /\ p \in Seq(LuaLabels)
  BY SeqMonotonic DEF JsonLabels, LuaLabels
<1>2. \A i \in 1..Len(p) : p[i] \notin Nat
  BY PathFacts, LabelFacts
<1>3. LuaPath(p) = p
  BY <1>1, <1>2, LuaPathFacts, SeqEqual
<1>4. JsonPath(p) = p
  <2>1. p \in Seq(Names) /\ JsonPath(p) \in Seq(Names)
    BY <1>1, JsonPathFacts
  <2> QED
    BY <1>1, <1>2, <2>1, JsonPathFacts, SeqEqual
<1> QED
  BY <1>1, <1>3, <1>4

LEMMA LuaPathTake ==
    ASSUME NEW p \in Seq(JsonLabels), NEW n \in 0..Len(p)
    PROVE  LuaPath(SubSeq(p, 1, n)) = SubSeq(LuaPath(p), 1, n)
<1> DEFINE a == SubSeq(p, 1, n)
           b == SubSeq(LuaPath(p), 1, n)
<1>1. /\ a \in Seq(JsonLabels) /\ Len(a) = n /\ Len(p) \in Nat
      /\ \A i \in 1..n : a[i] = p[i] /\ i \in 1..Len(p)
  BY TakeFacts, PathFacts
<1>2. /\ b \in Seq(LuaLabels) /\ Len(b) = n
      /\ \A i \in 1..n : b[i] = LuaPath(p)[i]
  BY LuaPathFacts, TakeFacts
<1> HIDE DEF a, b
<1>3. \A i \in 1..n : LuaPath(a)[i] = b[i]
  BY <1>1, <1>2, LuaPathFacts
<1>4. LuaPath(a) = b
  BY <1>1, <1>2, <1>3, LuaPathFacts, SeqEqual
<1> QED
  BY <1>4 DEF a, b

LEMMA JsonPathTake ==
    ASSUME NEW p \in Seq(LuaLabels), NEW n \in 0..Len(p)
    PROVE  JsonPath(SubSeq(p, 1, n)) = SubSeq(JsonPath(p), 1, n)
<1> DEFINE a == SubSeq(p, 1, n)
           b == SubSeq(JsonPath(p), 1, n)
<1>1. /\ a \in Seq(LuaLabels) /\ Len(a) = n /\ Len(p) \in Nat
      /\ \A i \in 1..n : a[i] = p[i] /\ i \in 1..Len(p)
  BY TakeFacts, PathFacts
<1>2. /\ b \in Seq(Names) /\ Len(b) = n
      /\ \A i \in 1..n : b[i] = JsonPath(p)[i]
  BY JsonPathFacts, TakeFacts
<1> HIDE DEF a, b
<1>3. \A i \in 1..n : JsonPath(a)[i] = b[i]
  BY <1>1, <1>2, JsonPathFacts
<1>4. JsonPath(a) = b
  BY <1>1, <1>2, <1>3, JsonPathFacts, SeqEqual
<1> QED
  BY <1>4 DEF a, b

LEMMA PrefixIsTake ==
    ASSUME NEW S, NEW p \in Seq(S), NEW q \in Seq(S), IsPrefix(p, q)
    PROVE  Len(p) \in 0..Len(q) /\ p = SubSeq(q, 1, Len(p))
<1>1. Len(p) \in 0..Len(q) /\ \A i \in 1..Len(p) : p[i] = q[i]
  BY PathFacts, PrefixFacts
<1> QED
  BY <1>1, TakeFacts, SeqEqual

LEMMA PrefixTransitive ==
    ASSUME NEW S, NEW p \in Seq(S), NEW q \in Seq(S), NEW r \in Seq(S),
           IsPrefix(p, q), IsPrefix(q, r)
    PROVE  IsPrefix(p, r)
<1>1. /\ Len(p) \in Nat /\ Len(q) \in Nat /\ Len(r) \in Nat
      /\ Len(p) <= Len(q) /\ \A i \in 1..Len(p) : p[i] = q[i]
      /\ Len(q) <= Len(r) /\ \A i \in 1..Len(q) : q[i] = r[i]
  BY PathFacts, PrefixFacts
<1>2. Len(p) <= Len(r) /\ \A i \in 1..Len(p) : p[i] = r[i]
  BY <1>1
<1> QED
  BY <1>2, PrefixFacts

LEMMA FrontIsPrefix ==
    ASSUME NEW S, NEW p \in Seq(S), p # << >>
    PROVE  Front(p) \in Seq(S) /\ IsPrefix(Front(p), p) /\ Front(p) # p
<1>1. Len(p) \in Nat \ {0} /\ Front(p) = SubSeq(p, 1, Len(p) - 1)
  BY FrontFacts DEF Front
<1>2. Len(p) - 1 \in 0..Len(p)
  BY <1>1
<1> QED
  BY <1>1, <1>2, TakeFacts, FrontFacts

(* In a document no two paths read alike. *)
LEMMA ReadsInjective ==
    ASSUME NEW d, Document(d), NEW p \in DOMAIN d, NEW q \in DOMAIN d, Reads(p) = Reads(q)
    PROVE  p = q
<1>1. /\ p \in Seq(JsonLabels) /\ q \in Seq(JsonLabels) /\ Tree(d, {"object", "array"})
      /\ DOMAIN d \subseteq Seq(JsonLabels)
      /\ \A r \in DOMAIN d \ {<< >>} : Last(r) \in Names <=> d[Front(r)] = "object"
  BY DEF Document, JsonLabels
<1>2. /\ Len(p) = Len(q)
      /\ \A i \in 1..Len(p) : /\ LuaPath(p)[i] = IF p[i] \in Nat THEN p[i] + 1 ELSE p[i]
                              /\ LuaPath(q)[i] = IF q[i] \in Nat THEN q[i] + 1 ELSE q[i]
                              /\ p[i] \in JsonLabels /\ q[i] \in JsonLabels
                              /\ Reads(p)[i] = IF LuaPath(p)[i] \in Nat
                                                THEN Text[LuaPath(p)[i]] ELSE LuaPath(p)[i]
                              /\ Reads(q)[i] = IF LuaPath(q)[i] \in Nat
                                                THEN Text[LuaPath(q)[i]] ELSE LuaPath(q)[i]
  <2>1. /\ LuaPath(p) \in Seq(LuaLabels) /\ Len(LuaPath(p)) = Len(p)
        /\ LuaPath(q) \in Seq(LuaLabels) /\ Len(LuaPath(q)) = Len(q)
    BY <1>1, LuaPathFacts
  <2>2. Len(p) = Len(q)
    BY <2>1, JsonPathFacts DEF Reads
  <2> QED
    BY <1>1, <2>1, <2>2, LuaPathFacts, JsonPathFacts, PathFacts DEF Reads
<1> SUFFICES ASSUME p # q PROVE FALSE
  OBVIOUS
<1>3. PICK n \in 1..Len(p) : p[n] # q[n] /\ SubSeq(p, 1, n - 1) = SubSeq(q, 1, n - 1)
  BY <1>1, <1>2, FirstDifference
<1> DEFINE a == SubSeq(p, 1, n)
           b == SubSeq(q, 1, n)
<1>4. /\ a \in DOMAIN d \ {<< >>} /\ Last(a) = p[n] /\ Front(a) = SubSeq(p, 1, n - 1)
      /\ b \in DOMAIN d \ {<< >>} /\ Last(b) = q[n] /\ Front(b) = SubSeq(q, 1, n - 1)
  <2>1. ASSUME NEW r \in DOMAIN d, Len(r) = Len(p)
        PROVE  /\ SubSeq(r, 1, n) \in DOMAIN d \ {<< >>} /\ Last(SubSeq(r, 1, n)) = r[n]
               /\ Front(SubSeq(r, 1, n)) = SubSeq(r, 1, n - 1)
    <3> DEFINE c == SubSeq(r, 1, n)
    <3>1. r \in Seq(JsonLabels) /\ Len(r) \in Nat /\ n \in 0..Len(r) /\ n - 1 \in 0..Len(r)
      BY <1>1, <2>1, PathFacts
    <3>2. /\ c \in Seq(JsonLabels) /\ Len(c) = n /\ IsPrefix(c, r)
          /\ \A i \in 1..n : c[i] = r[i]
      BY <3>1, TakeFacts
    <3> HIDE DEF c
    <3>3. c \in DOMAIN d
      BY <1>1, <3>2, TreeClosed
    <3>4. c # << >>
      BY <3>2, PathFacts
    <3>5. Last(c) = r[n]
      BY <3>1, <3>2 DEF Last
    <3>6. Front(c) = SubSeq(r, 1, n - 1)
      <4>1. /\ Front(c) \in Seq(JsonLabels) /\ Len(Front(c)) = n - 1
            /\ \A i \in 1..n - 1 : Front(c)[i] = c[i]
        BY <3>2, <3>4, FrontFacts
      <4>2. /\ SubSeq(r, 1, n - 1) \in Seq(JsonLabels) /\ Len(SubSeq(r, 1, n - 1)) = n - 1
            /\ \A i \in 1..n - 1 : SubSeq(r, 1, n - 1)[i] = r[i]
        BY <3>1, TakeFacts
      <4>3. \A i \in 1..n - 1 : i \in 1..n
        BY <3>1
      <4> QED
        BY <3>2, <4>1, <4>2, <4>3, SeqEqual
    <3> QED
      BY <3>3, <3>4, <3>5, <3>6 DEF c
  <2> QED
    BY <1>2, <2>1
<1>5. p[n] \in Names <=> q[n] \in Names
  BY <1>1, <1>3, <1>4
<1>6. Reads(p)[n] = Reads(q)[n]
  OBVIOUS
<1>7. CASE p[n] \in Names
  BY <1>2, <1>3, <1>5, <1>6, <1>7, LabelFacts
<1>8. CASE p[n] \notin Names
  <2>1. /\ p[n] \in Nat /\ p[n] + 1 \in DOMAIN Text
        /\ q[n] \in Nat /\ q[n] + 1 \in DOMAIN Text
    BY <1>2, <1>5, <1>8, LabelFacts
  <2>2. LuaPath(p)[n] = p[n] + 1 /\ LuaPath(q)[n] = q[n] + 1
    BY <1>2, <2>1
  <2>3. Reads(p)[n] = Text[p[n] + 1] /\ Reads(q)[n] = Text[q[n] + 1]
    <3>1. p[n] + 1 \in Nat /\ q[n] + 1 \in Nat
      BY <2>1
    <3> QED
      BY <1>2, <2>2, <3>1
  <2>4. p[n] + 1 = q[n] + 1
    BY <1>6, <2>1, <2>3, LabelFacts
  <2> QED
    BY <1>3, <2>1, <2>4
<1> QED
  BY <1>7, <1>8

-----------------------------------------------------------------------------
(* The conversions. *)

LEMMA LuaKindFacts ==
    ASSUME NEW k \in Kinds \ {"null"}
    PROVE  /\ LuaKind(k) \in LuaKinds
           /\ LuaKind(k) = "table" <=> k \in {"object", "array"}
           /\ k \in {"string", "number"} => LuaKind(k) = k
BY DEF LuaKind, LuaKinds, Kinds

(* The table made of a document has its values but the nulls. *)
LEMMA ToLuaFacts ==
    ASSUME NEW d, Document(d)
    PROVE  /\ DOMAIN ToLua(d) = {LuaPath(p) : p \in Present(d)}
           /\ \A p \in Present(d) : ToLua(d)[LuaPath(p)] = LuaKind(d[p])
           /\ d[<< >>] # "null" => Value(ToLua(d))
<1>1. /\ d \in [DOMAIN d -> Kinds] /\ IsFiniteSet(DOMAIN d)
      /\ DOMAIN d \subseteq Seq(JsonLabels) /\ Tree(d, {"object", "array"})
  BY DEF Document, JsonLabels
<1>2. /\ Present(d) \subseteq DOMAIN d /\ Present(d) \subseteq Seq(JsonLabels)
      /\ \A p \in Present(d) : d[p] \in Kinds \ {"null"}
  BY <1>1 DEF Present
<1> DEFINE r == Restrict(d, Present(d))
           m == Moved(r, LuaPath)
<1>3. DOMAIN r = Present(d) /\ \A p \in Present(d) : r[p] = d[p]
  BY DEF Restrict
<1> HIDE DEF r
<1>4. /\ DOMAIN m = {LuaPath(p) : p \in Present(d)}
      /\ \A q \in DOMAIN m : m[q] = r[CHOOSE p \in Present(d) : LuaPath(p) = q]
  BY <1>3 DEF Moved
<1>5. ASSUME NEW p \in Present(d)
      PROVE  LuaPath(p) \in DOMAIN m /\ m[LuaPath(p)] = d[p]
  <2>1. \A q \in Present(d) : LuaPath(q) = LuaPath(p) => q = p
    BY <1>2, LuaPathInjective
  <2>2. (CHOOSE q \in Present(d) : LuaPath(q) = LuaPath(p)) = p
    BY <2>1
  <2> QED
    BY <1>3, <1>4, <2>2
<1>6. ToLua(d) = [q \in DOMAIN m |-> LuaKind(m[q])]
  BY DEF ToLua, r
<1> HIDE DEF m
<1> DEFINE l == ToLua(d)
<1>7. DOMAIN l = {LuaPath(p) : p \in Present(d)}
  BY <1>4, <1>6
<1>8. \A p \in Present(d) : l[LuaPath(p)] = LuaKind(d[p])
  BY <1>5, <1>6
<1>9. ASSUME d[<< >>] # "null"
      PROVE  Value(l)
  <2>1. l \in [DOMAIN l -> LuaKinds]
    <3>1. l = [q \in DOMAIN l |-> l[q]]
      BY <1>6
    <3>2. \A q \in DOMAIN l : l[q] \in LuaKinds
      BY <1>2, <1>7, <1>8, LuaKindFacts
    <3> QED
      BY <3>1, <3>2
  <2>2. DOMAIN l \subseteq Seq(LuaLabels)
    BY <1>2, <1>7, LuaPathFacts
  <2>3. IsFiniteSet(DOMAIN l)
    <3> DEFINE g == [p \in Present(d) |-> LuaPath(p)]
    <3>1. IsFiniteSet(Present(d))
      BY <1>1, <1>2, FS_Subset
    <3>2. g \in Surjection(Present(d), DOMAIN l)
      BY <1>7 DEF Surjection
    <3> HIDE DEF g
    <3> QED
      BY <3>1, <3>2, FS_Surjection
  <2>4. Tree(l, {"table"})
    <3>1. << >> \in DOMAIN l
      <4>1. << >> \in Present(d) /\ << >> \in Seq(Names)
        BY <1>1, <1>9, EmptySeq DEF Tree, Present
      <4>2. LuaPath(<< >>) = << >>
        BY <4>1, NamePaths
      <4> QED
        BY <1>7, <4>1, <4>2
    <3>2. ASSUME NEW q \in DOMAIN l \ {<< >>}
          PROVE  Front(q) \in DOMAIN l /\ l[Front(q)] = "table"
      <4>1. PICK p \in Present(d) : LuaPath(p) = q
        BY <1>7
      <4>2. p # << >>
        <5>1. Len(p) = Len(q) /\ p \in Seq(JsonLabels) /\ q \in Seq(LuaLabels)
          BY <1>2, <4>1, LuaPathFacts
        <5> QED
          BY <3>2, <5>1, PathFacts
      <4>3. Front(p) \in DOMAIN d /\ d[Front(p)] \in {"object", "array"}
        BY <1>1, <1>2, <4>2 DEF Tree
      <4>4. Front(p) \in Present(d)
        BY <4>3 DEF Present
      <4>5. Front(q) = LuaPath(Front(p))
        BY <1>2, <4>1, <4>2, LuaPathFront
      <4>6. LuaKind(d[Front(p)]) = "table"
        BY <1>2, <4>3, <4>4, LuaKindFacts
      <4> QED
        BY <1>7, <1>8, <4>4, <4>5, <4>6
    <3> QED
      BY <3>1, <3>2 DEF Tree
  <2> QED
    BY <2>1, <2>2, <2>3, <2>4 DEF Value, LuaLabels
<1> QED
  BY <1>7, <1>8, <1>9

(* d is made of the entries K of the table t. *)
Converts(t, d, K) ==
    /\ K \subseteq DOMAIN t /\ << >> \in K
    /\ d = [q \in DOMAIN d |-> d[q]]
    /\ DOMAIN d = {JsonPath(p) : p \in K}
    /\ \A p \in K : d[JsonPath(p)] = JsonKind(Restrict(t, K), p)
    /\ \A p, q \in K : JsonPath(p) = JsonPath(q) => p = q
    /\ \A q \in K, p \in Seq(LuaLabels) : IsPrefix(p, q) => p \in K
    /\ \A p \in DOMAIN t \ K : \E l \in Twins(t) : IsPrefix(l, p)

(* At most two labels read alike. *)
LEMMA TwoAlike ==
    ASSUME NEW p \in Seq(LuaLabels), NEW q \in Seq(LuaLabels), NEW r \in Seq(LuaLabels),
           p # << >>, q # << >>, r # << >>, Front(p) = Front(q), Front(q) = Front(r),
           JsonPath(p) = JsonPath(q), JsonPath(q) = JsonPath(r)
    PROVE  p = q \/ q = r \/ p = r
<1> DEFINE R(x) == IF x \in Nat THEN Text[x] ELSE x
<1>1. /\ Len(p) \in Nat \ {0} /\ Len(q) = Len(p) /\ Len(r) = Len(p)
      /\ Last(p) = p[Len(p)] /\ Last(q) = q[Len(p)] /\ Last(r) = r[Len(p)]
      /\ Last(p) \in LuaLabels /\ Last(q) \in LuaLabels /\ Last(r) \in LuaLabels
  BY FrontFacts, JsonPathFacts
<1>2. Len(p) \in 1..Len(p)
  BY <1>1
<1>3. R(Last(p)) = R(Last(q)) /\ R(Last(q)) = R(Last(r))
  BY <1>1, <1>2, JsonPathFacts
<1>4. \A x \in LuaLabels : \/ x \in Names /\ R(x) = x
                           \/ x \in DOMAIN Text /\ R(x) = Text[x]
  BY LabelFacts
<1> HIDE DEF R
<1>5. Last(p) = Last(q) \/ Last(q) = Last(r) \/ Last(p) = Last(r)
  BY <1>1, <1>3, <1>4, LabelFacts
<1> QED
  BY <1>5, FrontLast

(* Of entries that read alike a conversion takes one. *)
LEMMA KeptApart ==
    ASSUME NEW t, Value(t), NEW L \in Overwritten(t),
           NEW p \in DOMAIN t, NEW q \in DOMAIN t, JsonPath(p) = JsonPath(q),
           ~\E l \in L : IsPrefix(l, p), ~\E l \in L : IsPrefix(l, q)
    PROVE  p = q
<1>1. /\ DOMAIN t \subseteq Seq(LuaLabels) /\ Tree(t, {"table"})
      /\ p \in Seq(LuaLabels) /\ q \in Seq(LuaLabels)
  BY DEF Value, LuaLabels
<1>2. Len(p) = Len(q)
  BY <1>1, JsonPathFacts
<1> SUFFICES ASSUME p # q PROVE FALSE
  OBVIOUS
<1>3. PICK n \in 1..Len(p) : p[n] # q[n] /\ SubSeq(p, 1, n - 1) = SubSeq(q, 1, n - 1)
  BY <1>1, <1>2, FirstDifference
<1> DEFINE a == SubSeq(p, 1, n)
           b == SubSeq(q, 1, n)
<1>4. n \in 0..Len(p) /\ n \in 0..Len(q) /\ n - 1 \in 0..Len(p) /\ n - 1 \in 0..Len(q)
      /\ n \in Nat \ {0}
  BY <1>1, <1>2, PathFacts
<1>5. /\ a \in Seq(LuaLabels) /\ Len(a) = n /\ IsPrefix(a, p)
      /\ b \in Seq(LuaLabels) /\ Len(b) = n /\ IsPrefix(b, q)
      /\ a[n] = p[n] /\ b[n] = q[n]
  BY <1>1, <1>4, TakeFacts
<1>6. JsonPath(a) = JsonPath(b)
  BY <1>1, <1>4, JsonPathTake
<1>7. Front(a) = Front(b)
  <2>1. ASSUME NEW r \in Seq(LuaLabels), n \in 0..Len(r), n - 1 \in 0..Len(r)
        PROVE  Front(SubSeq(r, 1, n)) = SubSeq(r, 1, n - 1)
    <3> DEFINE c == SubSeq(r, 1, n)
    <3>1. c \in Seq(LuaLabels) /\ Len(c) = n /\ \A i \in 1..n : c[i] = r[i]
      BY <2>1, TakeFacts
    <3> HIDE DEF c
    <3>2. c # << >>
      BY <1>4, <3>1, PathFacts
    <3>3. /\ Front(c) \in Seq(LuaLabels) /\ Len(Front(c)) = n - 1
          /\ \A i \in 1..n - 1 : Front(c)[i] = c[i]
      BY <3>1, <3>2, FrontFacts
    <3>4. /\ SubSeq(r, 1, n - 1) \in Seq(LuaLabels) /\ Len(SubSeq(r, 1, n - 1)) = n - 1
          /\ \A i \in 1..n - 1 : SubSeq(r, 1, n - 1)[i] = r[i]
      BY <2>1, TakeFacts
    <3>5. \A i \in 1..n - 1 : i \in 1..n
      BY <1>4
    <3>6. Front(c) = SubSeq(r, 1, n - 1)
      BY <3>1, <3>3, <3>4, <3>5, SeqEqual
    <3> QED
      BY <3>6 DEF c
  <2> QED
    BY <1>1, <1>3, <1>4, <2>1
<1>8. a # b
  BY <1>3, <1>5
<1>9. a \in DOMAIN t /\ b \in DOMAIN t
  <2> HIDE DEF a, b
  <2> QED
    BY <1>1, <1>5, TreeClosed
<1>10. a # << >> /\ b # << >>
  <2> HIDE DEF a, b
  <2> QED
    BY <1>4, <1>5, PathFacts
<1> HIDE DEF a, b
<1>11. a \in Twins(t) /\ b \in Twins(t)
  BY <1>6, <1>7, <1>8, <1>9, <1>10 DEF Twins
<1>12. a \notin L /\ b \notin L
  BY <1>5
<1>13. PICK c \in L \ {a} : Front(a) = Front(c) /\ JsonPath(a) = JsonPath(c)
  BY <1>11, <1>12 DEF Overwritten
<1>14. c \in Seq(LuaLabels) /\ c # << >> /\ c # b
  BY <1>1, <1>12, <1>13 DEF Overwritten, Twins
<1> QED
  BY <1>5, <1>6, <1>7, <1>8, <1>10, <1>13, <1>14, TwoAlike

LEMMA ToJsonConverts ==
    ASSUME NEW t, Value(t), NEW d \in ToJson(t)
    PROVE  \E K : Converts(t, d, K)
<1>1. /\ DOMAIN t \subseteq Seq(LuaLabels) /\ Tree(t, {"table"})
  BY DEF Value, LuaLabels
<1>2. PICK L \in Overwritten(t) :
        LET kept == Restrict(t, {p \in DOMAIN t : ~\E l \in L : IsPrefix(l, p)})
            j == [p \in DOMAIN kept |-> JsonKind(kept, p)]
        IN  d = Moved(j, JsonPath)
  BY DEF ToJson
<1> DEFINE K == {p \in DOMAIN t : ~\E l \in L : IsPrefix(l, p)}
           kept == Restrict(t, K)
           j == [p \in DOMAIN kept |-> JsonKind(kept, p)]
<1>3. DOMAIN kept = K
  BY DEF Restrict
<1>4. d = Moved(j, JsonPath)
  BY <1>2
<1> HIDE DEF kept
<1>5. DOMAIN j = K /\ \A p \in K : j[p] = JsonKind(kept, p)
  BY <1>3
<1>6. \A p, q \in K : JsonPath(p) = JsonPath(q) => p = q
  BY KeptApart
<1> HIDE DEF j
<1>7. d = [q \in {JsonPath(p) : p \in K} |-> j[CHOOSE p \in K : JsonPath(p) = q]]
  BY <1>4, <1>5 DEF Moved
<1>8. ASSUME NEW p \in K
      PROVE  d[JsonPath(p)] = JsonKind(kept, p)
  <2>1. (CHOOSE q \in K : JsonPath(q) = JsonPath(p)) = p
    BY <1>6
  <2>2. JsonPath(p) \in {JsonPath(q) : q \in K}
    OBVIOUS
  <2> HIDE DEF K
  <2> QED
    BY <1>5, <1>7, <2>1, <2>2
<1>9. d = [q \in DOMAIN d |-> d[q]] /\ DOMAIN d = {JsonPath(p) : p \in K}
  <2> HIDE DEF K
  <2> QED
    BY <1>7
<1>10. L \subseteq Twins(t) /\ L \subseteq Seq(LuaLabels) /\ << >> \notin L
  BY <1>1 DEF Overwritten, Twins
<1>11. << >> \in K
  <2>1. << >> \in DOMAIN t /\ << >> \in Seq(LuaLabels) /\ Len(<< >>) = 0
    BY <1>1, EmptySeq DEF Tree
  <2>2. \A l \in L : ~IsPrefix(l, << >>)
    <3> SUFFICES ASSUME NEW l \in L, IsPrefix(l, << >>) PROVE FALSE
      OBVIOUS
    <3>1. l \in Seq(LuaLabels) /\ l # << >>
      BY <1>10
    <3>2. Len(l) \in Nat \ {0}
      BY <3>1, PathFacts
    <3>3. Len(l) <= Len(<< >>)
      BY <2>1, <3>1, PrefixFacts
    <3> QED
      BY <2>1, <3>2, <3>3
  <2> QED
    BY <2>1, <2>2
<1>12. ASSUME NEW q \in K, NEW p \in Seq(LuaLabels), IsPrefix(p, q)
       PROVE  p \in K
  <2>1. q \in DOMAIN t /\ q \in Seq(LuaLabels) /\ ~\E l \in L : IsPrefix(l, q)
    BY <1>1
  <2>2. p \in DOMAIN t
    BY <1>1, <1>12, <2>1, TreeClosed
  <2>3. \A l \in L : IsPrefix(l, p) => IsPrefix(l, q)
    BY <1>10, <1>12, <2>1, PrefixTransitive
  <2> QED
    BY <2>1, <2>2, <2>3
<1>13. \A p \in DOMAIN t \ K : \E l \in Twins(t) : IsPrefix(l, p)
  BY <1>10
<1>14. K \subseteq DOMAIN t
  OBVIOUS
<1>15. Converts(t, d, K)
  <2> HIDE DEF K
  <2> QED
    BY <1>6, <1>8, <1>9, <1>11, <1>12, <1>13, <1>14 DEF Converts, kept
<1> QED
  BY <1>15

LEMMA JsonKindFacts ==
    ASSUME NEW t, Value(t), NEW d, NEW K, Converts(t, d, K), NEW p \in K
    PROVE  /\ d[JsonPath(p)] \in {"null", "object", "string", "number"}
           /\ t[p] \in {"string", "number"} => d[JsonPath(p)] = t[p]
           /\ d[JsonPath(p)] \in {"string", "number"} => t[p] = d[JsonPath(p)]
           /\ t[p] = "table" => d[JsonPath(p)] \in {"object", "null"}
           /\ t[p] = "boolean" => d[JsonPath(p)] = "null"
           /\ \A q \in K : IsPrefix(p, q) /\ p # q => d[JsonPath(p)] = "object"
           /\ d[JsonPath(p)] = "object" => \E q \in K : IsPrefix(p, q) /\ p # q
<1> DEFINE kept == Restrict(t, K)
           below == \E q \in K : IsPrefix(p, q) /\ p # q
<1>1. DOMAIN kept = K /\ kept[p] = t[p]
  BY DEF Restrict
<1>2. d[JsonPath(p)] = JsonKind(kept, p)
  BY DEF Converts
<1> HIDE DEF kept
<1>3. (\E q \in DOMAIN kept : Below(p, q)) <=> below
  BY <1>1 DEF Below, IsStrictPrefix
<1>4. /\ t[p] \in LuaKinds /\ DOMAIN t \subseteq Seq(LuaLabels) /\ Tree(t, {"table"})
      /\ p \in DOMAIN t /\ K \subseteq DOMAIN t
  BY DEF Value, Converts, LuaLabels
<1>5. below => t[p] = "table"
  <2> SUFFICES ASSUME NEW q \in K, IsPrefix(p, q), p # q PROVE t[p] = "table"
    OBVIOUS
  <2>1. t[p] \in {"table"}
    BY <1>4, TreeClosed
  <2> QED
    BY <2>1
<1> HIDE DEF below
<1>6. JsonKind(kept, p) = CASE t[p] = "table" -> IF below THEN "object" ELSE "null"
                            [] t[p] = "boolean" -> "null"
                            [] OTHER -> t[p]
  BY <1>1, <1>3 DEF JsonKind
<1>7. /\ t[p] = "table" => d[JsonPath(p)] = IF below THEN "object" ELSE "null"
      /\ t[p] = "boolean" => d[JsonPath(p)] = "null"
      /\ t[p] \in {"string", "number"} => d[JsonPath(p)] = t[p]
  BY <1>2, <1>6
<1>8. t[p] \in {"table", "boolean", "string", "number"}
  BY <1>4 DEF LuaKinds
<1> QED
  BY <1>5, <1>7, <1>8 DEF below

(* What a commit makes of a table is a document, of names only. *)
LEMMA ConvertsDocument ==
    ASSUME NEW t, Value(t), NEW d, NEW K, Converts(t, d, K)
    PROVE  Document(d) /\ DOMAIN d \subseteq Seq(Names)
<1>1. /\ K \subseteq DOMAIN t /\ << >> \in K /\ IsFiniteSet(DOMAIN t)
      /\ K \subseteq Seq(LuaLabels) /\ Tree(t, {"table"})
  BY DEF Converts, Value, LuaLabels
<1>2. DOMAIN d = {JsonPath(p) : p \in K} /\ d = [q \in DOMAIN d |-> d[q]]
  BY DEF Converts
<1>3. DOMAIN d \subseteq Seq(Names)
  BY <1>1, <1>2, JsonPathFacts
<1>4. DOMAIN d \subseteq Seq(JsonLabels)
  BY <1>3, NamePaths
<1>5. d \in [DOMAIN d -> Kinds]
  <2>1. \A q \in DOMAIN d : d[q] \in Kinds
    BY <1>2, JsonKindFacts DEF Kinds
  <2> QED
    BY <1>2, <2>1
<1>6. IsFiniteSet(DOMAIN d)
  <2> DEFINE g == [p \in K |-> JsonPath(p)]
  <2>1. IsFiniteSet(K)
    BY <1>1, FS_Subset
  <2>2. g \in Surjection(K, DOMAIN d)
    BY <1>2 DEF Surjection
  <2> HIDE DEF g
  <2> QED
    BY <2>1, <2>2, FS_Surjection
<1>7. << >> \in DOMAIN d
  <2>1. << >> \in Seq(Names)
    BY EmptySeq
  <2> QED
    BY <1>1, <1>2, <2>1, NamePaths
<1>8. ASSUME NEW q \in DOMAIN d \ {<< >>}
      PROVE  Front(q) \in DOMAIN d /\ d[Front(q)] = "object" /\ Last(q) \in Names
  <2>1. PICK p \in K : q = JsonPath(p)
    BY <1>2
  <2>2. q \in Seq(Names) /\ p \in Seq(LuaLabels) /\ Len(p) = Len(q) /\ p # << >>
    <3>1. q \in Seq(Names) /\ p \in Seq(LuaLabels) /\ Len(p) = Len(q)
      BY <1>1, <2>1, JsonPathFacts
    <3> QED
      BY <1>8, <3>1, PathFacts
  <2>3. Front(p) \in K /\ IsPrefix(Front(p), p) /\ Front(p) # p
    BY <2>2, FrontIsPrefix DEF Converts
  <2>4. Front(q) = JsonPath(Front(p))
    BY <2>1, <2>2, JsonPathFront
  <2>5. d[JsonPath(Front(p))] = "object"
    BY <2>3, JsonKindFacts
  <2>6. Last(q) \in Names
    BY <1>8, <2>2, FrontFacts
  <2> QED
    BY <1>2, <2>3, <2>4, <2>5, <2>6
<1> QED
  BY <1>3, <1>4, <1>5, <1>6, <1>7, <1>8 DEF Document, Tree, JsonLabels

LEMMA TopOfPrefix ==
    ASSUME NEW p \in Seq(LuaLabels), NEW q \in Seq(LuaLabels), p # << >>, IsPrefix(p, q)
    PROVE  q # << >> /\ Top(p) = Top(q)
<1>1. /\ Len(p) \in Nat \ {0} /\ Len(q) \in Nat /\ Len(p) <= Len(q)
      /\ \A i \in 1..Len(p) : p[i] = q[i]
  BY PathFacts, PrefixFacts
<1>2. 1 \in 1..Len(p) /\ 1 \in 1..Len(q) /\ p[1] = q[1]
  BY <1>1
<1>3. q # << >>
  BY <1>1, PathFacts
<1> QED
  BY <1>2, <1>3, JsonPathFacts DEF Top

(* An entry that reads like no other, as what is above it, is converted. *)
LEMMA AloneIsKept ==
    ASSUME NEW t, Value(t), NEW d, NEW K, Converts(t, d, K), NEW X,
           \A p, q \in DOMAIN t : p # q /\ JsonPath(p) = JsonPath(q) => Top(p) \in X,
           NEW p \in DOMAIN t, p = << >> \/ Top(p) \notin X
    PROVE  p \in K
<1>1. DOMAIN t \subseteq Seq(LuaLabels)
  BY DEF Value, LuaLabels
<1> SUFFICES ASSUME p \notin K PROVE FALSE
  OBVIOUS
<1>2. PICK l \in Twins(t) : IsPrefix(l, p)
  BY DEF Converts
<1>3. l \in DOMAIN t /\ l # << >> /\ \E q \in DOMAIN t : l # q /\ JsonPath(l) = JsonPath(q)
  BY DEF Twins
<1>4. Top(l) \in X
  BY <1>3
<1> QED
  BY <1>1, <1>2, <1>3, <1>4, TopOfPrefix

-----------------------------------------------------------------------------
(* What is put into a tree. *)

(* r seen from p. *)
Under(p, r) == p \o r

LEMMA ConcatFacts ==
    ASSUME NEW S, NEW p \in Seq(S), NEW r \in Seq(S)
    PROVE  /\ Under(p, r) \in Seq(S) /\ IsPrefix(p, Under(p, r))
           /\ SubSeq(Under(p, r), Len(p) + 1, Len(Under(p, r))) = r
           /\ r = << >> => Under(p, r) = p
           /\ r # << >> => /\ Under(p, r) # << >> /\ Front(Under(p, r)) = Under(p, Front(r))
                           /\ Last(Under(p, r)) = Last(r)
<1> DEFINE c == p \o r
<1>1. /\ Len(p) \in Nat /\ Len(r) \in Nat
      /\ c \in Seq(S) /\ Len(c) = Len(p) + Len(r)
      /\ \A i \in 1..Len(p) + Len(r) :
            c[i] = IF i <= Len(p) THEN p[i] ELSE r[i - Len(p)]
  BY PathFacts, ConcatProperties
<1>2. r = << >> => c = p
  BY ConcatEmptySeq
<1> HIDE DEF c
<1>3. \A i \in 1..Len(p) : p[i] = c[i]
  BY <1>1
<1>4. IsPrefix(p, c)
  BY <1>1, <1>3, PrefixFacts
<1>5. SubSeq(c, Len(p) + 1, Len(c)) = r
  <2> DEFINE m == Len(p) + 1
             n == Len(c)
  <2>1. m \in Int /\ n \in Int /\ \A i \in m..n : c[i] \in S
    BY <1>1, PathFacts
  <2> HIDE DEF m, n
  <2>2. /\ SubSeq(c, m, n) \in Seq(S)
        /\ Len(SubSeq(c, m, n)) = IF m <= n THEN n - m + 1 ELSE 0
        /\ \A i \in 1..n - m + 1 : SubSeq(c, m, n)[i] = c[m + i - 1]
    BY <2>1, SubSeqProperties
  <2>3. Len(SubSeq(c, m, n)) = Len(r)
    BY <1>1, <2>2 DEF m, n
  <2>4. ASSUME NEW i \in 1..Len(r)
        PROVE  SubSeq(c, m, n)[i] = r[i]
    <3>1. /\ i \in 1..n - m + 1 /\ m + i - 1 = Len(p) + i
          /\ Len(p) + i \in 1..Len(p) + Len(r) /\ ~(Len(p) + i <= Len(p))
          /\ (Len(p) + i) - Len(p) = i
      BY <1>1 DEF m, n
    <3>2. c[Len(p) + i] = r[i]
      BY <1>1, <3>1
    <3> QED
      BY <2>2, <3>1, <3>2
  <2>5. SubSeq(c, m, n) = r
    BY <2>2, <2>3, <2>4, SeqEqual
  <2> QED
    BY <2>5 DEF m, n
<1>6. ASSUME r # << >>
      PROVE  c # << >> /\ Front(c) = p \o Front(r) /\ Last(c) = Last(r)
  <2>1. /\ Front(r) \in Seq(S) /\ Len(Front(r)) = Len(r) - 1 /\ Len(r) \in Nat \ {0}
        /\ \A i \in 1..Len(r) - 1 : Front(r)[i] = r[i]
        /\ Last(r) = r[Len(r)]
    BY <1>6, FrontFacts
  <2>2. c # << >>
    BY <1>1, <2>1, PathFacts
  <2>3. /\ Front(c) \in Seq(S) /\ Len(Front(c)) = Len(c) - 1
        /\ \A i \in 1..Len(c) - 1 : Front(c)[i] = c[i]
        /\ Last(c) = c[Len(c)]
    BY <1>1, <2>2, FrontFacts
  <2> DEFINE e == p \o Front(r)
  <2>4. /\ e \in Seq(S) /\ Len(e) = Len(p) + Len(Front(r))
        /\ \A i \in 1..Len(p) + Len(Front(r)) :
              e[i] = IF i <= Len(p) THEN p[i] ELSE Front(r)[i - Len(p)]
    BY <2>1, ConcatProperties
  <2> HIDE DEF e
  <2>5. ASSUME NEW i \in 1..Len(c) - 1
        PROVE  Front(c)[i] = e[i]
    <3>1. /\ i \in 1..Len(p) + Len(r) /\ i \in 1..Len(p) + Len(Front(r))
          /\ ~(i <= Len(p)) => i - Len(p) \in 1..Len(r) - 1
      BY <1>1, <2>1
    <3> QED
      BY <1>1, <2>1, <2>3, <2>4, <3>1
  <2>6. Front(c) = e
    <3>1. Len(e) = Len(c) - 1
      BY <1>1, <2>1, <2>4
    <3> QED
      BY <2>3, <2>4, <2>5, <3>1, SeqEqual
  <2>7. c[Len(c)] = r[Len(r)]
    <3>1. Len(c) \in 1..Len(p) + Len(r) /\ ~(Len(c) <= Len(p)) /\ Len(c) - Len(p) = Len(r)
      BY <1>1, <2>1
    <3> QED
      BY <1>1, <3>1
  <2> QED
    BY <2>1, <2>2, <2>3, <2>6, <2>7 DEF e
<1> QED
  BY <1>1, <1>2, <1>4, <1>5, <1>6 DEF c, Under

LEMMA UnderRoot ==
    ASSUME NEW S, NEW p \in Seq(S)
    PROVE  Under(p, << >>) = p
BY ConcatEmptySeq DEF Under

LEMMA WithoutFacts ==
    ASSUME NEW t, NEW p
    PROVE  /\ \A q : q \in DOMAIN Without(t, p) <=> q \in DOMAIN t /\ ~IsPrefix(p, q)
           /\ \A q \in DOMAIN t : ~IsPrefix(p, q) => Without(t, p)[q] = t[q]
BY DEF Without, Restrict

LEMMA WithoutFunction ==
    ASSUME NEW t, NEW p
    PROVE  Without(t, p) = [q \in DOMAIN Without(t, p) |-> Without(t, p)[q]]
BY DEF Without, Restrict

LEMMA PutFunction ==
    ASSUME NEW t, NEW v, NEW p
    PROVE  Put(t, p, v) = [q \in DOMAIN Put(t, p, v) |-> Put(t, p, v)[q]]
BY DEF Put

LEMMA PutDomain ==
    ASSUME NEW t, NEW v, NEW p, NEW q \in DOMAIN Put(t, p, v)
    PROVE  (\E r \in DOMAIN v : q = Under(p, r)) \/ (q \in DOMAIN t /\ ~IsPrefix(p, q))
BY DEF Put, Without, Restrict, Under

LEMMA PutOutside ==
    ASSUME NEW t, NEW v, NEW p, NEW q \in DOMAIN t, ~IsPrefix(p, q)
    PROVE  q \in DOMAIN Put(t, p, v) /\ Put(t, p, v)[q] = t[q]
BY DEF Put, Without, Restrict

LEMMA PutInside ==
    ASSUME NEW S, NEW t, NEW v, NEW p \in Seq(S), NEW r \in Seq(S), r \in DOMAIN v
    PROVE  Under(p, r) \in DOMAIN Put(t, p, v) /\ Put(t, p, v)[Under(p, r)] = v[r]
<1>1. IsPrefix(p, Under(p, r)) /\ SubSeq(Under(p, r), Len(p) + 1, Len(Under(p, r))) = r
  BY ConcatFacts
<1>2. Under(p, r) \in {p \o x : x \in DOMAIN v}
  BY DEF Under
<1>3. Under(p, r) \in DOMAIN Put(t, p, v)
  BY <1>2 DEF Put
<1> QED
  BY <1>1, <1>3 DEF Put

(* What is not below p stays a tree without what is. *)
LEMMA FrontNotBelow ==
    ASSUME NEW S, NEW p \in Seq(S), NEW q \in Seq(S), q # << >>, ~IsPrefix(p, q)
    PROVE  ~IsPrefix(p, Front(q))
BY FrontIsPrefix, PrefixTransitive

LEMMA NotBelowFront ==
    ASSUME NEW S, NEW p \in Seq(S), p # << >>
    PROVE  ~IsPrefix(p, Front(p)) /\ ~IsPrefix(p, << >>)
<1>1. Len(p) \in Nat \ {0} /\ Front(p) \in Seq(S) /\ Len(Front(p)) = Len(p) - 1
  BY FrontFacts
<1>2. << >> \in Seq(S) /\ Len(<< >>) = 0
  BY EmptySeq
<1>3. ~(Len(p) <= Len(Front(p))) /\ ~(Len(p) <= Len(<< >>))
  BY <1>1, <1>2
<1>4. ~IsPrefix(p, Front(p))
  BY <1>1, <1>3, PrefixFacts
<1>5. ~IsPrefix(p, << >>)
  BY <1>2, <1>3, PrefixFacts
<1> QED
  BY <1>4, <1>5

LEMMA PutTree ==
    ASSUME NEW S, NEW t, NEW v, NEW nodes, DOMAIN t \subseteq Seq(S), DOMAIN v \subseteq Seq(S),
           NEW p \in Seq(S), p # << >>, Tree(t, nodes), Tree(v, nodes),
           Front(p) \in DOMAIN t, t[Front(p)] \in nodes
    PROVE  Tree(Put(t, p, v), nodes)
<1> DEFINE u == Put(t, p, v)
<1>1. \A q \in DOMAIN t : ~IsPrefix(p, q) => q \in DOMAIN u /\ u[q] = t[q]
  BY PutOutside
<1>2. << >> \in DOMAIN u
  BY <1>1, NotBelowFront DEF Tree
<1>3. ASSUME NEW q \in DOMAIN u \ {<< >>}
      PROVE  Front(q) \in DOMAIN u /\ u[Front(q)] \in nodes
  <2>1. CASE q \in DOMAIN t /\ ~IsPrefix(p, q)
    <3>1. Front(q) \in DOMAIN t /\ t[Front(q)] \in nodes
      BY <1>3, <2>1 DEF Tree
    <3>2. ~IsPrefix(p, Front(q))
      BY <1>3, <2>1, FrontNotBelow
    <3> QED
      BY <1>1, <3>1, <3>2
  <2>2. ASSUME NEW r \in DOMAIN v, q = Under(p, r)
        PROVE  Front(q) \in DOMAIN u /\ u[Front(q)] \in nodes
    <3>1. CASE r = << >>
      <4>1. q = p
        BY <2>2, <3>1, ConcatFacts
      <4> QED
        BY <1>1, <4>1, NotBelowFront
    <3>2. CASE r # << >>
      <4>1. Front(q) = Under(p, Front(r))
        BY <2>2, <3>2, ConcatFacts
      <4>2. Front(r) \in DOMAIN v /\ v[Front(r)] \in nodes /\ Front(r) \in Seq(S)
        BY <3>2 DEF Tree
      <4> QED
        BY <4>1, <4>2, PutInside
    <3> QED
      BY <3>1, <3>2
  <2>3. (\E r \in DOMAIN v : q = Under(p, r)) \/ (q \in DOMAIN t /\ ~IsPrefix(p, q))
    BY <1>3, PutDomain
  <2> QED
    BY <2>1, <2>2, <2>3
<1> QED
  BY <1>2, <1>3 DEF Tree, u

LEMMA WithoutTree ==
    ASSUME NEW S, NEW t, NEW nodes, DOMAIN t \subseteq Seq(S), NEW p \in Seq(S), p # << >>,
           Tree(t, nodes)
    PROVE  Tree(Without(t, p), nodes)
<1>1. << >> \in DOMAIN Without(t, p)
  BY WithoutFacts, NotBelowFront DEF Tree
<1>2. ASSUME NEW q \in DOMAIN Without(t, p) \ {<< >>}
      PROVE  Front(q) \in DOMAIN Without(t, p) /\ Without(t, p)[Front(q)] \in nodes
  <2>1. q \in DOMAIN t /\ ~IsPrefix(p, q)
    BY <1>2, WithoutFacts
  <2>2. Front(q) \in DOMAIN t /\ t[Front(q)] \in nodes
    BY <1>2, <2>1 DEF Tree
  <2>3. ~IsPrefix(p, Front(q))
    BY <1>2, <2>1, FrontNotBelow
  <2> QED
    BY <2>2, <2>3, WithoutFacts
<1> QED
  BY <1>1, <1>2 DEF Tree

LEMMA PutFinite ==
    ASSUME NEW S, NEW t, NEW v, DOMAIN t \subseteq Seq(S), DOMAIN v \subseteq Seq(S),
           NEW p \in Seq(S), IsFiniteSet(DOMAIN t), IsFiniteSet(DOMAIN v)
    PROVE  IsFiniteSet(DOMAIN Put(t, p, v))
<1> DEFINE A == {Under(p, r) : r \in DOMAIN v}
           B == {q \in DOMAIN t : ~IsPrefix(p, q)}
           g == [r \in DOMAIN v |-> Under(p, r)]
<1>1. g \in Surjection(DOMAIN v, A)
  BY DEF Surjection
<1>2. IsFiniteSet(B)
  BY FS_Subset
<1>3. DOMAIN Put(t, p, v) \subseteq A \cup B
  BY PutDomain
<1> HIDE DEF A, B, g
<1>4. IsFiniteSet(A)
  BY <1>1, FS_Surjection
<1> QED
  BY <1>2, <1>3, <1>4, FS_Union, FS_Subset

LEMMA OneLabel ==
    ASSUME NEW S, NEW x \in S
    PROVE  /\ <<x>> \in Seq(S) /\ Len(<<x>>) = 1 /\ <<x>>[1] = x /\ <<x>> # << >>
           /\ Front(<<x>>) = << >> /\ Last(<<x>>) = x
<1> DEFINE s == <<x>>
<1>1. s \in Seq(S) /\ Len(s) = 1 /\ s[1] = x /\ s # << >>
  OBVIOUS
<1> HIDE DEF s
<1>2. Front(s) \in Seq(S) /\ Len(Front(s)) = Len(s) - 1 /\ Last(s) = s[Len(s)]
  BY <1>1, FrontFacts
<1>3. Len(Front(s)) = 0 /\ Last(s) = x
  BY <1>1, <1>2
<1>4. Front(s) = << >>
  BY <1>2, <1>3, PathFacts
<1> QED
  BY <1>1, <1>3, <1>4 DEF s

LEMMA NameFacts ==
    ASSUME NEW name \in Names
    PROVE  /\ <<name>> \in Seq(Names) /\ <<name>> \in Seq(JsonLabels) /\ <<name>> \in Seq(LuaLabels)
           /\ Len(<<name>>) = 1 /\ <<name>>[1] = name /\ <<name>> # << >>
           /\ Front(<<name>>) = << >> /\ Last(<<name>>) = name
           /\ LuaPath(<<name>>) = <<name>> /\ JsonPath(<<name>>) = <<name>>
BY OneLabel, NamePaths

LEMMA RootFacts == << >> \in Seq(Names) /\ LuaPath(<< >>) = << >> /\ JsonPath(<< >>) = << >>
BY EmptySeq, NamePaths

LEMMA BelowName ==
    ASSUME NEW S, NEW x \in S, NEW q \in Seq(S)
    PROVE  IsPrefix(<<x>>, q) <=> q # << >> /\ q[1] = x
<1> DEFINE s == <<x>>
<1>1. s \in Seq(S) /\ Len(s) = 1 /\ s[1] = x
  OBVIOUS
<1> HIDE DEF s
<1>2. Len(q) \in Nat /\ (q = << >> <=> Len(q) = 0)
  BY PathFacts
<1>3. IsPrefix(s, q) <=> Len(s) <= Len(q) /\ \A i \in 1..Len(s) : s[i] = q[i]
  BY <1>1, PrefixFacts
<1>4. IsPrefix(s, q) <=> q # << >> /\ q[1] = x
  BY <1>1, <1>2, <1>3
<1> QED
  BY <1>4 DEF s

LEMMA PrefixOfOne ==
    ASSUME NEW S, NEW p \in Seq(S), NEW q \in Seq(S), p # << >>, Len(q) = 1, IsPrefix(p, q)
    PROVE  p = q
<1>1. Len(p) \in Nat /\ Len(p) # 0
  BY FrontFacts
<1>2. Len(p) <= Len(q) /\ \A i \in 1..Len(p) : p[i] = q[i]
  BY PrefixFacts
<1>3. Len(p) = Len(q)
  BY <1>1, <1>2
<1> QED
  BY <1>2, <1>3, SeqEqual

(* A document whose root is no array has names at its top. *)
LEMMA DocumentTop ==
    ASSUME NEW d, Document(d), d[<< >>] \in {"object", "null"}, NEW p \in DOMAIN d, p # << >>
    PROVE  /\ d[<< >>] = "object" /\ p[1] \in Names /\ Has(d, p[1])
           /\ LuaPath(p) # << >> /\ Top(LuaPath(p)) = p[1] /\ Reads(p)[1] = p[1]
<1>1. /\ p \in Seq(JsonLabels) /\ Tree(d, {"object", "array"}) /\ DOMAIN d \subseteq Seq(JsonLabels)
      /\ << >> \in Seq(JsonLabels)
      /\ \A r \in DOMAIN d \ {<< >>} : Last(r) \in Names <=> d[Front(r)] = "object"
  BY RootFacts, NamePaths DEF Document, JsonLabels
<1>2. Len(p) \in Nat \ {0} /\ p[1] \in JsonLabels
  <2>1. Len(p) \in Nat \ {0}
    BY <1>1, FrontFacts
  <2>2. 1 \in 1..Len(p)
    BY <2>1
  <2> QED
    BY <1>1, <2>1, <2>2, PathFacts
<1>3. d[<< >>] = "object"
  <2>1. IsPrefix(<< >>, p)
    <3>1. Len(<< >>) = 0
      OBVIOUS
    <3>2. Len(<< >>) <= Len(p) /\ \A i \in 1..Len(<< >>) : << >>[i] = p[i]
      BY <1>2, <3>1
    <3> QED
      BY <1>1, <3>2, PrefixFacts
  <2>2. d[<< >>] \in {"object", "array"}
    BY <1>1, <2>1, TreeClosed
  <2> QED
    BY <2>2
<1> DEFINE s == <<p[1]>>
<1>4. s \in Seq(JsonLabels) /\ IsPrefix(s, p) /\ s # << >>
  BY <1>1, <1>2, BelowName
<1>5. Last(s) = p[1] /\ Front(s) = << >>
  BY <1>2, OneLabel
<1> HIDE DEF s
<1>6. s \in DOMAIN d
  BY <1>1, <1>4, TreeClosed
<1>7. p[1] \in Names
  BY <1>1, <1>3, <1>4, <1>5, <1>6
<1>8. Has(d, p[1])
  BY <1>6 DEF Has, s
<1>9. /\ LuaPath(p) \in Seq(LuaLabels) /\ Len(LuaPath(p)) = Len(p) /\ LuaPath(p)[1] = p[1]
      /\ LuaPath(p) # << >>
  <2>1. 1 \in 1..Len(p) /\ p[1] \notin Nat
    BY <1>2, <1>7, LabelFacts
  <2> QED
    BY <1>1, <1>2, <2>1, LuaPathFacts, LuaPathFront
<1>10. JsonPath(LuaPath(p))[1] = p[1]
  <2>1. 1 \in 1..Len(LuaPath(p)) /\ p[1] \notin Nat
    BY <1>2, <1>7, <1>9, LabelFacts
  <2> QED
    BY <1>9, <2>1, JsonPathFacts
<1> QED
  BY <1>3, <1>7, <1>8, <1>9, <1>10 DEF Top, Reads

LEMMA LeafFacts ==
    /\ Document(Leaf("string")) /\ Leaf("string")[<< >>] = "string"
    /\ Leaf("string") # Nothing /\ Null[<< >>] = "null"
<1>1. << >> \in Seq(Names \cup {i - 1 : i \in DOMAIN Text})
  BY EmptySeq
<1>2. DOMAIN Leaf("string") = {<< >>} /\ Leaf("string")[<< >>] = "string" /\ Null[<< >>] = "null"
  BY DEF Leaf, Null
<1>3. IsFiniteSet({<< >>})
  BY FS_Singleton
<1>4. Leaf("string") \in [{<< >>} -> Kinds]
  BY DEF Leaf, Kinds
<1>5. DOMAIN Nothing = {}
  BY DEF Nothing
<1> QED
  BY <1>1, <1>2, <1>3, <1>4, <1>5 DEF Document, Tree

LEMMA NothingFacts ==
    ASSUME NEW d, Document(d) \/ Value(d)
    PROVE  d # Nothing
<1>1. DOMAIN Nothing = {} /\ << >> \in DOMAIN d
  BY DEF Nothing, Document, Value, Tree
<1> QED
  BY <1>1

(* An object with a document under a name is one. *)
LEMMA PutDocument ==
    ASSUME NEW d, Document(d), d[<< >>] = "object", NEW name \in Names, NEW v, Document(v)
    PROVE  Document(Put(d, <<name>>, v)) /\ Put(d, <<name>>, v)[<< >>] = "object"
<1> DEFINE p == <<name>>
           u == Put(d, p, v)
<1>1. /\ p \in Seq(JsonLabels) /\ p # << >> /\ Front(p) = << >> /\ Last(p) \in Names
  BY NameFacts
<1> HIDE DEF p
<1>2. /\ d \in [DOMAIN d -> Kinds] /\ IsFiniteSet(DOMAIN d) /\ DOMAIN d \subseteq Seq(JsonLabels)
      /\ Tree(d, {"object", "array"})
      /\ \A q \in DOMAIN d \ {<< >>} : Last(q) \in Names <=> d[Front(q)] = "object"
  BY DEF Document, JsonLabels
<1>3. /\ v \in [DOMAIN v -> Kinds] /\ IsFiniteSet(DOMAIN v) /\ DOMAIN v \subseteq Seq(JsonLabels)
      /\ Tree(v, {"object", "array"})
      /\ \A q \in DOMAIN v \ {<< >>} : Last(q) \in Names <=> v[Front(q)] = "object"
  BY DEF Document, JsonLabels
<1>4. IsFiniteSet(DOMAIN u)
  BY <1>1, <1>2, <1>3, PutFinite
<1>5. Tree(u, {"object", "array"})
  <2>1. Front(p) \in DOMAIN d /\ d[Front(p)] \in {"object", "array"}
    BY <1>1, <1>2 DEF Tree
  <2> QED
    BY <1>1, <1>2, <1>3, <2>1, PutTree
<1>6. \A q \in DOMAIN d : ~IsPrefix(p, q) => q \in DOMAIN u /\ u[q] = d[q]
  BY PutOutside
<1>7. ASSUME NEW r \in DOMAIN v
      PROVE  Under(p, r) \in DOMAIN u /\ u[Under(p, r)] = v[r]
  <2>1. r \in Seq(JsonLabels)
    BY <1>3
  <2> QED
    BY <1>1, <2>1, PutInside
<1>8. \A q \in DOMAIN u : (\E r \in DOMAIN v : q = Under(p, r)) \/ (q \in DOMAIN d /\ ~IsPrefix(p, q))
  BY PutDomain
<1>9. u = [q \in DOMAIN u |-> u[q]]
  BY PutFunction
<1> HIDE DEF u
<1>10. ASSUME NEW q \in DOMAIN u
       PROVE  q \in Seq(JsonLabels) /\ u[q] \in Kinds
  <2>1. CASE q \in DOMAIN d /\ ~IsPrefix(p, q)
    BY <1>2, <1>6, <2>1
  <2>2. ASSUME NEW r \in DOMAIN v, q = Under(p, r)
        PROVE  q \in Seq(JsonLabels) /\ u[q] \in Kinds
    <3>1. r \in Seq(JsonLabels) /\ v[r] \in Kinds
      BY <1>3
    <3>2. q \in Seq(JsonLabels)
      BY <1>1, <2>2, <3>1, ConcatFacts
    <3> QED
      BY <1>7, <2>2, <3>1, <3>2
  <2> QED
    BY <1>8, <2>1, <2>2
<1>11. u[<< >>] = "object"
  <2>1. << >> \in DOMAIN d /\ ~IsPrefix(p, << >>)
    BY <1>1, <1>2, NotBelowFront DEF Tree
  <2> QED
    BY <1>6, <2>1
<1>12. ASSUME NEW q \in DOMAIN u, q # << >>
       PROVE  Last(q) \in Names <=> u[Front(q)] = "object"
  <2>1. CASE q \in DOMAIN d /\ ~IsPrefix(p, q)
    <3>1. Front(q) \in DOMAIN d /\ ~IsPrefix(p, Front(q))
      BY <1>1, <1>2, <1>12, <2>1, FrontNotBelow DEF Tree
    <3> QED
      BY <1>2, <1>6, <1>12, <2>1, <3>1
  <2>2. ASSUME NEW r \in DOMAIN v, q = Under(p, r)
        PROVE  Last(q) \in Names <=> u[Front(q)] = "object"
    <3>1. r \in Seq(JsonLabels)
      BY <1>3
    <3>2. CASE r = << >>
      <4>1. Under(p, << >>) = p
        BY <1>1, UnderRoot
      <4> QED
        BY <1>1, <1>11, <2>2, <3>2, <4>1
    <3>3. CASE r # << >>
      <4>1. Front(q) = Under(p, Front(r)) /\ Last(q) = Last(r)
        BY <1>1, <2>2, <3>1, <3>3, ConcatFacts
      <4>2. Front(r) \in DOMAIN v /\ (Last(r) \in Names <=> v[Front(r)] = "object")
        BY <1>3, <3>3 DEF Tree
      <4>3. u[Front(q)] = v[Front(r)]
        BY <1>7, <4>1, <4>2
      <4> QED
        BY <4>1, <4>2, <4>3
    <3> QED
      BY <3>2, <3>3
  <2> QED
    BY <1>8, <2>1, <2>2
<1>13. u \in [DOMAIN u -> Kinds]
  BY <1>9, <1>10
<1>14. Document(u)
  BY <1>4, <1>5, <1>10, <1>12, <1>13 DEF Document, JsonLabels
<1> QED
  BY <1>11, <1>14 DEF u, p

(* c is the object d, or adds to it under a name that is not there. *)
Enlarges(c, d, name) ==
    /\ Document(c) /\ c[<< >>] = "object" /\ Has(c, name)
    /\ \A q \in DOMAIN d : q \in DOMAIN c /\ c[q] = d[q]
    /\ \A q \in DOMAIN c : q \notin DOMAIN d => ~Has(d, name) /\ q[1] = name

LEMMA InsertFacts ==
    ASSUME NEW d, Document(d), d[<< >>] = "object", NEW name \in Names, NEW v, Document(v)
    PROVE  /\ Enlarges(Insert(d, name, v), d, name)
           /\ ~Has(d, name) => Insert(d, name, v)[<<name>>] = v[<< >>]
<1> DEFINE p == <<name>>
           u == Put(d, p, v)
<1>1. CASE Has(d, name)
  BY <1>1 DEF Insert, Enlarges
<1>2. CASE ~Has(d, name)
  <2>1. Insert(d, name, v) = u
    BY <1>2 DEF Insert
  <2>2. Document(u) /\ u[<< >>] = "object"
    BY PutDocument
  <2>3. p \in Seq(JsonLabels) /\ p \notin DOMAIN d /\ name \in JsonLabels
    BY <1>2, NameFacts DEF Has, JsonLabels
  <2>4. /\ DOMAIN d \subseteq Seq(JsonLabels) /\ Tree(d, {"object", "array"})
        /\ DOMAIN v \subseteq Seq(JsonLabels) /\ << >> \in DOMAIN v
    BY DEF Document, JsonLabels, Tree
  <2> HIDE DEF p, u
  <2>5. \A q \in DOMAIN d : ~IsPrefix(p, q)
    BY <2>3, <2>4, TreeClosed
  <2>6. \A q \in DOMAIN d : q \in DOMAIN u /\ u[q] = d[q]
    BY <2>5, PutOutside DEF u
  <2>7. p \in DOMAIN u /\ u[p] = v[<< >>]
    <3>1. << >> \in Seq(JsonLabels) /\ Under(p, << >>) = p
      BY <2>3, <2>4, ConcatFacts
    <3> QED
      BY <2>3, <2>4, <3>1, PutInside DEF u
  <2>8. ASSUME NEW q \in DOMAIN u, q \notin DOMAIN d
        PROVE  q[1] = name
    <3>1. PICK r \in DOMAIN v : q = Under(p, r)
      BY <2>8, PutDomain DEF u
    <3>2. q \in Seq(JsonLabels) /\ IsPrefix(p, q)
      BY <2>3, <2>4, <3>1, ConcatFacts
    <3> QED
      BY <2>3, <3>2, BelowName DEF p
  <2> QED
    BY <1>2, <2>1, <2>2, <2>6, <2>7, <2>8 DEF Has, p, Enlarges
<1> QED
  BY <1>1, <1>2


(* What the script assigns changes nothing but what is below its path. *)
LEMMA AssignFacts ==
    ASSUME Value(table), table[<< >>] = "table", NEW e \in Edits, Assign(e)
    PROVE  /\ Value(table') /\ table'[<< >>] = "table"
           /\ e.path \in Seq(LuaLabels) /\ e.path # << >> /\ Top(e.path) \in Names
           /\ \A q \in DOMAIN table : ~IsPrefix(e.path, q) =>
                 q \in DOMAIN table' /\ table'[q] = table[q]
           /\ \A q \in DOMAIN table' : ~IsPrefix(e.path, q) =>
                 q \in DOMAIN table /\ table'[q] = table[q]
           /\ e.value # Nothing =>
                 e.path \in DOMAIN table' /\ table'[e.path] = e.value[<< >>]
<1> DEFINE p == e.path
           v == e.value
<1>1. /\ p \in Seq(LuaLabels) /\ p # << >> /\ (v = Nothing \/ Value(v))
      /\ Front(p) \in DOMAIN table /\ table[Front(p)] \in {"table"}
      /\ table' = IF v = Nothing THEN Without(table, p) ELSE Put(table, p, v)
  BY LuaAssumption DEF Assign, LuaLabels
<1> HIDE DEF p, v
<1>2. /\ table \in [DOMAIN table -> LuaKinds] /\ IsFiniteSet(DOMAIN table)
      /\ DOMAIN table \subseteq Seq(LuaLabels) /\ Tree(table, {"table"})
  BY DEF Value, LuaLabels
<1>3. Top(p) \in Names
  <2>1. JsonPath(p) \in Seq(Names) /\ Len(JsonPath(p)) = Len(p) /\ Len(p) \in Nat \ {0}
    BY <1>1, JsonPathFacts, FrontFacts
  <2>2. 1 \in 1..Len(JsonPath(p))
    BY <2>1
  <2> QED
    BY <2>1, <2>2, PathFacts DEF Top
<1>4. \A q \in DOMAIN table : ~IsPrefix(p, q) => q \in DOMAIN table' /\ table'[q] = table[q]
  <2> SUFFICES ASSUME NEW q \in DOMAIN table, ~IsPrefix(p, q)
               PROVE  q \in DOMAIN table' /\ table'[q] = table[q]
    OBVIOUS
  <2>1. q \in DOMAIN Without(table, p) /\ Without(table, p)[q] = table[q]
    BY WithoutFacts
  <2>2. q \in DOMAIN Put(table, p, v) /\ Put(table, p, v)[q] = table[q]
    BY PutOutside
  <2> QED
    BY <1>1, <2>1, <2>2
<1>5. << >> \in DOMAIN table /\ ~IsPrefix(p, << >>)
  BY <1>1, <1>2, NotBelowFront DEF Tree
<1>6. CASE v = Nothing
  <2>1. table' = Without(table, p)
    BY <1>1, <1>6
  <2>2. \A q \in DOMAIN table' : q \in DOMAIN table /\ ~IsPrefix(p, q)
    BY <2>1, WithoutFacts
  <2>3. table' = [q \in DOMAIN table' |-> table'[q]]
    BY <2>1, WithoutFunction
  <2>4. Tree(table', {"table"})
    BY <1>1, <1>2, <2>1, WithoutTree
  <2>5. IsFiniteSet(DOMAIN table')
    BY <1>2, <2>2, FS_Subset
  <2>6. \A q \in DOMAIN table' : table'[q] \in LuaKinds
    BY <1>2, <1>4, <2>2
  <2>7. Value(table')
    BY <1>2, <2>2, <2>3, <2>4, <2>5, <2>6 DEF Value, LuaLabels
  <2> QED
    BY <1>1, <1>3, <1>4, <1>5, <1>6, <2>2, <2>7 DEF p, v
<1>7. CASE v # Nothing
  <2>1. table' = Put(table, p, v)
    BY <1>1, <1>7
  <2>2. /\ v \in [DOMAIN v -> LuaKinds] /\ IsFiniteSet(DOMAIN v)
        /\ DOMAIN v \subseteq Seq(LuaLabels) /\ Tree(v, {"table"})
    BY <1>1, <1>7 DEF Value, LuaLabels
  <2>3. \A q \in DOMAIN table' :
           (\E r \in DOMAIN v : q = Under(p, r)) \/ (q \in DOMAIN table /\ ~IsPrefix(p, q))
    BY <2>1, PutDomain
  <2>4. ASSUME NEW r \in DOMAIN v
        PROVE  /\ Under(p, r) \in Seq(LuaLabels) /\ IsPrefix(p, Under(p, r))
               /\ Under(p, r) \in DOMAIN table' /\ table'[Under(p, r)] = v[r]
    <3>1. r \in Seq(LuaLabels)
      BY <2>2
    <3> QED
      BY <1>1, <2>1, <3>1, ConcatFacts, PutInside
  <2>5. table' = [q \in DOMAIN table' |-> table'[q]]
    BY <2>1, PutFunction
  <2>6. Tree(table', {"table"})
    BY <1>1, <1>2, <2>1, <2>2, PutTree
  <2>7. IsFiniteSet(DOMAIN table')
    BY <1>1, <1>2, <2>1, <2>2, PutFinite
  <2>8. ASSUME NEW q \in DOMAIN table'
        PROVE  /\ q \in Seq(LuaLabels) /\ table'[q] \in LuaKinds
               /\ ~IsPrefix(p, q) => q \in DOMAIN table
    <3>1. CASE q \in DOMAIN table /\ ~IsPrefix(p, q)
      BY <1>2, <1>4, <3>1
    <3>2. ASSUME NEW r \in DOMAIN v, q = Under(p, r)
          PROVE  q \in Seq(LuaLabels) /\ table'[q] \in LuaKinds /\ IsPrefix(p, q)
      BY <2>2, <2>4, <3>2
    <3> QED
      BY <2>3, <3>1, <3>2
  <2>9. Value(table')
    BY <2>5, <2>6, <2>7, <2>8 DEF Value, LuaLabels
  <2>10. p \in DOMAIN table' /\ table'[p] = v[<< >>]
    <3>1. << >> \in DOMAIN v /\ Under(p, << >>) = p
      BY <1>1, <2>2, UnderRoot DEF Tree
    <3> QED
      BY <2>4, <3>1
  <2> QED
    BY <1>1, <1>3, <1>4, <1>5, <2>8, <2>9, <2>10 DEF p, v
<1> QED
  BY <1>6, <1>7


-----------------------------------------------------------------------------
(* The inductive invariant holds. *)

LEMMA InitInv == Init => IInv
<1> SUFFICES ASSUME Init PROVE IInv
  OBVIOUS
<1>1. Document(stored) /\ stored[<< >>] = "object" /\ ~Serving /\ owed = FALSE
  BY LuaAssumption DEF Init, Serving
<1>2. TypeOK
  BY <1>1 DEF Init, TypeOK, Unbound
<1>3. Roots /\ NoTwins /\ FirmHeld /\ AddedApart
  BY <1>1 DEF Roots, NoTwins, FirmHeld, AddedApart
<1>4. OwedHolds
  BY <1>1 DEF OwedHolds
<1>5. BindingHeld
  BY <1>1 DEF Init, BindingHeld
<1> QED
  BY <1>2, <1>3, <1>4, <1>5 DEF IInv

(* What is firm in a document is firm in the table made of it. *)
LEMMA ToLuaHolds ==
    ASSUME NEW d, Document(d), NEW p \in Firm(d)
    PROVE  LuaPath(p) \in DOMAIN ToLua(d) /\ ToLua(d)[LuaPath(p)] = d[p]
<1>1. p \in Present(d) /\ d[p] \in Kinds \ {"null"} /\ d[p] \in {"string", "number"}
  BY DEF Firm, Present, Kinds
<1>2. LuaPath(p) \in DOMAIN ToLua(d) /\ ToLua(d)[LuaPath(p)] = LuaKind(d[p])
  BY <1>1, ToLuaFacts
<1> QED
  BY <1>1, <1>2, LuaKindFacts

LEMMA OpenInv ==
    ASSUME IInv, Open
    PROVE  IInv'
<1> DEFINE v == Leaf("string")
           c == Insert(stored, Binding, v)
<1>1. /\ Document(stored) /\ stored[<< >>] = "object" /\ owed = FALSE /\ Binding \in Names
      /\ cleared \in BOOLEAN
  BY TextAssumption DEF IInv, TypeOK, Open, IsObject
<1>2. /\ config' = c /\ table' = ToLua(c) /\ stored' = stored /\ owed' = owed
      /\ cleared' = cleared /\ touched' = {} /\ added' = {}
  BY DEF Open, Snapshot
<1>3. /\ Document(c) /\ c[<< >>] = "object" /\ Has(c, Binding)
      /\ \A q \in DOMAIN stored : q \in DOMAIN c /\ c[q] = stored[q]
      /\ ~Has(stored, Binding) => c[<<Binding>>] = "string"
  <2>1. Document(v) /\ v[<< >>] = "string"
    BY LeafFacts
  <2> HIDE DEF v
  <2> QED
    BY <1>1, <2>1, InsertFacts DEF Enlarges
<1> HIDE DEF c
<1>4. /\ DOMAIN table' = {LuaPath(p) : p \in Present(c)} /\ Value(table')
      /\ \A p \in Present(c) : table'[LuaPath(p)] = LuaKind(c[p])
      /\ Present(c) \subseteq DOMAIN c /\ DOMAIN c \subseteq Seq(JsonLabels)
  BY <1>2, <1>3, ToLuaFacts DEF Present, Document, JsonLabels
<1>5. TypeOK'
  <2>1. Serving'
    BY <1>2, <1>3, NothingFacts DEF Serving
  <2> QED
    BY <1>1, <1>2, <1>3, <1>4, <2>1 DEF TypeOK
<1>6. Roots'
  <2>1. << >> \in Present(c)
    BY <1>3 DEF Present, Document, Tree
  <2>2. table'[<< >>] = LuaKind("object")
    BY <1>3, <1>4, <2>1, RootFacts
  <2>3. table'[<< >>] = "table"
    BY <2>2 DEF LuaKind
  <2> QED
    BY <1>1, <1>2, <1>3, <2>3 DEF Roots
<1>7. NoTwins'
  <2>1. ASSUME NEW t \in DOMAIN table', NEW u \in DOMAIN table', t # u, JsonPath(t) = JsonPath(u)
        PROVE  FALSE
    <3>1. PICK p \in Present(c) : t = LuaPath(p)
      BY <1>4
    <3>2. PICK q \in Present(c) : u = LuaPath(q)
      BY <1>4
    <3>3. p = q
      BY <1>3, <1>4, <2>1, <3>1, <3>2, ReadsInjective DEF Reads
    <3> QED
      BY <2>1, <3>1, <3>2, <3>3
  <2> QED
    BY <2>1 DEF NoTwins
<1>8. FirmHeld'
  <2>1. ASSUME NEW p \in Firm(c)
        PROVE  LuaPath(p) \in DOMAIN table' /\ table'[LuaPath(p)] = c[p]
    BY <1>2, <1>3, ToLuaHolds
  <2>2. \A p \in Firm(stored) : p \in Firm(c) /\ c[p] = stored[p]
    BY <1>3 DEF Firm
  <2>3. Held(config)'
    BY <1>2, <2>1 DEF Held, Reads
  <2>4. Held(stored)'
    BY <1>2, <2>1, <2>2 DEF Held, Reads
  <2> QED
    BY <2>3, <2>4 DEF FirmHeld
<1>9. OwedHolds'
  BY <1>1, <1>2 DEF OwedHolds
<1>10. AddedApart'
  <2>1. ASSUME NEW t \in DOMAIN table', t # << >>
        PROVE  Has(c, Top(t))
    <3>1. PICK p \in Present(c) : t = LuaPath(p)
      BY <1>4
    <3>2. p \in DOMAIN c /\ p # << >> /\ c[<< >>] \in {"object", "null"}
      BY <1>3, <1>4, <2>1, <3>1, RootFacts
    <3> QED
      BY <1>3, <3>1, <3>2, DocumentTop
  <2> QED
    BY <1>2, <2>1 DEF AddedApart, Top
<1>11. BindingHeld'
  <2> SUFFICES ASSUME ~cleared
               PROVE  /\ ~Unbound(stored) /\ stored[<< >>] # "null"
                      /\ Has(c, Binding) /\ c[<<Binding>>] = "string"
                      /\ Has(table', Binding) /\ table'[<<Binding>>] = "string"
    BY <1>2 DEF BindingHeld, Has, Unbound
  <2>1. ~Unbound(stored)
    BY DEF IInv, BindingHeld
  <2>2. c[<<Binding>>] = "string"
    BY <1>3, <2>1 DEF Unbound, Has
  <2>3. <<Binding>> \in Firm(c)
    BY <1>3, <2>2 DEF Firm, Has
  <2>4. LuaPath(<<Binding>>) = <<Binding>>
    BY <1>1, NameFacts
  <2>5. <<Binding>> \in DOMAIN table' /\ table'[<<Binding>>] = "string"
    BY <1>2, <1>3, <2>2, <2>3, <2>4, ToLuaHolds
  <2> QED
    BY <1>1, <1>3, <2>1, <2>2, <2>5 DEF Has
<1> QED
  BY <1>5, <1>6, <1>7, <1>8, <1>9, <1>10, <1>11 DEF IInv

LEMMA AssignInv ==
    ASSUME IInv, NEW e \in Edits, Assign(e)
    PROVE  IInv'
<1> DEFINE p == e.path
<1>1. /\ Serving /\ Document(stored) /\ Document(config) /\ Value(table)
      /\ table[<< >>] = "table" /\ DOMAIN table \subseteq Seq(LuaLabels)
      /\ owed \in BOOLEAN /\ cleared \in BOOLEAN /\ touched \subseteq Names /\ added \subseteq Names
      /\ stored[<< >>] \in {"object", "null"} /\ config[<< >>] \in {"object", "null"}
  BY DEF IInv, TypeOK, Roots, Assign, Value, LuaLabels
<1>2. /\ config' = config /\ stored' = stored /\ owed' = owed /\ added' = added
      /\ touched' = touched \cup {Top(p)}
      /\ cleared' = (cleared \/ (p[1] = Binding /\ e.value # Leaf("string")))
  BY DEF Assign, Top
<1>3. /\ Value(table') /\ table'[<< >>] = "table" /\ DOMAIN table' \subseteq Seq(LuaLabels)
      /\ p \in Seq(LuaLabels) /\ p # << >> /\ Top(p) \in Names
      /\ \A q \in DOMAIN table : ~IsPrefix(p, q) => q \in DOMAIN table' /\ table'[q] = table[q]
      /\ \A q \in DOMAIN table' : ~IsPrefix(p, q) => q \in DOMAIN table /\ table'[q] = table[q]
      /\ e.value # Nothing => p \in DOMAIN table' /\ table'[p] = e.value[<< >>]
  BY <1>1, AssignFacts DEF Value, LuaLabels
<1> HIDE DEF p
<1>4. Serving'
  BY <1>1, <1>2 DEF Serving
<1>5. \A q \in DOMAIN table' : Top(q) \notin touched' =>
         q \in DOMAIN table /\ table'[q] = table[q] /\ Top(q) \notin touched
  <2> SUFFICES ASSUME NEW q \in DOMAIN table', Top(q) \notin touched'
               PROVE  ~IsPrefix(p, q)
    BY <1>2, <1>3
  <2>1. q \in Seq(LuaLabels) /\ Top(q) # Top(p)
    BY <1>2, <1>3
  <2> QED
    BY <1>3, <2>1, TopOfPrefix
<1>6. TypeOK'
  BY <1>1, <1>2, <1>3, <1>4 DEF TypeOK
<1>7. Roots'
  BY <1>1, <1>2, <1>3 DEF Roots
<1>8. NoTwins'
  <2> SUFFICES ASSUME NEW t \in DOMAIN table', NEW u \in DOMAIN table',
                      t # u, JsonPath(t) = JsonPath(u), Top(t) \notin touched'
               PROVE  FALSE
    BY DEF NoTwins, Top
  <2>1. Top(u) = Top(t)
    BY DEF Top
  <2>2. t \in DOMAIN table /\ u \in DOMAIN table /\ Top(t) \notin touched
    BY <1>5, <2>1
  <2> QED
    BY <1>1, <2>2 DEF IInv, NoTwins
<1>9. ASSUME NEW d, Document(d), d[<< >>] \in {"object", "null"}, Held(d)
      PROVE  \A q \in Firm(d) : q[1] \notin touched' \cup added' =>
                \E t \in DOMAIN table' : JsonPath(t) = Reads(q) /\ table'[t] = d[q]
  <2> SUFFICES ASSUME NEW q \in Firm(d), q[1] \notin touched' \cup added'
               PROVE  \E t \in DOMAIN table' : JsonPath(t) = Reads(q) /\ table'[t] = d[q]
    OBVIOUS
  <2>1. PICK t \in DOMAIN table : JsonPath(t) = Reads(q) /\ table[t] = d[q]
    BY <1>2, <1>9 DEF Held
  <2>2. q \in DOMAIN d /\ q # << >>
    BY <1>9 DEF Firm
  <2>3. Reads(q)[1] = q[1]
    BY <1>9, <2>2, DocumentTop
  <2>4. Top(t) # Top(p)
    BY <1>2, <2>1, <2>3 DEF Top
  <2>5. ~IsPrefix(p, t)
    BY <1>1, <1>3, <2>4, TopOfPrefix
  <2> QED
    BY <1>3, <2>1, <2>5
<1>10. FirmHeld'
  <2>1. Held(stored) /\ Held(config)
    BY <1>1 DEF IInv, FirmHeld
  <2>2. Held(stored)'
    BY <1>1, <1>2, <1>9, <2>1 DEF Held, Firm, Reads
  <2>3. Held(config)'
    BY <1>1, <1>2, <1>9, <2>1 DEF Held, Firm, Reads
  <2> QED
    BY <2>2, <2>3 DEF FirmHeld
<1>11. OwedHolds'
  <2> SUFFICES ASSUME owed, NEW t \in DOMAIN table', table'[t] \in {"string", "number"},
                      Top(t) \notin touched'
               PROVE  JsonPath(t) \in DOMAIN config /\ config[JsonPath(t)] = table'[t]
    BY <1>2 DEF OwedHolds, Firm, Top
  <2>1. t \in Firm(table) /\ table'[t] = table[t] /\ Top(t) \notin touched
    BY <1>5 DEF Firm
  <2> QED
    BY <2>1 DEF IInv, OwedHolds
<1>12. AddedApart'
  <2> SUFFICES ASSUME NEW t \in DOMAIN table' \ {<< >>}, Top(t) \notin touched'
               PROVE  Top(t) \notin added /\ Has(config, Top(t))
    BY <1>2 DEF AddedApart, Top, Has
  <2> QED
    BY <1>1, <1>5 DEF IInv, AddedApart
<1>13. BindingHeld'
  <2> SUFFICES ASSUME ~cleared'
               PROVE  <<Binding>> \in DOMAIN table' /\ table'[<<Binding>>] = "string"
    <3>1. ~cleared' => ~cleared
      BY <1>1, <1>2
    <3>2. BindingHeld
      BY DEF IInv
    <3> QED
      BY <1>1, <1>2, <3>1, <3>2 DEF BindingHeld, Has, Unbound
  <2> DEFINE b == <<Binding>>
  <2>1. ~cleared /\ (p[1] = Binding => e.value = Leaf("string"))
    BY <1>1, <1>2
  <2>2. b \in DOMAIN table /\ table[b] = "string"
    BY <1>1, <2>1 DEF IInv, BindingHeld, Has
  <2>3. Binding \in Names /\ b \in Seq(LuaLabels) /\ Len(b) = 1 /\ b[1] = Binding
    BY TextAssumption, NameFacts
  <2> HIDE DEF b
  <2>4. CASE IsPrefix(p, b)
    <3>1. p = b
      BY <1>3, <2>3, <2>4, PrefixOfOne
    <3> QED
      BY <1>3, <2>1, <2>3, <3>1, LeafFacts DEF b
  <2>5. CASE ~IsPrefix(p, b)
    BY <1>3, <2>2, <2>5 DEF b
  <2> QED
    BY <2>4, <2>5
<1> QED
  BY <1>6, <1>7, <1>8, <1>10, <1>11, <1>12, <1>13 DEF IInv


LEMMA InsertInv ==
    ASSUME IInv, NEW i \in Inserted, LuaInsert(i)
    PROVE  IInv'
<1>1. PICK name \in Names : name = i.name
  BY LuaAssumption
<1>2. /\ Serving /\ Document(stored) /\ Document(config) /\ Value(table)
      /\ config[<< >>] = "object" /\ Value(i.value)
      /\ owed \in BOOLEAN /\ cleared \in BOOLEAN /\ touched \subseteq Names /\ added \subseteq Names
  BY LuaAssumption DEF IInv, TypeOK, LuaInsert, IsObject
<1>3. PICK v \in ToJson(i.value) : config' = Insert(config, name, v)
  BY <1>1 DEF LuaInsert
<1>4. /\ table' = table /\ stored' = stored /\ owed' = owed /\ touched' = touched
      /\ cleared' = cleared
      /\ added' = IF Has(config, name) THEN added ELSE added \cup {name}
  BY <1>1 DEF LuaInsert
<1>5. Document(v)
  BY <1>2, ToJsonConverts, ConvertsDocument
<1>6. /\ Document(config') /\ config'[<< >>] = "object" /\ Has(config', name)
      /\ \A q \in DOMAIN config : q \in DOMAIN config' /\ config'[q] = config[q]
      /\ \A q \in DOMAIN config' : q \notin DOMAIN config => ~Has(config, name) /\ q[1] = name
  <2>1. Enlarges(config', config, name)
    BY <1>2, <1>3, <1>5, InsertFacts
  <2> QED
    BY <2>1 DEF Enlarges
<1>7. Serving'
  BY <1>6, NothingFacts DEF Serving
<1>8. TypeOK'
  BY <1>2, <1>4, <1>6, <1>7 DEF TypeOK
<1>9. Roots'
  BY <1>2, <1>4, <1>6 DEF IInv, Roots
<1>10. NoTwins'
  BY <1>2, <1>4 DEF IInv, NoTwins, Top
<1>11. FirmHeld'
  <2>1. Held(stored) /\ Held(config) /\ added \subseteq added'
    BY <1>2, <1>4 DEF IInv, FirmHeld
  <2>2. Held(stored)'
    BY <1>4, <2>1 DEF Held, Firm, Reads
  <2>3. Held(config)'
    <3> SUFFICES ASSUME NEW q \in DOMAIN config', config'[q] \in {"string", "number"},
                        q[1] \notin touched \cup added'
                 PROVE  \E t \in DOMAIN table : JsonPath(t) = Reads(q) /\ table[t] = config'[q]
      BY <1>4 DEF Held, Firm, Reads
    <3>1. q \in DOMAIN config
      BY <1>4, <1>6
    <3>2. q \in Firm(config) /\ config'[q] = config[q] /\ q[1] \notin touched \cup added
      BY <1>6, <2>1, <3>1 DEF Firm
    <3> QED
      BY <2>1, <3>2 DEF Held
  <2> QED
    BY <2>2, <2>3 DEF FirmHeld
<1>12. OwedHolds'
  BY <1>4, <1>6 DEF IInv, OwedHolds, Firm, Top
<1>13. AddedApart'
  <2> SUFFICES ASSUME NEW t \in DOMAIN table \ {<< >>}, Top(t) \notin touched
               PROVE  Top(t) \notin added' /\ Has(config', Top(t))
    BY <1>4 DEF AddedApart, Top, Has
  <2>1. Top(t) \notin added /\ Has(config, Top(t))
    BY <1>2 DEF IInv, AddedApart
  <2> QED
    BY <1>4, <1>6, <2>1 DEF Has
<1>14. BindingHeld'
  BY <1>2, <1>4, <1>6 DEF IInv, BindingHeld, Has, Unbound
<1> QED
  BY <1>8, <1>9, <1>10, <1>11, <1>12, <1>13, <1>14 DEF IInv

(* What a commit makes of the table: nothing of what reads alike nowhere   *)
(* but under a touched name is lost.                                       *)
LEMMA CommitFacts ==
    ASSUME IInv, Serving, NEW d \in ToJson(table)
    PROVE  /\ Document(d) /\ d[<< >>] \in {"object", "null"}
           /\ \A q \in Firm(d) : \E t \in DOMAIN table : JsonPath(t) = Reads(q) /\ table[t] = d[q]
           /\ \A t \in Firm(table) : Top(t) \notin touched =>
                 JsonPath(t) \in DOMAIN d /\ d[JsonPath(t)] = table[t]
           /\ \A t \in DOMAIN table \ {<< >>} : Top(t) \notin touched => Has(d, Top(t))
           /\ \A name \in Names : Has(d, name) => \E t \in DOMAIN table \ {<< >>} : Top(t) = name
           /\ Has(table, Binding) /\ table[<<Binding>>] = "string" =>
                 Has(d, Binding) /\ d[<<Binding>>] = "string" /\ d[<< >>] = "object"
<1>1. /\ Value(table) /\ DOMAIN table \subseteq Seq(LuaLabels) /\ Tree(table, {"table"})
      /\ table[<< >>] = "table"
  BY DEF IInv, TypeOK, Roots, Value, LuaLabels
<1>2. PICK K : Converts(table, d, K)
  BY <1>1, ToJsonConverts
<1>3. Document(d) /\ DOMAIN d \subseteq Seq(Names)
  BY <1>1, <1>2, ConvertsDocument
<1>4. /\ K \subseteq DOMAIN table /\ << >> \in K /\ DOMAIN d = {JsonPath(p) : p \in K}
      /\ \A q \in K, p \in Seq(LuaLabels) : IsPrefix(p, q) => p \in K
      /\ \A p \in DOMAIN table \ K : \E l \in Twins(table) : IsPrefix(l, p)
  BY <1>2 DEF Converts
<1>5. \A t \in DOMAIN table : t = << >> \/ Top(t) \notin touched => t \in K
  <2>1. \A p, q \in DOMAIN table : p # q /\ JsonPath(p) = JsonPath(q) => Top(p) \in touched
    BY DEF IInv, NoTwins
  <2> QED
    BY <1>1, <1>2, <2>1, AloneIsKept
<1>6. d[<< >>] \in {"object", "null"}
  <2>1. d[JsonPath(<< >>)] \in {"object", "null"}
    BY <1>1, <1>2, <1>4, JsonKindFacts
  <2> QED
    BY <2>1, RootFacts
<1>7. ASSUME NEW q \in Firm(d)
      PROVE  \E t \in DOMAIN table : JsonPath(t) = Reads(q) /\ table[t] = d[q]
  <2>1. q \in DOMAIN d /\ d[q] \in {"string", "number"} /\ Reads(q) = q
    BY <1>3, NamePaths DEF Firm, Reads
  <2>2. PICK t \in K : q = JsonPath(t)
    BY <1>4, <2>1
  <2>3. table[t] = d[q]
    BY <1>1, <1>2, <2>1, <2>2, JsonKindFacts
  <2> QED
    BY <1>4, <2>1, <2>2, <2>3
<1>8. ASSUME NEW t \in Firm(table), Top(t) \notin touched
      PROVE  JsonPath(t) \in DOMAIN d /\ d[JsonPath(t)] = table[t]
  <2>1. t \in K /\ table[t] \in {"string", "number"}
    BY <1>5, <1>8 DEF Firm
  <2> QED
    BY <1>1, <1>2, <1>4, <2>1, JsonKindFacts
<1>9. ASSUME NEW t \in DOMAIN table, t # << >>
      PROVE  /\ <<t[1]>> \in Seq(LuaLabels) /\ IsPrefix(<<t[1]>>, t)
             /\ JsonPath(<<t[1]>>) = <<Top(t)>>
  <2>1. t \in Seq(LuaLabels) /\ Len(t) \in Nat \ {0}
    BY <1>1, <1>9, FrontFacts
  <2>2. 1 \in 1..Len(t)
    BY <2>1
  <2>3. t[1] \in LuaLabels /\ Top(t) = IF t[1] \in Nat THEN Text[t[1]] ELSE t[1]
    BY <2>1, <2>2, PathFacts, JsonPathFacts DEF Top
  <2> DEFINE s == <<t[1]>>
  <2>4. s \in Seq(LuaLabels) /\ Len(s) = 1 /\ s[1] = t[1] /\ IsPrefix(s, t)
    BY <1>9, <2>1, <2>3, OneLabel, BelowName
  <2> HIDE DEF s
  <2>5. /\ JsonPath(s) \in Seq(Names) /\ Len(JsonPath(s)) = 1
        /\ JsonPath(s)[1] = Top(t)
    <3>1. 1 \in 1..Len(s)
      BY <2>4
    <3> QED
      BY <2>3, <2>4, <3>1, JsonPathFacts
  <2>6. JsonPath(s) = <<Top(t)>>
    <3>1. Top(t) \in Names
      <4>1. 1 \in 1..Len(JsonPath(s))
        BY <2>5
      <4>2. JsonPath(s)[1] \in Names
        BY <2>5, <4>1, PathFacts
      <4> QED
        BY <2>5, <4>2
    <3>2. <<Top(t)>> \in Seq(Names) /\ Len(<<Top(t)>>) = 1 /\ <<Top(t)>>[1] = Top(t)
      BY <3>1, OneLabel
    <3>3. \A j \in 1..1 : JsonPath(s)[j] = <<Top(t)>>[j]
      BY <2>5, <3>2
    <3> QED
      BY <2>5, <3>2, <3>3, SeqEqual
  <2> QED
    BY <2>4, <2>6 DEF s
<1>10. ASSUME NEW t \in DOMAIN table \ {<< >>}, Top(t) \notin touched
       PROVE  Has(d, Top(t))
  <2>1. t \in K
    BY <1>5, <1>10
  <2>2. <<t[1]>> \in K
    BY <1>4, <1>9, <2>1
  <2>3. JsonPath(<<t[1]>>) \in DOMAIN d
    BY <1>4, <2>2
  <2> QED
    BY <1>9, <2>3 DEF Has
<1>11. ASSUME NEW name \in Names, Has(d, name)
       PROVE  \E t \in DOMAIN table \ {<< >>} : Top(t) = name
  <2>1. PICK t \in K : <<name>> = JsonPath(t)
    BY <1>4, <1>11 DEF Has
  <2>2. <<name>> # << >> /\ <<name>>[1] = name
    BY NameFacts
  <2>3. t # << >> /\ Top(t) = name
    BY <2>1, <2>2, RootFacts DEF Top
  <2> QED
    BY <1>4, <2>1, <2>3
<1>12. ASSUME Has(table, Binding), table[<<Binding>>] = "string"
       PROVE  Has(d, Binding) /\ d[<<Binding>>] = "string" /\ d[<< >>] = "object"
  <2> DEFINE b == <<Binding>>
  <2>1. /\ Binding \in Names /\ \A x \in DOMAIN Text : Text[x] # Binding
    BY TextAssumption DEF Range
  <2>2. /\ b \in Seq(LuaLabels) /\ Len(b) = 1 /\ b[1] = Binding /\ b # << >>
        /\ JsonPath(b) = b /\ b \in DOMAIN table /\ table[b] = "string"
    BY <1>12, <2>1, NameFacts DEF Has
  <2> HIDE DEF b
  <2>3. ASSUME NEW u \in DOMAIN table, JsonPath(u) = b
        PROVE  u = b
    <3>1. u \in Seq(LuaLabels) /\ Len(u) = 1
      BY <1>1, <2>2, <2>3, JsonPathFacts
    <3>2. 1 \in 1..Len(u)
      BY <3>1
    <3>3. u[1] \in LuaLabels /\ Binding = IF u[1] \in Nat THEN Text[u[1]] ELSE u[1]
      BY <2>2, <2>3, <3>1, <3>2, PathFacts, JsonPathFacts
    <3>4. u[1] = Binding
      BY <2>1, <3>3, LabelFacts
    <3>5. \A j \in 1..1 : u[j] = b[j]
      BY <2>2, <3>4
    <3> QED
      BY <2>2, <3>1, <3>5, SeqEqual
  <2>4. b \in K
    <3> SUFFICES ASSUME b \notin K PROVE FALSE
      OBVIOUS
    <3>1. PICK l \in Twins(table) : IsPrefix(l, b)
      BY <1>4, <2>2
    <3>2. PICK u \in DOMAIN table \ {l} : JsonPath(l) = JsonPath(u)
      BY DEF Twins
    <3>3. l \in DOMAIN table /\ l \in Seq(LuaLabels) /\ l # << >>
      BY <1>1 DEF Twins
    <3>4. l = b
      BY <2>2, <3>1, <3>3, PrefixOfOne
    <3> QED
      BY <2>2, <2>3, <3>2, <3>4
  <2>5. d[b] = "string" /\ b \in DOMAIN d
    BY <1>1, <1>2, <1>4, <2>2, <2>4, JsonKindFacts
  <2>6. d[<< >>] = "object"
    BY <1>3, <1>6, <2>2, <2>5, DocumentTop
  <2> QED
    BY <2>5, <2>6 DEF b, Has
<1> QED
  BY <1>3, <1>6, <1>7, <1>8, <1>10, <1>11, <1>12

LEMMA CommitInv ==
    ASSUME IInv, LuaCommit
    PROVE  IInv'
<1>1. /\ Serving /\ config' \in ToJson(table) /\ (stored' = config' \/ stored' = stored)
      /\ table' = table /\ touched' = touched /\ added' = added /\ cleared' = cleared
      /\ owed' \in {owed, TRUE}
  BY DEF LuaCommit, Restructured, histories
<1>2. /\ Document(config') /\ config'[<< >>] \in {"object", "null"}
      /\ \A q \in Firm(config') :
            \E t \in DOMAIN table : JsonPath(t) = Reads(q) /\ table[t] = config'[q]
      /\ \A t \in Firm(table) : Top(t) \notin touched =>
            JsonPath(t) \in DOMAIN config' /\ config'[JsonPath(t)] = table[t]
      /\ \A t \in DOMAIN table \ {<< >>} : Top(t) \notin touched => Has(config', Top(t))
      /\ Has(table, Binding) /\ table[<<Binding>>] = "string" =>
            /\ Has(config', Binding) /\ config'[<<Binding>>] = "string"
            /\ config'[<< >>] = "object"
  <2> DEFINE d == config'
  <2>1. d \in ToJson(table)
    BY <1>1
  <2> HIDE DEF d
  <2>2. /\ Document(d) /\ d[<< >>] \in {"object", "null"}
        /\ \A q \in Firm(d) :
              \E t \in DOMAIN table : JsonPath(t) = Reads(q) /\ table[t] = d[q]
        /\ \A t \in Firm(table) : Top(t) \notin touched =>
              JsonPath(t) \in DOMAIN d /\ d[JsonPath(t)] = table[t]
        /\ \A t \in DOMAIN table \ {<< >>} : Top(t) \notin touched => Has(d, Top(t))
        /\ Has(table, Binding) /\ table[<<Binding>>] = "string" =>
              Has(d, Binding) /\ d[<<Binding>>] = "string" /\ d[<< >>] = "object"
    BY <1>1, <2>1, CommitFacts
  <2> QED
    BY <2>2 DEF d
<1>3. Serving'
  BY <1>2, NothingFacts DEF Serving
<1>4. TypeOK'
  BY <1>1, <1>2, <1>3 DEF IInv, TypeOK
<1>5. Roots'
  BY <1>1, <1>2 DEF IInv, Roots
<1>6. NoTwins'
  BY <1>1 DEF IInv, NoTwins, Top
<1>7. FirmHeld'
  <2>1. Held(stored)
    BY <1>1 DEF IInv, FirmHeld
  <2>2. Held(config)'
    BY <1>1, <1>2 DEF Held, Reads
  <2>3. Held(stored)'
    <3>1. CASE stored' = config'
      BY <1>1, <1>2, <3>1 DEF Held, Reads
    <3>2. CASE stored' = stored
      BY <1>1, <2>1, <3>2 DEF Held, Firm, Reads
    <3> QED
      BY <1>1, <3>1, <3>2
  <2> QED
    BY <2>2, <2>3 DEF FirmHeld
<1>8. OwedHolds'
  BY <1>1, <1>2 DEF OwedHolds, Firm, Top
<1>9. AddedApart'
  BY <1>1, <1>2 DEF IInv, AddedApart, Top, Has
<1>10. BindingHeld'
  <2> SUFFICES ASSUME ~cleared
               PROVE  /\ ~Unbound(stored') /\ stored'[<< >>] # "null"
                      /\ Has(config', Binding) /\ config'[<<Binding>>] = "string"
                      /\ Has(table, Binding) /\ table[<<Binding>>] = "string"
    BY <1>1 DEF BindingHeld, Has, Unbound
  <2>1. /\ ~Unbound(stored) /\ stored[<< >>] # "null"
        /\ Has(table, Binding) /\ table[<<Binding>>] = "string"
    BY <1>1 DEF IInv, BindingHeld
  <2>2. Has(config', Binding) /\ config'[<<Binding>>] = "string" /\ config'[<< >>] = "object"
    BY <1>2, <2>1
  <2>3. ~Unbound(config')
    BY <2>2 DEF Unbound
  <2> QED
    BY <1>1, <2>1, <2>2, <2>3
<1> QED
  BY <1>4, <1>5, <1>6, <1>7, <1>8, <1>9, <1>10 DEF IInv


LEMMA FlushInv ==
    ASSUME IInv, Flush
    PROVE  IInv'
<1>1. /\ Serving /\ stored' = config /\ owed' = FALSE /\ config' = config /\ table' = table
      /\ touched' = touched /\ added' = added /\ cleared' = cleared
  BY DEF Flush, histories
<1>2. TypeOK' /\ Roots' /\ Serving'
  BY <1>1 DEF IInv, TypeOK, Roots, Serving
<1>3. NoTwins' /\ AddedApart'
  BY <1>1 DEF IInv, NoTwins, AddedApart, Top, Has
<1>4. FirmHeld'
  BY <1>1 DEF IInv, FirmHeld, Held, Firm, Reads
<1>5. OwedHolds'
  BY <1>1 DEF OwedHolds
<1>6. BindingHeld'
  <2> SUFFICES ASSUME ~cleared
               PROVE  /\ ~Unbound(config) /\ config[<< >>] # "null"
                      /\ Has(config, Binding) /\ config[<<Binding>>] = "string"
                      /\ Has(table, Binding) /\ table[<<Binding>>] = "string"
    BY <1>1 DEF BindingHeld, Has, Unbound
  <2>1. /\ Has(config, Binding) /\ config[<<Binding>>] = "string"
        /\ Has(table, Binding) /\ table[<<Binding>>] = "string"
    BY <1>1 DEF IInv, BindingHeld
  <2>2. Document(config) /\ config[<< >>] \in {"object", "null"}
    BY <1>1 DEF IInv, TypeOK, Roots
  <2>3. <<Binding>> # << >>
    BY TextAssumption, NameFacts
  <2>4. config[<< >>] = "object"
    BY <2>1, <2>2, <2>3, DocumentTop DEF Has
  <2> QED
    BY <2>1, <2>4 DEF Unbound
<1> QED
  BY <1>2, <1>3, <1>4, <1>5, <1>6 DEF IInv

LEMMA CloseInv ==
    ASSUME IInv, Close
    PROVE  IInv'
<1>1. /\ config' = Nothing /\ table' = Nothing /\ owed' = FALSE /\ stored' = stored
      /\ touched' = touched /\ added' = added /\ cleared' = cleared /\ ~Serving'
  BY DEF Close, Serving, histories
<1>2. TypeOK' /\ Roots'
  BY <1>1 DEF IInv, TypeOK, Roots
<1>3. NoTwins' /\ FirmHeld' /\ AddedApart'
  BY <1>1 DEF NoTwins, FirmHeld, AddedApart
<1>4. OwedHolds'
  BY <1>1 DEF OwedHolds
<1>5. BindingHeld'
  BY <1>1 DEF IInv, BindingHeld, Unbound, Has
<1> QED
  BY <1>2, <1>3, <1>4, <1>5 DEF IInv

LEMMA UserEditInv ==
    ASSUME IInv, UserEdit
    PROVE  IInv'
<1>1. /\ ~Serving /\ stored' \in UserDocs /\ cleared' = Unbound(stored')
      /\ config' = config /\ table' = table /\ owed' = owed
      /\ touched' = touched /\ added' = added
  BY DEF UserEdit
<1>2. Document(stored') /\ stored'[<< >>] = "object" /\ owed = FALSE /\ ~Serving'
  BY <1>1, LuaAssumption DEF IInv, TypeOK, Serving
<1>3. TypeOK' /\ Roots'
  BY <1>1, <1>2 DEF IInv, TypeOK, Roots, Unbound
<1>4. NoTwins' /\ FirmHeld' /\ AddedApart'
  BY <1>2 DEF NoTwins, FirmHeld, AddedApart
<1>5. OwedHolds'
  BY <1>1, <1>2 DEF OwedHolds
<1>6. BindingHeld'
  BY <1>1, <1>2 DEF BindingHeld, Unbound, Has
<1> QED
  BY <1>3, <1>4, <1>5, <1>6 DEF IInv

LEMMA StutterInv ==
    ASSUME IInv, UNCHANGED vars
    PROVE  IInv'
<1>1. /\ config' = config /\ table' = table /\ stored' = stored /\ owed' = owed
      /\ touched' = touched /\ added' = added /\ cleared' = cleared
  BY DEF vars, histories
<1>2. TypeOK' /\ Roots' /\ NoTwins' /\ AddedApart'
  BY <1>1 DEF IInv, TypeOK, Roots, NoTwins, AddedApart, Serving, Top, Has
<1>3. FirmHeld' /\ OwedHolds' /\ BindingHeld'
  BY <1>1 DEF IInv, FirmHeld, OwedHolds, BindingHeld, Serving, Held, Firm, Reads, Top,
              Unbound, Has
<1> QED
  BY <1>2, <1>3 DEF IInv

(* What is below the table reads back as it was, and the invariant that    *)
(* says so holds whatever the script assigns and inserts.                  *)
THEOREM Inductive == Spec => []IInv
<1>1. Init => IInv
  BY InitInv
<1>2. IInv /\ [Next]_vars => IInv'
  <2> SUFFICES ASSUME IInv, [Next]_vars PROVE IInv'
    OBVIOUS
  <2>1. CASE Open
    BY <2>1, OpenInv
  <2>2. ASSUME NEW e \in Edits, Assign(e) PROVE IInv'
    BY <2>2, AssignInv
  <2>3. ASSUME NEW i \in Inserted, LuaInsert(i) PROVE IInv'
    BY <2>3, InsertInv
  <2>4. CASE LuaCommit
    BY <2>4, CommitInv
  <2>5. CASE Flush
    BY <2>5, FlushInv
  <2>6. CASE Close
    BY <2>6, CloseInv
  <2>7. CASE UserEdit
    BY <2>7, UserEditInv
  <2>8. CASE UNCHANGED vars
    BY <2>8, StutterInv
  <2> QED
    BY <2>1, <2>2, <2>3, <2>4, <2>5, <2>6, <2>7, <2>8 DEF Next
<1> QED
  BY <1>1, <1>2, PTL DEF Spec

-----------------------------------------------------------------------------
(* The theorems. *)

(* Whatever a script assigns, inserts and commits, what the conversions    *)
(* make are documents and tables: nothing hangs in the air, objects have   *)
(* names, and arrays indices.                                              *)
THEOREM TypeCorrect == Spec => []TypeOK
<1>1. IInv => TypeOK
  BY DEF IInv
<1> QED
  BY <1>1, Inductive, PTL

(* config.json is never null, with which no script starts any more, unless *)
(* the user or a script has cleared "_binding".                            *)
THEOREM ScriptsStart == Spec => []StartsAgain
<1>1. IInv => StartsAgain
  <2> SUFFICES ASSUME IInv, stored = Null PROVE cleared
    BY DEF StartsAgain
  <2>1. stored[<< >>] = "null" /\ cleared \in BOOLEAN
    BY LeafFacts DEF IInv, TypeOK
  <2> QED
    BY <2>1 DEF IInv, BindingHeld
<1> QED
  BY <1>1, Inductive, PTL

(* What a write of config.json by a running script is. *)
LEMMA WriteFacts ==
    ASSUME IInv, Next, Writes
    PROVE  \/ LuaCommit /\ stored' = config' /\ config' \in ToJson(table)
           \/ Flush /\ owed /\ stored' = config
<1>1. Serving /\ stored' # stored
  BY DEF Writes
<1>2. CASE Open
  BY <1>1, <1>2 DEF Open
<1>3. ASSUME NEW e \in Edits, Assign(e) PROVE FALSE
  BY <1>1, <1>3 DEF Assign
<1>4. ASSUME NEW i \in Inserted, LuaInsert(i) PROVE FALSE
  BY <1>1, <1>4 DEF LuaInsert
<1>5. CASE LuaCommit
  BY <1>1, <1>5 DEF LuaCommit, Restructured
<1>6. CASE Flush
  BY <1>6 DEF Flush
<1>7. CASE Close
  BY <1>1, <1>7 DEF Close
<1>8. CASE UserEdit
  BY <1>1, <1>8 DEF UserEdit
<1> QED
  BY <1>2, <1>3, <1>4, <1>5, <1>6, <1>7, <1>8 DEF Next

(* No process loses a string or a number that stands in config.json under  *)
(* a name its script left alone, however its commits are put off, and      *)
(* whatever it writes elsewhere, in the table or through insert().         *)
THEOREM FirmIsKept == Spec => FirmKept
<1>1. ASSUME IInv, Next, Writes, NEW p \in Firm(stored), p[1] \notin touched \cup added
      PROVE  Reads(p) \in DOMAIN stored' /\ stored'[Reads(p)] = stored[p]
  <2>1. Serving /\ Document(stored) /\ stored[<< >>] \in {"object", "null"}
    BY <1>1 DEF Writes, IInv, TypeOK, Roots
  <2>2. p \in DOMAIN stored /\ p # << >> /\ stored[p] \in {"string", "number"}
    BY <2>1 DEF Firm
  <2>3. PICK t \in DOMAIN table : JsonPath(t) = Reads(p) /\ table[t] = stored[p]
    BY <1>1, <2>1 DEF IInv, FirmHeld, Held
  <2>4. Top(t) = p[1]
    BY <2>1, <2>2, <2>3, DocumentTop DEF Top
  <2>5. t \in Firm(table) /\ Top(t) \notin touched
    BY <1>1, <2>2, <2>3, <2>4 DEF Firm
  <2>6. CASE LuaCommit /\ stored' = config' /\ config' \in ToJson(table)
    <3> DEFINE d == stored'
    <3>1. d \in ToJson(table)
      BY <2>6
    <3> HIDE DEF d
    <3>2. JsonPath(t) \in DOMAIN d /\ d[JsonPath(t)] = table[t]
      BY <1>1, <2>1, <2>5, <3>1, CommitFacts
    <3> QED
      BY <2>3, <3>2 DEF d
  <2>7. CASE owed /\ stored' = config
    BY <1>1, <2>3, <2>5, <2>7 DEF IInv, OwedHolds
  <2> QED
    BY <1>1, <2>6, <2>7, WriteFacts
<1>2. IInv /\ [Next]_vars =>
        [Writes => \A p \in Firm(stored) :
            p[1] \notin touched \cup added =>
                LET q == JsonPath(LuaPath(p))
                IN  q \in DOMAIN stored' /\ stored'[q] = stored[p]]_vars
  BY <1>1 DEF Reads
<1> QED
  BY <1>2, Inductive, PTL DEF Spec, FirmKept

(* What insert() added is taken back by the next commit() that writes at   *)
(* once, unless the script has written under that name in the table too.   *)
THEOREM InsertsTakenBack == Spec => InsertNotCommitted
<1>1. ASSUME IInv, Next, Writes, ~owed, NEW name \in added \ touched, Has(stored', name)
      PROVE  FALSE
  <2>1. stored' \in ToJson(table)
    BY <1>1, WriteFacts
  <2>2. Serving /\ name \in Names
    BY <1>1 DEF Writes, IInv, TypeOK
  <2> DEFINE d == stored'
  <2>3. d \in ToJson(table) /\ Has(d, name)
    BY <1>1, <2>1
  <2> HIDE DEF d
  <2>4. PICK t \in DOMAIN table \ {<< >>} : Top(t) = name
    BY <1>1, <2>2, <2>3, CommitFacts
  <2> QED
    BY <1>1, <2>2, <2>4 DEF IInv, AddedApart
<1>2. IInv /\ [Next]_vars =>
        [Writes /\ ~owed => \A name \in added \ touched : ~Has(stored', name)]_vars
  BY <1>1
<1> QED
  BY <1>2, Inductive, PTL DEF Spec, InsertNotCommitted


-----------------------------------------------------------------------------
(* Documents erode. *)

Level(d, kinds) == {p \in DOMAIN d : d[p] \in kinds}

(* Without twins a table converts to one document only, made of all of it. *)
LEMMA OneConversion ==
    ASSUME NEW t, \A p, q \in DOMAIN t : JsonPath(p) = JsonPath(q) => p = q
    PROVE  /\ Twins(t) = {}
           /\ \A c, d \in ToJson(t) : c = d
<1>1. Twins(t) = {}
  <2> SUFFICES ASSUME NEW p \in Twins(t) PROVE FALSE
    OBVIOUS
  <2>1. p \in DOMAIN t /\ \E q \in DOMAIN t \ {p} : JsonPath(p) = JsonPath(q)
    BY DEF Twins
  <2> QED
    BY <2>1
<1>2. \A L \in Overwritten(t) : L = {}
  BY <1>1 DEF Overwritten
<1> DEFINE D(L) == LET kept == Restrict(t, {p \in DOMAIN t : ~\E l \in L : IsPrefix(l, p)})
                       j == [p \in DOMAIN kept |-> JsonKind(kept, p)]
                   IN  Moved(j, JsonPath)
<1>3. ToJson(t) = {D(L) : L \in Overwritten(t)}
  BY DEF ToJson
<1> HIDE DEF D
<1>4. ASSUME NEW c \in ToJson(t) PROVE c = D({})
  <2>1. PICK L \in Overwritten(t) : c = D(L)
    BY <1>3
  <2>2. L = {}
    BY <1>2
  <2> QED
    BY <2>1, <2>2
<1>5. \A c, d \in ToJson(t) : c = d
  BY <1>4
<1> QED
  BY <1>1, <1>5

LEMMA LevelFacts ==
    ASSUME NEW d, IsFiniteSet(DOMAIN d), NEW kinds
    PROVE  /\ IsFiniteSet(Level(d, kinds)) /\ Of(d, kinds) = Cardinality(Level(d, kinds))
           /\ Of(d, kinds) \in Nat
           /\ Of(d, kinds) = 0 <=> \A p \in DOMAIN d : d[p] \notin kinds
<1>1. Level(d, kinds) \in SUBSET DOMAIN d
  BY DEF Level
<1>2. IsFiniteSet(Level(d, kinds))
  BY <1>1, FS_Subset
<1>3. Of(d, kinds) = Cardinality(Level(d, kinds))
  BY DEF Of, Level
<1>4. Cardinality(Level(d, kinds)) \in Nat
  BY <1>2, FS_CardinalityType
<1>5. Cardinality(Level(d, kinds)) = 0 <=> Level(d, kinds) = {}
  BY <1>2, FS_EmptySet
<1>6. Level(d, kinds) = {} <=> \A p \in DOMAIN d : d[p] \notin kinds
  BY DEF Level
<1> QED
  BY <1>2, <1>3, <1>4, <1>5, <1>6

LEMMA DisjointLevels ==
    ASSUME NEW d, IsFiniteSet(DOMAIN d), NEW k, NEW l, k \cap l = {}
    PROVE  Cardinality(Level(d, k \cup l)) = Of(d, k) + Of(d, l)
<1>1. /\ IsFiniteSet(Level(d, k)) /\ IsFiniteSet(Level(d, l))
      /\ Of(d, k) = Cardinality(Level(d, k)) /\ Of(d, l) = Cardinality(Level(d, l))
      /\ Of(d, k) \in Nat /\ Of(d, l) \in Nat
  BY LevelFacts
<1>2. Level(d, k \cup l) = Level(d, k) \cup Level(d, l)
  BY DEF Level
<1>3. Level(d, k) \cap Level(d, l) = {}
  BY DEF Level
<1>4. Cardinality({}) = 0
  BY FS_EmptySet
<1>5. Cardinality(Level(d, k) \cup Level(d, l)) =
         Cardinality(Level(d, k)) + Cardinality(Level(d, l))
            - Cardinality(Level(d, k) \cap Level(d, l))
  BY <1>1, FS_Union
<1>6. Cardinality(Level(d, k) \cap Level(d, l)) = 0
  BY <1>3, <1>4
<1>7. Cardinality(Level(d, k) \cup Level(d, l)) = Of(d, k) + Of(d, l)
  BY <1>1, <1>5, <1>6
<1> QED
  BY <1>2, <1>7

(* What the conversion of the table made of a document makes of its parts. *)
LEMMA RoundTrip ==
    ASSUME NEW c, Document(c), c[<< >>] = "object", NEW d \in ToJson(ToLua(c))
    PROVE  /\ Document(d)
           /\ \A q \in DOMAIN d : \E p \in Present(c) : q = Reads(p)
           /\ \A p \in Present(c) :
                 /\ Reads(p) \in DOMAIN d
                 /\ c[p] \in {"string", "number"} => d[Reads(p)] = c[p]
                 /\ c[p] = "wide" => d[Reads(p)] = "number"
                 /\ c[p] = "boolean" => d[Reads(p)] = "null"
                 /\ c[p] \in {"object", "array"} => d[Reads(p)] \in {"object", "null"}
<1> DEFINE t == ToLua(c)
<1>1. /\ DOMAIN t = {LuaPath(p) : p \in Present(c)} /\ Value(t)
      /\ \A p \in Present(c) : t[LuaPath(p)] = LuaKind(c[p])
  BY ToLuaFacts
<1>2. /\ c \in [DOMAIN c -> Kinds] /\ Present(c) \subseteq DOMAIN c
      /\ \A p \in Present(c) : c[p] \in Kinds \ {"null"}
  BY DEF Document, Present
<1>3. d \in ToJson(t)
  OBVIOUS
<1> HIDE DEF t
<1>4. \A x, y \in DOMAIN t : JsonPath(x) = JsonPath(y) => x = y
  <2> SUFFICES ASSUME NEW x \in DOMAIN t, NEW y \in DOMAIN t, JsonPath(x) = JsonPath(y)
               PROVE  x = y
    OBVIOUS
  <2>1. PICK p \in Present(c) : x = LuaPath(p)
    BY <1>1
  <2>2. PICK q \in Present(c) : y = LuaPath(q)
    BY <1>1
  <2>3. p = q
    BY <1>2, <2>1, <2>2, ReadsInjective DEF Reads
  <2> QED
    BY <2>1, <2>2, <2>3
<1>5. PICK K : Converts(t, d, K)
  BY <1>1, <1>3, ToJsonConverts
<1>6. K = DOMAIN t
  <2>1. Twins(t) = {}
    BY <1>4, OneConversion
  <2>2. K \subseteq DOMAIN t /\ \A p \in DOMAIN t \ K : \E l \in Twins(t) : IsPrefix(l, p)
    BY <1>5 DEF Converts
  <2> QED
    BY <2>1, <2>2
<1>7. Document(d) /\ DOMAIN d = {JsonPath(x) : x \in DOMAIN t}
  BY <1>1, <1>5, <1>6, ConvertsDocument DEF Converts
<1>8. \A q \in DOMAIN d : \E p \in Present(c) : q = Reads(p)
  BY <1>1, <1>7 DEF Reads
<1>9. ASSUME NEW p \in Present(c)
      PROVE  /\ Reads(p) \in DOMAIN d
             /\ c[p] \in {"string", "number"} => d[Reads(p)] = c[p]
             /\ c[p] = "wide" => d[Reads(p)] = "number"
             /\ c[p] = "boolean" => d[Reads(p)] = "null"
             /\ c[p] \in {"object", "array"} => d[Reads(p)] \in {"object", "null"}
  <2> DEFINE x == LuaPath(p)
  <2>1. x \in DOMAIN t /\ t[x] = LuaKind(c[p])
    BY <1>1
  <2> HIDE DEF x
  <2>2. /\ t[x] \in {"string", "number"} => d[JsonPath(x)] = t[x]
        /\ t[x] = "table" => d[JsonPath(x)] \in {"object", "null"}
        /\ t[x] = "boolean" => d[JsonPath(x)] = "null"
    BY <1>1, <1>5, <1>6, <2>1, JsonKindFacts
  <2>3. JsonPath(x) \in DOMAIN d
    BY <1>7, <2>1
  <2>4. /\ c[p] \in {"string", "number"} => t[x] = c[p]
        /\ c[p] = "wide" => t[x] = "number"
        /\ c[p] = "boolean" => t[x] = "boolean"
        /\ c[p] \in {"object", "array"} => t[x] = "table"
    BY <2>1 DEF LuaKind
  <2>5. Reads(p) = JsonPath(x)
    BY DEF Reads, x
  <2> QED
    BY <2>2, <2>3, <2>4, <2>5
<1> QED
  BY <1>7, <1>8, <1>9

(* In a document without arrays every path reads as it stands. *)
LEMMA ObjectsOnly ==
    ASSUME NEW c, Document(c), \A p \in DOMAIN c : c[p] # "array", NEW p \in DOMAIN c
    PROVE  Reads(p) = p
<1>1. /\ p \in Seq(JsonLabels) /\ Tree(c, {"object", "array"}) /\ DOMAIN c \subseteq Seq(JsonLabels)
      /\ \A r \in DOMAIN c \ {<< >>} : Last(r) \in Names <=> c[Front(r)] = "object"
  BY DEF Document, JsonLabels
<1>2. Len(p) \in Nat
  BY <1>1, PathFacts
<1>3. ASSUME NEW i \in 1..Len(p)
      PROVE  p[i] \in Names
  <2> DEFINE r == SubSeq(p, 1, i)
  <2>1. i \in 0..Len(p) /\ i \in Nat \ {0}
    BY <1>2
  <2>2. r \in Seq(JsonLabels) /\ Len(r) = i /\ r[i] = p[i] /\ IsPrefix(r, p)
    BY <1>1, <2>1, TakeFacts
  <2> HIDE DEF r
  <2>3. r \in DOMAIN c
    BY <1>1, <2>2, TreeClosed
  <2>4. r # << >> /\ Last(r) = p[i]
    BY <2>1, <2>2, PathFacts DEF Last
  <2>5. c[Front(r)] = "object"
    BY <1>1, <2>3, <2>4 DEF Tree
  <2> QED
    BY <1>1, <2>3, <2>4, <2>5
<1>4. p \in Seq(Names)
  <2>1. p \in [1..Len(p) -> Names]
    BY <1>1, <1>3, LenProperties
  <2> QED
    BY <1>2, <2>1, SequenceIntro
<1> QED
  BY <1>4, NamePaths DEF Reads

(* A document comes back from a table as it was, or lighter. *)
LEMMA Lighter ==
    ASSUME NEW c, Document(c), c[<< >>] = "object", NEW d \in ToJson(ToLua(c))
    PROVE  d = c \/ Weight(d) < Weight(c)
<1>1. /\ c \in [DOMAIN c -> Kinds] /\ IsFiniteSet(DOMAIN c)
      /\ c = [p \in DOMAIN c |-> c[p]]
  BY DEF Document
<1>2. /\ \A q \in DOMAIN d : \E p \in Present(c) : q = Reads(p)
      /\ \A p \in Present(c) :
            /\ Reads(p) \in DOMAIN d
            /\ c[p] \in {"string", "number"} => d[Reads(p)] = c[p]
            /\ c[p] = "wide" => d[Reads(p)] = "number"
            /\ c[p] = "boolean" => d[Reads(p)] = "null"
            /\ c[p] \in {"object", "array"} => d[Reads(p)] \in {"object", "null"}
  BY RoundTrip
<1>3. Document(d)
  BY RoundTrip
<1>4. IsFiniteSet(DOMAIN d) /\ d = [q \in DOMAIN d |-> d[q]]
  BY <1>3 DEF Document
<1>5. \A p \in Present(c) : p \in DOMAIN c /\ c[p] \in Kinds \ {"null"}
  BY <1>1 DEF Present
<1> DEFINE Sc == Level(c, {"array"} \cup {"object", "boolean"})
           Sd == Level(d, {"object", "boolean"} \cup {"null", "wide"})
           a == Of(c, {"array"})
           o == Of(c, {"object", "boolean"})
           n == Of(c, {"null", "wide"})
           x == Of(d, {"object", "boolean"})
           y == Of(d, {"null", "wide"})
<1>6. /\ a \in Nat /\ o \in Nat /\ n \in Nat /\ x \in Nat /\ y \in Nat
      /\ a = 0 => \A p \in DOMAIN c : c[p] \notin {"array"}
      /\ n = 0 => \A p \in DOMAIN c : c[p] \notin {"null", "wide"}
      /\ y = 0 => \A q \in DOMAIN d : d[q] \notin {"null", "wide"}
  BY <1>1, <1>4, LevelFacts
<1>7. ASSUME NEW q \in DOMAIN d
      PROVE  \E p \in Present(c) :
                q = Reads(p) /\ (d[q] \in {"object", "boolean", "null", "wide"} =>
                                   c[p] \in {"array", "object", "boolean"})
  <2>1. PICK p \in Present(c) : q = Reads(p)
    BY <1>2
  <2>2. c[p] \in {"string", "number", "wide", "boolean", "object", "array"}
    BY <1>5 DEF Kinds
  <2> QED
    BY <1>2, <2>1, <2>2
<1>8. Of(d, {"array"}) = 0
  <2>1. \A q \in DOMAIN d : d[q] \notin {"array"}
    <3> SUFFICES ASSUME NEW q \in DOMAIN d PROVE d[q] # "array"
      OBVIOUS
    <3>1. PICK p \in Present(c) : q = Reads(p)
      BY <1>2
    <3>2. c[p] \in {"string", "number", "wide", "boolean", "object", "array"}
      BY <1>5 DEF Kinds
    <3> QED
      BY <1>2, <3>1, <3>2
  <2> QED
    BY <1>4, <2>1, LevelFacts
<1>9. Cardinality(Sc) = a + o /\ Cardinality(Sd) = x + y
  BY <1>1, <1>4, DisjointLevels
<1>10. Cardinality(Sd) <= Cardinality(Sc)
  <2> DEFINE I == {Reads(p) : p \in Sc}
             g == [p \in Sc |-> Reads(p)]
  <2>1. g \in Surjection(Sc, I)
    BY DEF Surjection
  <2>2. Sd \in SUBSET I
    <3> SUFFICES ASSUME NEW q \in Sd PROVE q \in I
      OBVIOUS
    <3>1. q \in DOMAIN d /\ d[q] \in {"object", "boolean", "null", "wide"}
      BY DEF Level
    <3>2. PICK p \in Present(c) : q = Reads(p) /\ c[p] \in {"array", "object", "boolean"}
      BY <1>7, <3>1
    <3>3. p \in Sc
      BY <1>5, <3>2 DEF Level
    <3> QED
      BY <3>2, <3>3
  <2>3. IsFiniteSet(Sc)
    BY <1>1, LevelFacts
  <2> HIDE DEF I, g, Sc, Sd
  <2>4. IsFiniteSet(I) /\ Cardinality(I) <= Cardinality(Sc)
    BY <2>1, <2>3, FS_Surjection
  <2>5. IsFiniteSet(Sd) /\ Cardinality(Sd) <= Cardinality(I)
    BY <2>2, <2>4, FS_Subset
  <2>6. Cardinality(Sc) \in Nat /\ Cardinality(I) \in Nat /\ Cardinality(Sd) \in Nat
    BY <2>3, <2>4, <2>5, FS_CardinalityType
  <2> QED
    BY <2>4, <2>5, <2>6
<1>11. Weight(c) = 3 * a + 2 * o + n /\ Weight(d) = 2 * x + y
  <2>1. Weight(d) = 3 * 0 + 2 * x + y
    BY <1>8 DEF Weight
  <2> QED
    BY <1>6, <2>1 DEF Weight
<1> HIDE DEF Sc, Sd, a, o, n, x, y
<1> SUFFICES ASSUME ~(Weight(d) < Weight(c)) PROVE d = c
  OBVIOUS
<1>12. a = 0 /\ n = 0 /\ y = 0
  <2>1. x + y <= a + o
    BY <1>9, <1>10
  <2>2. 2 * x + y >= 3 * a + 2 * o + n
    BY <1>6, <1>11
  <2> QED
    BY <1>6, <2>1, <2>2
<1>13. \A p \in DOMAIN c : c[p] \notin {"array", "null", "wide"}
  BY <1>6, <1>12
<1>14. \A q \in DOMAIN d : d[q] # "null"
  BY <1>6, <1>12
<1>15. Present(c) = DOMAIN c /\ \A p \in DOMAIN c : Reads(p) = p
  BY <1>13, ObjectsOnly DEF Present
<1>16. DOMAIN d = DOMAIN c
  BY <1>2, <1>15
<1>17. ASSUME NEW p \in DOMAIN c PROVE d[p] = c[p]
  <2>1. c[p] \in {"string", "number", "boolean", "object"}
    BY <1>1, <1>13 DEF Kinds
  <2> QED
    BY <1>2, <1>14, <1>15, <2>1
<1> QED
  BY <1>1, <1>4, <1>16, <1>17

(* A string weighs nothing. *)
LEMMA InsertWeighs ==
    ASSUME NEW d, Document(d), d[<< >>] = "object", NEW name \in Names
    PROVE  Weight(Insert(d, name, Leaf("string"))) = Weight(d)
<1> DEFINE v == Leaf("string")
           c == Insert(d, name, v)
           p == <<name>>
<1>1. CASE Has(d, name)
  BY <1>1 DEF Insert
<1>2. CASE ~Has(d, name)
  <2>1. Document(v) /\ v[<< >>] = "string" /\ DOMAIN v = {<< >>}
    BY LeafFacts DEF Leaf
  <2>2. c = Put(d, p, v)
    BY <1>2 DEF Insert
  <2>3. p \in Seq(Names)
    BY NameFacts
  <2> HIDE DEF v
  <2>4. Enlarges(c, d, name) /\ c[p] = "string"
    BY <1>2, <2>1, InsertFacts
  <2> HIDE DEF c, p
  <2>5. ASSUME NEW q \in DOMAIN c, q \notin DOMAIN d
        PROVE  c[q] = "string"
    <3>1. PICK r \in DOMAIN v : q = Under(p, r)
      BY <2>2, <2>5, PutDomain
    <3>2. q = p
      BY <2>1, <2>3, <3>1, UnderRoot
    <3> QED
      BY <2>4, <3>2
  <2>6. \A q \in DOMAIN d : q \in DOMAIN c /\ c[q] = d[q]
    BY <2>4 DEF Enlarges
  <2>7. ASSUME NEW kinds, "string" \notin kinds
        PROVE  Of(c, kinds) = Of(d, kinds)
    <3>1. Level(c, kinds) = Level(d, kinds)
      BY <2>5, <2>6, <2>7 DEF Level
    <3> QED
      BY <3>1 DEF Of, Level
  <2>8. /\ Of(c, {"array"}) = Of(d, {"array"})
        /\ Of(c, {"object", "boolean"}) = Of(d, {"object", "boolean"})
        /\ Of(c, {"null", "wide"}) = Of(d, {"null", "wide"})
    BY <2>7
  <2>9. Weight(c) = Weight(d)
    BY <2>8 DEF Weight
  <2> QED
    BY <2>9 DEF c, v
<1> QED
  BY <1>1, <1>2


(* What the library makes of config.json when it opens. *)
Opened == Insert(stored, Binding, Leaf("string"))

(* A process that was left alone has written nothing, or all there is: the *)
(* second half of the inductive invariant, needed for Erodes only.         *)
Bare == Serving /\ touched \cup added = {}
Pristine ==
    Bare =>
       \/ config = Opened /\ table = ToLua(config) /\ IsObject(stored)
       \/ /\ config \in ToJson(table)
          /\ stored = config \/ (owed /\ table = ToLua(Opened) /\ IsObject(stored))

LEMMA OpenedFacts ==
    ASSUME NEW d, Document(d), d[<< >>] = "object"
    PROVE  Enlarges(Insert(d, Binding, Leaf("string")), d, Binding)
BY TextAssumption, LeafFacts, InsertFacts

LEMMA BareConverts ==
    ASSUME IInv, Bare
    PROVE  \A c, d \in ToJson(table) : c = d
<1>1. \A p, q \in DOMAIN table : JsonPath(p) = JsonPath(q) => p = q
  BY DEF IInv, NoTwins, Bare
<1> QED
  BY <1>1, OneConversion

LEMMA PristineStep ==
    ASSUME IInv, Pristine, [Next]_vars
    PROVE  Pristine'
<1>1. CASE Open
  BY <1>1 DEF Open, Snapshot, Pristine, Opened, IsObject
<1>2. ASSUME NEW e \in Edits, Assign(e)
      PROVE  Pristine'
  BY <1>2 DEF Assign, Pristine, Bare
<1>3. ASSUME NEW i \in Inserted, LuaInsert(i)
      PROVE  Pristine'
  <2>1. CASE Has(config, i.name)
    <3>1. config' = config /\ table' = table /\ stored' = stored /\ owed' = owed
          /\ touched' = touched /\ added' = added
      BY <1>3, <2>1 DEF LuaInsert, Insert
    <3> QED
      BY <3>1 DEF Pristine, Bare, Serving, Opened, IsObject
  <2>2. CASE ~Has(config, i.name)
    BY <1>3, <2>2 DEF LuaInsert, Pristine, Bare
  <2> QED
    BY <2>1, <2>2
<1>4. CASE LuaCommit
  <2> SUFFICES ASSUME Bare'
               PROVE  /\ config' \in ToJson(table)
                      /\ \/ stored' = config'
                         \/ owed' /\ table = ToLua(Opened') /\ IsObject(stored')
    BY <1>4 DEF LuaCommit, Pristine, IsObject
  <2>1. /\ Bare /\ config' \in ToJson(table)
        /\ stored' = config' \/ (owed' = TRUE /\ stored' = stored)
    BY <1>4 DEF LuaCommit, Restructured, Bare, histories
  <2>2. CASE stored' = stored /\ owed' = TRUE
    <3>1. Opened' = Opened
      BY <2>2 DEF Opened
    <3>2. CASE config \in ToJson(table) /\ stored = config
      BY <2>1, <2>2, <3>2, BareConverts
    <3>3. CASE table = ToLua(Opened) /\ IsObject(stored)
      BY <2>1, <2>2, <3>1, <3>3 DEF IsObject
    <3> QED
      BY <2>1, <3>2, <3>3 DEF Pristine
  <2> QED
    BY <2>1, <2>2
<1>5. CASE Flush
  <2> SUFFICES ASSUME Bare'
               PROVE  \/ config = Opened' /\ table = ToLua(config) /\ IsObject(stored')
                      \/ config \in ToJson(table) /\ stored' = config
    BY <1>5 DEF Flush, Pristine, IsObject
  <2>1. Bare /\ stored' = config
    BY <1>5 DEF Flush, Bare, Serving, histories
  <2>2. CASE config = Opened /\ table = ToLua(config) /\ IsObject(stored)
    <3>1. Document(stored)
      BY DEF IInv, TypeOK
    <3>2. Has(config, Binding) /\ IsObject(config)
      BY <2>2, <3>1, OpenedFacts DEF Opened, Enlarges, IsObject
    <3>3. Opened' = config
      BY <2>1, <3>2 DEF Opened, Insert
    <3> QED
      BY <2>1, <2>2, <3>2, <3>3
  <2> QED
    BY <2>1, <2>2 DEF Pristine
<1>6. CASE Close
  BY <1>6 DEF Close, Pristine, Bare, Serving
<1>7. CASE UserEdit
  BY <1>7 DEF UserEdit, Pristine, Bare, Serving
<1>8. CASE UNCHANGED vars
  BY <1>8 DEF vars, histories, Pristine, Bare, Serving, Opened, IsObject
<1> QED
  BY <1>1, <1>2, <1>3, <1>4, <1>5, <1>6, <1>7, <1>8 DEF Next

(* A commit of a table that nobody edited adds "_binding" at most, or the  *)
(* document becomes strictly lighter: what the conversions drop never      *)
(* comes back, and sooner or later they drop nothing.                      *)
THEOREM DocumentsErode == Spec => Erodes
<1>1. Init => Pristine
  BY DEF Init, Pristine, Bare, Serving
<1>2. ASSUME IInv, Pristine, Next, Writes, touched \cup added = {}
      PROVE  stored' = Opened \/ Weight(stored') < Weight(stored)
  <2>1. Bare /\ stored' # stored /\ Document(stored)
    BY <1>2 DEF Bare, Writes, IInv, TypeOK
  <2>2. CASE ~IsObject(stored)
    <3>1. stored = config /\ config \in ToJson(table)
      BY <2>1, <2>2, <1>2 DEF Pristine
    <3>2. stored' \in ToJson(table) \/ stored' = config
      BY <1>2, WriteFacts
    <3> QED
      BY <1>2, <2>1, <3>1, <3>2, BareConverts
  <2> SUFFICES ASSUME IsObject(stored)
               PROVE  stored' = Opened \/ Weight(stored') < Weight(stored)
    BY <2>2
  <2>3. Document(Opened) /\ Opened[<< >>] = "object" /\ Weight(Opened) = Weight(stored)
    BY <2>1, TextAssumption, OpenedFacts, InsertWeighs DEF Opened, Enlarges, IsObject
  <2>4. (stored' \in ToJson(table) /\ table = ToLua(Opened)) \/ stored' = Opened
    <3>1. stored' \in ToJson(table) \/ stored' = config
      BY <1>2, WriteFacts
    <3>2. CASE config = Opened /\ table = ToLua(config)
      BY <3>1, <3>2
    <3>3. CASE config \in ToJson(table) /\ stored = config
      BY <1>2, <2>1, <3>1, <3>3, BareConverts
    <3>4. CASE config \in ToJson(table) /\ table = ToLua(Opened)
      BY <3>1, <3>4
    <3> QED
      BY <1>2, <2>1, <3>2, <3>3, <3>4 DEF Pristine
  <2> DEFINE d == stored'
             c == Opened
  <2> HIDE DEF d, c
  <2>5. ASSUME d \in ToJson(ToLua(c)), Document(c), c[<< >>] = "object"
        PROVE  d = c \/ Weight(d) < Weight(c)
    BY <2>5, Lighter
  <2> QED
    BY <2>3, <2>4, <2>5 DEF c, d
<1>3. IInv /\ Pristine /\ [Next]_vars => Pristine'
  BY PristineStep
<1>4. IInv /\ Pristine /\ [Next]_vars =>
        [Writes /\ touched \cup added = {} =>
            \/ stored' = Insert(stored, Binding, Leaf("string"))
            \/ Weight(stored') < Weight(stored)]_vars
  BY <1>2 DEF Opened
<1> QED
  BY <1>1, <1>3, <1>4, Inductive, PTL DEF Spec, Erodes

=============================================================================
