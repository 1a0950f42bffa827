------------------------- MODULE ConfigFile_proofs -------------------------
(***************************************************************************)
(* What the file of ConfigFile holds after a write, for every set of keys  *)
(* and values and every length of their texts.                             *)
(***************************************************************************)
EXTENDS ConfigFile, TLAPS

LEMMA SizePositive == \A d \in Docs : Size[d] \in Nat /\ Size[d] >= 1
BY FileAssumption

LEMMA DefaultIsDoc == DefaultConfig \in Docs
BY FileAssumption DEF DefaultConfig, Docs

(* A write over the start of a file leaves a file, and not an empty one    *)
(* when it writes a cell.                                                  *)
LEMMA OverlayType ==
    ASSUME NEW f \in Seq(Cells), NEW d \in Docs, NEW n \in Nat
    PROVE  /\ Overlay(f, d, n) \in Seq(Cells)
           /\ n >= 1 => Overlay(f, d, n) # << >>
<1> DEFINE m == IF n > Len(f) THEN n ELSE Len(f)
           o == Overlay(f, d, n)
<1>1. m \in Nat /\ DOMAIN f = 1..Len(f) /\ Len(f) \in Nat
  OBVIOUS
<1>2. DOMAIN f \cup 1..n = 1..m
  BY <1>1
<1>3. o = [i \in 1..m |-> IF i <= n THEN <<d, i>> ELSE f[i]]
  BY <1>2, Zenon DEF Overlay
<1>4. \A i \in 1..m : (IF i <= n THEN <<d, i>> ELSE f[i]) \in Cells
  BY <1>1 DEF Cells
<1>5. o \in [1..m -> Cells]
  BY <1>3, <1>4, Zenon
<1>6. o \in Seq(Cells) /\ Len(o) = m
  BY <1>1, <1>5
<1>7. n >= 1 => o # << >>
  BY <1>1, <1>6
<1> QED
  BY <1>6, <1>7

(* A complete write makes the document the first of the file. *)
LEMMA OverlayBegins ==
    ASSUME NEW f, NEW d \in Docs
    PROVE  BeginsWith(Overlay(f, d, Size[d]), d)
<1> SUFFICES ASSUME NEW i \in 1..Size[d]
             PROVE  /\ i \in DOMAIN Overlay(f, d, Size[d])
                    /\ Overlay(f, d, Size[d])[i] = <<d, i>>
  BY DEF BeginsWith
<1>1. i \in DOMAIN f \cup 1..Size[d] /\ i <= Size[d]
  BY SizePositive
<1> QED
  BY <1>1 DEF Overlay

(* The first document of a file is the only one, so a start that loads it  *)
(* has no choice.                                                          *)
LEMMA StoredIsFirst ==
    ASSUME NEW f, NEW d \in Docs, BeginsWith(f, d)
    PROVE  Readable(f) /\ Stored(f) = d
<1>1. \A e \in Docs : BeginsWith(f, e) => e = d
  <2> SUFFICES ASSUME NEW e \in Docs, BeginsWith(f, e) PROVE e = d
    OBVIOUS
  <2>1. 1 \in 1..Size[d] /\ 1 \in 1..Size[e]
    BY SizePositive
  <2>2. f[1] = <<d, 1>> /\ f[1] = <<e, 1>>
    BY <2>1 DEF BeginsWith
  <2> QED
    BY <2>2
<1>2. Readable(f)
  BY DEF Readable
<1>3. (CHOOSE e \in Docs : BeginsWith(f, e)) = d
  BY <1>1
<1> QED
  BY <1>2, <1>3 DEF Stored

LEMMA StoredIsDoc ==
    ASSUME NEW f, Readable(f)
    PROVE  Stored(f) \in Docs
<1>1. PICK d \in Docs : BeginsWith(f, d)
  BY DEF Readable
<1> QED
  BY <1>1, StoredIsFirst

LEMMA EmptyUnreadable == ~Readable(<< >>)
BY SizePositive DEF Readable, BeginsWith

(* What is parsed is a document, and an empty file parses to nothing. *)
LEMMA ParsesType ==
    ASSUME NEW f, NEW d \in Parses(f)
    PROVE  /\ d \in Docs /\ f # << >>
           /\ Readable(f) => Stored(f) = d
BY EmptyUnreadable, StoredIsDoc DEF Parses
=============================================================================
