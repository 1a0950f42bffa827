----------------------------- MODULE ConfigFile -----------------------------
(***************************************************************************)
(* The documents of AppIO/Config.hpp and config.json, the file that holds  *)
(* them.                                                                   *)
(*                                                                         *)
(* A document maps each key to a value or to Absent.  Its text is Size[d]  *)
(* cells <<d, 1>>, <<d, 2>>, ...; the file is the sequence of cells it     *)
(* holds.  config.json is opened with O_WRONLY alone, so a write replaces  *)
(* the first cells and leaves what is behind them; it is read with         *)
(* operator>>, which stops at the end of the first complete JSON value.    *)
(***************************************************************************)
EXTENDS Integers, Sequences

CONSTANTS
    Keys,       (* the keys of the configuration object                    *)
    Values,     (* the JSON values a key can have                          *)
    Absent,     (* the key is not in the object                            *)
    Created,    (* the key "_created"                                      *)
    Stamp,      (* its value, the time of the first start                  *)
    Nothing,    (* no document                                             *)
    Size        (* the length of each document's text                      *)

Docs == [Keys -> Values \cup {Absent}]

DefaultConfig == [k \in Keys |-> IF k = Created THEN Stamp ELSE Absent]

ASSUME FileAssumption ==
    /\ Absent \notin Values
    /\ Created \in Keys
    /\ Stamp \in Values
    /\ Nothing \notin Docs
    /\ Size \in [Docs -> Nat \ {0}]

Cells == Docs \X Nat

(* Mutant of Overlay: a file opened with O_APPEND.                         *)
OverlayAtEnd(f, d, n) == f \o [i \in 1..n |-> <<d, i>>]

(* Another: the buffer one cell short of the text. *)
OverlayShort(f, d, n) ==
    [i \in DOMAIN f \cup 1 .. n - 1 |-> IF i < n THEN <<d, i>> ELSE f[i]]

(* The first n cells of the text of d written over the start of f. *)
Overlay(f, d, n) ==
    [i \in DOMAIN f \cup 1..n |-> IF i <= n THEN <<d, i>> ELSE f[i]]

BeginsWith(f, d) == \A i \in 1..Size[d] : i \in DOMAIN f /\ f[i] = <<d, i>>

Readable(f) == \E d \in Docs : BeginsWith(f, d)

(* What the next start would load: the first value of the file, whatever   *)
(* an older and longer document left behind it.                            *)
Stored(f) == IF Readable(f) THEN CHOOSE d \in Docs : BeginsWith(f, d) ELSE Nothing

(* Mutant of Parses: a text that does not parse is taken for no document.  *)
ParsesAnyway(f) == {Stored(f)}

(* What parsing the file can return.  A torn text may happen to be JSON,   *)
(* then it may be any document; an empty one never is.                     *)
Parses(f) ==
    IF Readable(f) THEN {Stored(f)} ELSE IF f = << >> THEN {} ELSE Docs
=============================================================================
