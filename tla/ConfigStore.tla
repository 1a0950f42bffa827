---------------------------- MODULE ConfigStore ----------------------------
(***************************************************************************)
(* What Config promises to the application, with no descriptor, no file    *)
(* layout and no event loop.  The application edits a document in memory   *)
(* and commits it; a commit either stores the document at once or leaves   *)
(* the store owing a write, and a write that is owed is settled with the   *)
(* document of that later moment.                                          *)
(***************************************************************************)

CONSTANTS
    Docs,        (* the documents a configuration can be                   *)
    Default,     (* the document a first start creates                     *)
    Nothing      (* neither stored nor in memory                           *)

VARIABLES
    mode,        (* "off", "on", or "closing" once the app was stopped     *)
    config,      (* the document in memory, Nothing while off              *)
    stored,      (* what the next start would load                         *)
    owed,        (* a commit has not reached the store                     *)
    acceptable   (* the documents that would honour the last commit: the   *)
                 (* one committed and every one held since                 *)

vars == <<mode, config, stored, owed, acceptable>>

Init ==
    /\ mode = "off"
    /\ config = Nothing
    /\ stored = Nothing
    /\ owed = FALSE
    /\ acceptable = {}

(* A first start stores the default document. *)
Format ==
    /\ mode = "off"
    /\ stored = Nothing
    /\ stored' = Default
    /\ UNCHANGED <<mode, config, owed, acceptable>>

Open ==
    /\ mode = "off"
    /\ stored # Nothing
    /\ mode' = "on"
    /\ config' = stored
    /\ acceptable' = {stored}
    /\ UNCHANGED <<stored, owed>>

Edit ==
    /\ mode # "off"
    /\ config' \in Docs
    /\ acceptable' = acceptable \cup {config'}
    /\ UNCHANGED <<mode, stored, owed>>

Commit ==
    /\ mode # "off"
    /\ acceptable' = {config}
    /\ \/ /\ ~owed
          /\ stored' = config
          /\ UNCHANGED owed
       \/ /\ owed' = TRUE
          /\ UNCHANGED stored
    /\ UNCHANGED <<mode, config>>

(* Settle what is owed, with the document of this moment. *)
Flush ==
    /\ mode = "on"
    /\ owed
    /\ stored' = config
    /\ owed' = FALSE
    /\ UNCHANGED <<mode, config, acceptable>>

(* Once the app is stopped nothing that is owed is settled any more. *)
Stop ==
    /\ mode = "on"
    /\ mode' = "closing"
    /\ UNCHANGED <<config, stored, owed, acceptable>>

(* The process ends, in order or killed. *)
Close ==
    /\ mode # "off"
    /\ mode' = "off"
    /\ config' = Nothing
    /\ owed' = FALSE
    /\ acceptable' = {}
    /\ UNCHANGED stored

Next == Format \/ Open \/ Edit \/ Commit \/ Flush \/ Stop \/ Close

SafeSpec == Init /\ [][Next]_vars

Spec == SafeSpec /\ WF_vars(Flush)
=============================================================================
