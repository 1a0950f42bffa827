------------------------------- MODULE Config -------------------------------
(***************************************************************************)
(* AppIO/Config.hpp: the configuration of one application, held in memory  *)
(* as a JSON object and written to config.json by the event loop.          *)
(*                                                                         *)
(* epoll does not take regular files, so async_write_some on one writes    *)
(* inside the call and only its completion handler waits for the loop:     *)
(* the write is part of the step that starts it, the handler is a step of  *)
(* its own.                                                                *)
(***************************************************************************)
EXTENDS ConfigFile

CONSTANT Faults   (* what the operating system may do to the process       *)

(***************************************************************************)
(* "kill": the process dies between any two steps.  "open": a file does    *)
(* not open.  "error": a write fails.  "short": a write (the disk is full) *)
(* stores only the first cells and still succeeds.  "throw": assign(), or  *)
(* dump() of a string that is not UTF-8, throws once _out is set.          *)
(***************************************************************************)
FaultKinds == {"kill", "open", "error", "short", "throw"}

ASSUME ConfigAssumption == Faults \subseteq FaultKinds

VARIABLES
    phase,         (* where the process is, see Phases                     *)
    config,        (* *_config                                             *)
    out,           (* _out is set                                          *)
    pendingWrite,  (* _pendingWrite                                        *)
    completion,    (* the queued completion of async_write_some            *)
    exists,        (* config.json exists                                   *)
    file,          (* its cells                                            *)
    since,         (* history: the documents held since the last commit,   *)
                   (* or since the start                                   *)
    failed,        (* history: the last attempt to write stored less than  *)
                   (* the document                                         *)
    torn           (* history: the last write to the file, by whichever    *)
                   (* process, stored less than a document                 *)

memory == <<config, out, pendingWrite, completion, since, failed>>
disk == <<exists, file, torn>>
vars == <<phase, memory, disk>>

Serving == {"up", "stopped"}
Phases == {"down", "creating", "loading"} \cup Serving

-----------------------------------------------------------------------------
(* Starting: Config::get() constructs the only Config. *)

Init ==
    /\ phase = "down"
    /\ config = Nothing
    /\ out = FALSE
    /\ pendingWrite = FALSE
    /\ completion = "none"
    /\ exists = FALSE
    /\ file = << >>
    /\ since = {}
    /\ failed = FALSE
    /\ torn = FALSE

(* Mutant of Missing: an empty config.json counts as missing. *)
MissingOrEmpty == file = << >>

Missing == ~exists

(* initializeConfig: an existing config.json is loaded as it is; a missing *)
(* one is created empty by the ofstream.  An ofstream that does not open   *)
(* says nothing.                                                           *)
InitializeConfig ==
    /\ phase = "down"
    /\ \/ ~Missing /\ phase' = "loading" /\ UNCHANGED <<exists, file>>
       \/ Missing /\ phase' = "creating" /\ exists' = TRUE /\ file' = << >>
       \/ /\ Missing /\ "open" \in Faults
          /\ phase' = "loading" /\ UNCHANGED <<exists, file>>
    /\ UNCHANGED <<memory, torn>>

(* The default document flushed by std::endl; a short write is not seen. *)
WriteDefaultConfig ==
    /\ phase = "creating"
    /\ phase' = "loading"
    /\ \E n \in IF "short" \in Faults THEN 0..Size[DefaultConfig]
                                      ELSE {Size[DefaultConfig]} :
          /\ file' = Overlay(file, DefaultConfig, n)
          /\ torn' = (n < Size[DefaultConfig])
    /\ UNCHANGED <<memory, exists>>

(* openConfig: operator>> reads the first value of the file. *)
OpenConfig ==
    /\ phase = "loading"
    /\ config' \in Parses(file)
    /\ phase' = "up"
    /\ since' = {config'}
    /\ failed' = ~Readable(file)
    /\ UNCHANGED <<out, pendingWrite, completion, disk>>

(* nlohmann throws out of the constructor, at a file that it cannot parse  *)
(* or that did not open, and the process ends.                             *)
OpenConfigThrows ==
    /\ phase = "loading"
    /\ ~Readable(file) \/ "open" \in Faults
    /\ phase' = "down"
    /\ UNCHANGED <<memory, disk>>

-----------------------------------------------------------------------------
(* Editing the document: nothing of it reaches the file before a commit. *)

Edited(d) ==
    /\ phase \in Serving
    /\ config' = d
    /\ since' = since \cup {d}
    /\ UNCHANGED <<phase, out, pendingWrite, completion, failed, disk>>

(* std::map::insert: a key that is present keeps its value. *)
Merge(d, more) == [k \in Keys |-> IF d[k] # Absent THEN d[k] ELSE more[k]]

Insert == \E more \in Docs : Edited(Merge(config, more))

Restructure == \E d \in Docs : Edited(d)

(* An assignment through the pointer that data() returns. *)
Assign == \E k \in Keys, v \in Values : Edited([config EXCEPT ![k] = v])

-----------------------------------------------------------------------------
(* Writing the document. *)

(* updateConfigFile once config.json is open. *)
WriteConfig ==
    /\ out' = TRUE
    /\ \/ /\ file' = Overlay(file, config, Size[config])
          /\ completion' = "ok" /\ failed' = FALSE /\ torn' = FALSE
       \/ /\ "short" \in Faults
          /\ \E n \in 1..Size[config] - 1 : file' = Overlay(file, config, n)
          /\ completion' = "ok" /\ failed' = TRUE /\ torn' = TRUE
       \/ /\ "error" \in Faults
          /\ completion' = "error" /\ failed' = TRUE
          /\ UNCHANGED <<file, torn>>

(* commit() calls updateConfigFile(): while a write is out the commit is   *)
(* only noted.  An exception goes to the caller, and leaves _out set if it *)
(* comes after the file was opened.                                        *)
Commit ==
    /\ phase \in Serving
    /\ since' = {config}
    /\ \/ /\ out
          /\ pendingWrite' = TRUE
          /\ UNCHANGED <<out, completion, failed, file, torn>>
       \/ /\ ~out
          /\ WriteConfig
          /\ UNCHANGED pendingWrite
       \/ /\ ~out /\ "open" \in Faults
          /\ failed' = TRUE
          /\ UNCHANGED <<out, pendingWrite, completion, file, torn>>
       \/ /\ ~out /\ "throw" \in Faults
          /\ out' = TRUE /\ failed' = TRUE
          /\ UNCHANGED <<pendingWrite, completion, file, torn>>
    /\ UNCHANGED <<phase, config, exists>>

(* The process is gone and its memory with it. *)
End ==
    /\ phase' = "down"
    /\ config' = Nothing
    /\ out' = FALSE
    /\ pendingWrite' = FALSE
    /\ completion' = "none"
    /\ since' = {}
    /\ failed' = FALSE

(* The completion handler of async_write_some, in its three ways through.  *)

(* Mutant of HandleError: it resets _out like the others do. *)
HandleErrorResets ==
    /\ completion = "error"
    /\ completion' = "none" /\ out' = FALSE
    /\ UNCHANGED <<pendingWrite, failed, file, torn>>

(* After an error it returns with _out still set. *)
HandleError ==
    /\ completion = "error"
    /\ completion' = "none"
    /\ UNCHANGED <<out, pendingWrite, failed, file, torn>>

HandleWritten ==
    /\ completion = "ok" /\ ~pendingWrite
    /\ completion' = "none" /\ out' = FALSE
    /\ UNCHANGED <<pendingWrite, failed, file, torn>>

(* Mutant of HandleNoted: updateConfigFile() before _out.reset(), so that  *)
(* the commit is noted again with nothing out.                             *)
HandleNotedTooEarly ==
    /\ completion = "ok" /\ pendingWrite
    /\ completion' = "none" /\ out' = FALSE
    /\ UNCHANGED <<pendingWrite, failed, file, torn>>

(* Commits were noted meanwhile: one write stands for all of them. *)
HandleNoted ==
    /\ completion = "ok" /\ pendingWrite
    /\ pendingWrite' = FALSE
    /\ WriteConfig

WriteHandler ==
    /\ phase = "up"
    /\ HandleError \/ HandleWritten \/ HandleNoted
    /\ UNCHANGED <<phase, config, since, exists>>

(* The noted write throws, before _out is set again or after it.  The      *)
(* exception leaves run(): it ends the process, or the application catches *)
(* it and runs on with nothing noted.                                      *)
WriteHandlerThrows ==
    /\ phase = "up"
    /\ completion = "ok" /\ pendingWrite
    /\ \E fault \in Faults \cap {"open", "throw"} :
          \/ End
          \/ /\ out' = (fault = "throw")
             /\ pendingWrite' = FALSE /\ completion' = "none" /\ failed' = TRUE
             /\ UNCHANGED <<phase, config, since>>
    /\ UNCHANGED disk

-----------------------------------------------------------------------------
(* Ending. *)

(* AppIO::stop(): the loop runs no handler after this one.  Whoever holds  *)
(* the Config may still edit and commit it.                                *)
Stop ==
    /\ phase = "up"
    /\ phase' = "stopped"
    /\ UNCHANGED <<memory, disk>>

Exit ==
    /\ phase = "stopped"
    /\ End
    /\ UNCHANGED disk

Kill ==
    /\ "kill" \in Faults
    /\ phase # "down"
    /\ End
    /\ torn' = IF phase = "creating" THEN TRUE ELSE torn
    /\ UNCHANGED <<exists, file>>

Next ==
    \/ InitializeConfig \/ WriteDefaultConfig \/ OpenConfig \/ OpenConfigThrows
    \/ Insert \/ Restructure \/ Assign
    \/ Commit \/ WriteHandler \/ WriteHandlerThrows
    \/ Stop \/ Exit \/ Kill

Spec == Init /\ [][Next]_vars

(* A program that got its Config calls run(), and io_context::run() runs   *)
(* every completion that is queued: the handlers are fair, the application *)
(* is not.                                                                 *)
FairSpec == Spec /\ WF_vars(WriteHandler)

-----------------------------------------------------------------------------
(* Properties. *)

(* Every variable stays in its set: the file in particular is always a     *)
(* sequence of cells, whatever was written over it.                        *)
TypeOK ==
    /\ phase \in Phases
    /\ config \in Docs \cup {Nothing}
    /\ out \in BOOLEAN
    /\ pendingWrite \in BOOLEAN
    /\ completion \in {"none", "ok", "error"}
    /\ exists \in BOOLEAN
    /\ file \in Seq(Cells)
    /\ since \in SUBSET Docs
    /\ failed \in BOOLEAN
    /\ torn \in BOOLEAN

(* No commit is lost while the process serves: unless a commit is noted in *)
(* _pendingWrite or the last write failed, config.json holds the document  *)
(* last committed or one the application held after it.                    *)
NoLostCommit ==
    phase \in Serving /\ ~pendingWrite /\ ~failed => Stored(file) \in since

(* A noted commit has someone to carry it out: while the loop runs,        *)
(* _pendingWrite is set only with _out, and unless the last write failed   *)
(* only with a completion queued whose handler will write again.  Nothing  *)
(* stays noted where a write threw before _out was set.                    *)
NotedHasWriter ==
    phase = "up" /\ pendingWrite => out /\ (~failed => completion = "ok")

(* config.json can be loaded at every moment a process may die, unless a   *)
(* write was cut short or the file was still being created: that writes    *)
(* neither truncate the file nor replace it does no harm.                  *)
StartLoads ==
    exists /\ ~torn /\ phase # "creating" => Readable(file)

(* A config.json that was created and never filled stays empty, and no     *)
(* later start gets past it: exists() is all that a start asks.            *)
StaysUseless == file' = << >> /\ phase' \in {"down", "loading"}

EmptyIsFinal ==
    [][exists /\ file = << >> /\ phase # "creating" => StaysUseless]_vars

(* A write that ended in an error, or threw once _out was set, is the last *)
(* of its process: _out stays set, so every later commit is noted and none *)
(* is written.                                                             *)
WritesNoMore == (phase' = "down" \/ out') /\ disk' = disk

FailedWriteIsFinal ==
    [][phase = "up" /\ out /\ completion # "ok" => WritesNoMore]_vars

(* Whatever is committed reaches config.json, or is overtaken there by a   *)
(* later document, while the loop runs.                                    *)
CommitsSettle ==
    (phase = "up" /\ Stored(file) \notin since)
        ~> (phase # "up" \/ Stored(file) \in since)

(* Config keeps the promise of ConfigStore, when at worst it is killed.    *)
Mode ==
    IF phase = "up" THEN "on" ELSE IF phase = "stopped" THEN "closing" ELSE "off"

Store == INSTANCE ConfigStore WITH
    Default <- DefaultConfig,
    mode <- Mode,
    stored <- Stored(file),
    owed <- pendingWrite,
    acceptable <- since

ImplementsStore == Store!Spec

(* README.md: config.json "witholds the application config".  After an     *)
(* orderly stop it holds what the application committed last.              *)
StoppedConfigIsSaved == phase = "stopped" => Stored(file) \in since
=============================================================================
