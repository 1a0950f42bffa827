---------------------------- MODULE SharedConfig ----------------------------
(***************************************************************************)
(* AppIO/Config.hpp in several processes that were started with the same   *)
(* name and so share one config.json.  Nothing locks it: what one process  *)
(* does between two steps of the start of another is all there is to see.  *)
(*                                                                         *)
(* The write faults are module Config's subject; here a process is at      *)
(* worst killed.  A single write or read of a file this short is atomic.   *)
(***************************************************************************)
EXTENDS ConfigFile

CONSTANTS
    Processes,
    Nobody         (* no process                                           *)

ASSUME SharedConfigAssumption == Nobody \notin Processes

VARIABLES
    phase,         (* of each process: see Phases                          *)
    config,        (* *_config                                             *)
    out,           (* _out is set, and its completion queued               *)
    pendingWrite,  (* _pendingWrite                                        *)
    exists,        (* config.json exists                                   *)
    file,          (* its cells                                            *)
    written,       (* history: the document written last, Nothing since    *)
                   (* the file was truncated                               *)
    writer         (* history: the process that wrote it                   *)

memory == <<config, out, pendingWrite>>
disk == <<exists, file, written, writer>>
vars == <<phase, memory, disk>>

(* "missing": exists() said no; "filling": the ofstream is open.           *)
Phases == {"down", "missing", "filling", "loading", "up"}

Init ==
    /\ phase = [p \in Processes |-> "down"]
    /\ config = [p \in Processes |-> Nothing]
    /\ out = [p \in Processes |-> FALSE]
    /\ pendingWrite = [p \in Processes |-> FALSE]
    /\ exists = FALSE /\ file = << >> /\ written = Nothing /\ writer = Nobody

Becomes(p, next) == phase' = [phase EXCEPT ![p] = next]

Write(p, d) ==
    /\ file' = Overlay(file, d, Size[d])
    /\ written' = d /\ writer' = p

-----------------------------------------------------------------------------
(* The start of a process. *)

(* Mutant of Missing: an existing config.json is not looked for. *)
MissingAlways == TRUE

Missing == ~exists

InitializeConfig(p) ==
    /\ phase[p] = "down"
    /\ Becomes(p, IF Missing THEN "missing" ELSE "loading")
    /\ UNCHANGED <<memory, disk>>

(* The ofstream truncates what another process may have made meanwhile.    *)
CreateConfig(p) ==
    /\ phase[p] = "missing"
    /\ Becomes(p, "filling")
    /\ exists' = TRUE /\ file' = << >> /\ written' = Nothing /\ writer' = p
    /\ UNCHANGED memory

FillConfig(p) ==
    /\ phase[p] = "filling"
    /\ Becomes(p, "loading")
    /\ Write(p, DefaultConfig)
    /\ UNCHANGED <<memory, exists>>

OpenConfig(p) ==
    /\ phase[p] = "loading"
    /\ Becomes(p, "up")
    /\ \E d \in Parses(file) : config' = [config EXCEPT ![p] = d]
    /\ UNCHANGED <<out, pendingWrite, disk>>

(* nlohmann throws and the process ends. *)
OpenConfigThrows(p) ==
    /\ phase[p] = "loading" /\ ~Readable(file)
    /\ Becomes(p, "down")
    /\ UNCHANGED <<memory, disk>>

-----------------------------------------------------------------------------
(* Its service. *)

Edit(p, d) ==
    /\ phase[p] = "up"
    /\ config' = [config EXCEPT ![p] = d]
    /\ UNCHANGED <<phase, out, pendingWrite, disk>>

Commit(p) ==
    /\ phase[p] = "up"
    /\ \/ /\ out[p]
          /\ pendingWrite' = [pendingWrite EXCEPT ![p] = TRUE]
          /\ UNCHANGED <<out, file, written, writer>>
       \/ /\ ~out[p]
          /\ Write(p, config[p])
          /\ out' = [out EXCEPT ![p] = TRUE]
          /\ UNCHANGED pendingWrite
    /\ UNCHANGED <<phase, config, exists>>

(* Mutant of Noted: the handler asks about the wrong flag. *)
NotedNever(p) == FALSE

Noted(p) == pendingWrite[p]

(* The completion handler of the write. *)
WriteHandler(p) ==
    /\ phase[p] = "up" /\ out[p]
    /\ \/ /\ Noted(p)
          /\ pendingWrite' = [pendingWrite EXCEPT ![p] = FALSE]
          /\ Write(p, config[p])
          /\ UNCHANGED out
       \/ /\ ~Noted(p)
          /\ out' = [out EXCEPT ![p] = FALSE]
          /\ UNCHANGED <<pendingWrite, file, written, writer>>
    /\ UNCHANGED <<phase, config, exists>>

(* The process ends, in order or killed, whatever it is doing. *)
End(p) ==
    /\ phase[p] # "down"
    /\ Becomes(p, "down")
    /\ config' = [config EXCEPT ![p] = Nothing]
    /\ out' = [out EXCEPT ![p] = FALSE]
    /\ pendingWrite' = [pendingWrite EXCEPT ![p] = FALSE]
    /\ UNCHANGED disk

Next ==
    \E p \in Processes :
        \/ InitializeConfig(p) \/ CreateConfig(p) \/ FillConfig(p)
        \/ OpenConfig(p) \/ OpenConfigThrows(p)
        \/ \E d \in Docs : Edit(p, d)
        \/ Commit(p) \/ WriteHandler(p) \/ End(p)

Spec == Init /\ [][Next]_vars

(* io_context::run() runs the completions of every process that serves. *)
FairSpec == Spec /\ \A p \in Processes : WF_vars(WriteHandler(p))

-----------------------------------------------------------------------------
(* Properties. *)

(* Every variable stays in its set; exactly the processes that serve have  *)
(* a document.                                                             *)
TypeOK ==
    /\ phase \in [Processes -> Phases]
    /\ config \in [Processes -> Docs \cup {Nothing}]
    /\ \A p \in Processes : config[p] \in Docs <=> phase[p] = "up"
    /\ out \in [Processes -> BOOLEAN]
    /\ pendingWrite \in [Processes -> BOOLEAN]
    /\ exists \in BOOLEAN
    /\ file \in Seq(Cells)
    /\ written \in Docs \cup {Nothing}
    /\ writer \in Processes \cup {Nobody}

(* In whatever order the processes write over each other's texts, what the *)
(* next start loads is the whole document written last, never a splice of  *)
(* two; and it is nothing only between a creator's truncation and the next *)
(* write.                                                                  *)
LastWriteWins == Stored(file) = written

(* A start fails on a config.json that exists only because another start   *)
(* has truncated it and has not filled it yet, or ended before it did: the *)
(* process that wrote last is not one that serves.                         *)
StartsExplained ==
    exists /\ ~Readable(file)
        => writer \in Processes /\ phase[writer] \in {"filling", "down", "loading"}

(* Once config.json is filled and no start that missed it is under way,    *)
(* every later start finds it and can load it, whoever else writes it.     *)
Settled ==
    Readable(file) /\ \A p \in Processes : phase[p] \notin {"missing", "filling"}

SettledForGood == [][Settled => Settled']_vars

(* A noted commit is written while its process runs, whatever the other    *)
(* processes write meanwhile.                                              *)
NotedIsWritten ==
    \A p \in Processes :
        (phase[p] = "up" /\ pendingWrite[p])
            ~> (phase[p] # "up" \/ (~pendingWrite[p] /\ writer = p))
=============================================================================
