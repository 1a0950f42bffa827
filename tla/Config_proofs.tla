--------------------------- MODULE Config_proofs ---------------------------
(***************************************************************************)
(* What the runs of MCConfig show on two keys, proved for every set of     *)
(* keys and values, every length of their texts and every set of faults.   *)
(***************************************************************************)
EXTENDS Config, ConfigFile_proofs, TLAPS

(***************************************************************************)
(* The inductive invariant.                                                *)
(***************************************************************************)

(* A process that does not serve has nothing in memory. *)
NothingHeld ==
    phase \notin Serving =>
        /\ config = Nothing /\ since = {}
        /\ ~out /\ ~pendingWrite /\ ~failed
        /\ completion = "none"

(* A process that serves holds a document, which a commit of this moment   *)
(* would have to store, and read it from a file with something in it.      *)
DocumentHeld ==
    phase \in Serving => config \in Docs /\ config \in since /\ file # << >>

(* What the handler finds: a commit is noted and a completion queued only  *)
(* while _out is set; _out without a successful completion is a write that *)
(* ended in an error.                                                      *)
OneWriteOut ==
    /\ pendingWrite \/ completion # "none" => out
    /\ out /\ completion # "ok" => failed

(* A missing file has no cells, and neither has one that is being created. *)
FileEmpty ==
    /\ ~exists => file = << >>
    /\ phase = "creating" => exists /\ file = << >>

IInv ==
    /\ TypeOK
    /\ NothingHeld
    /\ DocumentHeld
    /\ OneWriteOut
    /\ FileEmpty
    /\ StartLoads
    /\ NoLostCommit

(***************************************************************************)
(* The writes.                                                             *)
(***************************************************************************)

(* A write leaves a file that begins with the document it wrote, or has    *)
(* failed; a text cut short is torn.                                       *)
LEMMA WriteConfigLeaves ==
    ASSUME TypeOK, config \in Docs, file # << >>, WriteConfig
    PROVE  /\ file' \in Seq(Cells) /\ file' # << >>
           /\ out' /\ completion' \in {"ok", "error"}
           /\ failed' \in BOOLEAN /\ torn' \in BOOLEAN
           /\ completion' = "error" => failed'
           /\ ~failed' => Readable(file') /\ Stored(file') = config
           /\ ~torn' => Readable(file') \/ (file' = file /\ torn' = torn)
<1>1. CASE file' = Overlay(file, config, Size[config]) /\ completion' = "ok" /\ ~failed' /\ ~torn'
  <2>1. file' \in Seq(Cells) /\ file' # << >>
    BY <1>1, OverlayType, SizePositive DEF TypeOK
  <2>2. Readable(file') /\ Stored(file') = config
    BY <1>1, OverlayBegins, StoredIsFirst
  <2> QED
    BY <1>1, <2>1, <2>2 DEF WriteConfig
<1>2. CASE /\ \E n \in 1..Size[config] - 1 : file' = Overlay(file, config, n)
           /\ completion' = "ok" /\ failed' = TRUE /\ torn' = TRUE
  <2>1. file' \in Seq(Cells) /\ file' # << >>
    BY <1>2, OverlayType, SizePositive DEF TypeOK
  <2> QED
    BY <1>2, <2>1 DEF WriteConfig
<1>3. CASE completion' = "error" /\ failed' = TRUE /\ UNCHANGED <<file, torn>>
  BY <1>3 DEF WriteConfig, TypeOK
<1> QED
  BY <1>1, <1>2, <1>3 DEF WriteConfig

(***************************************************************************)
(* The invariant is kept by every step.                                    *)
(***************************************************************************)

LEMMA InitIInv == Init => IInv
<1> SUFFICES ASSUME Init PROVE IInv
  OBVIOUS
<1>1. TypeOK
  <2>1. << >> \in Seq(Cells) /\ {} \in SUBSET Docs
    OBVIOUS
  <2> QED
    BY <2>1 DEF Init, TypeOK, Phases
<1>2. NothingHeld /\ DocumentHeld /\ OneWriteOut /\ FileEmpty /\ StartLoads /\ NoLostCommit
  BY DEF Init, NothingHeld, DocumentHeld, OneWriteOut, FileEmpty, StartLoads, NoLostCommit, Serving
<1> QED
  BY <1>1, <1>2 DEF IInv

LEMMA EditedKeeps ==
    ASSUME IInv, NEW d \in Docs, Edited(d)
    PROVE  IInv'
BY DEF Edited, disk, IInv, TypeOK, NothingHeld, DocumentHeld, OneWriteOut, FileEmpty,
       StartLoads, NoLostCommit, Phases, Serving

LEMMA EditsAreDocs ==
    ASSUME config \in Docs
    PROVE  /\ \A more \in Docs : Merge(config, more) \in Docs
           /\ \A k \in Keys, v \in Values : [config EXCEPT ![k] = v] \in Docs
BY DEF Merge, Docs

LEMMA EndKeeps ==
    ASSUME IInv, End, UNCHANGED <<exists, file>>, torn' \in BOOLEAN,
           ~torn' => ~torn /\ phase # "creating"
    PROVE  IInv'
BY DEF End, IInv, TypeOK, NothingHeld, DocumentHeld, OneWriteOut, FileEmpty,
       StartLoads, NoLostCommit, Phases, Serving

LEMMA NextKeeps == IInv /\ [Next]_vars => IInv'
<1> SUFFICES ASSUME IInv, [Next]_vars PROVE IInv'
  OBVIOUS
<1> USE DEF IInv, TypeOK, NothingHeld, DocumentHeld, OneWriteOut, FileEmpty,
            StartLoads, NoLostCommit, Phases, Serving
<1>1. CASE InitializeConfig
  <2>1. << >> \in Seq(Cells)
    OBVIOUS
  <2>2. CASE exists /\ phase' = "loading" /\ UNCHANGED <<exists, file>>
    BY <1>1, <2>2 DEF InitializeConfig, Missing, memory
  <2>3. CASE ~exists /\ phase' = "creating" /\ exists' = TRUE /\ file' = << >>
    BY <1>1, <2>1, <2>3 DEF InitializeConfig, Missing, memory
  <2>4. CASE ~exists /\ phase' = "loading" /\ UNCHANGED <<exists, file>>
    BY <1>1, <2>4 DEF InitializeConfig, Missing, memory
  <2> QED
    BY <1>1, <2>2, <2>3, <2>4 DEF InitializeConfig, Missing
<1>2. CASE WriteDefaultConfig
  <2>1. PICK n \in 0..Size[DefaultConfig] :
            /\ file' = Overlay(file, DefaultConfig, n)
            /\ torn' = (n < Size[DefaultConfig])
    <3>1. Size[DefaultConfig] \in 0..Size[DefaultConfig]
      BY SizePositive, DefaultIsDoc
    <3> QED
      BY <1>2, <3>1 DEF WriteDefaultConfig
  <2>2. n \in Nat /\ Size[DefaultConfig] \in Nat
    BY SizePositive, DefaultIsDoc
  <2>3. file' \in Seq(Cells)
    BY <2>1, <2>2, OverlayType, DefaultIsDoc
  <2>4. ~torn' => Readable(file')
    <3>1. ~torn' => n = Size[DefaultConfig]
      <4>1. n # Size[DefaultConfig] => n < Size[DefaultConfig]
        BY <2>2
      <4> QED
        BY <2>1, <4>1, Zenon
    <3>2. Readable(Overlay(file, DefaultConfig, Size[DefaultConfig]))
      BY OverlayBegins, StoredIsFirst, DefaultIsDoc
    <3> QED
      BY <2>1, <3>1, <3>2
  <2> QED
    BY <1>2, <2>1, <2>3, <2>4 DEF WriteDefaultConfig, memory
<1>3. CASE OpenConfig
  <2>1. config' \in Docs /\ file # << >> /\ (Readable(file) => Stored(file) = config')
    BY <1>3, ParsesType DEF OpenConfig
  <2> QED
    BY <1>3, <2>1 DEF OpenConfig, disk
<1>4. CASE OpenConfigThrows
  BY <1>4 DEF OpenConfigThrows, memory, disk
<1>5. CASE Insert \/ Restructure \/ Assign
  <2>1. \E d \in Docs : Edited(d)
    BY <1>5, EditsAreDocs DEF Insert, Restructure, Assign, Edited
  <2> QED
    BY <2>1, EditedKeeps
<1>6. CASE Commit
  <2>1. CASE out /\ pendingWrite' = TRUE /\ UNCHANGED <<out, completion, failed, file, torn>>
    BY <1>6, <2>1 DEF Commit
  <2>2. CASE ~out /\ WriteConfig /\ UNCHANGED pendingWrite
    BY <1>6, <2>2, WriteConfigLeaves DEF Commit
  <2>3. CASE ~out /\ failed' = TRUE /\ UNCHANGED <<out, pendingWrite, completion, file, torn>>
    BY <1>6, <2>3 DEF Commit
  <2>4. CASE /\ ~out /\ out' = TRUE /\ failed' = TRUE
             /\ UNCHANGED <<pendingWrite, completion, file, torn>>
    BY <1>6, <2>4 DEF Commit
  <2> QED
    BY <1>6, <2>1, <2>2, <2>3, <2>4 DEF Commit
<1>7. CASE WriteHandler
  <2>1. CASE HandleError
    BY <1>7, <2>1 DEF WriteHandler, HandleError
  <2>2. CASE HandleWritten
    BY <1>7, <2>2 DEF WriteHandler, HandleWritten
  <2>3. CASE HandleNoted
    BY <1>7, <2>3, WriteConfigLeaves DEF WriteHandler, HandleNoted
  <2> QED
    BY <1>7, <2>1, <2>2, <2>3 DEF WriteHandler
<1>8. CASE WriteHandlerThrows
  <2>1. CASE End
    BY <1>8, <2>1, EndKeeps DEF WriteHandlerThrows, disk
  <2>2. CASE /\ out' \in BOOLEAN /\ pendingWrite' = FALSE /\ completion' = "none"
             /\ failed' = TRUE /\ UNCHANGED <<phase, config, since>>
    BY <1>8, <2>2 DEF WriteHandlerThrows, disk
  <2> QED
    BY <1>8, <2>1, <2>2 DEF WriteHandlerThrows
<1>9. CASE Stop
  BY <1>9 DEF Stop, memory, disk
<1>10. CASE Exit
  BY <1>10, EndKeeps DEF Exit, disk
<1>11. CASE Kill
  <2>1. torn' \in BOOLEAN /\ (~torn' => ~torn /\ phase # "creating")
    BY <1>11 DEF Kill, IInv, TypeOK
  <2> QED
    BY <1>11, <2>1, EndKeeps DEF Kill
<1>12. CASE UNCHANGED vars
  BY <1>12 DEF vars, memory, disk
<1> QED
  BY <1>1, <1>2, <1>3, <1>4, <1>5, <1>6, <1>7, <1>8, <1>9, <1>10, <1>11, <1>12 DEF Next

(***************************************************************************)
(* The theorems.                                                           *)
(***************************************************************************)

(* The invariant above holds of every reachable state: it is what the      *)
(* theorems below follow from.                                             *)
THEOREM Inductive == Spec => []IInv
BY InitIInv, NextKeeps, PTL DEF Spec

(* Types: whatever was written over config.json, it is a sequence of cells *)
(* and every variable of Config.hpp is in its set.                         *)
THEOREM TypeCorrect == Spec => []TypeOK
<1>1. IInv => TypeOK
  BY DEF IInv
<1> QED
  BY <1>1, Inductive, PTL

(* commit(), updateConfigFile(): a commit is lost only to a write that     *)
(* failed or to the end of the process.                                    *)
THEOREM CommitsKept == Spec => []NoLostCommit
<1>1. IInv => NoLostCommit
  BY DEF IInv
<1> QED
  BY <1>1, Inductive, PTL

(* updateConfigFile(): a noted commit has a completion to carry it out.    *)
THEOREM NotedCommitsHaveWriter == Spec => []NotedHasWriter
<1>1. IInv => NotedHasWriter
  BY DEF IInv, OneWriteOut, NotedHasWriter
<1> QED
  BY <1>1, Inductive, PTL

(* openConfig(): config.json can be loaded after a death at any moment,    *)
(* unless a write was cut short or the file was being created.             *)
THEOREM Restartable == Spec => []StartLoads
<1>1. IInv => StartLoads
  BY DEF IInv
<1> QED
  BY <1>1, Inductive, PTL

(* initializeConfig(): a config.json left empty by a death in              *)
(* writeDefaultConfig() stays empty and no process gets past it.           *)
THEOREM EmptyStaysEmpty == Spec => EmptyIsFinal
<1> DEFINE Empty == exists /\ file = << >> /\ phase # "creating"
<1>1. IInv /\ [Next]_vars => [Empty => StaysUseless]_vars
  <2> SUFFICES ASSUME IInv, [Next]_vars, Empty, vars' # vars PROVE StaysUseless
    BY Zenon
  <2>1. phase \notin Serving
    BY DEF IInv, DocumentHeld
  <2>2. ~OpenConfig
    BY ParsesType DEF OpenConfig
  <2> QED
    BY <2>1, <2>2 DEF StaysUseless, Next, InitializeConfig, Missing, WriteDefaultConfig, OpenConfigThrows,
       Insert, Restructure, Assign, Edited, Commit, WriteHandler, WriteHandlerThrows, End,
       Stop, Exit, Kill, Serving, disk, vars
<1> QED
  BY <1>1, Inductive, PTL DEF Spec, EmptyIsFinal

(* The handler that returns on an error, and the exception that leaves     *)
(* _out set: no write of the same process follows, whatever is committed.  *)
THEOREM FailedWriteEndsWriting == Spec => FailedWriteIsFinal
<1> DEFINE Failed == phase = "up" /\ out /\ completion # "ok"
<1>1. [Next]_vars => [Failed => WritesNoMore]_vars
  <2> SUFFICES ASSUME Next, Failed PROVE WritesNoMore
    BY Zenon
  <2>1. CASE Insert \/ Restructure \/ Assign \/ Stop
    BY <2>1 DEF Insert, Restructure, Assign, Edited, Stop, WritesNoMore, memory
  <2>2. CASE Commit
    BY <2>2 DEF Commit, WritesNoMore, disk
  <2>3. CASE WriteHandler
    BY <2>3 DEF WriteHandler, HandleError, HandleWritten, HandleNoted, WritesNoMore, disk
  <2>4. CASE Kill
    BY <2>4 DEF Kill, End, WritesNoMore, disk
  <2> QED
    BY <2>1, <2>2, <2>3, <2>4 DEF Next, InitializeConfig, Missing, WriteDefaultConfig, OpenConfig,
       OpenConfigThrows, WriteHandlerThrows, Exit
<1> QED
  BY <1>1, PTL DEF Spec, FailedWriteIsFinal

(***************************************************************************)
(* Config implements ConfigStore when it is at worst killed.  The mapping  *)
(* needs one fact more: no text in the file is cut short.                  *)
(***************************************************************************)

Whole == file = << >> \/ Readable(file)

LEMMA WholeWrites ==
    ASSUME Faults \subseteq {"kill"}, TypeOK, config \in Docs, WriteConfig
    PROVE  Readable(file') /\ Stored(file') = config
<1>1. file' = Overlay(file, config, Size[config])
  BY DEF WriteConfig
<1> QED
  BY <1>1, OverlayBegins, StoredIsFirst

LEMMA WholeDefault ==
    ASSUME Faults \subseteq {"kill"}, WriteDefaultConfig
    PROVE  Readable(file') /\ Stored(file') = DefaultConfig
<1>1. file' = Overlay(file, DefaultConfig, Size[DefaultConfig])
  BY DEF WriteDefaultConfig
<1> QED
  BY <1>1, OverlayBegins, StoredIsFirst, DefaultIsDoc

LEMMA WholeKept ==
    ASSUME Faults \subseteq {"kill"}, IInv, Whole, [Next]_vars
    PROVE  Whole'
<1>1. CASE Commit
  BY <1>1, WholeWrites DEF Commit, IInv, DocumentHeld, Whole
<1>2. CASE WriteHandler
  BY <1>2, WholeWrites DEF WriteHandler, HandleError, HandleWritten, HandleNoted, IInv,
     DocumentHeld, Whole, Serving
<1>3. CASE WriteDefaultConfig
  BY <1>3, WholeDefault DEF Whole
<1>4. CASE InitializeConfig
  BY <1>4 DEF InitializeConfig, Missing, Whole
<1>5. CASE Insert \/ Restructure \/ Assign
  BY <1>5 DEF Insert, Restructure, Assign, Edited, Whole, disk
<1>6. CASE UNCHANGED file
  BY <1>6 DEF Whole
<1> QED
  BY <1>1, <1>2, <1>3, <1>4, <1>5, <1>6 DEF Next, OpenConfig, OpenConfigThrows,
     WriteHandlerThrows, Stop, Exit, Kill, disk, memory, vars

LEMMA StoreStep ==
    ASSUME Faults \subseteq {"kill"}, IInv, IInv', Whole, [Next]_vars
    PROVE  [Store!Next]_(Store!vars)
<1> USE DEF Serving, Mode
<1>1. CASE InitializeConfig
  <2>1. file' = file
    BY <1>1 DEF InitializeConfig, Missing, IInv, FileEmpty
  <2> QED
    BY <1>1, <2>1 DEF InitializeConfig, Missing, memory, Store!vars
<1>2. CASE WriteDefaultConfig
  <2>1. Stored(file) = Nothing
    BY <1>2, EmptyUnreadable DEF WriteDefaultConfig, IInv, FileEmpty, Stored
  <2>2. Store!Format
    BY <1>2, <2>1, WholeDefault DEF WriteDefaultConfig, memory, Store!Format
  <2> QED
    BY <2>2 DEF Store!Next
<1>3. CASE OpenConfig
  <2>1. Readable(file) /\ config' = Stored(file) /\ Stored(file) # Nothing
    BY <1>3, ParsesType, FileAssumption DEF OpenConfig, Whole
  <2>2. Store!Open
    BY <1>3, <2>1 DEF OpenConfig, disk, Store!Open
  <2> QED
    BY <2>2 DEF Store!Next
<1>4. CASE OpenConfigThrows
  BY <1>4 DEF OpenConfigThrows, memory, disk, Store!vars
<1>5. CASE Insert \/ Restructure \/ Assign
  <2>1. PICK d \in Docs : Edited(d)
    BY <1>5, EditsAreDocs DEF Insert, Restructure, Assign, Edited, IInv, DocumentHeld
  <2>2. Store!Edit
    BY <2>1 DEF Edited, disk, Store!Edit
  <2> QED
    BY <2>2 DEF Store!Next
<1>6. CASE Commit
  <2>1. Mode # "off" /\ Mode' = Mode /\ since' = {config} /\ config' = config
    BY <1>6 DEF Commit
  <2>2. out => pendingWrite' = TRUE /\ Stored(file') = Stored(file)
    BY <1>6 DEF Commit
  <2>3. ~out => ~pendingWrite /\ pendingWrite' = pendingWrite /\ Stored(file') = config
    BY <1>6, WholeWrites DEF Commit, IInv, DocumentHeld, OneWriteOut
  <2>4. Store!Commit
    BY <2>1, <2>2, <2>3 DEF Store!Commit
  <2> QED
    BY <2>4 DEF Store!Next
<1>7. CASE WriteHandler
  <2>1. CASE HandleError \/ HandleWritten
    BY <1>7, <2>1 DEF WriteHandler, HandleError, HandleWritten, Store!vars
  <2>2. CASE HandleNoted
    <3>1. Store!Flush
      BY <1>7, <2>2, WholeWrites DEF WriteHandler, HandleNoted, IInv, DocumentHeld, Store!Flush
    <3> QED
      BY <3>1 DEF Store!Next
  <2> QED
    BY <1>7, <2>1, <2>2 DEF WriteHandler
<1>8. ~WriteHandlerThrows
  BY DEF WriteHandlerThrows
<1>9. CASE Stop
  <2>1. Store!Stop
    BY <1>9 DEF Stop, memory, disk, Store!Stop
  <2> QED
    BY <2>1 DEF Store!Next
<1>10. CASE Exit \/ Kill
  <2>1. End /\ file' = file /\ phase # "down"
    BY <1>10 DEF Exit, Kill, disk
  <2>2. CASE phase \in Serving
    <3>1. Store!Close
      BY <2>1, <2>2 DEF End, Store!Close
    <3> QED
      BY <3>1 DEF Store!Next
  <2>3. CASE phase \notin Serving
    BY <2>1, <2>3 DEF End, IInv, NothingHeld, TypeOK, Store!vars
  <2> QED
    BY <2>2, <2>3
<1>11. CASE UNCHANGED vars
  BY <1>11 DEF vars, memory, disk, Store!vars
<1> QED
  BY <1>1, <1>2, <1>3, <1>4, <1>5, <1>6, <1>7, <1>8, <1>9, <1>10, <1>11 DEF Next

(* Config.hpp as a store: the descriptor, the noted commit and the         *)
(* completion handler together do what ConfigStore allows, and nothing     *)
(* else, however the process is killed and started again.                  *)
THEOREM StoreRefinement ==
    ASSUME Faults \subseteq {"kill"}
    PROVE  Spec => Store!SafeSpec
<1>1. Init => Whole /\ Store!Init
  BY EmptyUnreadable DEF Init, Whole, Mode, Stored, Store!Init
<1>2. IInv /\ IInv' /\ Whole /\ [Next]_vars => Whole' /\ [Store!Next]_(Store!vars)
  BY WholeKept, StoreStep
<1> QED
  BY <1>1, <1>2, Inductive, PTL DEF Spec, Store!SafeSpec
=============================================================================
