------------------------ MODULE SharedConfig_proofs ------------------------
(***************************************************************************)
(* What the run of MCSharedConfig shows on two processes, proved for any   *)
(* number of them, and for every set of keys and values.                   *)
(***************************************************************************)
EXTENDS SharedConfig, ConfigFile_proofs, TLAPS

(* A file that nobody has written since it was truncated is empty. *)
FileAsWritten ==
    /\ written \in Docs => BeginsWith(file, written)
    /\ written = Nothing => file = << >>

(* The process that truncated config.json last is still about to fill it,  *)
(* or has ended since.  A missing file was written by nobody.              *)
Truncator ==
    /\ ~exists => written = Nothing
    /\ exists => writer \in Processes
    /\ exists /\ written = Nothing => phase[writer] \in {"filling", "down", "loading"}

(* Whoever is past exists() and saw a file, or made it, has one. *)
FileFound ==
    \A p \in Processes : phase[p] \in {"filling", "loading", "up"} => exists

IInv == TypeOK /\ FileAsWritten /\ Truncator /\ FileFound

LEMMA StoredAsWritten ==
    ASSUME TypeOK, FileAsWritten
    PROVE  /\ Stored(file) = written
           /\ Readable(file) <=> written \in Docs
<1>1. CASE written \in Docs
  BY <1>1, StoredIsFirst DEF FileAsWritten
<1>2. CASE written = Nothing
  BY <1>2, EmptyUnreadable, FileAssumption DEF FileAsWritten, Stored
<1> QED
  BY <1>1, <1>2 DEF TypeOK

LEMMA WriteLeaves ==
    ASSUME IInv, NEW p \in Processes, NEW d \in Docs, Write(p, d)
    PROVE  /\ file' \in Seq(Cells) /\ written' = d /\ writer' = p
           /\ BeginsWith(file', d)
BY OverlayType, OverlayBegins, SizePositive DEF Write, IInv, TypeOK

LEMMA InitIInv == Init => IInv
<1> SUFFICES ASSUME Init PROVE IInv
  OBVIOUS
<1>1. << >> \in Seq(Cells)
  OBVIOUS
<1>2. TypeOK
  BY <1>1, FileAssumption DEF Init, TypeOK, Phases
<1>3. FileAsWritten
  BY FileAssumption DEF Init, FileAsWritten
<1> QED
  BY <1>2, <1>3 DEF Init, IInv, Truncator, FileFound

LEMMA NextKeeps == IInv /\ [Next]_vars => IInv'
<1> SUFFICES ASSUME IInv, [Next]_vars PROVE IInv'
  OBVIOUS
<1> USE DEF IInv
<1>0. CASE UNCHANGED vars
  BY <1>0 DEF vars, memory, disk, TypeOK, FileAsWritten, Truncator, FileFound
<1>1. ASSUME NEW p \in Processes, InitializeConfig(p) PROVE IInv'
  BY <1>1 DEF InitializeConfig, Missing, Becomes, memory, disk, TypeOK, Phases,
              FileAsWritten, Truncator, FileFound
<1>2. ASSUME NEW p \in Processes, CreateConfig(p) PROVE IInv'
  <2>1. << >> \in Seq(Cells)
    OBVIOUS
  <2>2. TypeOK'
    BY <1>2, <2>1 DEF CreateConfig, Becomes, memory, TypeOK, Phases
  <2>3. FileAsWritten'
    BY <1>2, FileAssumption DEF CreateConfig, FileAsWritten
  <2>4. Truncator' /\ FileFound'
    BY <1>2, <2>2 DEF CreateConfig, Becomes, TypeOK, Truncator, FileFound
  <2> QED
    BY <2>2, <2>3, <2>4
<1>3. ASSUME NEW p \in Processes, FillConfig(p) PROVE IInv'
  <2>1. /\ file' \in Seq(Cells) /\ written' = DefaultConfig /\ writer' = p
        /\ BeginsWith(file', DefaultConfig)
    BY <1>3, DefaultIsDoc, WriteLeaves DEF FillConfig
  <2>2. TypeOK'
    BY <1>3, <2>1, DefaultIsDoc DEF FillConfig, Becomes, memory, TypeOK, Phases
  <2>3. FileAsWritten' /\ Truncator' /\ FileFound'
    BY <1>3, <2>1, DefaultIsDoc, FileAssumption
       DEF FillConfig, Becomes, TypeOK, FileAsWritten, Truncator, FileFound
  <2> QED
    BY <2>2, <2>3
<1>4. ASSUME NEW p \in Processes, OpenConfig(p) PROVE IInv'
  <2>1. PICK d \in Parses(file) : config' = [config EXCEPT ![p] = d]
    BY <1>4 DEF OpenConfig
  <2>2. d \in Docs /\ file # << >>
    BY <2>1, ParsesType
  <2>3. TypeOK'
    BY <1>4, <2>1, <2>2 DEF OpenConfig, Becomes, disk, TypeOK, Phases
  <2>4. FileAsWritten' /\ Truncator' /\ FileFound'
    BY <1>4, <2>2 DEF OpenConfig, Becomes, disk, TypeOK, FileAsWritten, Truncator, FileFound
  <2> QED
    BY <2>3, <2>4
<1>5. ASSUME NEW p \in Processes, OpenConfigThrows(p) PROVE IInv'
  BY <1>5 DEF OpenConfigThrows, Becomes, memory, disk, TypeOK, Phases,
              FileAsWritten, Truncator, FileFound
<1>6. ASSUME NEW p \in Processes, NEW d \in Docs, Edit(p, d) PROVE IInv'
  BY <1>6 DEF Edit, disk, TypeOK, FileAsWritten, Truncator, FileFound
<1>7. ASSUME NEW p \in Processes, Commit(p) PROVE IInv'
  <2>1. CASE UNCHANGED <<out, file, written, writer>>
    BY <1>7, <2>1 DEF Commit, TypeOK, FileAsWritten, Truncator, FileFound
  <2>2. CASE Write(p, config[p]) /\ out' = [out EXCEPT ![p] = TRUE] /\ UNCHANGED pendingWrite
    <3>1. config[p] \in Docs /\ exists
      BY <1>7 DEF Commit, TypeOK, FileFound
    <3>2. /\ file' \in Seq(Cells) /\ written' = config[p] /\ writer' = p
          /\ BeginsWith(file', config[p])
      BY <2>2, <3>1, WriteLeaves
    <3> QED
      BY <1>7, <2>2, <3>1, <3>2, FileAssumption
         DEF Commit, TypeOK, FileAsWritten, Truncator, FileFound
  <2> QED
    BY <1>7, <2>1, <2>2 DEF Commit
<1>8. ASSUME NEW p \in Processes, WriteHandler(p) PROVE IInv'
  <2>1. CASE UNCHANGED <<pendingWrite, file, written, writer>> /\ out' = [out EXCEPT ![p] = FALSE]
    BY <1>8, <2>1 DEF WriteHandler, TypeOK, FileAsWritten, Truncator, FileFound
  <2>2. CASE /\ Write(p, config[p]) /\ UNCHANGED out
             /\ pendingWrite' = [pendingWrite EXCEPT ![p] = FALSE]
    <3>1. config[p] \in Docs /\ exists
      BY <1>8 DEF WriteHandler, TypeOK, FileFound
    <3>2. /\ file' \in Seq(Cells) /\ written' = config[p] /\ writer' = p
          /\ BeginsWith(file', config[p])
      BY <2>2, <3>1, WriteLeaves
    <3> QED
      BY <1>8, <2>2, <3>1, <3>2, FileAssumption
         DEF WriteHandler, TypeOK, FileAsWritten, Truncator, FileFound
  <2> QED
    BY <1>8, <2>1, <2>2 DEF WriteHandler
<1>9. ASSUME NEW p \in Processes, End(p) PROVE IInv'
  BY <1>9, FileAssumption DEF End, Becomes, disk, TypeOK, Phases,
              FileAsWritten, Truncator, FileFound
<1> QED
  BY <1>0, <1>1, <1>2, <1>3, <1>4, <1>5, <1>6, <1>7, <1>8, <1>9 DEF Next

LEMMA AlwaysIInv == Spec => []IInv
BY InitIInv, NextKeeps, PTL DEF Spec

(***************************************************************************)
(* The theorems.                                                           *)
(***************************************************************************)

(* Type correctness, and a document in memory exactly while serving. *)
THEOREM TypeCorrect == Spec => []TypeOK
<1>1. IInv => TypeOK
  BY DEF IInv
<1> QED
  BY <1>1, AlwaysIInv, PTL

(* The next start loads the document that some process wrote last. *)
THEOREM LastWriteStored == Spec => []LastWriteWins
<1>1. IInv => LastWriteWins
  BY StoredAsWritten DEF IInv, LastWriteWins
<1> QED
  BY <1>1, AlwaysIInv, PTL

(* A start fails only after one that truncated the file and left it.       *)
THEOREM FailedStartsExplained == Spec => []StartsExplained
<1>1. IInv => StartsExplained
  BY StoredAsWritten DEF IInv, StartsExplained, Truncator, TypeOK
<1> QED
  BY <1>1, AlwaysIInv, PTL

LEMMA SettledStays ==
    ASSUME IInv, IInv', [Next]_vars, Settled
    PROVE  Settled'
<1>1. written \in Docs /\ exists
  BY StoredAsWritten, FileAssumption DEF IInv, Settled, Truncator
<1>2. written' \in Docs => Readable(file')
  BY StoredIsFirst DEF IInv, FileAsWritten
<1>3. CASE UNCHANGED vars
  BY <1>3 DEF vars, memory, disk, Settled
<1>4. CASE Next
  <2>1. /\ \A p \in Processes : ~CreateConfig(p) /\ ~FillConfig(p)
    BY DEF Settled, CreateConfig, FillConfig
  <2>2. written' \in Docs
    <3>1. PICK p \in Processes :
            \/ InitializeConfig(p) \/ OpenConfig(p) \/ OpenConfigThrows(p)
            \/ \E d \in Docs : Edit(p, d)
            \/ Commit(p) \/ WriteHandler(p) \/ End(p)
      BY <1>4, <2>1 DEF Next
    <3>2. config[p] \in Docs \/ phase[p] # "up"
      BY DEF IInv, TypeOK
    <3>3. CASE Commit(p)
      BY <1>1, <3>2, <3>3 DEF Commit, Write
    <3>4. CASE WriteHandler(p)
      BY <1>1, <3>2, <3>4 DEF WriteHandler, Write
    <3>5. CASE ~Commit(p) /\ ~WriteHandler(p)
      <4>1. written' = written
        BY <3>1, <3>5 DEF InitializeConfig, OpenConfig, OpenConfigThrows, Edit, End, disk
      <4> QED
        BY <1>1, <4>1
    <3> QED
      BY <3>3, <3>4, <3>5
  <2>3. \A p \in Processes : phase'[p] \notin {"missing", "filling"}
    BY <1>1, <1>4, <2>1 DEF Next, InitializeConfig, OpenConfig, OpenConfigThrows, Edit,
       Commit, WriteHandler, End, Missing, Becomes, Settled, IInv, TypeOK
  <2> QED
    BY <1>2, <2>2, <2>3 DEF Settled
<1> QED
  BY <1>3, <1>4

(* Once filled, with no creator under way, config.json can always be       *)
(* loaded.                                                                 *)
THEOREM SettlesForGood == Spec => SettledForGood
<1>1. IInv /\ IInv' /\ [Next]_vars => [Settled => Settled']_vars
  BY SettledStays
<1> QED
  BY <1>1, AlwaysIInv, PTL DEF Spec, SettledForGood
=============================================================================
