---------------------------- MODULE PipelineProofs ----------------------------
(***************************************************************************)
(* Proofs about Pipeline: a command that gets past the decryption has what *)
(* a finished run dumped, a stored backup stays restorable until cleanup   *)
(* removes it or the key is replaced, cleanup removes what is old, and the *)
(* report of verify adds up for every dump.                                *)
(***************************************************************************)
EXTENDS Pipeline, FiniteSetTheorems, Prefixes

\* A record without temporary files has the type of a run.
LEMMA NoBackupTypes == NoBackup \in Backup /\ [NoBackup EXCEPT !.pc = "failed"] \in Backup
  BY DEF NoBackup, Backup, Data, Gz

\* ... and of a command.
LEMMA NoReadingTypes ==
  ASSUME NEW j \in Run
  PROVE  NoReading(j) \in Reading /\ [NoReading(j) EXCEPT !.pc = "failed"] \in Reading
  BY DEF NoReading, Reading, Data, Gz

\* A run whose place changes is still a run.
LEMMA BackupAt ==
  ASSUME NEW b \in Backup, NEW pc \in {"idle", "dump", "zip", "save", "saving", "ok", "failed"}
  PROVE  [b EXCEPT !.pc = pc] \in Backup /\ [b EXCEPT !.pc = pc].key = b.key
  BY DEF Backup

\* A command whose place changes is still a command.
LEMMA ReadingAt ==
  ASSUME NEW b \in Reading,
         NEW pc \in {"idle", "ready", "gz", "sql", "applying", "done", "failed", "broke"}
  PROVE  [b EXCEPT !.pc = pc] \in Reading
  BY DEF Reading

\* What Save writes is a file: the run has a key by then.
LEMMA SealedTypes ==
  ASSUME NEW j \in Run, run[j] \in Backup, run[j].key # NoKey, NEW whole \in BOOLEAN
  PROVE  Sealed(j, whole) \in File
  BY DEF Sealed, Backup, File

\* A run has a key from the moment it has a place in the pipeline.
KeyLoaded ==
  \A j \in Run : run[j].pc \in {"dump", "zip", "save", "saving", "ok"} => run[j].key # NoKey

TypedInv == TypeOK /\ KeyLoaded

\* Each step of a run keeps the types of runs and files, and gives it a key first.
LEMMA BackupStepTypes ==
  ASSUME TypedInv, NEW j \in Run, BackupStep(j)
  PROVE  TypedInv'
<1> USE DEF TypedInv, TypeOK
<1>a. run[j] \in Backup
  OBVIOUS
<1>1. CASE LoadKey(j)
  <2>1. [run[j] EXCEPT !.pc = "dump", !.key = key] \in Backup
    BY <1>1, <1>a DEF LoadKey, Backup
  <2>2. run' = [run EXCEPT ![j] = [run[j] EXCEPT !.pc = "dump", !.key = key]]
    BY <1>1 DEF LoadKey
  <2>3. run' \in [Run -> Backup]
    BY <2>1, <2>2
  <2>4. run'[j].key # NoKey
    BY <1>1, <1>a, <2>2 DEF LoadKey, Backup
  <2> QED
    BY <1>1, <2>2, <2>3, <2>4 DEF LoadKey, KeyLoaded
<1>2. CASE Dump(j)
  <2>1. [run[j] EXCEPT !.pc = "zip", !.data = database] \in Backup
    BY <1>2, <1>a DEF Dump, Backup
  <2>2. run' = [run EXCEPT ![j] = [run[j] EXCEPT !.pc = "zip", !.data = database]]
    BY <1>2 DEF Dump
  <2>3. run' \in [Run -> Backup]
    BY <2>1, <2>2
  <2>4. run'[j].key = run[j].key
    BY <1>a, <2>2 DEF Backup
  <2> QED
    BY <1>2, <2>2, <2>3, <2>4 DEF Dump, KeyLoaded
<1>3. CASE Compress(j)
  <2>1. PICK gz \in Gz : run' = [run EXCEPT ![j] = [run[j] EXCEPT !.pc = "save", !.gz = gz]]
    BY <1>3 DEF Compress
  <2>2. [run[j] EXCEPT !.pc = "save", !.gz = gz] \in Backup
    BY <1>a DEF Backup
  <2>3. run' \in [Run -> Backup]
    BY <2>1, <2>2
  <2>4. run'[j].key = run[j].key
    BY <1>a, <2>1 DEF Backup
  <2> QED
    BY <1>3, <2>1, <2>3, <2>4 DEF Compress, KeyLoaded
<1>4. CASE SaveOpen(j)
  <2>0. run' = [run EXCEPT ![j] = [run[j] EXCEPT !.pc = "saving"]]
    BY <1>4 DEF SaveOpen, Step
  <2>a. [run[j] EXCEPT !.pc = "saving"] \in Backup /\ [run[j] EXCEPT !.pc = "saving"].key = run[j].key
    BY <1>a, BackupAt
  <2>1. run' \in [Run -> Backup] /\ run'[j].key = run[j].key
    BY <2>0, <2>a
  <2>2. Sealed(j, FALSE) \in File
    BY <1>4, <1>a, SealedTypes DEF SaveOpen, Step, KeyLoaded
  <2> QED
    BY <1>4, <2>1, <2>2 DEF SaveOpen, Step, KeyLoaded
<1>5. CASE SaveDone(j)
  <2>0. run' = [run EXCEPT ![j] = [run[j] EXCEPT !.pc = "ok"]]
    BY <1>5 DEF SaveDone, Step
  <2>a. [run[j] EXCEPT !.pc = "ok"] \in Backup /\ [run[j] EXCEPT !.pc = "ok"].key = run[j].key
    BY <1>a, BackupAt
  <2>1. run' \in [Run -> Backup] /\ run'[j].key = run[j].key
    BY <2>0, <2>a
  <2>2. Sealed(j, TRUE) \in File
    BY <1>5, <1>a, SealedTypes DEF SaveDone, Step, KeyLoaded
  <2> QED
    BY <1>5, <2>1, <2>2 DEF SaveDone, Step, KeyLoaded
<1>6. CASE SaveFails(j) \/ BackupFails(j)
  <2>1. run' \in [Run -> Backup] /\ file' \in [Run -> File \cup {NoFile}]
    BY <1>6, NoBackupTypes DEF SaveFails, BackupFails
  <2>2. run'[j].pc = "failed"
    BY <1>6 DEF SaveFails, BackupFails, NoBackup
  <2> QED
    BY <1>6, <2>1, <2>2 DEF SaveFails, BackupFails, KeyLoaded
<1> QED
  BY <1>1, <1>2, <1>3, <1>4, <1>5, <1>6 DEF BackupStep

\* Each step of a command keeps the types of commands and of the database.
LEMMA ReaderStepTypes ==
  ASSUME TypedInv, NEW r \in Reader, ReaderStep(r)
  PROVE  TypedInv'
<1> USE DEF TypedInv, TypeOK
<1>a. reader[r] \in Reading /\ reader[r].of \in Run
  BY DEF Reading
<1>1. ASSUME NEW kind \in {"restore", "verify", "decrypt"}, NEW j \in Run, Begin(r, kind, j)
      PROVE  TypedInv'
  <2>1. [reader[r] EXCEPT !.pc = "ready", !.kind = kind, !.of = j, !.key = key] \in Reading
    BY <1>1, <1>a DEF Reading
  <2> QED
    BY <1>1, <2>1 DEF Begin, KeyLoaded
<1>2. CASE Decrypt(r)
  <2> DEFINE s == file[reader[r].of]
  <2>1. s \in File
    BY <1>2, <1>a DEF Decrypt
  <2>2. [reader[r] EXCEPT !.pc = "gz", !.gz = s.gz, !.data = s.data] \in Reading
    BY <1>a, <2>1 DEF Reading, File
  <2>3. reader' = [reader EXCEPT ![r] =
                     [reader[r] EXCEPT !.pc = "gz", !.gz = s.gz, !.data = s.data]]
    BY <1>2 DEF Decrypt
  <2> HIDE DEF s
  <2> QED
    BY <1>2, <2>2, <2>3 DEF Decrypt, KeyLoaded
<1>3. CASE Decompress(r)
  <2>1. reader' \in [Reader -> Reading]
    <3>1. PICK scan \in ScansFor(r) :
            reader' = [reader EXCEPT ![r] = [reader[r] EXCEPT !.scan = scan,
                         !.pc = IF reader[r].kind = "restore" THEN "sql" ELSE "done"]]
      BY <1>3 DEF Decompress
    <3>2. scan \in {"none", "sql", "mongo"}
      BY <3>1 DEF ScansFor
    <3>3. [reader[r] EXCEPT !.scan = scan,
             !.pc = IF reader[r].kind = "restore" THEN "sql" ELSE "done"] \in Reading
      BY <1>a, <3>2 DEF Reading
    <3> QED
      BY <3>1, <3>3, <1>a
  <2>2. certified' \in SUBSET Run
    BY <1>3, <1>a DEF Decompress, Certify
  <2> QED
    BY <1>3, <2>1, <2>2 DEF Decompress, KeyLoaded
<1>4. CASE ReaderFails(r)
  BY <1>4, <1>a, NoReadingTypes DEF ReaderFails, KeyLoaded
<1>5. CASE Apply(r)
  <2>1. [reader[r] EXCEPT !.pc = "applying", !.alone = (Applying = {})] \in Reading
    BY <1>a DEF Reading
  <2>2. \A q \in Reader : [reader[q] EXCEPT !.alone = FALSE] \in Reading
    BY DEF Reading
  <2>3. reader' \in [Reader -> Reading]
    BY <1>5, <2>1, <2>2 DEF Apply
  <2> QED
    BY <1>5, <2>3 DEF Apply, KeyLoaded, Data
<1>6. CASE ApplyDone(r)
  <2>1. database' \in Data
    BY <1>6, <1>a DEF ApplyDone, Reading, Data
  <2>2. reader' \in [Reader -> Reading]
    BY <1>6, <1>a, ReadingAt DEF ApplyDone
  <2> QED
    BY <1>6, <2>1, <2>2 DEF ApplyDone, KeyLoaded
<1>7. CASE ApplyFails(r)
  BY <1>7, <1>a, ReadingAt DEF ApplyFails, KeyLoaded
<1> QED
  BY <1>1, <1>2, <1>3, <1>4, <1>5, <1>6, <1>7 DEF ReaderStep

\* Cleanup keeps its types.
LEMMA CleanupStepTypes ==
  ASSUME TypedInv, CleanupStep
  PROVE  TypedInv'
<1> USE DEF TypedInv, TypeOK
<1>1. ASSUME NEW dry \in BOOLEAN, NEW here \in BOOLEAN, ListBackupFiles(dry, here)
      PROVE  TypedInv'
  <2> DEFINE list == IF here THEN OldFiles ELSE {}
  <2>1. OldFiles \in SUBSET Run /\ list \in SUBSET Run
    BY DEF OldFiles
  <2>2. clean' = [clean EXCEPT !.pc = IF list = {} THEN "done" ELSE "listed", !.dry = dry,
                               !.here = here, !.found = OldFiles, !.left = list]
    BY <1>1 DEF ListBackupFiles
  <2> HIDE DEF list
  <2>3. clean' \in Cleanup
    BY <2>1, <2>2 DEF Cleanup
  <2> QED
    BY <1>1, <2>3 DEF ListBackupFiles, KeyLoaded
<1>2. CASE CleanupStops
  BY <1>2 DEF CleanupStops, Cleanup, KeyLoaded
<1>3. ASSUME NEW j \in Run, RemoveOld(j) \/ RemoveOldFails(j)
      PROVE  TypedInv'
  <2>1. Left(j) \in Cleanup /\ [Left(j) EXCEPT !.whole = FALSE] \in Cleanup
    BY DEF Left, Cleanup
  <2> QED
    BY <1>3, <2>1 DEF RemoveOld, RemoveOldFails, KeyLoaded
<1> QED
  BY <1>1, <1>2, <1>3 DEF CleanupStep

\* No step leaves the types.
LEMMA TypedStep == TypedInv /\ [Next]_vars => TypedInv'
<1> SUFFICES ASSUME TypedInv, [Next]_vars PROVE TypedInv'
  OBVIOUS
<1>1. CASE \E j \in Run : BackupStep(j)
  BY <1>1, BackupStepTypes
<1>2. CASE \E r \in Reader : ReaderStep(r)
  BY <1>2, ReaderStepTypes
<1>3. CASE CleanupStep
  BY <1>3, CleanupStepTypes
<1>4. CASE World
  BY <1>4 DEF World, Write, WriteKey, GrowsOld, TypedInv, TypeOK, KeyLoaded, Data
<1>5. CASE UNCHANGED vars
  BY <1>5 DEF vars, TypedInv, TypeOK, KeyLoaded
<1> QED
  BY <1>1, <1>2, <1>3, <1>4, <1>5 DEF Next

\* Nothing has happened at first.
LEMMA InitTyped == Init => TypedInv
<1> SUFFICES ASSUME Init PROVE TypedInv
  OBVIOUS
<1>1. run \in [Run -> Backup] /\ KeyLoaded
  BY NoBackupTypes DEF Init, KeyLoaded, NoBackup
<1>2. reader \in [Reader -> Reading]
  BY NoReadingTypes DEF Init
<1>3. clean \in Cleanup
  BY DEF Init, Cleanup
<1> QED
  BY <1>1, <1>2, <1>3 DEF Init, TypedInv, TypeOK, Data

\* Every variable has its type, and no run is past the loading of the key without one.
THEOREM TypedInvariant == Spec => []TypedInv
  BY InitTyped, TypedStep, PTL DEF Spec

\* Pipeline keeps its types: no file is stored without a key.
THEOREM TypeInvariant == Spec => []TypeOK
  BY TypedInvariant, PTL DEF TypedInv

-----------------------------------------------------------------------------
(* The inductive invariant.                                                *)

\* A file is whole when its run has ended well, and has what the run has.
FilesInv ==
  \A j \in Run : file[j] # NoFile =>
    /\ run[j].pc \in {"saving", "ok", "failed"}
    /\ file[j].whole <=> run[j].pc = "ok"
    /\ run[j].pc = "ok" =>
         /\ file[j].data = run[j].data
         /\ file[j].gz = run[j].gz
         /\ file[j].key = run[j].key

\* A file that is old is that of a run that has ended; the file of one that ended well
\* is there or was old.
AgeInv ==
  \A j \in Run :
    /\ j \in old => run[j].pc \in {"ok", "failed"}
    /\ run[j].pc = "ok" /\ file[j] = NoFile => j \in old

\* Cleanup has listed old files, and removed those it has not got left.
CleanInv ==
  /\ clean.left \subseteq clean.found /\ clean.found \subseteq old
  /\ clean.whole /\ clean.here =>
       /\ \A j \in clean.found \ clean.left : file[j] = NoFile
       /\ clean.pc = "done" => clean.left = {}

\* A command past the decryption has what its run had, and the key; past the
\* decompression, whole.
ReadersInv ==
  \A r \in Reader :
    /\ reader[r].pc \in {"gz", "sql", "applying", "done"} =>
         /\ run[reader[r].of].pc = "ok"
         /\ reader[r].data = run[reader[r].of].data
         /\ reader[r].gz = run[reader[r].of].gz
         /\ reader[r].key = run[reader[r].of].key
    /\ reader[r].pc \in {"sql", "applying", "done"} => reader[r].gz = "whole"
    /\ reader[r].pc \in {"idle", "ready", "gz", "sql", "failed"} => reader[r].alone

PipelineInv ==
  /\ TypedInv
  /\ FilesInv /\ AgeInv /\ CleanInv /\ ReadersInv
  /\ VerifiedCanBeRestored /\ HalfRestoredIsKnown

\* What a step of a run changes: only that run and its file, and neither once it has
\* ended.
LEMMA BackupStepFacts ==
  ASSUME TypedInv, NEW j \in Run, BackupStep(j)
  PROVE  /\ UNCHANGED <<database, key, old, reader, clean, certified>>
         /\ \A i \in Run \ {j} : run'[i] = run[i] /\ file'[i] = file[i]
         /\ run[j].pc \notin {"ok", "failed"}
         /\ \/ /\ run[j].pc \in {"idle", "dump", "zip"} /\ run'[j].pc \in {"dump", "zip", "save"}
               /\ file'[j] = file[j]
            \/ /\ run'[j].pc = "saving"
               /\ file'[j] # NoFile /\ ~file'[j].whole
            \/ /\ run'[j].pc = "ok"
               /\ file'[j] # NoFile /\ file'[j].whole
               /\ file'[j].data = run'[j].data /\ file'[j].gz = run'[j].gz
               /\ file'[j].key = run'[j].key
            \/ /\ run'[j].pc = "failed"
               /\ file'[j] = NoFile \/ (file'[j] = file[j] /\ run[j].pc # "ok")
<1>a. run \in [Run -> Backup] /\ run[j] \in Backup /\ file \in [Run -> File \cup {NoFile}]
  BY DEF TypedInv, TypeOK
<1>1. CASE LoadKey(j)
  BY <1>1, <1>a DEF LoadKey, Backup
<1>2. CASE Dump(j)
  BY <1>2, <1>a DEF Dump, Backup
<1>3. CASE Compress(j)
  BY <1>3, <1>a DEF Compress, Backup
<1>4. CASE SaveOpen(j)
  <2>1. Sealed(j, FALSE) \in File
    BY <1>4, <1>a, SealedTypes DEF SaveOpen, Step, TypedInv, KeyLoaded
  <2>2. run'[j].pc = "saving"
    BY <1>4, <1>a DEF SaveOpen, Step, Backup
  <2>3. file'[j] = Sealed(j, FALSE)
    BY <1>4, <1>a DEF SaveOpen
  <2>4. ~Sealed(j, FALSE).whole
    BY DEF Sealed
  <2> QED
    BY <1>4, <1>a, <2>1, <2>2, <2>3, <2>4, NoFileOK DEF SaveOpen, Step
<1>5. CASE SaveDone(j)
  <2>1. Sealed(j, TRUE) \in File
    BY <1>5, <1>a, SealedTypes DEF SaveDone, Step, TypedInv, KeyLoaded
  <2>2. /\ run'[j].pc = "ok" /\ run'[j].data = run[j].data
        /\ run'[j].gz = run[j].gz /\ run'[j].key = run[j].key
    BY <1>5, <1>a DEF SaveDone, Step, Backup
  <2>3. file'[j] = Sealed(j, TRUE)
    BY <1>5, <1>a DEF SaveDone
  <2>4. /\ Sealed(j, TRUE).whole /\ Sealed(j, TRUE).data = run[j].data
        /\ Sealed(j, TRUE).gz = run[j].gz /\ Sealed(j, TRUE).key = run[j].key
    BY DEF Sealed
  <2> QED
    BY <1>5, <1>a, <2>1, <2>2, <2>3, <2>4, NoFileOK DEF SaveDone, Step
<1>6. CASE SaveFails(j)
  <2>1. run'[j].pc = "failed"
    BY <1>6, <1>a DEF SaveFails, NoBackup
  <2> QED
    BY <1>6, <1>a, <2>1 DEF SaveFails
<1>7. CASE BackupFails(j)
  <2>1. run'[j].pc = "failed"
    BY <1>7, <1>a DEF BackupFails, NoBackup
  <2> QED
    BY <1>7, <1>a, <2>1 DEF BackupFails
<1> QED
  BY <1>1, <1>2, <1>3, <1>4, <1>5, <1>6, <1>7 DEF BackupStep

\* Whatever happens to files, a command keeps what it has read, for its run has ended.
LEMMA BackupStepKeeps ==
  ASSUME PipelineInv, NEW j \in Run, BackupStep(j)
  PROVE  PipelineInv'
<1> USE DEF PipelineInv
<1>0. TypedInv'
  BY BackupStepTypes
<1>a. \A r \in Reader : reader[r].of \in Run
  BY DEF TypedInv, TypeOK, Reading
<1>b. certified \subseteq Run /\ old \subseteq Run
  BY DEF TypedInv, TypeOK
<1>1. FilesInv'
  <2> SUFFICES ASSUME NEW i \in Run, file'[i] # NoFile
               PROVE  /\ run'[i].pc \in {"saving", "ok", "failed"}
                      /\ file'[i].whole <=> run'[i].pc = "ok"
                      /\ run'[i].pc = "ok" =>
                           /\ file'[i].data = run'[i].data
                           /\ file'[i].gz = run'[i].gz
                           /\ file'[i].key = run'[i].key
    BY DEF FilesInv
  <2> QED
    BY BackupStepFacts DEF FilesInv
<1>2. AgeInv'
  BY BackupStepFacts DEF AgeInv
<1>3. CleanInv'
  <2>1. \A i \in old : i # j
    BY BackupStepFacts, <1>b DEF AgeInv
  <2>2. \A i \in old : file'[i] = file[i]
    BY BackupStepFacts, <1>b, <2>1
  <2> QED
    BY BackupStepFacts, <2>2 DEF CleanInv
<1>4. ReadersInv'
  <2>1. \A i \in Run : run[i].pc = "ok" => run'[i] = run[i]
    BY BackupStepFacts
  <2> QED
    BY BackupStepFacts, <1>a, <2>1 DEF ReadersInv
<1>5. VerifiedCanBeRestored'
  <2> SUFFICES ASSUME NEW i \in certified PROVE Restorable(i)'
    BY BackupStepFacts DEF VerifiedCanBeRestored
  <2>1. Restorable(i) /\ run[i].pc = "ok"
    BY <1>b DEF VerifiedCanBeRestored, Restorable, FilesInv
  <2> QED
    BY BackupStepFacts, <1>b, <2>1 DEF Restorable
<1>6. HalfRestoredIsKnown'
  <2>1. \A i \in Run : run[i].pc = "ok" => run'[i] = run[i]
    BY BackupStepFacts
  <2>2. \A r \in Reader : reader[r].pc = "done" => run[reader[r].of].pc = "ok"
    BY DEF ReadersInv
  <2> QED
    BY BackupStepFacts, <1>a, <2>1, <2>2 DEF HalfRestoredIsKnown
<1> QED
  BY <1>0, <1>1, <1>2, <1>3, <1>4, <1>5, <1>6

\* A step of a command leaves runs, files, the key and cleanup alone, and of the other
\* commands at most takes the word that they are alone.
LEMMA ReaderStepFacts ==
  ASSUME TypedInv, NEW r \in Reader, ReaderStep(r)
  PROVE  /\ UNCHANGED <<key, run, file, old, clean>>
         /\ \A q \in Reader \ {r} :
              /\ reader'[q].pc = reader[q].pc /\ reader'[q].of = reader[q].of
              /\ reader'[q].data = reader[q].data /\ reader'[q].gz = reader[q].gz
              /\ reader'[q].key = reader[q].key
              /\ reader'[q].alone # reader[q].alone => reader[q].pc = "applying" /\ ~reader'[q].alone
<1>a. reader \in [Reader -> Reading]
  BY DEF TypedInv, TypeOK
<1>1. ASSUME ~Apply(r)
      PROVE  UNCHANGED <<key, run, file, old, clean>> /\ \A q \in Reader \ {r} : reader'[q] = reader[q]
  BY <1>1, <1>a DEF ReaderStep, Begin, Decrypt, Decompress, ReaderFails, ApplyDone, ApplyFails
<1>2. CASE Apply(r)
  <2> SUFFICES ASSUME NEW q \in Reader \ {r}
      PROVE  /\ reader'[q].pc = reader[q].pc /\ reader'[q].of = reader[q].of
             /\ reader'[q].data = reader[q].data /\ reader'[q].gz = reader[q].gz
             /\ reader'[q].key = reader[q].key
             /\ reader'[q].alone # reader[q].alone =>
                  reader[q].pc = "applying" /\ ~reader'[q].alone
    BY <1>2 DEF Apply
  <2>1. reader[q] \in Reading
    BY <1>a
  <2>2. reader'[q] = IF q \in Applying THEN [reader[q] EXCEPT !.alone = FALSE] ELSE reader[q]
    BY <1>2 DEF Apply
  <2>3. CASE q \in Applying
    <3>1. reader'[q] = [reader[q] EXCEPT !.alone = FALSE] /\ reader[q].pc = "applying"
      BY <2>2, <2>3 DEF Applying
    <3> QED
      BY <3>1, <2>1 DEF Reading
  <2>4. CASE q \notin Applying
    BY <2>2, <2>4
  <2> QED
    BY <2>3, <2>4
<1> QED
  BY <1>1, <1>2

\* What is to be shown of the command that takes the step.
LEMMA OthersKeep ==
  ASSUME PipelineInv, NEW r \in Reader, ReaderStep(r),
         reader'[r].pc \in {"gz", "sql", "applying", "done"} =>
           /\ run[reader'[r].of].pc = "ok"
           /\ reader'[r].data = run[reader'[r].of].data
           /\ reader'[r].gz = run[reader'[r].of].gz
           /\ reader'[r].key = run[reader'[r].of].key,
         reader'[r].pc \in {"sql", "applying", "done"} => reader'[r].gz = "whole",
         reader'[r].pc \in {"idle", "ready", "gz", "sql", "failed"} => reader'[r].alone,
         VerifiedCanBeRestored', HalfRestoredIsKnown'
  PROVE  PipelineInv'
<1>1. TypedInv'
  BY ReaderStepTypes DEF PipelineInv
<1>2. FilesInv' /\ AgeInv' /\ CleanInv'
  BY ReaderStepFacts DEF PipelineInv, FilesInv, AgeInv, CleanInv
<1>3. ReadersInv'
  <2> SUFFICES ASSUME NEW q \in Reader
      PROVE  /\ reader'[q].pc \in {"gz", "sql", "applying", "done"} =>
                  /\ run'[reader'[q].of].pc = "ok"
                  /\ reader'[q].data = run'[reader'[q].of].data
                  /\ reader'[q].gz = run'[reader'[q].of].gz
                  /\ reader'[q].key = run'[reader'[q].of].key
             /\ reader'[q].pc \in {"sql", "applying", "done"} => reader'[q].gz = "whole"
             /\ reader'[q].pc \in {"idle", "ready", "gz", "sql", "failed"} => reader'[q].alone
    BY DEF ReadersInv
  <2>a. run' = run
    BY ReaderStepFacts DEF PipelineInv
  <2>1. CASE q = r
    BY <2>1, <2>a
  <2>2. CASE q # r
    BY <2>2, <2>a, ReaderStepFacts DEF PipelineInv, ReadersInv
  <2> QED
    BY <2>1, <2>2
<1> QED
  BY <1>1, <1>2, <1>3 DEF PipelineInv

\* As long as the files and the key stay, and nothing is certified, so does what is.
LEMMA CertifiedKeeps ==
  ASSUME VerifiedCanBeRestored, UNCHANGED <<file, key, certified>>
  PROVE  VerifiedCanBeRestored'
  BY DEF VerifiedCanBeRestored, Restorable

\* A command that is not yet applying explains no half restored database.
LEMMA HalfKeeps ==
  ASSUME PipelineInv, NEW r \in Reader, ReaderStep(r), UNCHANGED database,
         reader[r].pc \in {"idle", "ready", "gz", "sql"}
  PROVE  HalfRestoredIsKnown'
<1> SUFFICES ASSUME database = Mixed
    PROVE \E q \in Reader : \/ reader'[q].pc \in {"applying", "broke"} \/ ~reader'[q].alone
                            \/ reader'[q].pc = "done" /\ run'[reader'[q].of].data = Mixed
  BY DEF HalfRestoredIsKnown
<1>1. PICK q \in Reader : \/ reader[q].pc \in {"applying", "broke"} \/ ~reader[q].alone
                          \/ reader[q].pc = "done" /\ run[reader[q].of].data = Mixed
  BY DEF PipelineInv, HalfRestoredIsKnown
<1>2. reader[r].alone
  BY DEF PipelineInv, ReadersInv
<1>3. q # r
  BY <1>1, <1>2
<1>4. run' = run /\ reader'[q].pc = reader[q].pc /\ reader'[q].of = reader[q].of
  BY <1>3, ReaderStepFacts DEF PipelineInv
<1>5. reader'[q].alone # reader[q].alone => ~reader'[q].alone
  BY <1>3, ReaderStepFacts DEF PipelineInv
<1>6. reader[q].alone \in BOOLEAN /\ reader'[q].alone \in BOOLEAN
  BY ReaderStepTypes DEF PipelineInv, TypedInv, TypeOK, Reading
<1> QED
  BY <1>1, <1>4, <1>5, <1>6

\* A command that succeeds has read what was dumped; what verify passes can be restored.
LEMMA ReaderStepKeeps ==
  ASSUME PipelineInv, NEW r \in Reader, ReaderStep(r)
  PROVE  PipelineInv'
<1> USE DEF PipelineInv
<1>a. reader \in [Reader -> Reading] /\ reader[r] \in Reading /\ reader[r].of \in Run
  BY DEF TypedInv, TypeOK, Reading
<1>1. ASSUME NEW kind \in {"restore", "verify", "decrypt"}, NEW j \in Run, Begin(r, kind, j)
      PROVE  PipelineInv'
  <2>1. reader[r].pc = "idle" /\ reader[r].alone
    BY <1>1 DEF Begin, ReadersInv
  <2>2. reader'[r].pc = "ready" /\ reader'[r].alone = reader[r].alone
    BY <1>1, <1>a DEF Begin, Reading
  <2>3. VerifiedCanBeRestored' /\ HalfRestoredIsKnown'
    BY <1>1, <2>1, CertifiedKeeps, HalfKeeps DEF Begin
  <2> QED
    BY <2>1, <2>2, <2>3, OthersKeep
<1>2. CASE Decrypt(r)
  <2> DEFINE s == file[reader[r].of]
  <2>1. s # NoFile /\ s.whole /\ s.key = reader[r].key /\ reader[r].pc = "ready"
    BY <1>2 DEF Decrypt
  <2>2. /\ run[reader[r].of].pc = "ok" /\ s.data = run[reader[r].of].data
        /\ s.gz = run[reader[r].of].gz /\ s.key = run[reader[r].of].key
    BY <2>1, <1>a DEF FilesInv
  <2>3. /\ reader'[r].pc = "gz" /\ reader'[r].of = reader[r].of /\ reader'[r].key = reader[r].key
        /\ reader'[r].data = s.data /\ reader'[r].gz = s.gz /\ reader'[r].alone = reader[r].alone
    BY <1>2, <1>a DEF Decrypt, Reading
  <2>4. VerifiedCanBeRestored' /\ HalfRestoredIsKnown'
    BY <1>2, <2>1, CertifiedKeeps, HalfKeeps DEF Decrypt
  <2>5. reader[r].alone
    BY <2>1 DEF ReadersInv
  <2> HIDE DEF s
  <2> QED
    BY <2>1, <2>2, <2>3, <2>4, <2>5, OthersKeep
<1>3. CASE Decompress(r)
  <2>1. reader[r].pc = "gz" /\ reader[r].gz = "whole"
    BY <1>3 DEF Decompress
  <2>2. /\ run[reader[r].of].pc = "ok" /\ reader[r].data = run[reader[r].of].data
        /\ reader[r].gz = run[reader[r].of].gz /\ reader[r].key = run[reader[r].of].key
        /\ reader[r].alone
    BY <2>1 DEF ReadersInv
  <2>3. /\ reader'[r].pc \in {"sql", "done"} /\ reader'[r].of = reader[r].of
        /\ reader'[r].key = reader[r].key /\ reader'[r].data = reader[r].data
        /\ reader'[r].gz = reader[r].gz /\ reader'[r].alone = reader[r].alone
    BY <1>3, <1>a DEF Decompress, Reading
  <2>4. HalfRestoredIsKnown'
    BY <1>3, <2>1, HalfKeeps DEF Decompress
  <2>5. VerifiedCanBeRestored'
    <3>1. file' = file /\ key' = key
      BY <1>3 DEF Decompress
    <3>2. ASSUME reader[r].key = key, file[reader[r].of] # NoFile PROVE Restorable(reader[r].of)
      BY <2>1, <2>2, <1>a, <3>2 DEF FilesInv, Restorable
    <3>3. \A j \in certified' : j \in certified \/ Restorable(j)
      BY <1>3, <3>2 DEF Decompress, Certify
    <3> QED
      BY <3>1, <3>3 DEF VerifiedCanBeRestored, Restorable
  <2> QED
    BY <2>1, <2>2, <2>3, <2>4, <2>5, OthersKeep
<1>4. CASE ReaderFails(r)
  <2>1. reader'[r].pc = "failed" /\ reader'[r].alone
    BY <1>4, <1>a DEF ReaderFails, NoReading
  <2>2. VerifiedCanBeRestored' /\ HalfRestoredIsKnown'
    BY <1>4, CertifiedKeeps, HalfKeeps DEF ReaderFails
  <2> QED
    BY <2>1, <2>2, OthersKeep
<1>5. CASE Apply(r)
  <2>1. reader[r].pc = "sql"
    BY <1>5 DEF Apply
  <2>2. reader'[r] = [reader[r] EXCEPT !.pc = "applying", !.alone = (Applying = {})]
    <3> DEFINE started(q) == [reader[q] EXCEPT !.pc = "applying", !.alone = (Applying = {})]
    <3>1. reader' = [q \in Reader |-> CASE q = r -> started(r)
                                      [] q \in Applying -> [reader[q] EXCEPT !.alone = FALSE]
                                      [] OTHER -> reader[q]]
      BY <1>5 DEF Apply
    <3>2. r \notin Applying
      BY <2>1 DEF Applying
    <3> HIDE DEF started
    <3>3. reader'[r] = started(r)
      BY <3>1, <3>2
    <3> QED
      BY <3>3 DEF started
  <2>3. /\ reader'[r].pc = "applying" /\ reader'[r].of = reader[r].of
        /\ reader'[r].key = reader[r].key /\ reader'[r].data = reader[r].data
        /\ reader'[r].gz = reader[r].gz
    BY <2>2, <1>a DEF Reading
  <2>4. HalfRestoredIsKnown'
    BY <2>3 DEF HalfRestoredIsKnown
  <2>5. VerifiedCanBeRestored'
    BY <1>5, CertifiedKeeps DEF Apply
  <2>6. /\ run[reader[r].of].pc = "ok" /\ reader[r].data = run[reader[r].of].data
        /\ reader[r].gz = run[reader[r].of].gz /\ reader[r].key = run[reader[r].of].key
        /\ reader[r].gz = "whole"
    BY <2>1 DEF ReadersInv
  <2> QED
    BY <2>3, <2>4, <2>5, <2>6, OthersKeep
<1>6. CASE ApplyDone(r)
  <2>1. reader[r].pc = "applying"
    BY <1>6 DEF ApplyDone
  <2>2. /\ reader'[r].pc = "done" /\ reader'[r].of = reader[r].of
        /\ reader'[r].key = reader[r].key /\ reader'[r].data = reader[r].data
        /\ reader'[r].gz = reader[r].gz /\ reader'[r].alone = reader[r].alone
    BY <1>6, <1>a DEF ApplyDone, Reading
  <2>3. /\ run[reader[r].of].pc = "ok" /\ reader[r].data = run[reader[r].of].data
        /\ reader[r].gz = run[reader[r].of].gz /\ reader[r].key = run[reader[r].of].key
        /\ reader[r].gz = "whole"
    BY <2>1 DEF ReadersInv
  <2>4. HalfRestoredIsKnown'
    <3> SUFFICES ASSUME database' = Mixed
        PROVE  ~reader'[r].alone \/ (reader'[r].pc = "done" /\ run'[reader'[r].of].data = Mixed)
      BY DEF HalfRestoredIsKnown
    <3>1. reader[r].alone => reader[r].data = Mixed
      BY <1>6 DEF ApplyDone
    <3>2. run' = run
      BY <1>6 DEF ApplyDone
    <3> QED
      BY <3>1, <3>2, <2>2, <2>3
  <2>5. VerifiedCanBeRestored'
    BY <1>6, CertifiedKeeps DEF ApplyDone
  <2> QED
    BY <2>2, <2>3, <2>4, <2>5, OthersKeep
<1>7. CASE ApplyFails(r)
  <2>1. reader'[r].pc = "broke"
    BY <1>7, <1>a DEF ApplyFails, Reading
  <2>2. HalfRestoredIsKnown'
    BY <2>1 DEF HalfRestoredIsKnown
  <2>3. VerifiedCanBeRestored'
    BY <1>7, CertifiedKeeps DEF ApplyFails
  <2> QED
    BY <2>1, <2>2, <2>3, OthersKeep
<1> QED
  BY <1>1, <1>2, <1>3, <1>4, <1>5, <1>6, <1>7 DEF ReaderStep

\* Cleanup removes files of its list only, which were old: what was certified and is
\* not removed stays restorable.
LEMMA CleanupStepKeeps ==
  ASSUME PipelineInv, CleanupStep
  PROVE  PipelineInv'
<1> USE DEF PipelineInv
<1>0. TypedInv'
  BY CleanupStepTypes
<1>a. clean \in Cleanup /\ file \in [Run -> File \cup {NoFile}] /\ old \subseteq Run
  BY DEF TypedInv, TypeOK
<1>b. UNCHANGED <<database, key, run, old, reader>>
  BY DEF CleanupStep, ListBackupFiles, CleanupStops, RemoveOld, RemoveOldFails
<1>1. ReadersInv' /\ HalfRestoredIsKnown'
  BY <1>b DEF ReadersInv, HalfRestoredIsKnown
<1>2. ASSUME NEW dry \in BOOLEAN, NEW here \in BOOLEAN, ListBackupFiles(dry, here)
      PROVE  FilesInv' /\ AgeInv' /\ CleanInv' /\ VerifiedCanBeRestored'
  <2> DEFINE list == IF here THEN OldFiles ELSE {}
  <2>1. UNCHANGED <<file, certified>>
    BY <1>2 DEF ListBackupFiles
  <2>2. clean' = [clean EXCEPT !.pc = IF list = {} THEN "done" ELSE "listed", !.dry = dry,
                               !.here = here, !.found = OldFiles, !.left = list]
    BY <1>2 DEF ListBackupFiles
  <2>3. /\ clean'.found = OldFiles /\ clean'.left = list /\ clean'.here = here
        /\ clean'.pc = "done" => list = {}
    BY <2>2, <1>a DEF Cleanup
  <2>4. OldFiles \subseteq old
    BY DEF OldFiles
  <2>5. CleanInv'
    BY <2>1, <2>3, <2>4, <1>b DEF CleanInv
  <2> QED
    BY <2>1, <2>5, <1>b DEF FilesInv, AgeInv, VerifiedCanBeRestored, Restorable
<1>3. CASE CleanupStops
  <2>1. UNCHANGED <<file, certified>>
    BY <1>3 DEF CleanupStops
  <2>2. clean'.left = clean.left /\ clean'.found = clean.found /\ ~clean'.whole
    BY <1>3, <1>a DEF CleanupStops, Cleanup
  <2>3. CleanInv'
    BY <2>2, <1>b DEF CleanInv
  <2>4. FilesInv' /\ AgeInv'
    BY <2>1, <1>b DEF FilesInv, AgeInv
  <2>5. VerifiedCanBeRestored'
    BY <2>1, <1>b, CertifiedKeeps
  <2> QED
    BY <1>0, <1>1, <2>3, <2>4, <2>5
<1>4. ASSUME NEW j \in Run, RemoveOld(j)
      PROVE  FilesInv' /\ AgeInv' /\ CleanInv' /\ VerifiedCanBeRestored'
  <2>1. /\ file' = [file EXCEPT ![j] = NoFile] /\ certified' = certified \ {j}
        /\ clean' = Left(j) /\ j \in clean.left
    BY <1>4 DEF RemoveOld
  <2>2. /\ clean'.left = clean.left \ {j} /\ clean'.found = clean.found
        /\ clean'.whole = clean.whole /\ clean'.here = clean.here
        /\ clean'.pc = "done" => clean'.left = {}
    BY <2>1, <1>a DEF Left, Cleanup
  <2>3. j \in old
    BY <2>1 DEF CleanInv
  <2>4. \A i \in Run : i # j => file'[i] = file[i]
    BY <2>1, <1>a
  <2>5. file'[j] = NoFile
    BY <2>1, <1>a
  <2>6. FilesInv' /\ AgeInv'
    BY <2>3, <2>4, <2>5, <1>b DEF FilesInv, AgeInv
  <2>7. CleanInv'
    <3>1. clean.found \subseteq Run
      BY <1>a DEF CleanInv
    <3> QED
      BY <2>2, <2>4, <2>5, <3>1, <1>b DEF CleanInv
  <2>8. VerifiedCanBeRestored'
    <3>1. certified \subseteq Run
      BY DEF TypedInv, TypeOK
    <3> QED
      BY <2>1, <2>4, <3>1, <1>b DEF VerifiedCanBeRestored, Restorable
  <2> QED
    BY <2>6, <2>7, <2>8
<1>5. ASSUME NEW j \in Run, RemoveOldFails(j)
      PROVE  FilesInv' /\ AgeInv' /\ CleanInv' /\ VerifiedCanBeRestored'
  <2>1. UNCHANGED <<file, certified>>
    BY <1>5 DEF RemoveOldFails
  <2>2. Left(j).left = clean.left \ {j} /\ Left(j).found = clean.found /\ Left(j) \in Cleanup
    BY <1>a DEF Left, Cleanup
  <2>3. clean'.left = clean.left \ {j} /\ clean'.found = clean.found /\ ~clean'.whole
    BY <1>5, <2>2 DEF RemoveOldFails, Cleanup
  <2>4. CleanInv'
    BY <2>3, <1>b DEF CleanInv
  <2> QED
    BY <2>1, <2>4, <1>b DEF FilesInv, AgeInv, VerifiedCanBeRestored, Restorable
<1> QED
  BY <1>0, <1>1, <1>2, <1>3, <1>4, <1>5 DEF CleanupStep

\* Nor does anything outside take a file away.
LEMMA WorldKeeps ==
  ASSUME PipelineInv, World
  PROVE  PipelineInv'
<1> USE DEF PipelineInv
<1>0. TypedInv'
  BY TypedStep DEF Next
<1>1. ASSUME NEW v \in Version, Write(v)
      PROVE  PipelineInv'
  <2>1. database' # Mixed /\ UNCHANGED <<key, run, file, old, reader, clean, certified>>
    BY <1>1, PipelineOK DEF Write
  <2> QED
    BY <1>0, <2>1 DEF FilesInv, AgeInv, CleanInv, ReadersInv, VerifiedCanBeRestored, Restorable,
       HalfRestoredIsKnown
<1>2. ASSUME NEW k \in KeyValue, WriteKey(k)
      PROVE  PipelineInv'
  <2>1. certified' = {} /\ UNCHANGED <<database, run, file, old, reader, clean>>
    BY <1>2 DEF WriteKey
  <2> QED
    BY <1>0, <2>1 DEF FilesInv, AgeInv, CleanInv, ReadersInv, VerifiedCanBeRestored,
       HalfRestoredIsKnown
<1>3. ASSUME NEW j \in Run, GrowsOld(j)
      PROVE  PipelineInv'
  <2>1. /\ old' = old \cup {j} /\ file[j] # NoFile /\ run[j].pc # "saving"
        /\ UNCHANGED <<database, key, run, file, reader, clean, certified>>
    BY <1>3 DEF GrowsOld
  <2>2. AgeInv' /\ CleanInv'
    BY <2>1 DEF AgeInv, CleanInv, FilesInv
  <2> QED
    BY <1>0, <2>1, <2>2 DEF FilesInv, ReadersInv, VerifiedCanBeRestored, Restorable,
       HalfRestoredIsKnown
<1> QED
  BY <1>1, <1>2, <1>3 DEF World

\* The invariant holds of every behaviour.
THEOREM PipelineInvariant == Spec => []PipelineInv
<1>1. Init => PipelineInv
  <2> SUFFICES ASSUME Init PROVE PipelineInv
    OBVIOUS
  <2>1. TypedInv
    BY InitTyped
  <2>2. FilesInv /\ CleanInv
    BY DEF Init, FilesInv, CleanInv
  <2>3. AgeInv
    BY DEF Init, AgeInv, NoBackup
  <2>4. ReadersInv
    BY DEF Init, ReadersInv, NoReading
  <2>5. VerifiedCanBeRestored /\ HalfRestoredIsKnown
    BY PipelineOK DEF Init, VerifiedCanBeRestored, HalfRestoredIsKnown
  <2> QED
    BY <2>1, <2>2, <2>3, <2>4, <2>5 DEF PipelineInv
<1>2. PipelineInv /\ [Next]_vars => PipelineInv'
  <2> SUFFICES ASSUME PipelineInv, [Next]_vars PROVE PipelineInv'
    OBVIOUS
  <2>1. CASE UNCHANGED vars
    BY <2>1, TypedStep DEF PipelineInv, vars, FilesInv, AgeInv, CleanInv, ReadersInv,
       VerifiedCanBeRestored, Restorable, HalfRestoredIsKnown
  <2> QED
    BY <2>1, BackupStepKeeps, ReaderStepKeeps, CleanupStepKeeps, WorldKeeps DEF Next
<1> QED
  BY <1>1, <1>2, PTL DEF Spec

-----------------------------------------------------------------------------
\* What a command that succeeds has read is what was dumped.
THEOREM ReadsTheorem == Spec => []ReadsWhatWasDumped
<1>1. PipelineInv => ReadsWhatWasDumped
  BY DEF PipelineInv, ReadersInv, ReadsWhatWasDumped
<1> QED
  BY <1>1, PipelineInvariant, PTL

\* A database that is half restored is known to be.
THEOREM HalfRestoredTheorem == Spec => []HalfRestoredIsKnown
<1>1. PipelineInv => HalfRestoredIsKnown
  BY DEF PipelineInv
<1> QED
  BY <1>1, PipelineInvariant, PTL

\* What verify has passed can be restored.
THEOREM VerifiedTheorem == Spec => []VerifiedCanBeRestored
<1>1. PipelineInv => VerifiedCanBeRestored
  BY DEF PipelineInv
<1> QED
  BY <1>1, PipelineInvariant, PTL

\* A reported backup can be restored, with the exceptions the property names.
THEOREM ReportedTheorem == Spec => []ReportedCanBeRestored
<1>1. PipelineInv => ReportedCanBeRestored
  <2> SUFFICES ASSUME PipelineInv, NEW j \in Run, run[j].pc = "ok"
      PROVE  \/ Restorable(j) \/ run[j].gz = "clipped"
             \/ (file[j] = NoFile /\ j \in old) \/ run[j].key # key
    BY DEF ReportedCanBeRestored
  <2>1. run[j].gz \in Gz
    BY DEF PipelineInv, TypedInv, TypeOK, Backup
  <2> QED
    BY <2>1 DEF PipelineInv, FilesInv, AgeInv, Restorable, Gz
<1> QED
  BY <1>1, PipelineInvariant, PTL

\* Cleanup leaves nothing of its list behind unnoticed.
THEOREM CleanupTheorem == Spec => []CleanupRemovesOld
<1>1. PipelineInv => CleanupRemovesOld
  BY DEF PipelineInv, CleanInv, CleanupRemovesOld
<1> QED
  BY <1>1, PipelineInvariant, PTL

\* Only cleanup takes a stored backup away, and only an old one.
THEOREM CleanupKeepsTheorem == Spec => CleanupKeepsRecent
<1>1. PipelineInv /\ [Next]_vars =>
        [\A j \in Run : run[j].pc = "ok" /\ file[j] # NoFile /\ file'[j] = NoFile =>
           j \in old /\ clean.pc = "listed" /\ ~clean.dry]_vars
  <2> SUFFICES ASSUME PipelineInv, Next, NEW j \in Run,
                      run[j].pc = "ok", file[j] # NoFile, file'[j] = NoFile
      PROVE  j \in old /\ clean.pc = "listed" /\ ~clean.dry
    OBVIOUS
  <2>1. ASSUME NEW i \in Run, BackupStep(i) PROVE FALSE
    BY <2>1, BackupStepFacts DEF PipelineInv
  <2>2. ASSUME NEW r \in Reader, ReaderStep(r) PROVE FALSE
    BY <2>2, ReaderStepFacts DEF PipelineInv
  <2>3. CASE World
    BY <2>3 DEF World, Write, WriteKey, GrowsOld
  <2>4. CASE CleanupStep
    <3>1. PICK i \in Run : RemoveOld(i)
      BY <2>4 DEF CleanupStep, ListBackupFiles, CleanupStops, RemoveOldFails
    <3>2. i = j
      BY <3>1 DEF RemoveOld, PipelineInv, TypedInv, TypeOK
    <3> QED
      BY <3>1, <3>2 DEF RemoveOld, PipelineInv, CleanInv
  <2> QED
    BY <2>1, <2>2, <2>3, <2>4 DEF Next
<1> QED
  BY <1>1, PipelineInvariant, PTL DEF Spec, CleanupKeepsRecent

-----------------------------------------------------------------------------
(* The report of verify.                                                   *)

TableCount == [name : Table, rows : Nat]
Report == [tables : Seq(TableCount), total : Nat]

\* A statement that creates a table adds an entry of no rows at the end.
LEMMA WithTableAdds ==
  ASSUME NEW r \in Report, NEW c \in Table \cup {NoTable}
  PROVE  /\ WithTable(r, c) \in Report
         /\ WithTable(r, c).total = r.total
         /\ c = NoTable => WithTable(r, c) = r
         /\ c # NoTable =>
              LET new == Len(r.tables) + 1 IN
              /\ DOMAIN WithTable(r, c).tables = DOMAIN r.tables \cup {new}
              /\ new \notin DOMAIN r.tables /\ new \in Nat
              /\ \A i \in DOMAIN r.tables : WithTable(r, c).tables[i] = r.tables[i] /\ i < new
              /\ WithTable(r, c).tables[new] = [name |-> c, rows |-> 0]
<1> DEFINE e == [name |-> c, rows |-> 0]
           s == r.tables
           a == Append(s, e)
<1>1. r.total \in Nat /\ s \in Seq(TableCount)
  BY DEF Report
<1>2. CASE c = NoTable
  BY <1>2 DEF WithTable
<1>3. CASE c # NoTable
  <2>1. e \in TableCount
    BY <1>3 DEF TableCount
  <2> HIDE DEF e
  <2>2. a \in Seq(TableCount)
    BY <1>1, <2>1
  <2>3. /\ Len(s) \in Nat /\ DOMAIN s = 1 .. Len(s) /\ DOMAIN a = 1 .. Len(s) + 1
        /\ \A i \in 1 .. Len(s) : a[i] = s[i]
        /\ a[Len(s) + 1] = e
    BY <1>1, <2>1
  <2> HIDE DEF a, s
  <2>4. WithTable(r, c) = [r EXCEPT !.tables = a]
    BY <1>3 DEF WithTable, a, s, e
  <2>5. WithTable(r, c) \in Report /\ WithTable(r, c).tables = a /\ WithTable(r, c).total = r.total
    BY <2>2, <2>4 DEF Report
  <2>6. /\ DOMAIN a = DOMAIN s \cup {Len(s) + 1}
        /\ Len(s) + 1 \notin DOMAIN s /\ Len(s) + 1 \in Nat
        /\ \A i \in DOMAIN s : a[i] = s[i] /\ i < Len(s) + 1
    BY <2>3
  <2> QED
    BY <1>3, <2>3, <2>5, <2>6 DEF s, e
<1> QED
  BY <1>2, <1>3

\* An INSERT counts in the total, and leaves everything but the rows of the first entry
\* of its table.
LEMMA WithRowCounts ==
  ASSUME NEW r \in Report, NEW t \in Table \cup {NoTable}
  PROVE  /\ WithRow(r, t) \in Report
         /\ WithRow(r, t).total = IF t = NoTable THEN r.total ELSE r.total + 1
         /\ DOMAIN WithRow(r, t).tables = DOMAIN r.tables
         /\ \A i \in DOMAIN r.tables :
              /\ WithRow(r, t).tables[i].name = r.tables[i].name
              /\ WithRow(r, t).tables[i].rows =
                   IF i \in Named(r, t) /\ \A k \in Named(r, t) : i <= k
                   THEN r.tables[i].rows + 1 ELSE r.tables[i].rows
<1> DEFINE s == r.tables
           first(i) == i \in Named(r, t) /\ \A k \in Named(r, t) : i <= k
           u == [i \in DOMAIN s |-> IF first(i) THEN OneMoreRow(s[i]) ELSE s[i]]
<1>1. r.total \in Nat /\ s \in Seq(TableCount)
  BY DEF Report
<1>2. \A i \in DOMAIN s : s[i] \in TableCount
  <2> HIDE DEF s
  <2> QED
    BY <1>1
<1>3. CASE t = NoTable
  <2>1. \A i \in DOMAIN s : ~first(i)
    BY <1>2, <1>3, PipelineOK DEF Named, TableCount
  <2> QED
    BY <1>3, <2>1 DEF WithRow
<1>4. CASE t # NoTable
  <2>1. WithRow(r, t) = [tables |-> u, total |-> r.total + 1]
    BY <1>4, Zenon DEF WithRow
  <2> HIDE DEF first, s
  <2>2. \A i \in DOMAIN s :
          /\ u[i] \in TableCount
          /\ u[i].name = s[i].name
          /\ u[i].rows = IF first(i) THEN s[i].rows + 1 ELSE s[i].rows
    BY <1>2 DEF TableCount, OneMoreRow
  <2>3. DOMAIN u = DOMAIN s /\ DOMAIN s = 1 .. Len(s) /\ Len(s) \in Nat
    BY <1>1
  <2>4. u \in [1 .. Len(s) -> TableCount]
    BY <2>2, <2>3
  <2> HIDE DEF u
  <2>5. u \in Seq(TableCount)
    BY <2>3, <2>4
  <2>6. /\ WithRow(r, t) \in Report /\ WithRow(r, t).tables = u
        /\ WithRow(r, t).total = r.total + 1
    BY <1>1, <2>1, <2>5 DEF Report
  <2> QED
    BY <1>4, <2>2, <2>3, <2>6 DEF s, first
<1> QED
  BY <1>3, <1>4

\* Each line of a dump may create a table and insert into one.
LEMMA LineTypes ==
  ASSUME NEW lines \in Seq(Line), NEW n \in 1 .. Len(lines)
  PROVE  lines[n].create \in Table \cup {NoTable} /\ lines[n].insert \in Table \cup {NoTable}
<1>1. lines[n] \in Line
  OBVIOUS
<1> QED
  BY <1>1 DEF Line

\* What the report is after each line.
Reported(lines, k) ==
  /\ k \in [0 .. Len(lines) -> Report]
  /\ k[0] = NoReport
  /\ \A n \in 1 .. Len(lines) : k[n] = VerifyLine(k[n - 1], lines[n])

\* verify goes through the dump from its first line to its last.
LEMMA VerifyIsLoop ==
  ASSUME NEW lines \in Seq(Line)
  PROVE  \E k : Reported(lines, k) /\ VerifySQLDump(lines) = k[Len(lines)]
<1> DEFINE Body(g) == [n \in 0 .. Len(lines) |->
                        IF n = 0 THEN NoReport ELSE VerifyLine(g[n - 1], lines[n])]
<1> DEFINE after == CHOOSE g : g = Body(g)
<1> DEFINE Round == [p \in Report \X (1 .. Len(lines)) |-> VerifyLine(p[1], lines[p[2]])]
<1>1. Len(lines) \in Nat /\ NoReport \in Report
  BY DEF NoReport, Report
<1>2. Round \in [Report \X (1 .. Len(lines)) -> Report]
  <2>1. ASSUME NEW r \in Report, NEW n \in 1 .. Len(lines)
        PROVE  VerifyLine(r, lines[n]) \in Report
    <3>1. lines[n].create \in Table \cup {NoTable} /\ lines[n].insert \in Table \cup {NoTable}
      BY LineTypes
    <3> QED
      BY <3>1, WithTableAdds, WithRowCounts DEF VerifyLine
  <2> QED
    BY <2>1
<1>3. \A n \in 1 .. Len(lines), s \in Report : Round[<<s, n>>] = VerifyLine(s, lines[n])
  OBVIOUS
<1> HIDE DEF Round
<1>4. PICK k : IsLoop(k, Len(lines), Report, NoReport, Round)
  BY <1>1, <1>2, LoopExists
<1>5. k = Body(k)
  <2>1. ASSUME NEW n \in 0 .. Len(lines) PROVE k[n] = Body(k)[n]
    <3>1. CASE n = 0
      BY <1>1, <1>4, <3>1 DEF IsLoop
    <3>2. CASE n \in 1 .. Len(lines)
      <4>a. n - 1 \in 0 .. Len(lines)
        BY <1>1, <3>2
      <4>1. k[n] = Round[<<k[n - 1], n>>] /\ k[n - 1] \in Report
        BY <1>4, <3>2, <4>a DEF IsLoop
      <4> QED
        BY <1>3, <3>2, <4>1
    <3> QED
      BY <1>1, <3>1, <3>2
  <2>2. DOMAIN k = 0 .. Len(lines) /\ k = [n \in 0 .. Len(lines) |-> k[n]]
    BY <1>4 DEF IsLoop
  <2>3. Body(k) = [n \in 0 .. Len(lines) |-> Body(k)[n]]
    OBVIOUS
  <2> HIDE DEF Body
  <2> QED
    BY <2>1, <2>2, <2>3, Zenon
<1>6. after = Body(after)
  <2> HIDE DEF Body
  <2> QED
    BY <1>5
<1>7. \A n \in 0 .. Len(lines) :
        after[n] = IF n = 0 THEN NoReport ELSE VerifyLine(after[n - 1], lines[n])
  <2> HIDE DEF after
  <2> QED
    BY <1>6
<1>8. IsLoop(after, Len(lines), Report, NoReport, Round)
  <2> HIDE DEF after
  <2>1. after = [n \in 0 .. Len(lines) |-> after[n]] /\ after[0] = NoReport
    BY <1>1, <1>6
  <2>2. ASSUME NEW n \in 1 .. Len(lines), after[n - 1] \in Report
        PROVE  after[n] = Round[<<after[n - 1], n>>]
    <3>1. after[n] = VerifyLine(after[n - 1], lines[n])
      BY <1>1, <1>7
    <3> QED
      BY <1>3, <2>2, <3>1
  <2> QED
    BY <1>1, <1>2, <2>1, <2>2, LoopTyped
<1>9. Reported(lines, after)
  <2> HIDE DEF after
  <2>1. ASSUME NEW n \in 1 .. Len(lines) PROVE after[n] = VerifyLine(after[n - 1], lines[n])
    BY <1>1, <1>7
  <2> QED
    BY <1>8, <2>1 DEF IsLoop, Reported
<1>10. VerifySQLDump(lines) = after[Len(lines)]
  BY DEF VerifySQLDump
<1> QED
  BY <1>9, <1>10

\* Of the first numbers, those of a kind are counted up by the next one.
LEMMA OneMore ==
  ASSUME NEW n \in Nat \ {0}, NEW S \in SUBSET (1 .. n - 1)
  PROVE  /\ IsFiniteSet(S) /\ Cardinality(S) \in Nat
         /\ Cardinality(S \cup {n}) = Cardinality(S) + 1
<1>1. IsFiniteSet(1 .. n - 1)
  BY FS_Interval
<1>2. IsFiniteSet(S)
  BY <1>1, FS_Subset
<1>3. n \notin S
  OBVIOUS
<1> QED
  BY <1>2, <1>3, FS_AddElement, FS_CardinalityType

\* The report after n lines adds up, given that it did a line earlier.
LEMMA LineAddsUp ==
  ASSUME NEW lines \in Seq(Line), NEW n \in 1 .. Len(lines), NEW r \in Report,
         AddsUp(r, lines, n - 1)
  PROVE  AddsUp(VerifyLine(r, lines[n]), lines, n)
<1> DEFINE c == lines[n].create
           t0 == lines[n].insert
           m == WithTable(r, c)
           v == WithRow(m, t0)
           Made(j, t) == {i \in 1 .. j : lines[i].create = t}
           Rows(j, t) == {i \in 1 .. j : lines[i].insert = t /\ \E k \in Made(j, t) : k <= i}
           Inserts(j) == {i \in 1 .. j : lines[i].insert # NoTable}
<1>1. /\ n \in Nat \ {0} /\ n - 1 \in Nat /\ 1 .. n = 1 .. n - 1 \cup {n}
      /\ c \in Table \cup {NoTable} /\ t0 \in Table \cup {NoTable}
  <2>1. Len(lines) \in Nat
    OBVIOUS
  <2> QED
    BY <2>1, LineTypes
<1>2. m \in Report /\ v = VerifyLine(r, lines[n])
  BY <1>1, WithTableAdds DEF VerifyLine
<1>3. /\ r.total = Cardinality(Inserts(n - 1))
      /\ \A t \in Table :
           /\ Cardinality(Named(r, t)) = Cardinality(Made(n - 1, t))
           /\ \A i \in Named(r, t) : r.tables[i].rows =
                IF \E k \in Named(r, t) : k < i THEN 0 ELSE Cardinality(Rows(n - 1, t))
  BY DEF AddsUp
<1>4. v.total = Cardinality(Inserts(n))
  <2>1. Inserts(n) = IF t0 = NoTable THEN Inserts(n - 1) ELSE Inserts(n - 1) \cup {n}
    BY <1>1
  <2>2. Inserts(n - 1) \in SUBSET (1 .. n - 1)
    OBVIOUS
  <2>3. v.total = IF t0 = NoTable THEN r.total ELSE r.total + 1
    <3>1. m.total = r.total
      BY <1>1, WithTableAdds
    <3> HIDE DEF m
    <3>2. v.total = IF t0 = NoTable THEN m.total ELSE m.total + 1
      BY <1>1, <1>2, WithRowCounts
    <3> QED
      BY <3>1, <3>2
  <2>4. Cardinality(Inserts(n - 1) \cup {n}) = Cardinality(Inserts(n - 1)) + 1
    BY <1>1, <2>2, OneMore
  <2> HIDE DEF Inserts, v, t0
  <2> QED
    BY <1>3, <2>1, <2>3, <2>4
<1>5. ASSUME NEW t \in Table
      PROVE  /\ Cardinality(Named(v, t)) = Cardinality(Made(n, t))
             /\ \A i \in Named(v, t) : v.tables[i].rows =
                  IF \E k \in Named(v, t) : k < i THEN 0 ELSE Cardinality(Rows(n, t))
  <2> DEFINE new == Len(r.tables) + 1
             M == Made(n - 1, t)
             R == Rows(n - 1, t)
             N == Named(r, t)
  <2>1. Made(n, t) = IF c = t THEN M \cup {n} ELSE M
    BY <1>1
  <2>2. Rows(n, t) = IF t0 = t /\ Made(n, t) # {} THEN R \cup {n} ELSE R
    <3>1. \A i \in 1 .. n - 1 : (\E k \in Made(n, t) : k <= i) <=> (\E k \in M : k <= i)
      BY <1>1, <2>1
    <3>2. (\E k \in Made(n, t) : k <= n) <=> Made(n, t) # {}
      BY <1>1
    <3> QED
      BY <1>1, <3>1, <3>2
  <2>3. M \in SUBSET (1 .. n - 1) /\ R \in SUBSET (1 .. n - 1)
    OBVIOUS
  <2>4. M = {} => R = {}
    OBVIOUS
  <2>5. t # NoTable
    BY PipelineOK
  <2>a. /\ c = NoTable => m = r
        /\ c # NoTable =>
             /\ DOMAIN m.tables = DOMAIN r.tables \cup {new}
             /\ new \notin DOMAIN r.tables
             /\ \A i \in DOMAIN r.tables : m.tables[i] = r.tables[i]
             /\ m.tables[new] = [name |-> c, rows |-> 0]
    BY <1>1, WithTableAdds
  <2>6. Named(m, t) = IF c = t THEN N \cup {new} ELSE N
    <3> HIDE DEF m, new, c
    <3> QED
      BY <2>5, <2>a DEF Named
  <2>7. N \in SUBSET (1 .. new - 1) /\ new \in Nat \ {0}
    BY DEF Named, Report
  <2>8. Named(v, t) = Named(m, t)
    <3> HIDE DEF m
    <3>1. /\ DOMAIN v.tables = DOMAIN m.tables
          /\ \A i \in DOMAIN m.tables : v.tables[i].name = m.tables[i].name
      BY <1>1, <1>2, WithRowCounts
    <3> HIDE DEF v
    <3> QED
      BY <3>1 DEF Named
  <2>9. Cardinality(N) = Cardinality(M)
    BY <1>3
  <2>10. Cardinality(Named(v, t)) = Cardinality(Made(n, t))
    <3>1. Cardinality(M \cup {n}) = Cardinality(M) + 1
      BY <1>1, <2>3, OneMore
    <3>2. Cardinality(N \cup {new}) = Cardinality(N) + 1
      <4> HIDE DEF N, new
      <4> QED
        BY <2>7, OneMore
    <3> HIDE DEF M, N, Made, new, v, m
    <3> QED
      BY <2>1, <2>6, <2>8, <2>9, <3>1, <3>2
  <2>11. N # {} <=> M # {}
    <3> HIDE DEF M, N, new
    <3>1. IsFiniteSet(M) /\ IsFiniteSet(N)
      BY <1>1, <2>3, <2>7, OneMore
    <3> QED
      BY <2>9, <3>1, FS_EmptySet
  <2>12. Named(m, t) # {} <=> Made(n, t) # {}
    <3> HIDE DEF M, N, Made, new, m
    <3> QED
      BY <2>1, <2>6, <2>11
  <2>13. ASSUME NEW i \in Named(m, t)
         PROVE  m.tables[i].rows = IF \E k \in Named(m, t) : k < i THEN 0 ELSE Cardinality(R)
    <3>1. CASE i \in N
      <4>1. m.tables[i] = r.tables[i]
        BY <2>a, <3>1 DEF Named
      <4>2. r.tables[i].rows = IF \E k \in N : k < i THEN 0 ELSE Cardinality(R)
        BY <1>3, <3>1
      <4>3. (\E k \in Named(m, t) : k < i) <=> (\E k \in N : k < i)
        <5> HIDE DEF N, new, m
        <5> QED
          BY <2>6, <2>7, <3>1
      <4> QED
        BY <4>1, <4>2, <4>3
    <3>2. CASE i \notin N
      <4>1. i = new /\ c = t
        BY <2>6, <3>2
      <4>2. m.tables[i].rows = 0
        BY <2>5, <2>a, <4>1
      <4>3. (\E k \in Named(m, t) : k < i) <=> N # {}
        <5>1. Named(m, t) = N \cup {new} /\ \A k \in N : k < new
          BY <2>6, <2>7, <4>1
        <5>2. ~(new < new)
          BY <2>7
        <5> HIDE DEF N, new, m
        <5> QED
          BY <4>1, <5>1, <5>2
      <4>4. N = {} => Cardinality(R) = 0
        BY <2>4, <2>11, FS_EmptySet
      <4> QED
        BY <4>2, <4>3, <4>4
    <3> QED
      BY <3>1, <3>2
  <2>14. ASSUME NEW i \in Named(v, t)
         PROVE  v.tables[i].rows =
                  IF \E k \in Named(v, t) : k < i THEN 0 ELSE Cardinality(Rows(n, t))
    <3>1. i \in Named(m, t) /\ i \in DOMAIN m.tables /\ m.tables[i].name = t
      BY <2>8 DEF Named
    <3>2. Named(m, t) \in SUBSET Nat
      BY <1>2 DEF Named, Report
    <3>3. v.tables[i].rows = IF i \in Named(m, t0) /\ \A k \in Named(m, t0) : i <= k
                             THEN m.tables[i].rows + 1 ELSE m.tables[i].rows
      BY <1>1, <1>2, <3>1, WithRowCounts
    <3>4. CASE t0 # t
      <4>1. i \notin Named(m, t0)
        BY <3>1, <3>4 DEF Named
      <4>2. Rows(n, t) = R
        BY <2>2, <3>4
      <4> QED
        BY <2>8, <2>13, <3>1, <3>3, <4>1, <4>2
    <3>5. CASE t0 = t
      <4>1. Rows(n, t) = R \cup {n}
        BY <2>2, <2>12, <3>1, <3>5
      <4>2. Cardinality(Rows(n, t)) = Cardinality(R) + 1
        <5> HIDE DEF R, Rows
        <5> QED
          BY <1>1, <2>3, <4>1, OneMore
      <4>3. (\A k \in Named(m, t) : i <= k) <=> ~\E k \in Named(m, t) : k < i
        BY <3>1, <3>2
      <4>4. m.tables[i].rows = IF \E k \in Named(m, t) : k < i THEN 0 ELSE Cardinality(R)
        BY <2>13, <3>1
      <4> HIDE DEF R, Rows, m, v, t0, Made
      <4> QED
        BY <2>8, <3>1, <3>3, <3>5, <4>2, <4>3, <4>4
    <3> QED
      BY <3>4, <3>5
  <2> QED
    BY <2>10, <2>14
<1> HIDE DEF v
<1> QED
  BY <1>2, <1>4, <1>5 DEF AddsUp

\* The report of a dump adds up, whatever its lines are.
LEMMA DumpAddsUp ==
  ASSUME NEW lines \in Seq(Line)
  PROVE  AddsUp(VerifySQLDump(lines), lines, Len(lines))
<1>1. PICK k : Reported(lines, k) /\ VerifySQLDump(lines) = k[Len(lines)]
  BY VerifyIsLoop
<1>2. Len(lines) \in Nat
  OBVIOUS
<1> DEFINE Good == {n \in 0 .. Len(lines) : AddsUp(k[n], lines, n)}
<1>3. 0 \in Good
  <2>1. k[0] = NoReport
    BY <1>1 DEF Reported
  <2>2. \A t : Named(NoReport, t) = {}
    BY DEF Named, NoReport
  <2>3. 1 .. 0 = {}
    OBVIOUS
  <2>4. AddsUp(NoReport, lines, 0)
    BY <2>2, <2>3, FS_EmptySet DEF AddsUp, NoReport
  <2> QED
    BY <1>2, <2>1, <2>4
<1>4. ASSUME NEW n \in 1 .. Len(lines), n - 1 \in Good
      PROVE  n \in Good
  <2>1. k[n] = VerifyLine(k[n - 1], lines[n]) /\ k[n - 1] \in Report
    BY <1>1, <1>2 DEF Reported
  <2>2. AddsUp(k[n], lines, n)
    BY <1>4, <2>1, LineAddsUp
  <2> QED
    BY <2>2
<1>5. \A n \in 0 .. Len(lines) : n \in Good
  <2> HIDE DEF Good
  <2>1. \A n \in 1 .. Len(lines) : n - 1 \in Good => n \in Good
    BY <1>4
  <2> QED
    BY <1>2, <1>3, <2>1, Rounds
<1>6. Len(lines) \in 0 .. Len(lines)
  BY <1>2
<1> QED
  BY <1>1, <1>5, <1>6

\* The report of a dump that passed adds up, for any dumps.
THEOREM ReportAddsUpTheorem == Spec => []ReportAddsUp
<1>1. TypedInv => ReportAddsUp
  <2> SUFFICES ASSUME TypedInv, NEW r \in Reader, reader[r].data # Mixed
               PROVE  AddsUp(VerifySQLDump(LinesOf[reader[r].data]), LinesOf[reader[r].data],
                             Len(LinesOf[reader[r].data]))
    BY DEF ReportAddsUp
  <2>1. reader[r].data \in Version
    BY DEF TypedInv, TypeOK, Reading, Data
  <2>2. LinesOf[reader[r].data] \in Seq(Line)
    BY <2>1, PipelineOK
  <2> QED
    BY <2>2, DumpAddsUp
<1> QED
  BY <1>1, TypedInvariant, PTL

=============================================================================
