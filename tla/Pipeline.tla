------------------------------- MODULE Pipeline -------------------------------
(***************************************************************************)
(* What becomes of the data: Agent.Backup's pipeline of dump, gzip and     *)
(* AES-GCM into a file of the backups directory (internal/agent, backup,   *)
(* crypto, storage), the three commands that go the way back (`restore     *)
(* --file`, `verify --file`, `decrypt`), and `cleanup`, which removes      *)
(* files by age.  Backups, readers, cleanup, the applications that write   *)
(* the database and whoever replaces the key take their steps in any       *)
(* order, fail anywhere and may be killed anywhere.                        *)
(*                                                                         *)
(* A file is named by the run that made it.  Two runs with the same name   *)
(* are BackupAgent's subject, a torn key file is KeyFile's.                *)
(***************************************************************************)
EXTENDS Naturals, FiniteSets, Sequences

CONSTANTS
  Run,          \* runs of Agent.Backup
  Reader,       \* restore, verify and decrypt commands, each of which runs once
  Version,      \* contents of the database
  LinesOf,      \* the SQL dump of each
  Mixed,        \* a content that no transaction left: parts of several
  Table, NoTable,
  KeyValue, NoKey, NoFile,
  MaxCommands   \* bound: how many runs and commands are started

\* The table that a line of the dump creates, and the one it inserts into.
Line == [create : Table \cup {NoTable}, insert : Table \cup {NoTable}]

ASSUME PipelineOK ==
  /\ LinesOf \in [Version -> Seq(Line)]
  /\ Mixed \notin Version /\ NoTable \notin Table /\ NoKey \notin KeyValue
  /\ MaxCommands \in Nat

Data == Version \cup {Mixed}
Gz   == {"whole", "clipped"}
File == [data : Data, gz : Gz, key : KeyValue, whole : BOOLEAN]

ASSUME NoFileOK == NoFile \notin File

VARIABLES
  database,
  key,        \* key.bin
  run,        \* runs: where they are, and what they have in their temporary files
  file,       \* the backups directory
  old,        \* files older than the retention
  reader,     \* commands that read a file
  clean,      \* the cleanup command
  certified   \* files that verify has passed, since when file and key are the same (history)

vars == <<database, key, run, file, old, reader, clean, certified>>

Backup == [pc : {"idle", "dump", "zip", "save", "saving", "ok", "failed"},
           key : KeyValue \cup {NoKey}, data : Data, gz : Gz]

\* alone: no other restore has worked on the database meanwhile (history); scan: what
\* verify has scanned the stream for.
Reading == [pc : {"idle", "ready", "gz", "sql", "applying", "done", "failed", "broke"},
            kind : {"restore", "verify", "decrypt"}, of : Run,
            key : KeyValue \cup {NoKey}, data : Data, gz : Gz, alone : BOOLEAN,
            scan : {"none", "sql", "mongo"}]

\* here: local.path, which it lists, is the directory Save writes to; found: the old
\* files there when it began (history).
Cleanup == [pc : {"idle", "listed", "done"}, here : BOOLEAN, dry : BOOLEAN,
            found : SUBSET Run, left : SUBSET Run, whole : BOOLEAN]

\* Who has no temporary files, and no key loaded.
NoBackup == [pc |-> "idle", key |-> NoKey, data |-> Mixed, gz |-> "whole"]
NoReading(j) == [pc |-> "idle", kind |-> "verify", of |-> j, key |-> NoKey, data |-> Mixed,
                 gz |-> "whole", alone |-> TRUE, scan |-> "none"]

Init ==
  /\ database \in Version
  /\ key = NoKey
  /\ run = [j \in Run |-> NoBackup]
  /\ file = [j \in Run |-> NoFile]
  /\ old = {}
  /\ \E j \in Run : reader = [r \in Reader |-> NoReading(j)]
  /\ clean = [pc |-> "idle", here |-> TRUE, dry |-> FALSE, found |-> {}, left |-> {},
              whole |-> TRUE]
  /\ certified = {}

Started == Cardinality({j \in Run : run[j].pc # "idle"})
         + Cardinality({r \in Reader : reader[r].pc # "idle"})
         + (IF clean.pc = "idle" THEN 0 ELSE 1)

-----------------------------------------------------------------------------
(* Agent.Backup.                                                           *)

Step(j, from, to) ==
  /\ run[j].pc = from
  /\ run' = [run EXCEPT ![j].pc = to]

\* Mutant: without a key the data is stored as it is.
LoadKey_Optional(j) ==
  /\ Started < MaxCommands
  /\ run[j].pc = "idle"
  /\ run' = [run EXCEPT ![j] = [@ EXCEPT !.pc = "dump", !.key = key]]
  /\ UNCHANGED <<database, key, file, old, reader, clean, certified>>

\* The process of the run has loaded the key, which it never loads again.
LoadKey(j) ==
  /\ key # NoKey /\ Started < MaxCommands
  /\ run[j].pc = "idle"
  /\ run' = [run EXCEPT ![j] = [@ EXCEPT !.pc = "dump", !.key = key]]
  /\ UNCHANGED <<database, key, file, old, reader, clean, certified>>

\* mysqldump --single-transaction and pg_dump see one state of the database.
Dump(j) ==
  /\ run[j].pc = "dump"
  /\ run' = [run EXCEPT ![j] = [@ EXCEPT !.pc = "zip", !.data = database]]
  /\ UNCHANGED <<database, key, file, old, reader, clean, certified>>

\* The error of the deferred Close, which writes the rest, is dropped.
Compress(j) ==
  /\ run[j].pc = "zip"
  /\ \E gz \in Gz : run' = [run EXCEPT ![j] = [@ EXCEPT !.pc = "save", !.gz = gz]]
  /\ UNCHANGED <<database, key, file, old, reader, clean, certified>>

\* Encrypt, of what the run alone has, and whether Save has written all of it.
Sealed(j, whole) ==
  [data |-> run[j].data, gz |-> run[j].gz, key |-> run[j].key, whole |-> whole]

SaveOpen(j) ==
  /\ Step(j, "save", "saving")
  /\ file' = [file EXCEPT ![j] = Sealed(j, FALSE)]
  /\ UNCHANGED <<database, key, old, reader, clean, certified>>

\* io.Copy is done.  That the file system keeps what the deferred Close, whose error is
\* dropped, and no fsync have told it to write, is taken for granted.
SaveDone(j) ==
  /\ Step(j, "saving", "ok")
  /\ file' = [file EXCEPT ![j] = Sealed(j, TRUE)]
  /\ UNCHANGED <<database, key, old, reader, clean, certified>>

\* Mutant: Save does not look at the error of io.Copy.
SaveFails_Ignored(j) ==
  /\ Step(j, "saving", "ok")
  /\ UNCHANGED <<database, key, file, old, reader, clean, certified>>

\* The deferred removals leave no temporary file, and Save removes its own file.
SaveFails(j) ==
  /\ run[j].pc = "saving"
  /\ run' = [run EXCEPT ![j] = [NoBackup EXCEPT !.pc = "failed"]]
  /\ file' = [file EXCEPT ![j] = NoFile]
  /\ UNCHANGED <<database, key, old, reader, clean, certified>>

\* An error or a kill before Save, or a kill during it.
BackupFails(j) ==
  /\ run[j].pc \in {"dump", "zip", "save", "saving"}
  /\ run' = [run EXCEPT ![j] = [NoBackup EXCEPT !.pc = "failed"]]
  /\ UNCHANGED <<database, key, file, old, reader, clean, certified>>

-----------------------------------------------------------------------------
(* RestoreFromFile, runVerify and runDecrypt.                              *)

\* The key is loaded before the file is opened; restore asks the user in between.
Begin(r, kind, j) ==
  /\ reader[r].pc = "idle" /\ key # NoKey /\ Started < MaxCommands
  /\ file[j] # NoFile
  /\ reader' = [reader EXCEPT ![r] = [@ EXCEPT !.pc = "ready", !.kind = kind, !.of = j,
                                               !.key = key]]
  /\ UNCHANGED <<database, key, run, file, old, clean, certified>>

\* Mutant: a stream cipher without authentication.
Decrypt_Unauthenticated(r) ==
  LET s == file[reader[r].of] IN
  /\ reader[r].pc = "ready"
  /\ s # NoFile
  /\ s.key = reader[r].key
  /\ reader' = [reader EXCEPT ![r] = [@ EXCEPT !.pc = "gz", !.gz = s.gz,
                                      !.data = IF s.whole THEN s.data ELSE Mixed]]
  /\ UNCHANGED <<database, key, run, file, old, clean, certified>>

\* gcm.Open: every byte of the file is there, and the key is the one it was sealed with.
Decrypt(r) ==
  LET s == file[reader[r].of] IN
  /\ reader[r].pc = "ready"
  /\ s # NoFile
  /\ s.whole /\ s.key = reader[r].key
  /\ reader' = [reader EXCEPT ![r] = [@ EXCEPT !.pc = "gz", !.gz = s.gz, !.data = s.data]]
  /\ UNCHANGED <<database, key, run, file, old, clean, certified>>

\* Of the file as it is and the key as it is.
Certify(r) ==
  certified' = IF /\ reader[r].kind = "verify" /\ reader[r].key = key
                  /\ file[reader[r].of] # NoFile
               THEN certified \cup {reader[r].of} ELSE certified

\* Mutant: the end of the input ends the stream.
Decompress_IgnoresEOF(r) ==
  /\ reader[r].pc = "gz"
  /\ reader' = [reader EXCEPT ![r] = [@ EXCEPT
                  !.data = IF reader[r].gz = "whole" THEN @ ELSE Mixed,
                  !.pc = IF reader[r].kind = "restore" THEN "sql" ELSE "done"]]
  /\ Certify(r)
  /\ UNCHANGED <<database, key, run, file, old, clean>>

\* verify scans for SQL or, when there is "mongo" in the path of the file, for a MongoDB
\* archive, whatever the stream is.  (A path that suggests nothing leaves it to the first
\* kilobyte, which shows SQL, or verify fails.)
ScansFor(r) == IF reader[r].kind = "verify" THEN {"sql", "mongo"} ELSE {"none"}

\* io.Copy, or the reader of the report, meets the end of the stream: a stream without
\* its trailer is an error.  Only restore goes on.
Decompress(r) ==
  /\ reader[r].pc = "gz" /\ reader[r].gz = "whole"
  /\ \E scan \in ScansFor(r) :
       reader' = [reader EXCEPT ![r] = [@ EXCEPT !.scan = scan,
                    !.pc = IF reader[r].kind = "restore" THEN "sql" ELSE "done"]]
  /\ Certify(r)
  /\ UNCHANGED <<database, key, run, file, old, clean>>

\* The file cannot be opened, decrypted or decompressed, verify cannot tell what is in
\* it, a temporary file cannot be written, the user says no, or the command is killed.
ReaderFails(r) ==
  /\ reader[r].pc \in {"ready", "gz", "sql"}
  /\ reader' = [reader EXCEPT ![r] = [NoReading(@.of) EXCEPT !.pc = "failed"]]
  /\ UNCHANGED <<database, key, run, file, old, clean, certified>>

Applying == {r \in Reader : reader[r].pc = "applying"}

\* The client of the database starts to apply the dump, statement by statement.
Apply(r) ==
  /\ reader[r].pc = "sql"
  /\ database' = Mixed
  /\ reader' = [q \in Reader |->
                  CASE q = r -> [reader[r] EXCEPT !.pc = "applying", !.alone = (Applying = {})]
                    [] q \in Applying -> [reader[q] EXCEPT !.alone = FALSE]
                    [] OTHER -> reader[q]]
  /\ UNCHANGED <<key, run, file, old, clean, certified>>

\* It exits with 0: no statement failed.  What two restores at once leave is anybody's guess.
ApplyDone(r) ==
  /\ reader[r].pc = "applying"
  /\ \E c \in {reader[r].data} \cup (IF reader[r].alone THEN {} ELSE {Mixed}) : database' = c
  /\ reader' = [reader EXCEPT ![r].pc = "done"]
  /\ UNCHANGED <<key, run, file, old, clean, certified>>

\* It fails or is killed halfway: nothing is undone.
ApplyFails(r) ==
  /\ reader[r].pc = "applying"
  /\ reader' = [reader EXCEPT ![r].pc = "broke"]
  /\ UNCHANGED <<database, key, run, file, old, clean, certified>>

-----------------------------------------------------------------------------
(* runCleanup, in local mode.                                              *)

\* Mutant: every backup file is listed.
OldFiles_All == {j \in Run : file[j] # NoFile}
OldFiles == {j \in old : file[j] # NoFile}

\* It lists local.path, which init sets to the default directory or to another; backups
\* are always saved to the default one.  (A file that cannot be stat'ed is left out.)
ListBackupFiles(dry, here) ==
  /\ clean.pc = "idle" /\ Started < MaxCommands
  /\ LET list == IF here THEN OldFiles ELSE {} IN
     clean' = [clean EXCEPT !.pc = IF list = {} THEN "done" ELSE "listed", !.dry = dry,
                            !.here = here, !.found = OldFiles, !.left = list]
  /\ UNCHANGED <<database, key, run, file, old, reader, certified>>

\* The preview ends, or the user says no, or the command is killed.
CleanupStops ==
  /\ clean.pc = "listed"
  /\ clean' = [clean EXCEPT !.pc = "done", !.whole = FALSE]
  /\ UNCHANGED <<database, key, run, file, old, reader, certified>>

Left(j) == LET left == clean.left \ {j} IN
  [clean EXCEPT !.left = left, !.pc = IF left = {} THEN "done" ELSE "listed"]

\* What was listed is removed by name.
RemoveOld(j) ==
  /\ clean.pc = "listed" /\ ~clean.dry
  /\ j \in clean.left /\ file[j] # NoFile
  /\ file' = [file EXCEPT ![j] = NoFile]
  /\ certified' = certified \ {j}
  /\ clean' = Left(j)
  /\ UNCHANGED <<database, key, run, old, reader>>

\* Mutant: a file that cannot be removed does not count.
RemoveOldFails_Silent(j) ==
  /\ clean.pc = "listed" /\ ~clean.dry
  /\ j \in clean.left
  /\ clean' = Left(j)
  /\ UNCHANGED <<database, key, run, file, old, reader, certified>>

\* Cleanup goes on, and reports the failure at the end.
RemoveOldFails(j) ==
  /\ clean.pc = "listed" /\ ~clean.dry
  /\ j \in clean.left
  /\ clean' = [Left(j) EXCEPT !.whole = FALSE]
  /\ UNCHANGED <<database, key, run, file, old, reader, certified>>

-----------------------------------------------------------------------------
(* The rest of the world.                                                  *)

\* A transaction of an application.
Write(v) ==
  /\ database # Mixed
  /\ database' = v
  /\ UNCHANGED <<key, run, file, old, reader, clean, certified>>

\* `init` or `key import`.
WriteKey(k) ==
  /\ k # key
  /\ key' = k
  /\ certified' = {}
  /\ UNCHANGED <<database, run, file, old, reader, clean>>

GrowsOld(j) ==
  /\ file[j] # NoFile /\ run[j].pc # "saving"
  /\ old' = old \cup {j}
  /\ UNCHANGED <<database, key, run, file, reader, clean, certified>>

BackupStep(j) ==
  \/ LoadKey(j) \/ Dump(j) \/ Compress(j)
  \/ SaveOpen(j) \/ SaveDone(j) \/ SaveFails(j) \/ BackupFails(j)

ReaderStep(r) ==
  \/ \E kind \in {"restore", "verify", "decrypt"}, j \in Run : Begin(r, kind, j)
  \/ Decrypt(r) \/ Decompress(r) \/ ReaderFails(r)
  \/ Apply(r) \/ ApplyDone(r) \/ ApplyFails(r)

CleanupStep ==
  \/ (\E dry, here \in BOOLEAN : ListBackupFiles(dry, here)) \/ CleanupStops
  \/ \E j \in Run : RemoveOld(j) \/ RemoveOldFails(j)

World ==
  \/ \E v \in Version : Write(v)
  \/ \E k \in KeyValue : WriteKey(k)
  \/ \E j \in Run : GrowsOld(j)

Next ==
  \/ \E j \in Run : BackupStep(j)
  \/ \E r \in Reader : ReaderStep(r)
  \/ CleanupStep
  \/ World

Spec == Init /\ [][Next]_vars

-----------------------------------------------------------------------------
(* The report of verify on an SQL dump.                                    *)

NoReport == [tables |-> <<>>, total |-> 0]

WithTable(report, t) ==
  IF t = NoTable THEN report
  ELSE [report EXCEPT !.tables = Append(@, [name |-> t, rows |-> 0])]

Named(report, t) == {i \in DOMAIN report.tables : report.tables[i].name = t}

OneMoreRow(entry) == [entry EXCEPT !.rows = @ + 1]

\* Mutant: without the break every entry of that name is counted up.
WithRow_NoBreak(report, t) ==
  IF t = NoTable THEN report
  ELSE [tables |-> [i \in DOMAIN report.tables |->
                      IF i \in Named(report, t) THEN OneMoreRow(report.tables[i])
                      ELSE report.tables[i]],
        total |-> report.total + 1]

\* An INSERT counts in the total, and for the first entry of its table.
WithRow(report, t) ==
  LET first(i) == i \in Named(report, t) /\ \A k \in Named(report, t) : i <= k IN
  IF t = NoTable THEN report
  ELSE [tables |-> [i \in DOMAIN report.tables |->
                      IF first(i) THEN OneMoreRow(report.tables[i]) ELSE report.tables[i]],
        total |-> report.total + 1]

VerifyLine(report, line) == WithRow(WithTable(report, line.create), line.insert)

VerifySQLDump(lines) ==
  LET after[n \in 0 .. Len(lines)] ==
        IF n = 0 THEN NoReport ELSE VerifyLine(after[n - 1], lines[n])
  IN after[Len(lines)]

\* Of the first n lines every row counts once: in all, and for the table that was created
\* first under the name, if that is earlier than the row.
AddsUp(report, lines, n) ==
  LET Made(t) == {i \in 1 .. n : lines[i].create = t}
      Rows(t) == {i \in 1 .. n : lines[i].insert = t /\ \E k \in Made(t) : k <= i}
  IN /\ report.total = Cardinality({i \in 1 .. n : lines[i].insert # NoTable})
     /\ \A t \in Table :
          LET entries == Named(report, t) IN
          /\ Cardinality(entries) = Cardinality(Made(t))
          /\ \A i \in entries : report.tables[i].rows =
               IF \E k \in entries : k < i THEN 0 ELSE Cardinality(Rows(t))

-----------------------------------------------------------------------------
\* Every variable has its type; so no file is stored without a key.
TypeOK ==
  /\ database \in Data
  /\ key \in KeyValue \cup {NoKey}
  /\ run \in [Run -> Backup]
  /\ file \in [Run -> File \cup {NoFile}]
  /\ old \in SUBSET Run
  /\ reader \in [Reader -> Reading]
  /\ clean \in Cleanup
  /\ certified \in SUBSET Run

\* What a restore, verify or decrypt that succeeds has read is what the run dumped,
\* whatever was being written, removed or replaced meanwhile.
ReadsWhatWasDumped ==
  \A r \in Reader : reader[r].pc \in {"sql", "applying", "done"} =>
    reader[r].data = run[reader[r].of].data

\* A restore that reports success has not left the database half restored: only one
\* that is going on or broke off does, or two at once, or one of a backup that was made
\* when the database was.
HalfRestoredIsKnown ==
  database = Mixed =>
    \E r \in Reader : \/ reader[r].pc \in {"applying", "broke"} \/ ~reader[r].alone
                      \/ reader[r].pc = "done" /\ run[reader[r].of].data = Mixed

\* This file can be restored with this key.
Restorable(j) ==
  /\ file[j] # NoFile
  /\ file[j].whole /\ file[j].gz = "whole" /\ file[j].key = key

\* A file that verify has passed can be restored, until it is removed or the key replaced.
VerifiedCanBeRestored == \A j \in certified : Restorable(j)

\* A backup that was reported as done can be restored, unless its gzip stream lost its
\* end unseen, it was cleaned up when it was old, or the key was replaced.
ReportedCanBeRestored ==
  \A j \in Run : run[j].pc = "ok" =>
    \/ Restorable(j)
    \/ run[j].gz = "clipped"
    \/ file[j] = NoFile /\ j \in old
    \/ run[j].key # key

\* The report of a dump that passed adds up, unless the dump was scanned for a MongoDB
\* archive: then it passes with no tables and no rows.
ReportAddsUp ==
  \A r \in Reader :
    (reader[r].pc = "done" /\ reader[r].scan = "sql" /\ reader[r].data # Mixed) =>
      LET lines == LinesOf[reader[r].data] IN AddsUp(VerifySQLDump(lines), lines, Len(lines))

\* A stored backup leaves the directory by cleanup only, not in a preview, and when it
\* is old.
CleanupKeepsRecent ==
  [][\A j \in Run : run[j].pc = "ok" /\ file[j] # NoFile /\ file'[j] = NoFile =>
       j \in old /\ clean.pc = "listed" /\ ~clean.dry]_vars

\* A cleanup that reports no failure leaves nothing that was old when it began, as long
\* as local.path is where backups are saved; with another one it leaves everything.
CleanupRemovesOld ==
  clean.pc = "done" /\ clean.whole /\ clean.here => \A j \in clean.found : file[j] = NoFile

=============================================================================
