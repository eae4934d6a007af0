----------------------------- MODULE BackupAgent -----------------------------
(***************************************************************************)
(* The backup pipeline of marmot from the moment a dump is complete to the *)
(* moment the upload queue no longer holds it: internal/agent (Backup, the *)
(* two upload paths, the retry sweep and the scheduler that drives it),    *)
(* internal/storage (the SQLite queue and the local directory) and the     *)
(* object store they talk to.                                              *)
(*                                                                         *)
(* Three kinds of process share the queue, the directory and the store:    *)
(* the daemon with its scheduled runs and its upload goroutines, and any   *)
(* number of `marmot backup` and other commands.  The daemon may stop or   *)
(* crash between any two steps.  A backup's content is the run (Job) that  *)
(* produced it.  Seconds matter because the file name and the object key   *)
(* are built from them, minutes because the back-off counts them.          *)
(***************************************************************************)
EXTENDS Integers, FiniteSets, Functions

CONSTANTS
  DB,          \* configured database IDs
  DbName,      \* database names; two IDs may have the same name
  NameOf,      \* the name of each database
  Job,         \* runs of Agent.Backup; a run stands for the content it dumps
  DbOf,        \* the database each run backs up
  Slot,        \* upload goroutines of the daemon (bounds how many run at once)
  MaxRetries,  \* maxRetries in RetryFailedUploads (5)
  SweepEvery,  \* minutes between two sweeps of the queue (5)
  MaxSecond,   \* bound: file names are stamped with seconds below it
  IsRoot,      \* do the processes run as root?
  Modes,       \* bound: storage modes the user switches between
  Editable,    \* bound: databases the user removes and adds again
  NoFile, Partial, NoRow, Idle

Content == Job \cup {Partial}        \* what a file or an object can hold
Second  == 0 .. MaxSecond
Name    == DB \X Second              \* <ID>-<Name>-<unix seconds>.enc
Key     == DbName \X Second          \* .../<Name>-<unix seconds>.enc
Worker  == Slot \cup Job             \* a run uploads in its own goroutine

ASSUME ConstantsOK ==
  /\ NameOf \in [DB -> DbName]
  /\ DbOf \in [Job -> DB]
  /\ MaxRetries \in Nat /\ SweepEvery \in Nat /\ MaxSecond \in Nat
  /\ IsRoot \in BOOLEAN
  /\ Modes \subseteq {"s3", "local"} /\ Editable \subseteq DB
  /\ Slot \cap Job = {}
  /\ NoFile \notin Content /\ Partial \notin Job

Row  == [created : Second, retry : Nat, age : Nat]
Task == [pc : {"load", "put", "remove", "count"},
         name : Name, created : Second, content : Content \cup {NoFile}]
Run  == [pc : {"idle", "dumping", "saving", "saved", "uploading", "ok", "failed"},
         by : {"daemon", "cli"}, mode : {"s3", "local"}, rw : BOOLEAN,
         reached : {"new", "named", "saved", "queued"},
         sec : Second, created : Second]

ASSUME NullsOK == NoRow \notin Row /\ Idle \notin Task

VARIABLES
  now,       \* the current second
  disk,      \* config.yaml: storage mode and configured databases
  daemon,    \* the daemon process and the config it loaded when it started
  stateFile, \* does state.db exist?
  queue,     \* rows of upload_queue, by backup name
  files,     \* the backups directory
  remote,    \* the bucket
  jobs,      \* runs of Agent.Backup
  tasks,     \* uploads in progress, by the goroutine that performs them
  cleared,   \* names the user took out of the queue (history)
  cleaned    \* names the user deleted from the directory (history)

vars == <<now, disk, daemon, stateFile, queue, files, remote, jobs, tasks,
          cleared, cleaned>>

Daemon == [up : BOOLEAN, mode : {"s3", "local"}, dbs : SUBSET DB,
           rw : BOOLEAN, wait : Nat, fresh : BOOLEAN]
Down   == [up |-> FALSE, mode |-> "s3", dbs |-> {}, rw |-> FALSE,
           wait |-> 0, fresh |-> FALSE]
Fresh  == [pc |-> "idle", by |-> "cli", mode |-> "s3", rw |-> FALSE,
           reached |-> "new", sec |-> 0, created |-> 0]

NameFor(j) == <<DbOf[j], jobs[j].sec>>
KeyFor(j)  == <<NameOf[DbOf[j]], jobs[j].created>>
KeyOf(t)   == <<NameOf[t.name[1]], t.created>>

\* Another run stamped the same file name, or the same object key.
SharesName(j) == \E k \in Job \ {j} : jobs[k].reached # "new" /\ NameFor(k) = NameFor(j)
SharesKey(j)  == \E k \in Job \ {j} : jobs[k].reached = "queued" /\ KeyFor(k) = KeyFor(j)

\* An existing state.db is opened read-only by every process but root's.  A root that
\* cannot write either, and errors of Open, which end the process, are left out.
OpensWritable == IsRoot \/ ~stateFile

Init ==
  /\ now = 0
  /\ disk = [mode |-> "s3", dbs |-> DB]
  /\ daemon = Down
  /\ stateFile = FALSE
  /\ queue = [n \in Name |-> NoRow]
  /\ files = [n \in Name |-> NoFile]
  /\ remote = [k \in Key |-> NoFile]
  /\ jobs = [j \in Job |-> Fresh]
  /\ tasks = [w \in Worker |-> Idle]
  /\ cleared = {}
  /\ cleaned = {}

-----------------------------------------------------------------------------
(* Agent.Backup: dump, save, stat, enqueue, upload.                        *)

Begin(j, by, mode, rw) ==
  /\ jobs[j].pc = "idle"
  /\ jobs' = [jobs EXCEPT ![j] = [@ EXCEPT !.pc = "dumping", !.by = by,
                                          !.mode = mode, !.rw = rw]]

\* The cron entry of an enabled database fires in the daemon.
ScheduledBackup(j) ==
  /\ daemon.up /\ DbOf[j] \in daemon.dbs
  /\ Begin(j, "daemon", daemon.mode, daemon.rw)
  /\ UNCHANGED <<now, disk, daemon, stateFile, queue, files, remote, tasks, cleared, cleaned>>

\* `marmot backup` loads the config and opens the queue, then runs Backup.
CommandBackup(j) ==
  /\ DbOf[j] \in disk.dbs
  /\ Begin(j, "cli", disk.mode, OpensWritable)
  /\ stateFile' = TRUE
  /\ UNCHANGED <<now, disk, daemon, queue, files, remote, tasks, cleared, cleaned>>

\* Any step before the save, or opening the target file, returns an error.
PipelineFails(j) ==
  /\ jobs[j].pc = "dumping"
  /\ jobs' = [jobs EXCEPT ![j].pc = "failed"]
  /\ UNCHANGED <<now, disk, daemon, stateFile, queue, files, remote, tasks, cleared, cleaned>>

\* Save opens the final name, truncating whatever was there.
SaveOpen(j) ==
  /\ jobs[j].pc = "dumping"
  /\ now < MaxSecond
  /\ jobs' = [jobs EXCEPT ![j] = [@ EXCEPT !.pc = "saving", !.sec = now,
                                          !.reached = "named"]]
  /\ files' = [files EXCEPT ![<<DbOf[j], now>>] = Partial]
  /\ UNCHANGED <<now, disk, daemon, stateFile, queue, remote, tasks, cleared, cleaned>>

\* What io.Copy leaves under the name: two runs that write it at once leave either
\* content or a mix, and nothing once the other's failed Save has removed the file.
Written(j) ==
  IF ~SharesName(j) THEN {j}
  ELSE IF files[NameFor(j)] = NoFile THEN {NoFile}
  ELSE {j, Partial, files[NameFor(j)]}

SaveDone(j) ==
  /\ jobs[j].pc = "saving"
  /\ \E c \in Written(j) : files' = [files EXCEPT ![NameFor(j)] = c]
  /\ jobs' = [jobs EXCEPT ![j] = [@ EXCEPT !.pc = "saved", !.reached = "saved"]]
  /\ UNCHANGED <<now, disk, daemon, stateFile, queue, remote, tasks, cleared, cleaned>>

\* io.Copy fails (disk full): Save removes the file it was writing.
SaveFails(j) ==
  /\ jobs[j].pc = "saving"
  /\ files' = [files EXCEPT ![NameFor(j)] = NoFile]
  /\ jobs' = [jobs EXCEPT ![j].pc = "failed"]
  /\ UNCHANGED <<now, disk, daemon, stateFile, queue, remote, tasks, cleared, cleaned>>

\* In local mode the run ends once the file can be stat'ed.
FinishLocal(j) ==
  /\ jobs[j].pc = "saved" /\ jobs[j].mode = "local"
  /\ files[NameFor(j)] # NoFile
  /\ jobs' = [jobs EXCEPT ![j].pc = "ok"]
  /\ UNCHANGED <<now, disk, daemon, stateFile, queue, files, remote, tasks, cleared, cleaned>>

\* Mutant: every attempt is stamped with the time it starts.
NewTask_Restamps(n, t) == [pc |-> "load", name |-> n, created |-> now, content |-> NoFile]
NewTask(n, t) == [pc |-> "load", name |-> n, created |-> t, content |-> NoFile]
NewRow(t)     == [created |-> t, retry |-> 0, age |-> 0]

\* INSERT OR REPLACE: a row of the same name starts over with no retries.
Enqueue(n, t) == queue' = [queue EXCEPT ![n] = NewRow(t)]

\* Stat, Enqueue, and the upload: a scheduled run starts a goroutine for it and
\* returns, a command uploads by itself.
EnqueueAndUpload(j) ==
  /\ jobs[j].pc = "saved" /\ jobs[j].mode = "s3" /\ jobs[j].rw
  /\ files[NameFor(j)] # NoFile
  /\ now < MaxSecond
  /\ Enqueue(NameFor(j), now)
  /\ IF jobs[j].by = "daemon"
     THEN /\ \E s \in Slot : /\ tasks[s] = Idle
                             /\ tasks' = [tasks EXCEPT ![s] = NewTask(NameFor(j), now)]
          /\ jobs' = [jobs EXCEPT ![j] = [@ EXCEPT !.pc = "ok", !.reached = "queued",
                                                  !.created = now]]
     ELSE /\ tasks' = [tasks EXCEPT ![j] = NewTask(NameFor(j), now)]
          /\ jobs' = [jobs EXCEPT ![j] = [@ EXCEPT !.pc = "uploading", !.reached = "queued",
                                                  !.created = now]]
  /\ UNCHANGED <<now, disk, daemon, stateFile, files, remote, cleared, cleaned>>

\* Stat fails because the file is gone, or the INSERT fails (always so on a
\* read-only connection): the run reports an error and leaves the file.
EnqueueFails(j) ==
  /\ jobs[j].pc = "saved"
  /\ files[NameFor(j)] = NoFile \/ jobs[j].mode = "s3"
  /\ jobs' = [jobs EXCEPT ![j].pc = "failed"]
  /\ UNCHANGED <<now, disk, daemon, stateFile, queue, files, remote, tasks, cleared, cleaned>>

-----------------------------------------------------------------------------
(* uploadBackup (w \in Slot) and uploadBackupSync (w \in Job).             *)

At(w, pc) == tasks[w] # Idle /\ tasks[w].pc = pc

\* Mutant: a command swallows the error of its upload.
Fail_Swallowed(w) ==
  /\ tasks' = [tasks EXCEPT ![w] = Idle]
  /\ jobs' = IF w \in Slot THEN jobs ELSE [jobs EXCEPT ![w].pc = "ok"]

\* A goroutine that failed goes on to IncrementRetry; a command just reports.
Fail(w) ==
  IF w \in Slot
  THEN tasks' = [tasks EXCEPT ![w] = [@ EXCEPT !.pc = "count"]] /\ UNCHANGED jobs
  ELSE tasks' = [tasks EXCEPT ![w] = Idle] /\ jobs' = [jobs EXCEPT ![w].pc = "failed"]

Finish(w, result) ==
  /\ tasks' = [tasks EXCEPT ![w] = Idle]
  /\ jobs' = IF w \in Slot THEN jobs ELSE [jobs EXCEPT ![w].pc = result]

\* Mutant: taking a backup to upload it dequeues it.
Load_Dequeues(w) ==
  /\ At(w, "load")
  /\ files[tasks[w].name] # NoFile
  /\ tasks' = [tasks EXCEPT ![w] = [@ EXCEPT !.pc = "put",
                                            !.content = files[tasks[w].name]]]
  /\ queue' = [queue EXCEPT ![tasks[w].name] = NoRow]
  /\ UNCHANGED <<now, disk, daemon, stateFile, files, remote, jobs, cleared, cleaned>>

Load(w) ==
  /\ At(w, "load")
  /\ files[tasks[w].name] # NoFile
  /\ tasks' = [tasks EXCEPT ![w] = [@ EXCEPT !.pc = "put",
                                            !.content = files[tasks[w].name]]]
  /\ UNCHANGED <<now, disk, daemon, stateFile, queue, files, remote, jobs, cleared, cleaned>>

LoadFails(w) ==
  /\ At(w, "load")
  /\ Fail(w)
  /\ UNCHANGED <<now, disk, daemon, stateFile, queue, files, remote, cleared, cleaned>>

\* What PutObject reads: the file that was opened, or what a later Save under
\* the same name has made of it.
ReadBy(w) == {tasks[w].content} \cup ({files[tasks[w].name]} \ {NoFile})

\* The daemon in local mode has no remote: its upload goroutines get no further.
HasRemote(w) == w \in Slot => daemon.mode = "s3"

Put(w) ==
  /\ At(w, "put") /\ HasRemote(w)
  /\ \E c \in ReadBy(w) : remote' = [remote EXCEPT ![KeyOf(tasks[w])] = c]
  /\ tasks' = [tasks EXCEPT ![w] = [@ EXCEPT !.pc = "remove"]]
  /\ UNCHANGED <<now, disk, daemon, stateFile, queue, files, jobs, cleared, cleaned>>

\* Mutant: a failed upload deletes the object it may have left behind.
PutFails_Aborts(w) ==
  /\ At(w, "put") /\ HasRemote(w)
  /\ remote' = [remote EXCEPT ![KeyOf(tasks[w])] = NoFile]
  /\ Fail(w)
  /\ UNCHANGED <<now, disk, daemon, stateFile, queue, files, cleared, cleaned>>

\* Network error or timeout; the object may have been stored all the same.
PutFails(w) ==
  /\ At(w, "put") /\ HasRemote(w)
  /\ \/ UNCHANGED remote
     \/ \E c \in ReadBy(w) : remote' = [remote EXCEPT ![KeyOf(tasks[w])] = c]
  /\ Fail(w)
  /\ UNCHANGED <<now, disk, daemon, stateFile, queue, files, cleared, cleaned>>

\* May this upload write the queue? A goroutine uses the daemon's connection.
Writable(w) == IF w \in Slot THEN daemon.rw ELSE jobs[w].rw

\* Mutant: a finished upload deletes the local file as well.
Remove_DropsFile(w) ==
  /\ At(w, "remove") /\ Writable(w)
  /\ queue[tasks[w].name] # NoRow
  /\ queue' = [queue EXCEPT ![tasks[w].name] = NoRow]
  /\ files' = [files EXCEPT ![tasks[w].name] = NoFile]
  /\ Finish(w, "ok")
  /\ UNCHANGED <<now, disk, daemon, stateFile, remote, cleared, cleaned>>

\* DELETE of a row that is there.
Remove(w) ==
  /\ At(w, "remove") /\ Writable(w)
  /\ queue[tasks[w].name] # NoRow
  /\ queue' = [queue EXCEPT ![tasks[w].name] = NoRow]
  /\ Finish(w, "ok")
  /\ UNCHANGED <<now, disk, daemon, stateFile, files, remote, cleared, cleaned>>

\* The row is gone already, or the DELETE fails: a warning, or the command's error.
RemoveFails(w) ==
  /\ At(w, "remove")
  /\ Finish(w, "failed")
  /\ UNCHANGED <<now, disk, daemon, stateFile, queue, files, remote, cleared, cleaned>>

\* Mutants: the UPDATE is an upsert; the counter runs backwards.
IncrementRetry_Upserts(w) ==
  /\ At(w, "count") /\ Writable(w)
  /\ queue' = [queue EXCEPT ![tasks[w].name] =
                 [created |-> tasks[w].created, retry |-> 1, age |-> 0]]
  /\ Finish(w, "failed")
  /\ UNCHANGED <<now, disk, daemon, stateFile, files, remote, cleared, cleaned>>

IncrementRetry_Backwards(w) ==
  /\ At(w, "count") /\ Writable(w)
  /\ LET n == tasks[w].name IN
     queue' = IF queue[n] = NoRow THEN queue
              ELSE [queue EXCEPT ![n] = [@ EXCEPT !.retry = @ - 1, !.age = 0]]
  /\ Finish(w, "failed")
  /\ UNCHANGED <<now, disk, daemon, stateFile, files, remote, cleared, cleaned>>

\* retry_count + 1, last_retry_at = now
Counted(row) == [row EXCEPT !.retry = @ + 1, !.age = 0]

\* IncrementRetry is an UPDATE: it does nothing to a row that is gone.
IncrementRetry(w) ==
  /\ At(w, "count") /\ Writable(w)
  /\ LET n == tasks[w].name IN
     queue' = IF queue[n] = NoRow THEN queue
              ELSE [queue EXCEPT ![n] = Counted(@)]
  /\ Finish(w, "failed")
  /\ UNCHANGED <<now, disk, daemon, stateFile, files, remote, cleared, cleaned>>

\* Its error is ignored.
IncrementFails(w) ==
  /\ At(w, "count")
  /\ Finish(w, "failed")
  /\ UNCHANGED <<now, disk, daemon, stateFile, queue, files, remote, cleared, cleaned>>

-----------------------------------------------------------------------------
(* The daemon: start, the retry sweep, the scheduler's clock, stop.        *)

\* LoadConfig, NewSQLiteQueue and Scheduler.Start, which also starts a first sweep.
\* cron fires at fixed minutes of the hour, so the first tick may be any time off.
StartDaemon ==
  /\ ~daemon.up
  /\ \E wait \in 0 .. SweepEvery :
       daemon' = [up |-> TRUE, mode |-> disk.mode, dbs |-> disk.dbs,
                  rw |-> OpensWritable, wait |-> wait, fresh |-> TRUE]
  /\ stateFile' = TRUE
  /\ UNCHANGED <<now, disk, queue, files, remote, jobs, tasks, cleared, cleaned>>

Backoff(retry) == 2 ^ retry

\* Mutant: only rows that have failed before are retried.
Due_OnlyFailed(n) ==
  /\ queue[n] # NoRow
  /\ queue[n].retry \in 1 .. MaxRetries - 1
  /\ queue[n].age >= Backoff(queue[n].retry)
  /\ n[1] \in daemon.dbs

\* Which rows a sweep retries, given the config the daemon runs with.
Due(n) ==
  /\ queue[n] # NoRow
  /\ queue[n].retry < MaxRetries
  /\ queue[n].retry = 0 \/ queue[n].age >= Backoff(queue[n].retry)
  /\ n[1] \in daemon.dbs

DueNames == {n \in Name : Due(n)}

\* One goroutine per due row, whatever the other goroutines are doing.
RetryFailedUploads ==
  \E start \in Injection(DueNames, {s \in Slot : tasks[s] = Idle}) :
    tasks' = [w \in Worker |->
                IF \E n \in DueNames : start[n] = w
                THEN LET n == CHOOSE n \in DueNames : start[n] = w
                     IN  NewTask(n, queue[n].created)
                ELSE tasks[w]]

SweepStarts ==
  /\ daemon.up
  /\ \/ daemon.fresh /\ daemon' = [daemon EXCEPT !.fresh = FALSE]
     \/ daemon.wait = 0 /\ daemon' = [daemon EXCEPT !.wait = SweepEvery]

Sweep ==
  /\ SweepStarts
  /\ RetryFailedUploads
  /\ UNCHANGED <<now, disk, stateFile, queue, files, remote, jobs, cleared, cleaned>>

\* List returns an error: a warning, and nothing until the next sweep.
SweepFails ==
  /\ SweepStarts
  /\ UNCHANGED <<now, disk, stateFile, queue, files, remote, jobs, tasks, cleared, cleaned>>

\* The daemon's process is gone, by Stop (which waits for nothing) or by a crash:
\* its runs and its upload goroutines end where they are.
Exit ==
  /\ daemon' = Down
  /\ tasks' = [w \in Worker |-> IF w \in Slot THEN Idle ELSE tasks[w]]
  /\ jobs' = [j \in Job |->
                IF jobs[j].by = "daemon" /\ jobs[j].pc \in {"dumping", "saving", "saved"}
                THEN [jobs[j] EXCEPT !.pc = "failed"] ELSE jobs[j]]

StopOrCrash ==
  /\ daemon.up
  /\ Exit
  /\ UNCHANGED <<now, disk, stateFile, queue, files, remote, cleared, cleaned>>

\* GetClient on the nil remote of a local-mode agent panics in the goroutine.
UploadPanics(w) ==
  /\ At(w, "put") /\ ~HasRemote(w)
  /\ Exit
  /\ UNCHANGED <<now, disk, stateFile, queue, files, remote, cleared, cleaned>>

-----------------------------------------------------------------------------
(* The rest of the world.                                                  *)

\* A `marmot backup` is killed between two steps.
KillCommand(j) ==
  /\ jobs[j].by = "cli" /\ jobs[j].pc \in {"dumping", "saving", "saved", "uploading"}
  /\ jobs' = [jobs EXCEPT ![j].pc = "failed"]
  /\ tasks' = [tasks EXCEPT ![j] = Idle]
  /\ UNCHANGED <<now, disk, daemon, stateFile, queue, files, remote, cleared, cleaned>>

\* `marmot queue clear`
ClearQueue ==
  /\ OpensWritable
  /\ stateFile' = TRUE
  /\ queue' = [n \in Name |-> NoRow]
  /\ cleared' = cleared \cup {n \in Name : queue[n] # NoRow}
  /\ UNCHANGED <<now, disk, daemon, files, remote, jobs, tasks, cleaned>>

\* `marmot cleanup` deletes an old backup; it runs in local mode only.  How old
\* is left open, but a file that is still being written is never old.
Cleanup(n) ==
  /\ disk.mode = "local"
  /\ files[n] # NoFile
  /\ \A j \in Job : jobs[j].pc = "saving" => NameFor(j) # n
  /\ files' = [files EXCEPT ![n] = NoFile]
  /\ cleaned' = cleaned \cup {n}
  /\ UNCHANGED <<now, disk, daemon, stateFile, queue, remote, jobs, tasks, cleared>>

\* `marmot init` switches the storage mode; `marmot db remove` and `db add`.
EditConfig ==
  /\ \/ \E mode \in Modes : disk' = [disk EXCEPT !.mode = mode]
     \/ \E d \in Editable : disk' = [disk EXCEPT !.dbs = @ \ {d}]
     \/ \E d \in Editable : disk' = [disk EXCEPT !.dbs = @ \cup {d}]
  /\ UNCHANGED <<now, daemon, stateFile, queue, files, remote, jobs, tasks, cleared, cleaned>>

Tick == IF now < MaxSecond THEN now + 1 ELSE now

SecondPasses ==
  /\ now < MaxSecond
  /\ now' = Tick
  /\ UNCHANGED <<disk, daemon, stateFile, queue, files, remote, jobs, tasks, cleared, cleaned>>

\* Ages count up to the longest back-off that is ever waited for (a row that failed
\* MaxRetries times is not retried); the cron entry comes a minute nearer.
\* The sweep of a daemon that has just started does not take a minute to begin.
MinutePasses ==
  /\ ~daemon.fresh
  /\ now' = Tick
  /\ queue' = [n \in Name |->
                 IF queue[n] # NoRow /\ queue[n].age < Backoff(MaxRetries - 1)
                 THEN [queue[n] EXCEPT !.age = @ + 1] ELSE queue[n]]
  /\ daemon' = IF daemon.wait > 0 THEN [daemon EXCEPT !.wait = @ - 1] ELSE daemon
  /\ UNCHANGED <<disk, stateFile, files, remote, jobs, tasks, cleared, cleaned>>

-----------------------------------------------------------------------------
Backup(j) ==
  \/ ScheduledBackup(j) \/ CommandBackup(j) \/ PipelineFails(j)
  \/ SaveOpen(j) \/ SaveDone(j) \/ SaveFails(j)
  \/ FinishLocal(j) \/ EnqueueAndUpload(j) \/ EnqueueFails(j) \/ KillCommand(j)

Upload(w) ==
  \/ Load(w) \/ LoadFails(w) \/ Put(w) \/ PutFails(w) \/ UploadPanics(w)
  \/ Remove(w) \/ RemoveFails(w) \/ IncrementRetry(w) \/ IncrementFails(w)

User  == ClearQueue \/ EditConfig \/ \E n \in Name : Cleanup(n)
Clock == SecondPasses \/ MinutePasses

Next ==
  \/ \E j \in Job : Backup(j)
  \/ \E w \in Worker : Upload(w)
  \/ StartDaemon \/ Sweep \/ SweepFails \/ StopOrCrash
  \/ User \/ Clock

Spec == Init /\ [][Next]_vars

-----------------------------------------------------------------------------
(* Safety.                                                                 *)

\* Every variable has its type: the one shallow invariant of this module.
TypeOK ==
  /\ now \in Second
  /\ disk \in [mode : {"s3", "local"}, dbs : SUBSET DB]
  /\ daemon \in Daemon
  /\ stateFile \in BOOLEAN
  /\ queue \in [Name -> Row \cup {NoRow}]
  /\ files \in [Name -> Content \cup {NoFile}]
  /\ remote \in [Key -> Content \cup {NoFile}]
  /\ jobs \in [Job -> Run]
  /\ tasks \in [Worker -> Task \cup {Idle}]
  /\ cleared \in SUBSET Name
  /\ cleaned \in SUBSET Name

Delivered(j) == remote[KeyFor(j)] = j
Queued(j)    == queue[NameFor(j)] # NoRow

\* Once Save has returned, the encrypted file stays whole whatever happens to the
\* upload, the queue and the daemon, until the user cleans it up; unless another
\* run of the same database stamps the same second.
LocalCopyStays ==
  \A j \in Job :
    jobs[j].reached \in {"saved", "queued"} =>
      files[NameFor(j)] = j \/ NameFor(j) \in cleaned \/ SharesName(j)

\* A backup that was enqueued is in the queue until it is in the bucket: failed and
\* duplicated uploads, crashes between Upload and Remove, and restarts never drop
\* it.  `queue clear` and a shared file name or object key are the only ways out.
QueuedOrDelivered ==
  \A j \in Job :
    jobs[j].reached = "queued" =>
      \/ Queued(j) \/ Delivered(j)
      \/ NameFor(j) \in cleared \/ SharesName(j) \/ SharesKey(j)

\* The bucket holds whole backups, each under the one key its first attempt used,
\* however often it is retried and by whom.
BucketHoldsBackups ==
  \A k \in Key : remote[k] # NoFile =>
    \E j \in Job : /\ jobs[j].reached = "queued" /\ KeyFor(j) = k
                   /\ Delivered(j) \/ SharesName(j)

\* `marmot backup` reports a cloud backup as done only when the bucket has it.
SuccessIsDelivered ==
  \A j \in Job :
    jobs[j].by = "cli" /\ jobs[j].mode = "s3" /\ jobs[j].pc = "ok" =>
      Delivered(j) \/ SharesName(j) \/ SharesKey(j)

\* A backup that reached the bucket stays there, whole, though uploads of the same
\* row may still be running, fail, or store it again.
DeliveredForGood ==
  [][\A j \in Job : jobs[j].reached = "queued" /\ Delivered(j) =>
       Delivered(j)' \/ SharesName(j)' \/ SharesKey(j)']_vars

\* A row that was removed after its upload never comes back: a duplicate upload of
\* it that is still running has nothing to count and nothing to retry.
SettledStaysSettled ==
  [][\A j \in Job : jobs[j].reached = "queued" /\ ~Queued(j) =>
       ~Queued(j)' \/ SharesName(j)']_vars

\* The backups the queue answers for: those whose file name and object key no other
\* run has stamped as well.
Undisputed(j) == jobs[j].reached = "queued" /\ ~SharesName(j) /\ ~SharesKey(j)

\* The queue, the directory and the bucket together keep the promise of Delivery, a
\* backup that shares its name or its key being disputed from then on.
Promise == INSTANCE Delivery WITH
  accepted  <- {j \in Job : Undisputed(j)},
  owed      <- {j \in Job : Undisputed(j) /\ Queued(j)},
  delivered <- {j \in Job : Undisputed(j) /\ Delivered(j)},
  forgiven  <- {j \in Job : Undisputed(j) /\ NameFor(j) \in cleared},
  disputed  <- {j \in Job : jobs[j].reached = "queued" /\ ~Undisputed(j)}

KeepsThePromise == Promise!Spec

-----------------------------------------------------------------------------
(* Why they hold.                                                          *)

\* How far a run came follows where it is.
PhasesAgree ==
  \A j \in Job :
    /\ jobs[j].pc \in {"idle", "dumping"} => jobs[j].reached = "new"
    /\ jobs[j].pc = "saving" => jobs[j].reached = "named"
    /\ jobs[j].pc = "saved" => jobs[j].reached = "saved"
    /\ jobs[j].pc = "ok" /\ jobs[j].mode = "s3" => jobs[j].reached = "queued"

\* A run put this name with this time into the queue.
Made(n, t) ==
  \E j \in Job : jobs[j].reached = "queued" /\ NameFor(j) = n /\ jobs[j].created = t

\* Rows and uploads go back to runs, with the time the run stamped; what a command
\* uploads by itself is its own.
RowsHaveRuns  == \A n \in Name : queue[n] # NoRow => Made(n, queue[n].created)
TasksHaveRuns == \A w \in Worker : tasks[w] # Idle => Made(tasks[w].name, tasks[w].created)
OwnUpload     == \A j \in Job : tasks[j] # Idle => /\ jobs[j].reached = "queued"
                                                  /\ tasks[j].name = NameFor(j)

\* The file of a run that has its name to itself is whole, or cleaned up.
FilesAreWhole ==
  \A j \in Job :
    jobs[j].reached \in {"saved", "queued"} /\ ~SharesName(j) =>
      \/ files[NameFor(j)] = j
      \/ files[NameFor(j)] = NoFile /\ NameFor(j) \in cleaned

\* So is what was loaded from it, and only what is in the bucket is removed.
UploadsAreWhole ==
  \A j \in Job, w \in Worker :
    (jobs[j].reached = "queued" /\ ~SharesName(j)
       /\ tasks[w] # Idle /\ tasks[w].name = NameFor(j)) =>
      /\ tasks[w].pc = "put" => tasks[w].content = j
      /\ tasks[w].pc = "remove" => Delivered(j) \/ SharesKey(j)

\* The inductive invariant of durability: together with the types, every step keeps it.
Durable ==
  /\ PhasesAgree
  /\ RowsHaveRuns /\ TasksHaveRuns /\ OwnUpload
  /\ FilesAreWhole /\ UploadsAreWhole
  /\ QueuedOrDelivered /\ BucketHoldsBackups /\ SuccessIsDelivered

-----------------------------------------------------------------------------
(* Liveness.  The daemon's goroutines run, cron ticks, and time passes; a  *)
(* locked database is not locked for ever.  Nothing is assumed of the      *)
(* network, nor of a `marmot backup`.                                      *)

Fairness ==
  /\ WF_vars(MinutePasses) /\ SF_vars(Sweep)
  /\ \A w \in Slot : WF_vars(Upload(w)) /\ SF_vars(Remove(w)) /\ SF_vars(IncrementRetry(w))

FairSpec == Spec /\ Fairness

Settled(n) ==
  queue[n] = NoRow \/ queue[n].retry >= MaxRetries \/ n[1] \notin daemon.dbs

BeingUploaded(n) == \E s \in Slot : tasks[s] # Idle /\ tasks[s].name = n

\* With a cloud-mode daemon that stays up, every row is eventually removed, given
\* up after MaxRetries failures, or belongs to a database the daemon does not know,
\* and the daemon stops uploading it: no row waits for ever, whatever a killed
\* command or daemon left behind, and none is tried for ever.
QueueSettles ==
  <>[](daemon.up /\ daemon.mode = "s3") =>
    \A n \in Name : <>[](Settled(n) /\ ~BeingUploaded(n))

-----------------------------------------------------------------------------
(* What the documentation says and the code does not do.                   *)

\* "Local .enc file always stays": it does not when another run of the database
\* saves under the same name, which is stamped in seconds.
LocalFileAlwaysStays ==
  \A j \in Job :
    jobs[j].reached \in {"saved", "queued"} =>
      files[NameFor(j)] = j \/ NameFor(j) \in cleaned

\* "Create remote storage only for cloud mode", "For local-only storage, skip upload
\* queue": a local-mode daemon never comes to an upload, for which it has no remote.
LocalModeNeverUploads ==
  \A w \in Slot : At(w, "put") => HasRemote(w)

=============================================================================
