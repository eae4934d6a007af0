# marmot, specified

TLA+ specifications of marmot (`marmot-cli`), a program that dumps databases,
encrypts the dumps, keeps them in a local directory and uploads them to an
S3-compatible bucket through a queue that survives crashes. The modules are
translated from the Go code; TLC checks them on small instances and TLAPS proves
theorems about them for all values of their constants. `PROJECT.json` lists, for
every definition, the lines it stands for.

To run: `tlc -config MC_OneRun.cfg MCBackupAgent`, and the same for the other
configurations; `tlapm KeyFileProofs.tla`, and the same for the other `*Proofs`
modules (`DurabilityProofs` takes some minutes).

## 1. The system

| component | state | operations |
|---|---|---|
| backup agent (`internal/agent/agent.go`) | runs and upload goroutines in progress | `Backup`, `uploadBackup` (goroutine), `uploadBackupSync` (command), `RetryFailedUploads`, `Restore` |
| scheduler (`internal/agent/scheduler.go`) | cron entries, the config loaded at start | `Start`, `ScheduleDatabase`, `Stop` |
| upload queue (`internal/storage/queue.go`) | SQLite table `upload_queue`; the mode of the connection | open, `Enqueue`, `List`, `IncrementRetry`, `Remove`, `Clear` |
| backups directory (`internal/storage/local.go`) | `<ID>-<Name>-<seconds>.enc` files | `Save`, `Load`, `Delete`, `List` |
| object store (`internal/s3`, `internal/remote`) | objects under `[prefix/]<server>/Y/M/D/<name>-<seconds>.enc` | `Upload`, `Download`, `ListBackups`, `Delete`, health check |
| PID file (`internal/daemon/pidfile.go`) | `marmot.pid` | `AcquirePIDFile`, release, `ReadPIDFile`, `StopProcess` |
| daemon commands (`start`, `stop`, `daemon restart`, `daemon_launch`, `service`) | processes | start, stop, restart, install |
| configuration (`internal/config`, `init`, `db add/remove/discover`) | `config.yaml` | load, save, validate; each command loads, edits, saves |
| encryption key (`internal/crypto`, `init`, `key`) | `key.bin` | generate, import, export, encrypt, decrypt |
| retention (`cleanup`) | the same directory | delete by age, in local mode |
| restore, verify, decrypt | temporary files; `restore` the database | choose a backup, download, decrypt, decompress, apply or scan |
| dumpers, compressor | temporary files of a run | dump, gzip |
| discovery, status | nothing | reports |

How they interact:

* `marmot start` takes the PID file, loads the configuration once, opens the queue
  and starts the scheduler. From then on the daemon never reads the configuration
  or the key again.
* The scheduler runs `Backup` for each enabled database at its schedule, sweeps the
  queue every five minutes, and once when it starts. A scheduled run leaves its
  upload to a goroutine; a sweep starts one goroutine per row that is due. Nothing
  tells these goroutines of each other: the same row may be uploaded by several.
* `marmot backup` does the same work in its own process and uploads before it
  returns. It shares directory, queue and bucket with the daemon, by file system
  and SQLite only.
* `queue clear`, `cleanup`, `init` and `db` change the shared files under a running
  daemon.
* `restore` and `verify` see nothing but the bucket (or one local file), and the key.
* `daemon restart` and `init` launch a daemon as a child and never wait for it; a
  systemd unit starts one and restarts it after failures. They know of each other
  through the PID file only.

What is hard about it: uploads of one row that overlap; a daemon that stops
without waiting for anything, between any two steps; a network that may have
stored what it reports as failed; file names and object keys that are only as
unique as a second and a name; a lock that is a file whose content lags behind
its existence; a process ID that is reused; a daemon whose configuration is
stale; listings that are cut before they are filtered; errors that are dropped; a
restore that breaks off halfway. `PROJECT.json` lists these
hazards one by one, with the line where each bites and the property that watches
it.

What makes each component correct:

* agent, queue, directory and bucket together: no backup that was enqueued is lost
  (`QueuedOrDelivered`), none is damaged or misplaced (`BucketHoldsBackups`,
  `DeliveredForGood`), the local copy survives (`LocalCopyStays`), success means
  success (`SuccessIsDelivered`), and the queue drains or gives up (`QueueSettles`);
* PID file: one daemon, and the file names it;
* start, restart, service: a restart ends the daemon it found (`RestartReplaces`), each
  enabled database is scheduled once (`EnabledRunOnce`), the service comes back
  (`ServiceComesBack`);
* pipeline: what is read back is what was dumped (`ReadsWhatWasDumped`), what was reported
  or verified can be restored (`ReportedCanBeRestored`, `VerifiedCanBeRestored`), and
  cleanup takes old files and only those (`CleanupKeepsRecent`, `CleanupRemovesOld`);
* bucket listings: the backup that is restored is one of the database asked for,
  and the one that was verified;
* configuration: an edit that was reported is in the file, IDs are unique;
* key: what is in the bucket can be decrypted with a key somebody has.

## 2. Modules

| module | models | source |
|---|---|---|
| `Delivery` | the promise of the upload queue, abstractly | what `Backup`, `uploadBackup` and `Clear` mean together |
| `BackupAgent` | agent, scheduler, queue, directory, bucket, and the commands that touch them | `agent.go`, `scheduler.go`, `queue.go`, `local.go`, parts of `s3.go`, `start.go`, `backup.go`, `cmd/queue.go`, `cleanup.go`, `db.go` |
| `PidFile` | the lock | `pidfile.go`, `start.go`, `stop.go`, `daemon.go` |
| `DaemonLife` | the daemon around its lock: start-up, schedules, launch, restart, service; extends `PidFile` | `start.go`, `scheduler.go`, `daemon_launch.go`, `daemon.go`, `service.go` |
| `Pipeline` | dump, gzip, encryption, the way back, and `cleanup` | `agent.go`, `compressor.go`, `aes.go`, `local.go`, `verify.go`, `decrypt.go`, `restore.go`, `cleanup.go` |
| `Catalog` | finding a backup in the bucket | `provider.go`, `s3.go`, `restore.go`, `verify.go` |
| `ConfigFile` | `config.yaml` and the commands that edit it | `config.go`, `init.go`, `db.go`, `db_discover.go` |
| `KeyFile` | `key.bin`, who writes it and who works with it | `aes.go`, `key.go`, `init.go`, `start.go` |
| `BackupAgentProofs` | the types of `BackupAgent` | |
| `DurabilityProofs` | no backup is lost, damaged or misplaced; `BackupAgent` implements `Delivery` | |
| `DaemonLifeProofs` | the lock of `PidFile`; `DaemonLife` keeps it; restarts and schedules | |
| `PipelineProofs`, `CatalogProofs`, `ConfigFileProofs`, `KeyFileProofs` | types, invariants and action properties of these modules | |
| `Prefixes` | induction over the elements a loop has gone through, for the proofs | |
| `MC...` | instances for TLC | |

How they fit: `BackupAgent` composes the parts that share state while backups run
(agent, scheduler, queue, directory, bucket, daemon, commands). `PidFile` says why
there is one daemon, which `BackupAgent` assumes. `Catalog` starts from a bucket as
`BackupAgent` fills it and looks at it the way `restore` and `verify` do.
`ConfigFile` and `KeyFile` say what the two files are that every process loads
first; `BackupAgent` sees an edit of the configuration as one step and does not see
keys. `DaemonLife` is `PidFile` with the processes around it: its steps are written as
steps of `PidFile` with what happens around them, or leave the lock alone, so that what
is proved of the lock holds there (the lemma `LifeIsPidFile`). `Pipeline` opens what is one step in `BackupAgent`, the making of
a run's content, and ends where `BackupAgent` begins, with the file in the backups
directory; it follows the file back into a database.

### BackupAgent

| state | in the code |
|---|---|
| `now` | `time.Now().Unix()`, the only part of the time that names and keys keep |
| `disk`, `daemon` | `config.yaml`; the daemon's process, the config it loaded, its connection's mode (`rw`), minutes to the next sweep (`wait`), first sweep still to come (`fresh`) |
| `stateFile`, `queue` | `state.db`; its rows: `created_at`, `retry_count`, minutes since `last_retry_at` (`age`) |
| `files`, `remote` | the backups directory by file name; the bucket by object key |
| `jobs` | every call of `Backup`: where it is, who made it, the second it stamped on the file (`sec`) and the one it stamped on the row (`created`), how far it came (`reached`) |
| `tasks` | `uploadBackup` and `uploadBackupSync` in progress: load, put, remove, count |
| `cleared`, `cleaned` | history: what the user removed |

A run stands for the content it dumps: `files[n] = j` says that the file holds run
`j`'s dump, whole; `Partial` is a file that is being written, was left by a crash, or
mixes two runs. Each system call whose failure or delay matters is an action:
opening the target, finishing the copy, the INSERT, opening the file for upload,
`PutObject`, the DELETE, the UPDATE. `Save` truncates under the final name;
`PutObject` reads the file late, so that what it stores is what was there when the
file was opened or what is there now (`ReadBy`). `INSERT OR REPLACE` replaces.

Abstractions, and what they do not hide:

* dump, compression and encryption are one step that may fail (`Pipeline` has them);
* the name of a database (`NameOf`) does not change under an ID; server ID and
  prefix are the same for all keys;
* `Cleanup` may delete a file of any age in the directory that `Save` writes;
* a daemon that runs has schedules the cron parser accepts (`DaemonLife` says which are
  refused), and any enabled database may run at any time;
* minutes and seconds pass independently: a minute is at least one second as long
  as the bound on seconds permits;
* a daemon's first sweep begins within its first minute;
* whether a network call succeeds is arbitrary, at every attempt;
* `OpensWritable` knows two ways to open the queue, by whether the process is root and
  `state.db` exists; a root that cannot write either, and errors of opening, which end the
  process, are left out;
* what the file system was told to write it keeps: `Save` does not call `fsync`, and drops the
  error of its deferred `Close`.

### PidFile

One action per system call on `marmot.pid`, in the order of `AcquirePIDFile`,
`tryAcquire`, the release closure, `runStopDaemon` and `newDaemonRestartCmd`. A
file is the process that created it and whether its number is written yet. `Die`
is a crash, a SIGKILL, or a SIGTERM before `signal.Notify`; a process that has ended is a
`zombie`, which signal 0 still reaches, until its parent waits for it (`Reap`); `Reuse`
gives a number that is free to another program, which ends at a SIGTERM or ignores it. `raced`
is history: did two commands ever work on the file at once?

### DaemonLife

| state | in the code |
|---|---|
| `file`, `proc`, `seen`, `cmd`, `target`, `raced` | `PidFile`'s |
| `dbs` | the list of databases in the configuration: ID, number of fields of the schedule, enabled or not |
| `passed`, `cron` | how far `Scheduler.Start` is in the list; how many cron entries each ID has |
| `exit` | the error `runStart` is about to return |
| `unit` | the systemd service: off, up or waiting for `RestartSec`; its main process; whether anybody has stopped it (`wanted`, history) |
| `job` | `daemon restart` and `init` around the launch: the child, what it found serving (`old`, history), whether it reported success (`said`, history) |

`ScheduleDatabase` is one turn of the loop in `Scheduler.Start`: it looks the ID up, so
that two entries with one ID give the first twice, and replaces the cron entry there
is. `Lock`, `StopGoesOn` and the like are `PidFile`'s steps with what happens around them: a
start that is refused is an exit with an error, for the service manager as well.
`ParentsWait` says who waits: shells and systemd do, `launchDaemonBackground` does not, so
that its child stays a zombie until the launcher has ended, and a dead child looks alive
to `cmd.Process.Signal(0)`. `AfterExit` is `Restart=on-failure`: an exit with an error or by
any signal but SIGTERM and its like. (SIGTERM before `signal.Notify` also counts as a
clean exit.) `MaxFaults` bounds everything that users and accidents do.

### Pipeline

| state | in the code |
|---|---|
| `database` | its content: one of `Version`, or `Mixed`, what no transaction left |
| `run` | `Agent.Backup` from the loaded key to the end of `Save`: the dump and the stream it has in its temporary files |
| `file`, `old` | the backups directory: what each file holds, the key it was sealed with, whether it is all there; which files the retention no longer covers |
| `reader` | `restore --file`, `verify --file` and `decrypt`: the key they loaded, what they have decrypted and decompressed, how `verify` scans it (`scan`) |
| `clean` | `cleanup`: the list it made, what is left of it; `here`: whether `local.path`, which it looks in, is the directory `Save` writes to, as it is by default (`init.go:299`) |
| `certified` | history: files that `verify` passed, since when neither they nor the key changed |

* A gzip stream whose end was not written is `clipped`: `Compress` drops the error of the
  deferred `Close`. `Decompress`, and the reader of the report, meet an unexpected end.
* `Decrypt` succeeds when every byte is there and the key is the one the file was
  sealed with: that is what GCM authenticates. A file that is being written, or that a
  kill left, is not whole.
* A dump is one state of the database, as `mysqldump --single-transaction` and `pg_dump`
  take it. `mongodump` does not, and is not modelled.
* A restore works statement by statement, makes the database `Mixed`, and leaves the dumped
  state when the client exits with 0. Applications do not write while it runs, and what
  the dump does not mention is left out.
* `verify` chooses its scan by the path of the file and by the first kilobyte (`ScansFor`): an SQL
  dump in a file or directory called `mongo` is scanned as a MongoDB archive. Either scan reads to the end
  of the stream; only what the SQL scan counts is modelled.
* `ListBackupFiles` lists every old file; the code skips those whose `Info` fails.
* `VerifySQLDump` is the loop over the lines of a dump, each of which may create a table and
  insert into one; it is a recursive function of the number of lines done.

### Catalog

Keys are ordered as `ListObjectsV2` orders them: day, name, second. `Page` is what
one call returns; `NameIn` is the parser of keys as it is written; the commands
choose, wait, and download while the bucket changes. A user who names a backup is taken to name
one of the database (`ChooseByID`): `restore` does not ask whether it is.

### ConfigFile

`file` is the content of `config.yaml`: is the storage type set, and which entries
are in the list, in their order. A command goes from `idle` to `edited` (it has
loaded the file and changed the configuration in memory; it may now wait for the
user) to `writing` (`WriteConfigAs` has truncated the file) and back. `BreakOff` is a
kill, a write error, or a user who gives up. `Accepted` is what `start` asks of what
it loads, and `Scheduled` what it then runs. `Validate` also refuses entries and S3 settings that
lack a field; without fields, the model accepts more than `start` does and never less. `env` says whether
`MARMOT_STORAGE_TYPE` is set; it goes before the file in `LoadConfig`, and the next
save makes it permanent. A command may be given another file by `--config`
(`Given`, `Elsewhere`): it loads that one and still saves `config.yaml`. `told`, `blind`, `torn`
and `doubled` are history; `blind` says that some edit did not start from the file it is
saved over, because another was under way or because of `--config`.

* Before the first save `LoadConfig` fails: viper reports a missing file that was
  set with `SetConfigFile` as a path error, which is not the `ConfigFileNotFoundError`
  that is let pass.
* A truncated file parses as an empty configuration. A save is one write; a part of
  one would be a file without `storage_type`, which viper writes last.
* Two saves that overlap write over each other from the start of the file: what
  remains of a longer text may make the file unreadable.
* A target is a database of the host; the other fields of an entry follow from it.

### KeyFile

`key` is the content of `key.bin`. `init` (with a new key) and `key import` (with one
that was exported) truncate the file and write it. A process loads the key once;
`late` says that the file was written after that. `stored` collects the keys that
backups were encrypted with, `replaced` those that were overwritten.

## 3. Runs

| run | instance | what it shows |
|---|---|---|
| `OneRun` | one run, two goroutines, two retries, two seconds, both storage modes, the database removed and added, a writable queue | every interleaving of overlapping uploads of one row with crashes, restarts, clear and cleanup: nothing is lost, damaged or resurrected; queue, directory and bucket implement `Delivery`: a backup is owed while its row is there, delivered while the bucket holds its content, forgiven when `queue clear` took its row; and no row waits, or is uploaded, for ever under a cloud-mode daemon that stays up |
| `OneDb` | two runs of one database, one goroutine, one retry, three seconds | the same promise where two runs may stamp one second: those that collide are `disputed`, and a dispute touches no other backup; and `Durable`, the inductive invariant of the proofs |
| `DaemonLife` | three process IDs, one command that stops, restarts or launches, the service; three lists: one ID twice, a five-field schedule, a disabled database; three faults | one daemon, named by the file, while commands take turns; a restart replaces what it found; one cron entry for each enabled ID, and none refused; the service comes back; and the inductive invariants `UnracedInv` and `RestartInv` of the proofs |
| `Pipeline` | two runs, two readers, a cleanup, two versions and two keys, four commands in all; two dumps, one plain, one that creates a name twice | what is read back is what was dumped; what was reported or verified can be restored, with the exceptions the properties name; only old files are removed; the report of `verify`'s SQL scan adds up |
| `ConfigFile` | two commands, two IDs, two databases that a discovery gives one ID, two entries, storage type in the environment or not, one other file for `--config` | an edit is lost only to an overlap, a break or `--config`; IDs become equal only by an unchecked answer; a torn file never starts a daemon with a shorter list, unless the environment makes up for the lost storage type |
| `KeyFile` | three keys, two writers, two processes | an empty key file is refused; a daemon's key differs from the file only if that was written later; only overwritten keys are missing |
| `Catalog` | four databases: one without name, two of the same name, one of its own; pages of 3 and 1, two days | `verify --latest` certifies what `restore --latest` would take; a backup named by its ID stays the database's until it is downloaded |

Five runs end in a violation, each of one statement that the repository makes
about itself:

* `NoneFound`: *no backups found for database* (`restore.go:103`). `keyPattern` has
  six groups, so `FindStringSubmatch` returns seven strings, and `s3.go:126` wants
  exactly six: no key ever yields a name, and the latest backup of a database that
  has a name is never found.
* `LocalMode`: *For local-only storage, skip upload queue* (`agent.go:146`). The
  sweep does not skip it: rows that cloud mode left are retried by a daemon that
  has no remote, and `GetClient` on the nil remote panics.
* `ReadOnly`: *daemon retries automatically every 5 min* (`marmot.md:82`). A daemon
  that is not root and finds `state.db` opens it query-only: what it uploads is
  never removed or counted, and is uploaded again at every sweep.
* `SameSecond`: *Local .enc file always stays — the backup is never lost* (`marmot.md:83`). The name
  of the file is the database and a second (`agent.go:125`), and `Save` truncates what is there
  (`local.go:28`): a scheduled run and a `marmot backup` of one database in one second overwrite each
  other's file, and the one that fails removes it (`local.go:35`).
* `FiveFields`: *(e.g. `0 2 * * *` = 2am daily)* (`marmot.md:93`). The parser is made
  `WithSeconds` (`scheduler.go:28`) and refuses five fields, which the default of `init` and
  `db add` and every documented schedule has: `Scheduler.Start` fails and the daemon exits.
  `FiveFieldsNeverServe` says so of every list: no daemon serves when an enabled database has such
  a schedule, unless an earlier entry has its ID.
  The service manager then starts it for ever; `ServiceComesBack` is about lists that parse.

Other things the model has that a reader should know, not all of them contrary to
a statement: two starts that race may both hold the lock (`pidfile.go:39`, `:49`);
a reused number makes a start refuse and a stop signal a stranger; `backups[0]` is the oldest key of the page, so the
"latest" backup of a nameless database is the oldest of any database; a command
whose upload the daemon's sweep overtook reports a failure that was none
(`agent.go:187`); the fifth failure ends the retries, so that the wait of 32 minutes
(`agent.go:248`) never ends in one; `init` under a running daemon puts a new key into
`key.bin` while the daemon goes on encrypting with the old one; a save of the
configuration that is killed half way empties it, and the `db add` that follows
makes that permanent.

Also: object keys carry the name of the database and not its ID (`provider.go:135`), so that
of two same-named databases enqueued in one second only one is in the bucket after both
rows were removed. `cleanup` looks in `local.path`, which `init` lets the user choose, while
`Save` always writes to the default directory: when the two differ, no backup is ever found there. `launchDaemonBackground` reports success
whatever happens: *daemon exited before startup completed* is never returned, as the
child is a zombie, and `init` under a running daemon reports *Daemon started.* for the old
one. A daemon that crashed and whose successor gets the same number, as in a container,
finds itself running and refuses to start until somebody removes the file (the `Squatted` of
`ServiceComesBack`). When one ID is twice in the list, `GetDatabaseByID` gives the first entry
for both, and a first entry that is disabled is scheduled because the second is enabled. A
scheduled backup of a half-restored database is a success like any other. A full disk
when the compressor closes leaves a backup that was reported as done and cannot be
restored; `verify` finds that out. `mysqldump` in a container gets `-e MYSQL_PWD` after the
container's name (`mysql.go:30`), so that `docker` runs `-e` as the command and the dump
fails. `verify` reads `pg_dump`'s custom format as lines and reports no rows, counts a
schema-qualified name as a table named like the schema, and fails on a line of more than 10 MB. An
SQL dump whose path contains `mongo` is scanned as a MongoDB archive (`verify.go:193`, `:579`) and
passes with no tables and, but for bytes that happen to look like a document, no rows.

### What the passing properties allow for

A property that holds has to allow for what the code really gets wrong. Each exemption is a name of
its own, so that a reader sees where a property does not watch, and why:

| exemption | what happens there | watched elsewhere |
|---|---|---|
| `SharesName` | two runs of a database in one second overwrite or remove each other's file | `SameSecond` |
| `SharesKey` | two databases of one name have one object key | no: the key format is documented |
| `raced` | two starts, or a stop and a start, work on the PID file at once: two daemons, or a daemon without its file | no: the repository claims nothing of it |
| `Squatted` | the number in a stale file belongs to another program | no: the file does not tell them apart |
| `blind`, `torn`, `doubled`, `env` | overlapping edits, edits of another file, edits of what a kill left; an ID entered twice; the storage type in the environment | `NothingSilentlyDropped` for torn files |
| `late`, `replaced` | the key file is written over under a process that works with it, or backups that need it | no: that is what `init` and `key import` do |
| `gz = "clipped"` | a backup is reported as done whose stream lacks its end | `VerifiedCanBeRestored`, `HalfRestoredIsKnown`: `verify` and `restore` refuse it |
| `scan` | an SQL dump is scanned as a MongoDB archive | `VerifiedCanBeRestored`: what passes is still whole |
| `here` | `cleanup` looks in another directory | no: it reports that there is nothing to do |
| `None` in `Catalog` | nothing is found | `NoneFound` |

### Bounds

`MaxSecond` bounds the stamps: in `OneDb` three seconds let two runs collide, precede and
follow each other; in `OneRun` two let a run stamp its row later than its file, or a row be
uploaded later than it was stamped. No property compares stamps more than two at a time. `Slot`
bounds the goroutines that run at once: two are a duplicate, and a third adds no
step that two do not have. In a state where no slot is free a sweep waits instead
of starting more. `MaxRetries` and `SweepEvery` are 1 or 2 and 0 or 1: a row is
retried, fails, waits for a back-off longer than the sweep, and is given up. Ages
count to the longest back-off that is waited for, the one before the last attempt. `Modes` and `Editable` say what the user edits.
The PID file needs three numbers for a holder, a starter and a starter that races
with it. `DaemonLife` has one command besides the starts and the service: two commands that
stop are no nearer to each other than a command and a start, and the theorems of section 4
are for any number; three faults are a service start, a crash or a stop, and a restart or a
stray number. `Pipeline` has four commands: two backups, or a backup and a cleanup, and two
that read; or a restore that breaks off, a backup of what it left, and one that restores
that. Two keys are an old and a new one. `Catalog` needs more backups than the page is long, on
two days. `ConfigFile` needs two commands to overlap, two entries to lose one and keep
one, one ID for two databases, and one other file. `KeyFile` needs a key to be replaced, one to
replace it, and one that is imported back; writers and readers come in pairs.

Runs have `CHECK_DEADLOCK FALSE`: when the clock or the count of commands or faults
reaches its bound, every run is over and the daemon down, or no command is left, the
instance stops.

### Fairness

`QueueSettles` is checked in `OneRun` and `ReadOnly`, under `FairSpec`:

* weak fairness of minutes, and of the next step of every upload goroutine of the daemon: time
  passes, and Go runs goroutines that can run;
* strong fairness of `Sweep`: cron ticks every five minutes, and a sweep whose
  listing fails (`SweepFails`) is followed by others; SQLite does not refuse for ever;
* strong fairness of the DELETE (`Remove`) and of the UPDATE (`IncrementRetry`) of these goroutines:
  they fail while another process holds SQLite's lock, transactions are single statements,
  and the driver waits for the lock, so they do not fail for ever.

It says that, once a cloud-mode daemon stays up, every row is in the end gone, given up, or of a
database the daemon does not know, and that the daemon stops uploading it. A `marmot backup` may
stand still for ever, or be killed, at any step; databases and the storage mode are edited meanwhile.
Nothing is assumed of the network, of commands and users, or of the daemon's being started; that
it stays up is the premise of the property. With a query-only connection `Remove` is
never enabled, and that is what `ReadOnly` shows.

`ServiceComesBack` is checked in `DaemonLife` under weak fairness of `runStart`'s own steps (a
process runs), of waiting for a process whose parent is not a launcher (shells, systemd
and init do), of the launcher's return (its loop ends after two seconds), and of the start after
`RestartSec`. Nothing is assumed of stop commands, whose wait may end in a timeout or not at all,
or of users and accidents, which `MaxFaults` ends: without a bound a daemon that always
crashes never serves.

## 4. Proofs

All theorems are checked by TLAPS for every value of the constants that meets the
named assumptions of the modules (`ConstantsOK`, `NullsOK`, `KeysOK`, `LifeConstantsOK`,
`PipelineOK`, `ElsewhereOK` and the like: bounds are natural numbers, functions have their
domains, the null values are none of the values they stand beside, and a file given by
`--config` has no ID twice). They do not depend on the bounds of the runs.

**Types** (`BackupAgentProofs`, `DaemonLifeProofs`, `PipelineProofs`, `CatalogProofs`,
`ConfigFileProofs`, `KeyFileProofs`). `TypeOK` is inductive in `BackupAgent` and `PidFile`; the
lemmas say for each helper what it returns.

**Loops** (`Prefixes`). The loops over a list (`db remove`, the report of `verify`) are recursive
functions of the number of elements done, and what they compute is proved by induction over that
number. The library's induction theorems take an operator, which no prover here instantiates;
`Rounds` says the same of a set: what holds of 0, and of each number when it held of the one
before, holds of all. It follows from `Smallest`, that a set of natural numbers has a smallest
one, which is well-foundedness. `LoopExists` and `LoopTyped` say that the recursive function
has the values that the recursion says, so that a proof may use them.

**Durability** (`DurabilityProofs`). `QueuedOrDelivered` is not inductive: whether a
`Remove` loses a backup depends on what the goroutine had loaded and put before. The
invariant `Durable` adds

* where a run is and how far it came agree (`PhasesAgree`);
* every row, and every upload in progress, goes back to a run that put that name with
  that time into the queue (`RowsHaveRuns`, `TasksHaveRuns`, `OwnUpload`): so an
  upload of a row, by whomever, uses the key of the run's first attempt;
* the file of a run that shares its name with no other is whole, and so is what an
  upload has loaded from it (`FilesAreWhole`, `UploadsAreWhole`); an upload about to
  remove a row has put it.

The proof goes by what a step may do to each variable, not by action alone:
`RunsStep`, `RowsStep`, `FilesStep`, `BucketStep` and `UploadsStep` bound the change of
runs, rows, files, bucket and uploads over all actions, and `DurableStep` derives each
part from these. From `Durable` and its steps follow `QueuedOrDeliveredTheorem`,
`BucketTheorem`, `SuccessTheorem`, `LocalCopyTheorem`, and the action properties
`DeliveredForGoodTheorem` and `SettledStaysSettledTheorem`.

**Refinement** (`DurabilityProofs`). `PromiseTheorem`: `Spec` implements `Delivery!Spec` under the
mapping of `BackupAgent!Promise`, with no assumption on databases and names. The queue cannot
answer for backups that share a file name or an object key: a shared key lets a row be removed whose
backup was overwritten. The abstract specification says so with `disputed` and `Collide`: when a
run stamps a name that another has, both leave what the queue answers for (`Undisputed`) and never
come back, and nothing else may change in that step. Every other step is an `Accept` (an enqueue), a
`Deliver` (a put that stores), a `Settle` (a removal, which needs a delivery), a `Forgive` (a queue
clear), or leaves the mapped variables alone. So the daily runs of one database keep the promise
one by one, and a collision costs the two that collide. `ClearedHaveRuns`, that a name the user
cleared was put there by a run, keeps a new run from being forgiven before it is owed.

**The lock** (`DaemonLifeProofs`). Two daemons are excluded while starts and stops take
turns. `UnracedInv` says why: the file names whoever has the lock, a process that is
writing its number owns the file it writes, and a command about to remove the file
has seen that its holder is gone. `OneDaemonTheorem` and `FileNamesDaemonTheorem`
follow.

**The daemon's life** (`DaemonLifeProofs`). The actions of `DaemonLife` are written with those of
`PidFile`, so that `LifeSpec` implies `PidFile`'s `Spec` (the lemma `LifeIsPidFile`, a bridge and no
more), and what is proved of the lock holds here: `OneDaemonInLife` is `OneDaemonTheorem`.
`RestartReplaces` is not inductive: it needs that what a restart found serving cannot come to
hold the lock again (a number taken by a new process is struck from `old`) and that the wait
before the launch has seen it gone, which is `UnracedInv`'s knowledge of `cmd` and `target`.
`RestartInv` says so, and holds together with `UnracedInv` and the types.

`EnabledRunOnce` and `ServesWholeSchedule` are about the end of `Scheduler.Start`'s loop. `CronInv`
is about its middle: of the entries that a process has gone through, each ID that is due has one
cron entry and each schedule parses (`Counts`); and what serves has gone through all of them.
`ScheduleKnows` takes it one entry further, whether the ID was seen before or not; `StepKinds` says
that nothing else touches the cron entries but a new process, which has none. `FindsFirst`, that
`GetDatabaseByID` finds the first entry with the ID, makes `FiveFieldsNeverServe` of it.

**The pipeline** (`PipelineProofs`). The properties are about a file, the run that made it, and
who reads it; `PipelineInv` joins them: a file holds its run's dump under its run's key and is
whole when the run is done (`FilesInv`), what is old has been saved, and a file that is gone was old (`AgeInv`), what
`cleanup` has not removed it still has in its list or has counted as failed (`CleanInv`), and a
reader past `Decrypt` has its run's dump, past `Decompress` a whole stream (`ReadersInv`). The
lemmas `BackupStepFacts` and its like bound what a step of each actor changes; the six theorems
follow.

`ReportAddsUpTheorem` is about data: for every dump, however long, `VerifySQLDump` counts what is
there. Its invariant is `AddsUp` for the first `n` lines. `LineAddsUp` takes it to the next line in
two halves, after the table is appended and after the row is counted: the entries of a name are as
many as the statements that created it, so that a row has an entry to go to exactly when its table
was created before, and the first entry, which is the one that is counted up, stays the first.

**The catalogue** (`CatalogProofs`). `VerifyAgreesWithRestore` is a fact about the first element of
two pages of one finite set, the shorter of which is a part of the longer, and needs that
the bucket is finite; `IDStaysTheDatabases` needs that every object carries the name of its
database (`NamesInv`), since an object that replaces another has the same key.

**The configuration** (`ConfigFileProofs`). `EditsAreKept` says what the file has when nobody is
at work; `ConfigInv` adds what a command that is at work has in memory. Without an overlap there is
one such command (`AloneInv`) and what it truncated is empty (`SavingInv`); what it is about to
save has what the user was told, without what it removes and with what it adds (`PendingInv`);
IDs differ in the file and in memory alike (`DifferInv`); and what comes of a save that broke
off has no storage type until an `init` or the environment gives it one (`UntypedInv`), which
is why `start` refuses it and `NothingDroppedTheorem` holds. `Makes` is what an edit does to the
entries of a list as a set, and each command's edit is shown to be one. For `db remove` that is
`WithoutKeeps`, by induction over its loop: what is left are the entries with another ID, and they
differ if they did.

**The key** (`KeyFileProofs`). `KeyInv` adds that every key in use is a whole one and is
in the file or was replaced there; `WorksWithTheKeyTheorem` and `KeysAreKeptTheorem`
follow.

## 5. Only model-checked

* Liveness (`QueueSettles`, `ServiceComesBack`): the prover does not do fairness.
* The violations are TLC's counterexamples.

Every other property of the runs is a theorem.

## 6. Not modelled

* The dump programs, the database clients and the cipher: external programs and library
  code. Of a restore the model has that it is not atomic and that its success is the
  client's exit code; `pg_restore` may have ignored errors before it exits.
* `mongodump`, which takes no snapshot, and the scan of a mongo archive by `verify`.
* The output file of `decrypt`: nothing else in the program reads it.
* The argument lists of the clients, discovery, `status`, prompts and reports: they read,
  report, or drive other programs.
* launchd, whose `KeepAlive` restarts the daemon after every exit, and Windows.
* The minimum of free space and the settings of the storage back ends.
* Deletion from the bucket, metadata and health checks: no command that is modelled
  calls them.

## 7. Plan

The order of the modules was: `BackupAgent` with `Delivery`, because losing a backup is
the worst this program can do; `PidFile`, because `BackupAgent` assumes one daemon;
`Catalog`, because a backup that is not found is lost too; then the two files that all
of them load; then what surrounds the core, `DaemonLife` and `Pipeline`. What could follow:

1. `Pipeline` with the upload: `restore` and `verify` of what `BackupAgent` put into the bucket,
   in one module, with the key of `KeyFile`.
2. `DaemonLife` with `BackupAgent`: an abstract specification in which an enabled database is
   backed up again and again, refined by both.
3. The output file of `decrypt` as a variable of `Pipeline`.
