------------------------------- MODULE Catalog -------------------------------
(***************************************************************************)
(* Finding a backup in the bucket: the object keys and the listing of      *)
(* internal/s3, and the commands that choose a backup with them, `marmot   *)
(* restore` and `marmot verify`, by ID or by asking for the latest.        *)
(*                                                                         *)
(* Between the choice and the download the user is asked to confirm, and   *)
(* the bucket changes: uploads arrive in any order (a retry may store a    *)
(* backup long after a later one), and the bucket's own retention deletes. *)
(***************************************************************************)
EXTENDS Integers, FiniteSets, Sequences

CONSTANTS
  DB,           \* database IDs
  NameOf,       \* the rank of each one's name in the order of names
  Day,          \* seconds in a day
  MaxSecond,    \* bound on the time stamps of backups
  RestoreLimit, \* what restore asks ListBackups for (10)
  VerifyLimit,  \* what verify asks it for (1)
  Command,      \* restore and verify commands
  None

ASSUME ConstantsOK ==
  /\ NameOf \in [DB -> Nat]
  /\ Day \in Nat \ {0} /\ MaxSecond \in Nat
  /\ VerifyLimit \in Nat \ {0} /\ RestoreLimit \in Nat /\ VerifyLimit <= RestoreLimit

DbName == {NameOf[d] : d \in DB}
Object == [name : DbName, sec : 0 .. MaxSecond, of : DB]

ASSUME NoneOK == None \notin Object

\* The empty name, which sorts first: a database whose DSN has no path, as that of
\* a mongo server of which every database is dumped.
Empty == 0

VARIABLES
  bucket,   \* the objects stored; "of" is the database whose content one holds
  cmd       \* commands: what they look for and what they chose

vars == <<bucket, cmd>>

Look == [pc : {"idle", "chosen", "done", "none", "failed"}, by : {"id", "latest"},
         db : DB, choice : Object \cup {None}]

-----------------------------------------------------------------------------
(* [prefix/]<server>/YYYY/MM/DD/<name>-<seconds>.enc                       *)

DayOf(k) == k.sec \div Day

\* Keys sort by the day, then the name, then the time.
Before(k, l) ==
  \/ DayOf(k) < DayOf(l)
  \/ DayOf(k) = DayOf(l) /\ k.name < l.name
  \/ DayOf(k) = DayOf(l) /\ k.name = l.name /\ k.sec < l.sec

\* Mutant: keys without the database's name.
SameKey_NoName(k, l) == k.sec = l.sec
SameKey(k, l)        == k.name = l.name /\ k.sec = l.sec

\* keyPattern.FindStringSubmatch: the whole key and the pattern's six groups.
Submatches(k) == <<k, "server", "year", "month", DayOf(k), k.name, k.sec>>

\* extractMetadataFromKey, with the fall-back of its caller.
NameIn(k) == IF Len(Submatches(k)) # 6 THEN Empty ELSE Submatches(k)[5]

\* ListObjectsV2 returns the first MaxKeys keys in the order of their bytes.
Page(limit) == {k \in bucket : Cardinality({l \in bucket : Before(l, k)}) < limit}

\* The page is asked for first and filtered by name afterwards.
ListBackups(name, limit) == {k \in Page(limit) : name = Empty \/ NameIn(k) = name}

\* Mutant: the newest of the page.
Latest_OfPage(name, limit) ==
  LET backups == ListBackups(name, limit) IN
  IF backups = {} THEN None
  ELSE CHOOSE k \in backups : \A l \in backups : l = k \/ Before(l, k)

\* backups[0]
Latest(name, limit) ==
  LET backups == ListBackups(name, limit) IN
  IF backups = {} THEN None
  ELSE CHOOSE k \in backups : \A l \in backups : l = k \/ Before(k, l)

-----------------------------------------------------------------------------
Init ==
  /\ bucket = {}
  /\ cmd \in [Command -> {l \in Look : l.pc = "idle" /\ l.by = "id" /\ l.choice = None}]

\* Mutant: the object under a key that exists is kept.
Upload_Versions(d, sec) ==
  /\ bucket' = bucket \cup {[name |-> NameOf[d], sec |-> sec, of |-> d]}
  /\ UNCHANGED cmd

\* PutObject under a key that exists replaces the object.
Upload(d, sec) ==
  LET new == [name |-> NameOf[d], sec |-> sec, of |-> d] IN
  /\ bucket' = {k \in bucket : ~SameKey(k, new)} \cup {new}
  /\ UNCHANGED cmd

\* The bucket's lifecycle rules expire an object.
Expire(k) ==
  /\ bucket' = bucket \ {k}
  /\ UNCHANGED cmd

Choose(c, by, choice) ==
  /\ cmd[c].pc = "idle"
  /\ cmd' = [cmd EXCEPT ![c] = [@ EXCEPT
               !.pc = IF choice = None THEN "none" ELSE "chosen",
               !.by = by, !.choice = choice]]
  /\ UNCHANGED bucket

RestoreLatest(c) == Choose(c, "latest", Latest(NameOf[cmd[c].db], RestoreLimit))
VerifyLatest(c)  == Choose(c, "latest", Latest(NameOf[cmd[c].db], VerifyLimit))

\* The user names a backup, and is taken to name one of the database: restore does not
\* ask whether it is.
ChooseByID(c, k) == k.of = cmd[c].db /\ Choose(c, "id", k)

\* GetObject: what was chosen may have been replaced or expired by now.
Download(c) ==
  /\ cmd[c].pc = "chosen"
  /\ \E k \in bucket :
       /\ SameKey(k, cmd[c].choice)
       /\ cmd' = [cmd EXCEPT ![c] = [@ EXCEPT !.pc = "done", !.choice = k]]
  /\ UNCHANGED bucket

\* There is no such key, the network fails, the time is up, or the user says no.
DownloadFails(c) ==
  /\ cmd[c].pc = "chosen"
  /\ cmd' = [cmd EXCEPT ![c].pc = "failed"]
  /\ UNCHANGED bucket

Next ==
  \/ \E d \in DB, sec \in 0 .. MaxSecond : Upload(d, sec)
  \/ \E k \in bucket : Expire(k)
  \/ \E c \in Command : \/ RestoreLatest(c) \/ VerifyLatest(c)
                        \/ \E k \in bucket : ChooseByID(c, k)
                        \/ Download(c) \/ DownloadFails(c)

Spec == Init /\ [][Next]_vars

-----------------------------------------------------------------------------
\* The bucket holds one object under a key, and commands what they should.
TypeOK ==
  /\ bucket \in SUBSET Object
  /\ \A k, l \in bucket : SameKey(k, l) => k = l
  /\ cmd \in [Command -> Look]

\* What `verify --latest` certifies is what `restore` would take: when the shorter
\* listing finds a backup at all, the longer one starts with the same.
VerifyAgreesWithRestore ==
  \A d \in DB :
    LET verified == Latest(NameOf[d], VerifyLimit) IN
    verified # None => verified = Latest(NameOf[d], RestoreLimit)

\* A backup of a database that was named by its ID is restored, or nothing is: no
\* upload that arrives before the download puts another database's content under
\* that ID, unless the two databases have the same name.
IDStaysTheDatabases ==
  \A c \in Command :
    cmd[c].pc = "done" /\ cmd[c].by = "id" =>
      \/ cmd[c].choice.of = cmd[c].db
      \/ \E d \in DB \ {cmd[c].db} : NameOf[d] = NameOf[cmd[c].db]

-----------------------------------------------------------------------------
(* What the documentation says and the code does not do.                   *)

\* "no backups found for database": there is none.
NoneMeansNone ==
  \A d \in DB : Latest(NameOf[d], RestoreLimit) = None => \A k \in bucket : k.of # d

=============================================================================
