------------------------------ MODULE ConfigFile ------------------------------
(***************************************************************************)
(* config.yaml: the commands that write it (`init`, `db add`, `db remove`, *)
(* `db discover`) and what a daemon that starts now would work with.       *)
(*                                                                         *)
(* A command loads the file, edits the configuration in memory, perhaps    *)
(* waits for answers, and saves all of it; a save truncates the file and   *)
(* then writes it.  There is no lock: commands interleave, may be killed   *)
(* between any two steps, and the file may be read between any two.        *)
(* --config names another file to load; what is saved is config.yaml.      *)
(***************************************************************************)
EXTENDS Integers, Sequences, Functions

CONSTANTS
  ID,            \* database IDs
  Target,        \* the databases of the host
  DiscoveredID,  \* the ID buildDiscoveredID gives each
  Command,       \* processes of commands that write
  Elsewhere,     \* the contents of other files, to be named by --config
  MaxDbs         \* bound: entries in a configuration

ASSUME ConstantsOK ==
  /\ DiscoveredID \in [Target -> ID]
  /\ MaxDbs \in Nat

\* A configuration: is the storage type set, and the databases in their order.
Entry  == [id : ID, of : Target]
Config == [typed : BOOLEAN, dbs : Seq(Entry)]

AllDiffer(dbs) == \A i, j \in DOMAIN dbs : i # j => dbs[i].id # dbs[j].id

ASSUME ElsewhereOK == \A f \in Elsewhere : f \in Config /\ AllDiffer(f.dbs)

\* What LoadConfig makes of a file that was truncated.
Empty == [typed |-> FALSE, dbs |-> <<>>]

VARIABLES
  env,       \* is MARMOT_STORAGE_TYPE set?
  readable,  \* does LoadConfig succeed?  Not before the first save
  file,      \* the content of config.yaml
  cmd,       \* commands that write
  told,      \* entries the user was told are configured, until blind (history)
  blind,     \* did an edit ever not start from the file it is saved over: because
             \* another one was under way, or by --config? (history)
  torn,      \* did a save break off, with no init since? (history)
  doubled    \* did an answer or a discovery use an ID twice? (history)

vars == <<env, readable, file, cmd, told, blind, torn, doubled>>

Edit    == [pc : {"idle", "edited", "writing"}, new : Config,
            added : SUBSET Entry, removed : SUBSET ID, anew : BOOLEAN]
AtRest  == [pc |-> "idle", new |-> Empty, added |-> {}, removed |-> {}, anew |-> FALSE]

Init ==
  /\ env \in BOOLEAN
  /\ readable = FALSE /\ file = Empty
  /\ cmd = [c \in Command |-> AtRest]
  /\ told = {} /\ blind = FALSE /\ torn = FALSE /\ doubled = FALSE

IDs(dbs) == {dbs[i].id : i \in DOMAIN dbs}

\* Where GetDatabaseByID finds an ID: the first entry that has it.
First(dbs, d) ==
  CHOOSE i \in DOMAIN dbs : dbs[i].id = d /\ \A j \in 1 .. i - 1 : dbs[j].id # d
GetDatabaseByID(dbs, d) == dbs[First(dbs, d)]

\* Mutants: the loop of `db remove` ends where it found the database; the entry is
\* zeroed and stays.
Without_Breaks(dbs, d) == SubSeq(dbs, 1, First(dbs, d) - 1)
Without_Zeroes(dbs, d) ==
  [i \in DOMAIN dbs |-> IF dbs[i].id = d THEN [id |-> "", of |-> ""] ELSE dbs[i]]
Without(dbs, d) ==
  LET kept[n \in 0 .. Len(dbs)] ==
        IF n = 0 THEN <<>>
        ELSE IF dbs[n].id = d THEN kept[n - 1] ELSE Append(kept[n - 1], dbs[n])
  IN kept[Len(dbs)]

\* The files a command may be given: config.yaml, or by --config any other one, which
\* no command ever writes.
Given == Elsewhere \cup (IF readable THEN {file} ELSE {})

\* What LoadConfig returns: the environment goes before the file.
Loaded(f) == [f EXCEPT !.typed = @ \/ env]

-----------------------------------------------------------------------------
(* Commands that edit the configuration.                                   *)

\* The command has a configuration to save in memory, that of the file it was given
\* (from), or one made anew.
Edits(c, from, new, added, removed, anew) ==
  /\ cmd[c].pc = "idle"
  /\ Len(new.dbs) <= MaxDbs
  /\ cmd' = [cmd EXCEPT ![c] = [pc |-> "edited", new |-> new,
                                added |-> added, removed |-> removed, anew |-> anew]]
  /\ blind' = (blind \/ from # file \/ \E b \in Command : cmd[b].pc # "idle")
  /\ UNCHANGED <<env, readable, file, told, torn>>

\* Mutant: the ID is not looked up.
DbAdd_Unchecked(c, f, e) ==
  /\ Edits(c, f, [Loaded(f) EXCEPT !.dbs = Append(@, e)], {e}, {}, FALSE)
  /\ UNCHANGED doubled

DbAdd(c, f, e) ==
  /\ e.id \notin IDs(f.dbs)
  /\ Edits(c, f, [Loaded(f) EXCEPT !.dbs = Append(@, e)], {e}, {}, FALSE)
  /\ UNCHANGED doubled

DbRemove(c, f, d) ==
  /\ d \in IDs(f.dbs)
  /\ Edits(c, f, [Loaded(f) EXCEPT !.dbs = Without(@, d)], {}, {d}, FALSE)
  /\ UNCHANGED doubled

\* One database after the other: it keeps its ID if that is free by then; if not the
\* user is asked for another one, once.
DbDiscover(c, f, more) ==
  LET dbs == f.dbs \o more IN
  /\ \A i \in DOMAIN dbs : i > Len(f.dbs) =>
       \/ dbs[i].id = DiscoveredID[dbs[i].of]
       \/ DiscoveredID[dbs[i].of] \in IDs(SubSeq(dbs, 1, i - 1))
  /\ Edits(c, f, [Loaded(f) EXCEPT !.dbs = dbs], Range(more), {}, FALSE)
  /\ doubled' = (doubled \/ (AllDiffer(f.dbs) /\ ~AllDiffer(dbs)))

\* init loads nothing, and takes the IDs as they are.  Its key is in KeyFile.
RunInit(c, found) ==
  LET dbs == [i \in DOMAIN found |-> [id |-> DiscoveredID[found[i]], of |-> found[i]]] IN
  /\ Edits(c, file, [typed |-> TRUE, dbs |-> dbs], Range(dbs), ID, TRUE)
  /\ doubled' = (doubled \/ ~AllDiffer(dbs))

\* SaveConfig: WriteConfigAs truncates the file ...
Truncate(c) ==
  /\ cmd[c].pc = "edited"
  /\ readable' = TRUE /\ file' = Empty
  /\ cmd' = [cmd EXCEPT ![c].pc = "writing"]
  /\ UNCHANGED <<env, told, blind, torn, doubled>>

\* ... and writes it, and the user is told.  Over a longer text that another command
\* has written since, the end of that text remains, and the result may not parse.
Write(c) ==
  /\ cmd[c].pc = "writing"
  /\ file' = cmd[c].new
  /\ readable' \in {TRUE, file = Empty}
  /\ told' = IF blind THEN {}
             ELSE {e \in told : e.id \notin cmd[c].removed} \cup cmd[c].added
  /\ torn' = (torn /\ ~cmd[c].anew)
  /\ cmd' = [cmd EXCEPT ![c] = AtRest]
  /\ UNCHANGED <<env, blind, doubled>>

\* The command is killed, fails (no space left), or the user gives up.
BreakOff(c) ==
  /\ cmd[c].pc # "idle"
  /\ cmd' = [cmd EXCEPT ![c] = AtRest]
  /\ torn' = (torn \/ cmd[c].pc = "writing")
  /\ UNCHANGED <<env, readable, file, told, blind, doubled>>

-----------------------------------------------------------------------------
(* `start`: LoadConfig, then Validate, which refuses a configuration       *)
(* without a storage type; then the scheduler takes, for every entry of    *)
(* the list, what GetDatabaseByID finds under its ID.  Validate also       *)
(* refuses entries and S3 settings that lack a field: with fields left out *)
(* the model accepts more than start does, never less.                     *)

\* Mutant: without Validate.
Accepted_Unvalidated == readable
Accepted == readable /\ Loaded(file).typed

Scheduled(dbs) == {GetDatabaseByID(dbs, d) : d \in IDs(dbs)}

-----------------------------------------------------------------------------
\* What a discovery finds: databases in some order, each once.
Some(S) == UNION {[1 .. n -> S] : n \in 0 .. MaxDbs}
Found   == {s \in Some(Target) : IsInjective(s)}
More    == {s \in Some(Entry) : s # <<>> /\ IsInjective([i \in DOMAIN s |-> s[i].of])}

MakeEdit(c) ==
  \/ \E f \in Given, e \in Entry : DbAdd(c, f, e)
  \/ \E f \in Given, d \in ID : DbRemove(c, f, d)
  \/ \E f \in Given, more \in More : DbDiscover(c, f, more)
  \/ \E found \in Found : RunInit(c, found)

Next ==
  \E c \in Command : MakeEdit(c) \/ Truncate(c) \/ Write(c) \/ BreakOff(c)

Spec == Init /\ [][Next]_vars

-----------------------------------------------------------------------------
\* Every variable has its type.
TypeOK ==
  /\ env \in BOOLEAN /\ readable \in BOOLEAN /\ file \in Config
  /\ cmd \in [Command -> Edit]
  /\ told \in SUBSET Entry
  /\ blind \in BOOLEAN /\ torn \in BOOLEAN /\ doubled \in BOOLEAN

\* What the user was told is configured is what the file says, as long as commands
\* that edit it do not overlap, none of them was given another file, and no save
\* breaks off.
EditsAreKept ==
  ~blind /\ ~torn /\ (\A c \in Command : cmd[c].pc # "writing") =>
    Range(file.dbs) = told

\* No edit, whatever it overlaps with and wherever it breaks off, makes two databases
\* share an ID; only an answer to `db discover`, or a discovery by init of two for
\* which it makes up the same ID, does.
IDsStayDifferent == doubled \/ AllDiffer(file.dbs)

\* A save that broke off, or is under way, stops a daemon that starts and never
\* shortens its list: one that gets to work schedules every database the user has been
\* told of.  With the storage type in the environment, what a save has truncated is
\* accepted, and the list is empty; then, and only then, it takes a whole file.
NothingSilentlyDropped ==
  /\ ~blind /\ ~doubled /\ Accepted
  /\ env => ~torn /\ \A c \in Command : cmd[c].pc # "writing"
  => told \subseteq Scheduled(file.dbs)
=============================================================================
