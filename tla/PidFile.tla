------------------------------- MODULE PidFile -------------------------------
(***************************************************************************)
(* The PID file that is to keep a second marmot daemon from running:       *)
(* AcquirePIDFile and its release (internal/daemon/pidfile.go), called by  *)
(* `marmot start`, and the stop and restart commands that remove the file  *)
(* from outside.  Each system call on the file is a step of its own, so    *)
(* that starters, stoppers, exits and crashes interleave as they do.       *)
(*                                                                         *)
(* PIDs are reused: a process that is gone may be followed by another      *)
(* marmot or by an unrelated program with the same number.                 *)
(***************************************************************************)
EXTENDS FiniteSets

CONSTANTS PID,      \* process IDs
          Stopper,  \* `marmot stop` and `daemon restart` commands
          NoFile, NoPID

ASSUME NullsOK == NoFile \notin [pid : PID, full : BOOLEAN] /\ NoPID \notin PID

VARIABLES
  file,    \* marmot.pid: who created it, and whether its number is written yet
  proc,    \* what each process does
  seen,    \* the number a starter has read
  cmd,     \* what each stopper does
  target,  \* the number it has read
  raced    \* have two commands worked on the file at once? (history)

vars == <<file, proc, seen, cmd, target, raced>>

File == [pid : PID, full : BOOLEAN]

\* "boot": the lock is held, SIGTERM is not handled yet; "leave": about to release.
\* "zombie": has ended, but its parent has not waited for it, and it keeps its number.
ProcState == {"none", "foreign", "zombie", "create", "read", "check", "clear", "again",
              "write", "boot", "serve", "leave"}
CmdState  == {"idle", "check", "clear", "signal", "wait"}

Alive(p)   == proc[p] # "none"
Holds(p)   == proc[p] \in {"boot", "serve"}
Acquiring  == {p \in PID : proc[p] \in {"create", "read", "check", "clear", "again", "write"}}
Stopping   == {s \in Stopper : cmd[s] # "idle"}

Init ==
  /\ file = NoFile
  /\ proc = [p \in PID |-> "none"]
  /\ seen = [p \in PID |-> NoPID]
  /\ cmd = [s \in Stopper |-> "idle"]
  /\ target = [s \in Stopper |-> NoPID]
  /\ raced = FALSE

Goto(p, state) == proc' = [proc EXCEPT ![p] = state]

Ends(p) == \E state \in {"none", "zombie"} : Goto(p, state)

-----------------------------------------------------------------------------
(* AcquirePIDFile and tryAcquire.                                          *)

Start(p) ==
  /\ proc[p] = "none"
  /\ Goto(p, "create")
  /\ raced' = (raced \/ Acquiring # {} \/ Stopping # {})
  /\ UNCHANGED <<file, seen, cmd, target>>

\* open(O_CREATE|O_EXCL) makes an empty file, or reports that there is one.
TryAcquire(p) ==
  /\ file = NoFile
  /\ file' = [pid |-> p, full |-> FALSE]
  /\ Goto(p, "write")

Create(p) ==
  /\ proc[p] = "create"
  /\ \/ TryAcquire(p)
     \/ file # NoFile /\ Goto(p, "read") /\ UNCHANGED file
  /\ UNCHANGED <<seen, cmd, target, raced>>

\* Mutant: what is not a number is read as number 0.
Read_ZeroPID(p) ==
  /\ proc[p] = "read"
  /\ Goto(p, "check")
  /\ seen' = [seen EXCEPT ![p] = IF file = NoFile \/ ~file.full THEN 0 ELSE file.pid]
  /\ UNCHANGED <<file, cmd, target, raced>>

\* A file that is missing, empty or garbled is removed unseen.
Read(p) ==
  /\ proc[p] = "read"
  /\ IF file = NoFile \/ ~file.full
     THEN Goto(p, "clear") /\ UNCHANGED seen
     ELSE Goto(p, "check") /\ seen' = [seen EXCEPT ![p] = file.pid]
  /\ UNCHANGED <<file, cmd, target, raced>>

\* Mutants: the number is not looked up; a refused start runs the deferred release.
Check_Evicts(p) ==
  /\ proc[p] = "check"
  /\ Goto(p, "clear")
  /\ seen' = [seen EXCEPT ![p] = NoPID]
  /\ UNCHANGED <<file, cmd, target, raced>>

Check_Releases(p) ==
  /\ proc[p] = "check"
  /\ IF Alive(seen[p]) THEN Ends(p) ELSE Goto(p, "clear")
  /\ file' = IF Alive(seen[p]) THEN NoFile ELSE file
  /\ seen' = [seen EXCEPT ![p] = NoPID]
  /\ UNCHANGED <<cmd, target, raced>>

\* IsProcessRunning: any live process with that number, this one included.
Check(p) ==
  /\ proc[p] = "check"
  /\ IF Alive(seen[p]) THEN Ends(p) ELSE Goto(p, "clear")
  /\ seen' = [seen EXCEPT ![p] = NoPID]
  /\ UNCHANGED <<file, cmd, target, raced>>

\* os.Remove works on the name, whatever the file now is.
Clear(p) ==
  /\ proc[p] = "clear"
  /\ file' = NoFile
  /\ Goto(p, "again")
  /\ UNCHANGED <<seen, cmd, target, raced>>

Again(p) ==
  /\ proc[p] = "again"
  /\ \/ TryAcquire(p)
     \/ file # NoFile /\ Ends(p) /\ UNCHANGED file
  /\ UNCHANGED <<seen, cmd, target, raced>>

Mine(p) == file # NoFile /\ file.pid = p /\ ~file.full

\* The number goes to the file that was created, linked or not.
Write(p) ==
  /\ proc[p] = "write"
  /\ file' = IF Mine(p) THEN [file EXCEPT !.full = TRUE] ELSE file
  /\ Goto(p, "boot")
  /\ UNCHANGED <<seen, cmd, target, raced>>

WriteFails(p) ==
  /\ proc[p] = "write"
  /\ file' = NoFile
  /\ Ends(p)
  /\ UNCHANGED <<seen, cmd, target, raced>>

-----------------------------------------------------------------------------
(* The daemon's life with the lock.                                        *)

\* signal.Notify, the last thing before the daemon waits.
Serve(p) ==
  /\ proc[p] = "boot"
  /\ Goto(p, "serve")
  /\ UNCHANGED <<file, seen, cmd, target, raced>>

\* Start-up fails, or a signal arrives: runStart returns.
Leave(p) ==
  /\ Holds(p)
  /\ Goto(p, "leave")
  /\ UNCHANGED <<file, seen, cmd, target, raced>>

\* The deferred release removes the file by name, and the process ends.
Release(p) ==
  /\ proc[p] = "leave"
  /\ file' = NoFile
  /\ Ends(p)
  /\ UNCHANGED <<seen, cmd, target, raced>>

\* A crash, SIGKILL, or a signal before signal.Notify: nothing is released.
Die(p) ==
  /\ proc[p] \notin {"none", "zombie"}
  /\ Ends(p)
  /\ seen' = [seen EXCEPT ![p] = NoPID]
  /\ UNCHANGED <<file, cmd, target, raced>>

\* Its parent waits for it, or ends, and the number is free.
Reap(p) ==
  /\ proc[p] = "zombie"
  /\ Goto(p, "none")
  /\ UNCHANGED <<file, seen, cmd, target, raced>>

\* An unrelated program gets the number.
Reuse(p) ==
  /\ proc[p] = "none"
  /\ Goto(p, "foreign")
  /\ UNCHANGED <<file, seen, cmd, target, raced>>

-----------------------------------------------------------------------------
(* `marmot stop`; `daemon restart` is a stop followed by a Start.          *)

Step(s, state) == cmd' = [cmd EXCEPT ![s] = state]

Done(s) == Step(s, "idle") /\ target' = [target EXCEPT ![s] = NoPID]

\* With no readable number there is nothing to stop.
StopRead(s) ==
  /\ cmd[s] = "idle"
  /\ file # NoFile /\ file.full
  /\ Step(s, "check")
  /\ target' = [target EXCEPT ![s] = file.pid]
  /\ raced' = (raced \/ Acquiring # {} \/ Stopping # {})
  /\ UNCHANGED <<file, proc, seen>>

StopCheck(s) ==
  /\ cmd[s] = "check"
  /\ Step(s, IF Alive(target[s]) THEN "signal" ELSE "clear")
  /\ UNCHANGED <<file, proc, seen, target, raced>>

\* The signal is not permitted, or a restart finds nothing to stop.
StopGivesUp(s) ==
  /\ \/ cmd[s] = "signal"
     \/ cmd[s] = "check" /\ ~Alive(target[s])
  /\ Done(s)
  /\ UNCHANGED <<file, proc, seen, raced>>

\* SIGTERM: a serving daemon shuts down, a starting one just ends; an unrelated program
\* ends or ignores it.
StopSignal(s) ==
  /\ cmd[s] = "signal"
  /\ LET p == target[s] IN
       CASE proc[p] \in {"none", "zombie"} -> UNCHANGED proc
         [] proc[p] \in {"serve", "leave"} -> Goto(p, "leave")
         [] proc[p] = "foreign" -> Ends(p) \/ UNCHANGED proc
         [] OTHER -> Ends(p)
  /\ seen' = [seen EXCEPT ![target[s]] = NoPID]
  /\ Step(s, "wait")
  /\ UNCHANGED <<file, target, raced>>

StopWait(s) ==
  /\ cmd[s] = "wait"
  /\ ~Alive(target[s])
  /\ Step(s, "clear")
  /\ UNCHANGED <<file, proc, seen, target, raced>>

StopTimesOut(s) ==
  /\ cmd[s] = "wait"
  /\ Done(s)
  /\ UNCHANGED <<file, proc, seen, raced>>

StopClear(s) ==
  /\ cmd[s] = "clear"
  /\ file' = NoFile
  /\ Done(s)
  /\ UNCHANGED <<proc, seen, raced>>

-----------------------------------------------------------------------------
Process(p) ==
  \/ Start(p) \/ Create(p) \/ Read(p) \/ Check(p) \/ Clear(p) \/ Again(p)
  \/ Write(p) \/ WriteFails(p) \/ Serve(p) \/ Leave(p) \/ Release(p)
  \/ Die(p) \/ Reap(p) \/ Reuse(p)

Command(s) ==
  \/ StopRead(s) \/ StopCheck(s) \/ StopSignal(s) \/ StopWait(s)
  \/ StopTimesOut(s) \/ StopGivesUp(s) \/ StopClear(s)

Next == (\E p \in PID : Process(p)) \/ (\E s \in Stopper : Command(s))

Spec == Init /\ [][Next]_vars

\* Every variable has its type.
TypeOK ==
  /\ file \in File \cup {NoFile}
  /\ proc \in [PID -> ProcState]
  /\ seen \in [PID -> PID \cup {NoPID}]
  /\ cmd \in [Stopper -> CmdState]
  /\ target \in [Stopper -> PID \cup {NoPID}]
  /\ raced \in BOOLEAN

\* As long as starts and stops come one at a time, whatever crashes and whatever
\* numbers are reused, no two daemons hold the lock.
OneDaemonUnlessRaced ==
  ~raced => \A p, q \in PID : Holds(p) /\ Holds(q) => p = q

\* ... and the file names the daemon that holds it, so that stop and status find it
\* and the next start is refused.
FileNamesDaemonUnlessRaced ==
  ~raced => \A p \in PID : Holds(p) => file = [pid |-> p, full |-> TRUE]

\* Until the release has removed the file, its daemon has the lock.
Locked(p) == proc[p] \in {"boot", "serve", "leave"}

TakeTurns ==
  /\ \A p, q \in Acquiring : p = q
  /\ \A s, t \in Stopping : s = t
  /\ Acquiring = {} \/ Stopping = {}

StarterKnows ==
  \A p \in PID :
    /\ proc[p] = "check" => \A q \in PID : Locked(q) => q = seen[p]
    /\ proc[p] \in {"clear", "again", "write"} => \A q \in PID : ~Locked(q)
    /\ proc[p] = "write" => file = [pid |-> p, full |-> FALSE]

StopperKnows ==
  \A s \in Stopper :
    /\ cmd[s] # "idle" => \A q \in PID : Locked(q) => q = target[s]
    /\ cmd[s] = "clear" => \A q \in PID : ~Locked(q)

\* Why: while commands take turns, the file is full and names whoever has the lock; a
\* starter that is past its check, and a stopper about to remove the file, has seen
\* that nobody has it.
UnracedInv ==
  ~raced =>
    /\ \A p \in PID : Locked(p) => file = [pid |-> p, full |-> TRUE]
    /\ TakeTurns
    /\ StarterKnows
    /\ StopperKnows

=============================================================================
