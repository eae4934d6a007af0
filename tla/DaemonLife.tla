------------------------------ MODULE DaemonLife ------------------------------
(***************************************************************************)
(* The daemon around its lock: what `marmot start` does between taking the *)
(* PID file and waiting for a signal (start.go, scheduler.go), the         *)
(* commands that launch it in the background (`init`, `daemon restart`:    *)
(* daemon_launch.go), and the service manager that starts it again         *)
(* (service.go: Restart=on-failure).                                       *)
(*                                                                         *)
(* Every step on the PID file is one of PidFile; this module says who      *)
(* takes it, how a process ends, and what happens then.                    *)
(***************************************************************************)
EXTENDS PidFile, Naturals, Sequences

CONSTANTS
  ID,        \* database IDs
  Lists,     \* lists of databases that config.yaml may hold
  MaxFaults  \* bound: crashes, failures, reused numbers and commands of users

\* fields: of the schedule; 0 is no schedule, 6 has seconds.
Entry == [id : ID, fields : {0, 5, 6}, enabled : BOOLEAN]

ASSUME LifeConstantsOK == Lists \subseteq Seq(Entry) /\ MaxFaults \in Nat

VARIABLES
  dbs,     \* the list, the same for every start
  passed,  \* how many entries of it Scheduler.Start has gone through
  cron,    \* how many cron entries each database has
  exit,    \* why runStart returns an error
  unit,    \* the service: which process it is; wanted: nobody has stopped it (history)
  job,     \* restart and init, the parts around the launch
  faults

life     == <<dbs, passed, cron, exit, unit, job, faults>>
lifeVars == <<file, proc, seen, cmd, target, raced, dbs, passed, cron, exit, unit, job, faults>>

Unit == [state : {"off", "up", "failed"}, main : PID \cup {NoPID}, wanted : BOOLEAN]
Job  == [pc : {"no", "read", "stop", "launch", "poll"}, child : PID \cup {NoPID},
         old : SUBSET PID, said : BOOLEAN]

UnitOff == [state |-> "off", main |-> NoPID, wanted |-> FALSE]
NoJob   == [pc |-> "no", child |-> NoPID, old |-> {}, said |-> FALSE]
NoEntry == [d \in ID |-> 0]

LifeInit ==
  /\ Init
  /\ dbs \in Lists
  /\ passed = [p \in PID |-> 0] /\ cron = [p \in PID |-> NoEntry]
  /\ exit = [p \in PID |-> "none"]
  /\ unit = UnitOff
  /\ job = [s \in Stopper |-> NoJob]
  /\ faults = 0

Fault == faults < MaxFaults /\ faults' = faults + 1

-----------------------------------------------------------------------------
(* How processes begin and end.                                            *)

Children == {job[s].child : s \in {t \in Stopper : job[t].pc = "poll"}}

Ended(p) == proc[p] \notin {"none", "zombie"} /\ proc'[p] \in {"none", "zombie"}

\* A launcher never waits for its child; a shell and the service manager do.
ParentsWait == \A p \in PID : Ended(p) => (proc'[p] = "zombie" <=> p \in Children)

\* Mutant: an error exit counts as a success.
AfterExit_NoRestart(u, ok) ==
  IF u.main \in PID /\ Ended(u.main) THEN [u EXCEPT !.state = "off", !.main = NoPID] ELSE u

\* Restart=on-failure: not after exit code 0, nor after SIGTERM.
AfterExit(u, ok) ==
  IF u.main \in PID /\ Ended(u.main)
  THEN [u EXCEPT !.state = IF ok THEN "off" ELSE "failed", !.main = NoPID]
  ELSE u

Exits(ok) == ParentsWait /\ unit' = AfterExit(unit, ok)

AskedToEnd(p) == IF unit.main = p THEN [unit EXCEPT !.wanted = FALSE] ELSE unit

\* A process that has this number now is not the one that had it before.
Fresh(p) ==
  /\ passed' = [passed EXCEPT ![p] = 0] /\ cron' = [cron EXCEPT ![p] = NoEntry]
  /\ exit' = [exit EXCEPT ![p] = "none"]

NotOld(jobs, p) == [s \in Stopper |-> [jobs[s] EXCEPT !.old = @ \ {p}]]

\* `marmot start` in a shell.
StartByHand(p) ==
  /\ Start(p) /\ Fresh(p) /\ Fault
  /\ job' = NotOld(job, p)
  /\ UNCHANGED <<dbs, unit>>

\* systemctl start, by `service install` or at boot; and RestartSec after a failure.
UnitStart(p) ==
  /\ \/ unit.state = "off" /\ Fault
     \/ unit.state = "failed" /\ UNCHANGED faults
  /\ Start(p) /\ Fresh(p)
  /\ unit' = [state |-> "up", main |-> p, wanted |-> TRUE]
  /\ job' = NotOld(job, p)
  /\ UNCHANGED dbs

\* `service uninstall` stops the unit: SIGTERM, and no restart.
UnitStop ==
  /\ unit.state # "off" /\ Fault
  /\ unit' = UnitOff
  /\ LET p == unit.main IN
       \/ p \in PID /\ proc[p] = "serve" /\ Leave(p)
       \/ p \in PID /\ proc[p] \notin {"serve", "leave"} /\ Die(p)
       \/ (p \in PID => proc[p] = "leave") /\ UNCHANGED vars
  /\ ParentsWait
  /\ UNCHANGED <<dbs, passed, cron, exit, job>>

-----------------------------------------------------------------------------
(* runStart: the lock, and what follows until the daemon waits.            *)

\* A start that finds the lock taken returns an error.
Lock(p) ==
  /\ Create(p) \/ Read(p) \/ Check(p) \/ Clear(p) \/ Again(p) \/ Write(p)
  /\ Exits(FALSE)
  /\ UNCHANGED <<dbs, passed, cron, exit, job, faults>>

\* runStart returns an error; the deferred release is still to come.
Fails(p, why) ==
  /\ Leave(p)
  /\ exit' = [exit EXCEPT ![p] = why]
  /\ UNCHANGED <<dbs, cron, unit, job>>

\* Validate, the directory, the queue, the remote, the key.
SetUpFails(p) ==
  /\ proc[p] = "boot" /\ passed[p] = 0
  /\ Fails(p, "error") /\ Fault
  /\ UNCHANGED passed

GetDatabaseByID(d) ==
  dbs[CHOOSE i \in DOMAIN dbs : dbs[i].id = d /\ \A j \in 1 .. i - 1 : dbs[j].id # d]

\* Mutant: the entry that there is stays.
Rescheduled_Twice(n) == n + 1

\* An entry there is for the ID is removed, and one is added.
Rescheduled(n) == (IF n > 0 THEN n - 1 ELSE n) + 1

\* The parser was made WithSeconds: five fields are an error.
Parses(e) == e.fields = 6

\* Mutant: a schedule that is refused is logged, and the next one tried.
ScheduleDatabase_Skips(p) ==
  /\ proc[p] = "boot" /\ passed[p] < Len(dbs)
  /\ LET e == dbs[passed[p] + 1]
         c == GetDatabaseByID(e.id)
     IN cron' = IF e.enabled /\ e.fields # 0 /\ Parses(c)
                THEN [cron EXCEPT ![p][e.id] = Rescheduled(@)] ELSE cron
  /\ passed' = [passed EXCEPT ![p] = @ + 1]
  /\ UNCHANGED <<vars, exit, dbs, unit, job, faults>>

\* Scheduler.Start and ScheduleDatabase, for the next entry of the list.
ScheduleDatabase(p) ==
  /\ proc[p] = "boot" /\ passed[p] < Len(dbs)
  /\ LET e == dbs[passed[p] + 1]
         c == GetDatabaseByID(e.id)
         due == e.enabled /\ e.fields # 0
     IN
       \/ /\ due /\ ~Parses(c)
          /\ Fails(p, IF c.fields = 0 THEN "error" ELSE "schedule")
       \/ /\ ~due \/ Parses(c)
          /\ cron' = IF due THEN [cron EXCEPT ![p][e.id] = Rescheduled(@)] ELSE cron
          /\ UNCHANGED <<vars, exit, dbs, unit, job>>
  /\ passed' = [passed EXCEPT ![p] = @ + 1]
  /\ UNCHANGED faults

\* The scheduler runs, and the signals are asked for.
StartsServing(p) ==
  /\ Serve(p) /\ passed[p] = Len(dbs)
  /\ UNCHANGED life

\* SIGINT or SIGTERM by hand.
Signalled(p) ==
  /\ proc[p] = "serve" /\ Leave(p) /\ Fault
  /\ unit' = AskedToEnd(p)
  /\ UNCHANGED <<dbs, passed, cron, exit, job>>

Returns(p) ==
  /\ Release(p)
  /\ Exits(exit[p] = "none")
  /\ UNCHANGED <<dbs, passed, cron, exit, job, faults>>

Crash(p) ==
  /\ proc[p] # "foreign"
  /\ Die(p) \/ WriteFails(p)
  /\ Exits(FALSE) /\ Fault
  /\ UNCHANGED <<dbs, passed, cron, exit, job>>

\* The number of a process that is gone goes to another program, and that may end.
Taken(p) ==
  /\ Reuse(p) /\ Fault
  /\ \E q \in PID : q # p /\ proc[q] = "none"
  /\ UNCHANGED <<dbs, passed, cron, exit, unit, job>>

Freed(p) ==
  /\ \/ proc[p] = "foreign" /\ Die(p) /\ ParentsWait
     \/ p \notin Children /\ Reap(p)
  /\ UNCHANGED life

-----------------------------------------------------------------------------
(* `stop`, `daemon restart`, and the launch at the end of `init`.          *)

\* Between Init and the next command nothing is left of the last.
Asks(s, pc, old) ==
  /\ job[s].pc = "no" /\ cmd[s] = "idle" /\ Fault
  /\ job' = [job EXCEPT ![s] = [NoJob EXCEPT !.pc = pc, !.old = old]]

Stop(s) ==
  /\ Asks(s, "no", {}) /\ StopRead(s)
  /\ UNCHANGED <<dbs, passed, cron, exit, unit>>

Restart(s) ==
  /\ Asks(s, "read", {p \in PID : Holds(p)})
  /\ UNCHANGED <<vars, dbs, passed, cron, exit, unit>>

InitLaunches(s) ==
  /\ Asks(s, "launch", {})
  /\ UNCHANGED <<vars, dbs, passed, cron, exit, unit>>

Becomes(s, pc) == job' = [job EXCEPT ![s].pc = pc]

\* Without a number to read the restart goes on to the launch.
RestartReads(s) ==
  /\ job[s].pc = "read"
  /\ \/ StopRead(s) /\ Becomes(s, "stop")
     \/ ~(file # NoFile /\ file.full) /\ Becomes(s, "launch") /\ UNCHANGED vars
  /\ UNCHANGED <<dbs, passed, cron, exit, unit, faults>>

StopSignals(s) ==
  /\ StopSignal(s) /\ ParentsWait
  /\ unit' = AfterExit(AskedToEnd(target[s]), TRUE)
  /\ UNCHANGED <<dbs, passed, cron, exit, job, faults>>

\* A restart that finds the process gone does not remove its file; one that cannot
\* stop it ends there.
StopGoesOn(s) ==
  /\ \/ StopCheck(s) /\ (job[s].pc = "stop" => cmd'[s] = "signal") /\ UNCHANGED job
     \/ StopWait(s) /\ UNCHANGED job
     \/ StopClear(s) /\ job[s].pc = "no" /\ UNCHANGED job
     \/ /\ StopClear(s) \/ (cmd[s] = "check" /\ StopGivesUp(s))
        /\ job[s].pc = "stop" /\ Becomes(s, "launch")
  /\ UNCHANGED <<dbs, passed, cron, exit, unit, faults>>

\* Mutant: the restart goes on.
StopFails_Ignored(s) ==
  /\ \/ StopTimesOut(s)
     \/ cmd[s] = "signal" /\ StopGivesUp(s)
  /\ Becomes(s, IF job[s].pc = "stop" THEN "launch" ELSE "no")
  /\ UNCHANGED <<dbs, passed, cron, exit, unit, faults>>

StopFails(s) ==
  /\ \/ StopTimesOut(s)
     \/ cmd[s] = "signal" /\ StopGivesUp(s)
  /\ Becomes(s, "no")
  /\ UNCHANGED <<dbs, passed, cron, exit, unit, faults>>

\* launchDaemonBackground: `marmot start --foreground` as a child.
Launch(s, p) ==
  /\ job[s].pc = "launch"
  /\ Start(p) /\ Fresh(p)
  /\ job' = NotOld([job EXCEPT ![s] = [@ EXCEPT !.pc = "poll", !.child = p]], p)
  /\ UNCHANGED <<dbs, unit, faults>>

\* It returns nil when the PID file names a live process, whichever that is, and when
\* two seconds are over.  That the child has ended it never sees: nobody has waited
\* for the child, and a zombie can be sent signal 0.
LaunchReports(s) ==
  /\ job[s].pc = "poll"
  /\ job' = [job EXCEPT ![s] = [@ EXCEPT !.pc = "no", !.child = NoPID, !.said = TRUE]]
  /\ UNCHANGED <<vars, dbs, passed, cron, exit, unit, faults>>

-----------------------------------------------------------------------------
RunStart(p) == Lock(p) \/ ScheduleDatabase(p) \/ StartsServing(p) \/ Returns(p)

Accident(p) == SetUpFails(p) \/ Signalled(p) \/ Crash(p) \/ Taken(p) \/ Freed(p)

CommandStep(s) ==
  \/ Stop(s) \/ Restart(s) \/ InitLaunches(s)
  \/ RestartReads(s) \/ StopSignals(s) \/ StopGoesOn(s) \/ StopFails(s)
  \/ (\E p \in PID : Launch(s, p)) \/ LaunchReports(s)

LifeNext ==
  \/ \E p \in PID : StartByHand(p) \/ UnitStart(p) \/ RunStart(p) \/ Accident(p)
  \/ \E s \in Stopper : CommandStep(s)
  \/ UnitStop

\* Processes run, launchers end and what they leave is waited for, and RestartSec passes.
Fairness ==
  /\ \A p \in PID : WF_lifeVars(RunStart(p))
  /\ \A p \in PID : WF_lifeVars(p \notin Children /\ Reap(p) /\ UNCHANGED life)
  /\ \A s \in Stopper : WF_lifeVars(LaunchReports(s))
  /\ WF_lifeVars(unit.state = "failed" /\ \E p \in PID : UnitStart(p))

LifeSpec == LifeInit /\ [][LifeNext]_lifeVars /\ Fairness

-----------------------------------------------------------------------------
\* Every variable has its type.
LifeTypeOK ==
  /\ TypeOK
  /\ dbs \in Lists
  /\ passed \in [PID -> 0 .. Len(dbs)]
  /\ cron \in [PID -> [ID -> Nat]]
  /\ exit \in [PID -> {"none", "error", "schedule"}]
  /\ unit \in Unit
  /\ job \in [Stopper -> Job]
  /\ faults \in 0 .. MaxFaults

\* A restart that has reported the new daemon has ended the one that served before it,
\* unless commands worked on the PID file at once.  (`init` promises no such thing: it
\* reports "Daemon started." for the old one.)
RestartReplaces ==
  ~raced => \A s \in Stopper : job[s].said => \A p \in job[s].old : ~Holds(p)

\* Why: what a restart found serving can only end, and is gone when it launches.
JobKnows(s) ==
  /\ \A p \in job[s].old : p \notin Acquiring
  /\ ~raced /\ (job[s].pc \in {"launch", "poll"} \/ job[s].said) =>
       \A p \in job[s].old : ~Holds(p)

RestartInv == \A s \in Stopper : JobKnows(s)

\* A daemon that serves runs each enabled database that has a schedule once, however
\* often its ID is in the list.
EnabledRunOnce ==
  \A p \in PID : proc[p] = "serve" =>
    \A d \in ID : cron[p][d] =
      IF \E i \in DOMAIN dbs : dbs[i].id = d /\ dbs[i].enabled /\ dbs[i].fields # 0
      THEN 1 ELSE 0

\* A daemon that serves has not left out a schedule that was refused: each database that is
\* enabled has a schedule that parses, in the entry that its ID stands for.
ServesWholeSchedule ==
  \A p \in PID : proc[p] = "serve" =>
    \A i \in DOMAIN dbs :
      dbs[i].enabled /\ dbs[i].fields # 0 => Parses(GetDatabaseByID(dbs[i].id))

\* The number in the PID file is that of a process which is no daemon: another program,
\* or the start itself that reads it.
Squatted == file # NoFile /\ file.full /\ Alive(file.pid) /\ ~Locked(file.pid)

Startable == \A i \in DOMAIN dbs : dbs[i].enabled => dbs[i].fields \in {0, 6}

\* A daemon that the service manager keeps serves again and again, whatever crashed,
\* failed or was restarted by hand, unless somebody stopped it, or a number in the PID
\* file that was taken over keeps refusing it.
ServiceComesBack ==
  Startable =>
    []<>(~unit.wanted \/ Squatted \/ \E p \in PID : proc[p] = "serve")

\* The default schedule of `init` and those of the documentation start the daemon:
\* no schedule is refused.
SchedulesParse == \A p \in PID : exit[p] # "schedule"
=============================================================================
