--------------------------- MODULE DaemonLifeProofs ---------------------------
(***************************************************************************)
(* Proofs about PidFile, and about DaemonLife, whose steps on the lock are *)
(* steps of PidFile: while commands take turns one daemon holds the lock   *)
(* and the file names it; a restart that has reported a new daemon has     *)
(* ended the old one; and a daemon runs each enabled database once.        *)
(***************************************************************************)
EXTENDS DaemonLife, Prefixes

-----------------------------------------------------------------------------
(* The lock.                                                               *)


USE NullsOK

\* What TryAcquire creates and Write completes is a PID file.
LEMMA FileRecord == \A p \in PID, b \in BOOLEAN : [pid |-> p, full |-> b] \in File
  BY DEF File

\* ... and not the missing file.
LEMMA RecordIsFile == \A p \in PID, b \in BOOLEAN : [pid |-> p, full |-> b] # NoFile
  BY FileRecord, NullsOK DEF File

\* A process that ends leaves nothing, or a zombie.
LEMMA EndsOK ==
  ASSUME proc \in [PID -> ProcState], NEW p \in PID, Ends(p)
  PROVE  proc' \in [PID -> ProcState]
<1>1. PICK state \in {"none", "zombie"} : proc' = [proc EXCEPT ![p] = state]
  BY DEF Ends, Goto
<1> QED
  BY <1>1 DEF ProcState

\* Every variable keeps its type.
THEOREM TypeInvariant == Spec => []TypeOK
<1>1. Init => TypeOK
  BY DEF Init, TypeOK, File, ProcState, CmdState
<1>2. TypeOK /\ [Next]_vars => TypeOK'
  <2> SUFFICES ASSUME TypeOK, [Next]_vars PROVE TypeOK'
    OBVIOUS
  <2> USE DEF TypeOK, ProcState, CmdState, Goto, Alive
  <2>1. CASE UNCHANGED vars
    BY <2>1 DEF vars
  <2>2. ASSUME NEW p \in PID, Start(p) PROVE TypeOK'
    BY <2>2 DEF Start
  <2>3. ASSUME NEW p \in PID, Create(p) PROVE TypeOK'
    <3>1. CASE file = NoFile
      BY <2>3, <3>1, FileRecord DEF Create, TryAcquire
    <3>2. CASE file # NoFile
      BY <2>3, <3>2 DEF Create, TryAcquire
    <3> QED
      BY <3>1, <3>2
  <2>4. ASSUME NEW p \in PID, Read(p) PROVE TypeOK'
    <3>1. CASE file = NoFile \/ ~file.full
      BY <2>4, <3>1 DEF Read
    <3>2. CASE ~(file = NoFile \/ ~file.full)
      <4>1. file.pid \in PID
        BY <3>2 DEF File
      <4> QED
        BY <2>4, <3>2, <4>1 DEF Read
    <3> QED
      BY <3>1, <3>2
  <2>5. ASSUME NEW p \in PID, Check(p) PROVE TypeOK'
    <3>1. CASE Ends(p)
      <4>1. proc' \in [PID -> ProcState]
        BY <3>1, EndsOK
      <4> QED
        BY <2>5, <4>1 DEF Check
    <3> QED
      BY <2>5, <3>1 DEF Check
  <2>6. ASSUME NEW p \in PID, Clear(p) PROVE TypeOK'
    BY <2>6 DEF Clear
  <2>7. ASSUME NEW p \in PID, Again(p) PROVE TypeOK'
    <3>1. CASE file = NoFile
      BY <2>7, <3>1, FileRecord DEF Again, TryAcquire
    <3>2. CASE file # NoFile
      <4>1. proc' \in [PID -> ProcState]
        BY <2>7, <3>2, EndsOK DEF Again, TryAcquire
      <4> QED
        BY <2>7, <3>2, <4>1 DEF Again, TryAcquire
    <3> QED
      BY <3>1, <3>2
  <2>8. ASSUME NEW p \in PID, Write(p) PROVE TypeOK'
    <3>1. file' \in File \cup {NoFile}
      <4>1. CASE Mine(p)
        <5>1. file' = [file EXCEPT !.full = TRUE] /\ file \in File
          BY <2>8, <4>1 DEF Write, Mine
        <5> QED
          BY <5>1 DEF File
      <4>2. CASE ~Mine(p)
        BY <2>8, <4>2 DEF Write
      <4> QED
        BY <4>1, <4>2
    <3> QED
      BY <2>8, <3>1 DEF Write
  <2>9. ASSUME NEW p \in PID, WriteFails(p) PROVE TypeOK'
    <3>1. CASE Ends(p)
      <4>1. proc' \in [PID -> ProcState]
        BY <3>1, EndsOK
      <4> QED
        BY <2>9, <4>1 DEF WriteFails
    <3> QED
      BY <2>9, <3>1 DEF WriteFails
  <2>10. ASSUME NEW p \in PID, Serve(p) PROVE TypeOK'
    BY <2>10 DEF Serve
  <2>11. ASSUME NEW p \in PID, Leave(p) PROVE TypeOK'
    BY <2>11 DEF Leave
  <2>12. ASSUME NEW p \in PID, Release(p) PROVE TypeOK'
    <3>1. CASE Ends(p)
      <4>1. proc' \in [PID -> ProcState]
        BY <3>1, EndsOK
      <4> QED
        BY <2>12, <4>1 DEF Release
    <3> QED
      BY <2>12, <3>1 DEF Release
  <2>13. ASSUME NEW p \in PID, Die(p) PROVE TypeOK'
    <3>1. CASE Ends(p)
      <4>1. proc' \in [PID -> ProcState]
        BY <3>1, EndsOK
      <4> QED
        BY <2>13, <4>1 DEF Die
    <3> QED
      BY <2>13, <3>1 DEF Die
  <2>14. ASSUME NEW p \in PID, Reuse(p) \/ Reap(p) PROVE TypeOK'
    BY <2>14 DEF Reuse, Reap
  <2>15. ASSUME NEW s \in Stopper, StopRead(s) PROVE TypeOK'
    <3>1. file.pid \in PID
      BY <2>15 DEF StopRead, File
    <3> QED
      BY <2>15, <3>1 DEF StopRead, Step
  <2>16. ASSUME NEW s \in Stopper, StopCheck(s) PROVE TypeOK'
    BY <2>16 DEF StopCheck, Step, Done
  <2>17. ASSUME NEW s \in Stopper, StopSignal(s) PROVE TypeOK'
    <3>1. proc' \in [PID -> ProcState]
      <4>1. CASE target[s] \in PID
        BY <2>17, <4>1, EndsOK DEF StopSignal
      <4>2. CASE target[s] \notin PID
        BY <2>17, <4>2 DEF StopSignal, Ends
      <4> QED
        BY <4>1, <4>2
    <3> QED
      BY <2>17, <3>1 DEF StopSignal, Step
  <2>18. ASSUME NEW s \in Stopper, StopWait(s) PROVE TypeOK'
    BY <2>18 DEF StopWait, Step, Done
  <2>19. ASSUME NEW s \in Stopper, StopTimesOut(s) PROVE TypeOK'
    BY <2>19 DEF StopTimesOut, Step, Done
  <2>20. ASSUME NEW s \in Stopper, StopGivesUp(s) PROVE TypeOK'
    BY <2>20 DEF StopGivesUp, Step, Done
  <2>21. ASSUME NEW s \in Stopper, StopClear(s) PROVE TypeOK'
    BY <2>21 DEF StopClear, Step, Done
  <2> QED
    BY <2>1, <2>2, <2>3, <2>4, <2>5, <2>6, <2>7, <2>8, <2>9, <2>10, <2>11, <2>12, <2>13, <2>14, <2>15, <2>16, <2>17, <2>18, <2>19, <2>20, <2>21
    DEF Next, Process, Command
<1> QED
  BY <1>1, <1>2, PTL DEF Spec

\* The condition under which a state satisfies UnracedInv, spelled out without sets.
Turns ==
  /\ \A p, q \in PID : p \in Acquiring /\ q \in Acquiring => p = q
  /\ \A s, t \in Stopper : s \in Stopping /\ t \in Stopping => s = t
  /\ \A p \in PID, s \in Stopper : ~(p \in Acquiring /\ s \in Stopping)

\* The two ways to say that starts and stops take turns agree, in a state
LEMMA TurnsOK == Turns <=> TakeTurns
  BY DEF Turns, TakeTurns, Acquiring, Stopping

\* ... and in the next one.
LEMMA TurnsOKNext == Turns' <=> TakeTurns'
  BY DEF Turns, TakeTurns, Acquiring, Stopping

\* While commands take turns, the file is full and names the daemon that has the lock.
THEOREM UnracedInvariant == Spec => []UnracedInv
<1>1. Init => UnracedInv
  BY DEF Init, UnracedInv, TakeTurns, StarterKnows, StopperKnows, Locked, Acquiring, Stopping
<1>2. TypeOK /\ UnracedInv /\ [Next]_vars => UnracedInv'
  <2> SUFFICES ASSUME TypeOK, UnracedInv, [Next]_vars, ~raced'
               PROVE  /\ (\A p \in PID : Locked(p) => file = [pid |-> p, full |-> TRUE])'
                      /\ Turns'
                      /\ StarterKnows'
                      /\ StopperKnows'
    BY TurnsOKNext DEF UnracedInv
  <2>0. ~raced
    BY DEF Next, Process, Command, vars, Start, Create, Read, Check, Clear, Again, Write,
           WriteFails, Serve, Leave, Release, Die, Reap, Reuse, StopRead, StopCheck, StopSignal,
           StopWait, StopTimesOut, StopGivesUp, StopClear
  <2>1. /\ \A p \in PID : Locked(p) => file = [pid |-> p, full |-> TRUE]
        /\ Turns
        /\ StarterKnows
        /\ StopperKnows
    BY <2>0, TurnsOK DEF UnracedInv
  <2> USE <2>1 DEF TypeOK, Turns, StarterKnows, StopperKnows, Locked, Acquiring, Stopping,
                   Alive, Goto, Ends
  <2>2. CASE UNCHANGED vars
    BY <2>2 DEF vars
  <2>3. CASE \E p \in PID : Start(p)
    <3>1. PICK p \in PID : Start(p)
      BY <2>3
    <3>2. /\ \A q \in PID : q \notin Acquiring
          /\ \A s \in Stopper : s \notin Stopping
      <4>1. Acquiring = {} /\ Stopping = {}
        BY <3>1, Zenon DEF Start
      <4> QED
        BY <4>1, Zenon
    <3>3. /\ proc' = [proc EXCEPT ![p] = "create"]
          /\ UNCHANGED <<file, seen, cmd, target>>
      BY <3>1 DEF Start
    <3> QED
      BY <3>2, <3>3
  <2>4. CASE \E p \in PID : Create(p)
    <3>1. PICK p \in PID : Create(p)
      BY <2>4
    <3>2. CASE file = NoFile
      <4>1. \A q \in PID : ~Locked(q)
        BY <3>2, RecordIsFile
      <4> QED
        BY <3>1, <3>2, <4>1 DEF Create, TryAcquire
    <3>3. CASE file # NoFile
      BY <3>1, <3>3 DEF Create, TryAcquire
    <3> QED
      BY <3>2, <3>3
  <2>5. CASE \E p \in PID : Read(p)
    <3>1. PICK p \in PID : Read(p)
      BY <2>5
    <3>2. CASE file = NoFile \/ ~file.full
      <4>1. \A q \in PID : ~Locked(q)
        <5> SUFFICES ASSUME NEW q \in PID, Locked(q) PROVE FALSE
          OBVIOUS
        <5>1. file = [pid |-> q, full |-> TRUE]
          OBVIOUS
        <5>2. file # NoFile /\ file.full = TRUE
          BY <5>1, RecordIsFile
        <5> QED
          BY <5>2, <3>2
      <4> QED
        BY <3>1, <3>2, <4>1 DEF Read
    <3>3. CASE ~(file = NoFile \/ ~file.full)
      <4>1. \A q \in PID : Locked(q) => q = file.pid
        OBVIOUS
      <4>2. /\ proc[p] = "read" /\ proc' = [proc EXCEPT ![p] = "check"]
            /\ seen' = [seen EXCEPT ![p] = file.pid]
            /\ UNCHANGED <<file, cmd, target, raced>>
        BY <3>1, <3>3 DEF Read
      <4> QED
        BY <4>1, <4>2
    <3> QED
      BY <3>2, <3>3
  <2>6. CASE \E p \in PID : Check(p)
    BY <2>6 DEF Check
  <2>7. CASE \E p \in PID : Clear(p)
    BY <2>7 DEF Clear
  <2>8. CASE \E p \in PID : Again(p)
    BY <2>8 DEF Again, TryAcquire
  <2>9. CASE \E p \in PID : Write(p)
    <3>1. PICK p \in PID : Write(p)
      BY <2>9
    <3>0. file = [pid |-> p, full |-> FALSE]
      BY <3>1 DEF Write
    <3>2. Mine(p)
      BY <3>0, RecordIsFile DEF Mine
    <3>3. file' = [pid |-> p, full |-> TRUE]
      <4>1. file' = [file EXCEPT !.full = TRUE]
        BY <3>1, <3>2, Zenon DEF Write
      <4> QED
        BY <3>0, <4>1
    <3>4. /\ proc[p] = "write" /\ proc' = [proc EXCEPT ![p] = "boot"]
          /\ UNCHANGED <<seen, cmd, target, raced>>
      BY <3>1 DEF Write
    <3>5. \A q \in PID : proc'[q] = IF q = p THEN "boot" ELSE proc[q]
      BY <3>4
    <3>6. \A q \in PID : ~Locked(q)
      BY <3>1 DEF Write
    <3>7. \A q \in PID : Locked(q)' => q = p
      BY <3>5, <3>6
    <3>8. (\A q \in PID : Locked(q) => file = [pid |-> q, full |-> TRUE])'
      BY <3>3, <3>7
    <3>9. Turns'
      BY <3>4, <3>5
    <3>10. StarterKnows'
      <4>1. \A q \in PID : q # p => proc[q] \notin {"check", "clear", "again", "write"}
        BY <3>4
      <4> QED
        BY <3>4, <3>5, <4>1
    <3>11. StopperKnows'
      BY <3>4, <3>5
    <3> QED
      BY <3>8, <3>9, <3>10, <3>11
  <2>10. CASE \E p \in PID : WriteFails(p)
    BY <2>10 DEF WriteFails
  <2>11. CASE \E p \in PID : Serve(p)
    BY <2>11 DEF Serve, Holds
  <2>12. CASE \E p \in PID : Leave(p)
    BY <2>12 DEF Leave, Holds
  <2>13. CASE \E p \in PID : Release(p)
    BY <2>13 DEF Release
  <2>14. CASE \E p \in PID : Die(p)
    BY <2>14 DEF Die
  <2>15. CASE \E p \in PID : Reuse(p) \/ Reap(p)
    BY <2>15 DEF Reuse, Reap
  <2>16. CASE \E s \in Stopper : StopRead(s)
    <3>1. PICK s \in Stopper : StopRead(s)
      BY <2>16
    <3>2. /\ \A q \in PID : q \notin Acquiring
          /\ \A t \in Stopper : t \notin Stopping
      <4>1. Acquiring = {} /\ Stopping = {}
        BY <3>1, Zenon DEF StopRead
      <4> QED
        BY <4>1, Zenon
    <3>3. \A q \in PID : Locked(q) => q = file.pid
      OBVIOUS
    <3>4. /\ cmd' = [cmd EXCEPT ![s] = "check"]
          /\ target' = [target EXCEPT ![s] = file.pid]
          /\ UNCHANGED <<file, proc, seen>>
      BY <3>1 DEF StopRead, Step
    <3> QED
      BY <3>2, <3>3, <3>4
  <2>17. CASE \E s \in Stopper : StopCheck(s)
    BY <2>17 DEF StopCheck, Step, Done
  <2>18. CASE \E s \in Stopper : StopSignal(s)
    BY <2>18 DEF StopSignal, Step, Done
  <2>19. CASE \E s \in Stopper : StopWait(s)
    BY <2>19 DEF StopWait, Step, Done
  <2>20. CASE \E s \in Stopper : StopTimesOut(s)
    BY <2>20 DEF StopTimesOut, Step, Done
  <2>21. CASE \E s \in Stopper : StopGivesUp(s)
    BY <2>21 DEF StopGivesUp, Step, Done
  <2>22. CASE \E s \in Stopper : StopClear(s)
    BY <2>22 DEF StopClear, Step, Done
  <2> QED
    BY <2>2, <2>3, <2>4, <2>5, <2>6, <2>7, <2>8, <2>9, <2>10, <2>11, <2>12, <2>13, <2>14, <2>15, <2>16, <2>17, <2>18, <2>19, <2>20, <2>21, <2>22
    DEF Next, Process, Command
<1> QED
  BY <1>1, <1>2, TypeInvariant, PTL DEF Spec

\* One daemon at a time, and the file names it, as long as commands take turns.
THEOREM OneDaemonTheorem == Spec => []OneDaemonUnlessRaced
<1>1. UnracedInv => OneDaemonUnlessRaced
  <2> SUFFICES ASSUME UnracedInv, ~raced, NEW p \in PID, NEW q \in PID, Holds(p), Holds(q)
               PROVE  p = q
    BY DEF OneDaemonUnlessRaced
  <2>1. file = [pid |-> p, full |-> TRUE] /\ file = [pid |-> q, full |-> TRUE]
    BY DEF UnracedInv, Holds, Locked
  <2> QED
    BY <2>1
<1> QED
  BY <1>1, UnracedInvariant, PTL

\* ... and stop, status and the next start find the daemon's number in the file.
THEOREM FileNamesDaemonTheorem == Spec => []FileNamesDaemonUnlessRaced
<1>1. UnracedInv => FileNamesDaemonUnlessRaced
  BY DEF UnracedInv, FileNamesDaemonUnlessRaced, Holds, Locked
<1> QED
  BY <1>1, UnracedInvariant, PTL

-----------------------------------------------------------------------------
(* The daemon around it.                                                   *)


\* A signal to the unit's process is a step of that process.
LEMMA UnitStopIsAStep == UnitStop => [Next]_vars
  BY DEF UnitStop, Next, Process

\* Whatever is done around the lock, what is done to it is a step of PidFile.
LEMMA StepsOfTheLock == LifeNext => [Next]_vars
<1> SUFFICES ASSUME LifeNext PROVE [Next]_vars
  OBVIOUS
<1>1. ASSUME NEW p \in PID, StartByHand(p) \/ UnitStart(p) \/ RunStart(p) \/ Accident(p)
      PROVE  [Next]_vars
  <2>1. Process(p) \/ UNCHANGED vars
    BY <1>1 DEF StartByHand, UnitStart, RunStart, Accident, Lock, ScheduleDatabase, Fails,
       StartsServing, Returns, SetUpFails, Signalled, Crash, Taken, Freed, Process
  <2> QED
    BY <2>1 DEF Next
<1>2. ASSUME NEW s \in Stopper, CommandStep(s)
      PROVE  [Next]_vars
  <2>1. Command(s) \/ (\E p \in PID : Start(p)) \/ UNCHANGED vars
    BY <1>2 DEF CommandStep, Stop, Restart, InitLaunches, RestartReads, StopSignals,
       StopGoesOn, StopFails, Launch, LaunchReports, Command
  <2> QED
    BY <2>1 DEF Next, Process
<1> QED
  BY <1>1, <1>2, UnitStopIsAStep DEF LifeNext

\* ... and the daemons start as it does: what is proved of PidFile holds in DaemonLife.
LEMMA LifeIsPidFile == LifeSpec => Spec
<1>1. LifeInit => Init
  BY DEF LifeInit
<1>2. [LifeNext]_lifeVars => [Next]_vars
  BY StepsOfTheLock DEF lifeVars, vars
<1> QED
  BY <1>1, <1>2, PTL DEF LifeSpec, Spec

\* While commands take turns, one daemon holds the lock however it was started.
THEOREM OneDaemonInLife == LifeSpec => []OneDaemonUnlessRaced
  BY LifeIsPidFile, OneDaemonTheorem, PTL

\* What the invariants of PidFile give each step of DaemonLife.
LEMMA LockInvariants == LifeSpec => [](TypeOK /\ UnracedInv)
  BY LifeIsPidFile, TypeInvariant, UnracedInvariant, PTL

-----------------------------------------------------------------------------
\* The types of the variables that PidFile does not have.
OwnTypeOK ==
  /\ dbs \in Lists
  /\ passed \in [PID -> 0 .. Len(dbs)]
  /\ cron \in [PID -> [ID -> Nat]]
  /\ exit \in [PID -> {"none", "error", "schedule"}]
  /\ unit \in Unit
  /\ job \in [Stopper -> Job]
  /\ faults \in 0 .. MaxFaults

\* A new number of cron entries is a number.
LEMMA RescheduledOK == \A n \in Nat : Rescheduled(n) \in Nat
  BY DEF Rescheduled

\* The list has a length.
LEMMA ListOK == dbs \in Lists => Len(dbs) \in Nat
  BY LifeConstantsOK

\* The bound on accidents is kept.
LEMMA FaultOK == faults \in 0 .. MaxFaults /\ Fault => faults' \in 0 .. MaxFaults
  BY LifeConstantsOK DEF Fault

\* What the steps make of the place in the list has its type.
LEMMA PassedOK ==
  ASSUME dbs \in Lists, passed \in [PID -> 0 .. Len(dbs)], NEW p \in PID
  PROVE  /\ [passed EXCEPT ![p] = 0] \in [PID -> 0 .. Len(dbs)]
         /\ passed[p] < Len(dbs) =>
              [passed EXCEPT ![p] = @ + 1] \in [PID -> 0 .. Len(dbs)]
  BY ListOK

\* ... of the cron entries ...
LEMMA CronOK ==
  ASSUME cron \in [PID -> [ID -> Nat]], NEW p \in PID
  PROVE  /\ [cron EXCEPT ![p] = NoEntry] \in [PID -> [ID -> Nat]]
         /\ \A d \in ID :
              [cron EXCEPT ![p][d] = Rescheduled(@)] \in [PID -> [ID -> Nat]]
  BY RescheduledOK DEF NoEntry

\* ... of the service ...
LEMMA UnitOK ==
  ASSUME unit \in Unit
  PROVE  /\ UnitOff \in Unit
         /\ \A p \in PID : [state |-> "up", main |-> p, wanted |-> TRUE] \in Unit
         /\ \A p \in PID : AskedToEnd(p) \in Unit
         /\ \A u \in Unit, ok \in BOOLEAN : AfterExit(u, ok) \in Unit
  BY DEF Unit, UnitOff, AskedToEnd, AfterExit

\* ... of the jobs ...
LEMMA JobOK ==
  ASSUME job \in [Stopper -> Job], NEW s \in Stopper
  PROVE  /\ \A pc \in {"no", "read", "stop", "launch", "poll"} :
              /\ [job EXCEPT ![s].pc = pc] \in [Stopper -> Job]
              /\ \A old \in SUBSET PID :
                   [job EXCEPT ![s] = [NoJob EXCEPT !.pc = pc, !.old = old]]
                     \in [Stopper -> Job]
         /\ [job EXCEPT ![s] = [@ EXCEPT !.pc = "no", !.child = NoPID, !.said = TRUE]]
              \in [Stopper -> Job]
         /\ \A p \in PID :
              [job EXCEPT ![s] = [@ EXCEPT !.pc = "poll", !.child = p]] \in [Stopper -> Job]
  BY DEF Job, NoJob

\* ... and of what they know to be old.
LEMMA NotOldOK ==
  ASSUME NEW jobs \in [Stopper -> Job], NEW p \in PID
  PROVE  NotOld(jobs, p) \in [Stopper -> Job]
  BY DEF NotOld, Job

\* A process that begins is fresh, and no job counts it as old.
LEMMA FreshOK ==
  ASSUME OwnTypeOK, NEW p \in PID, Fresh(p), dbs' = dbs
  PROVE  /\ passed' \in [PID -> 0 .. Len(dbs')]
         /\ cron' \in [PID -> [ID -> Nat]]
         /\ exit' \in [PID -> {"none", "error", "schedule"}]
  BY PassedOK, CronOK DEF OwnTypeOK, Fresh

\* The steps of processes keep the types.
LEMMA ProcessTypes ==
  ASSUME OwnTypeOK, NEW p \in PID,
         StartByHand(p) \/ UnitStart(p) \/ RunStart(p) \/ Accident(p)
  PROVE  OwnTypeOK'
<1>1. CASE StartByHand(p)
  BY <1>1, FreshOK, FaultOK, NotOldOK DEF OwnTypeOK, StartByHand
<1>2. CASE UnitStart(p)
  BY <1>2, FreshOK, FaultOK, NotOldOK, UnitOK DEF OwnTypeOK, UnitStart
<1>3. CASE Lock(p)
  BY <1>3, UnitOK DEF OwnTypeOK, Lock, Exits
<1>4. CASE ScheduleDatabase(p)
  <2>1. /\ passed' \in [PID -> 0 .. Len(dbs)]
        /\ faults' = faults /\ dbs' = dbs /\ unit' = unit /\ job' = job
    BY <1>4, PassedOK DEF OwnTypeOK, ScheduleDatabase, Fails
  <2>2. cron' \in [PID -> [ID -> Nat]]
    <3>1. dbs \in Seq(Entry) /\ passed[p] + 1 \in 1 .. Len(dbs)
      BY <1>4, ListOK, LifeConstantsOK DEF OwnTypeOK, ScheduleDatabase
    <3>2. dbs[passed[p] + 1].id \in ID
      <4>1. dbs[passed[p] + 1] \in Entry
        BY <3>1
      <4> QED
        BY <4>1 DEF Entry
    <3>3. \/ cron' = cron
          \/ cron' = [cron EXCEPT ![p][dbs[passed[p] + 1].id] = Rescheduled(@)]
      BY <1>4 DEF ScheduleDatabase, Fails
    <3>4. ASSUME NEW d \in ID, cron' = [cron EXCEPT ![p][d] = Rescheduled(@)]
          PROVE  cron' \in [PID -> [ID -> Nat]]
      BY <3>4, CronOK DEF OwnTypeOK
    <3> QED
      BY <3>2, <3>3, <3>4 DEF OwnTypeOK
  <2>3. exit' \in [PID -> {"none", "error", "schedule"}]
    BY <1>4 DEF OwnTypeOK, ScheduleDatabase, Fails
  <2> QED
    BY <2>1, <2>2, <2>3 DEF OwnTypeOK
<1>5. CASE StartsServing(p)
  BY <1>5 DEF OwnTypeOK, StartsServing, life
<1>6. CASE Returns(p)
  BY <1>6, UnitOK DEF OwnTypeOK, Returns, Exits
<1>7. CASE SetUpFails(p)
  BY <1>7, FaultOK DEF OwnTypeOK, SetUpFails, Fails
<1>8. CASE Signalled(p)
  BY <1>8, FaultOK, UnitOK DEF OwnTypeOK, Signalled
<1>9. CASE Crash(p)
  BY <1>9, FaultOK, UnitOK DEF OwnTypeOK, Crash, Exits
<1>10. CASE Taken(p)
  BY <1>10, FaultOK DEF OwnTypeOK, Taken
<1>11. CASE Freed(p)
  BY <1>11 DEF OwnTypeOK, Freed, life
<1> QED
  BY <1>1, <1>2, <1>3, <1>4, <1>5, <1>6, <1>7, <1>8, <1>9, <1>10, <1>11
     DEF RunStart, Accident

\* A job that goes on is a job.
LEMMA BecomesOK ==
  ASSUME OwnTypeOK, NEW s \in Stopper, NEW pc \in {"no", "stop", "launch"}, Becomes(s, pc)
  PROVE  job' \in [Stopper -> Job]
  BY JobOK DEF OwnTypeOK, Becomes

\* The steps of commands keep the types.
LEMMA CommandTypes ==
  ASSUME OwnTypeOK, NEW s \in Stopper, CommandStep(s)
  PROVE  OwnTypeOK'
<1>1. CASE Stop(s) \/ Restart(s) \/ InitLaunches(s)
  <2>1. faults' \in 0 .. MaxFaults
    BY <1>1, FaultOK DEF OwnTypeOK, Stop, Restart, InitLaunches, Asks
  <2>2. job' \in [Stopper -> Job]
    <3>1. ASSUME NEW pc \in {"no", "read", "launch"}, NEW old \in SUBSET PID, Asks(s, pc, old)
          PROVE  job' \in [Stopper -> Job]
      BY <3>1, JobOK DEF OwnTypeOK, Asks
    <3>2. {} \in SUBSET PID /\ {p \in PID : Holds(p)} \in SUBSET PID
      OBVIOUS
    <3> QED
      BY <1>1, <3>1, <3>2 DEF Stop, Restart, InitLaunches
  <2> QED
    BY <1>1, <2>1, <2>2 DEF OwnTypeOK, Stop, Restart, InitLaunches
<1>2. CASE RestartReads(s)
  <2>1. job' \in [Stopper -> Job]
    BY <1>2, BecomesOK DEF RestartReads
  <2> QED
    BY <1>2, <2>1 DEF OwnTypeOK, RestartReads
<1>3. CASE StopSignals(s)
  <2>1. AskedToEnd(target[s]) \in Unit
    BY <1>3 DEF OwnTypeOK, AskedToEnd, Unit
  <2> QED
    BY <1>3, <2>1, UnitOK DEF OwnTypeOK, StopSignals
<1>4. CASE StopGoesOn(s)
  <2>1. job' \in [Stopper -> Job]
    BY <1>4, BecomesOK DEF OwnTypeOK, StopGoesOn
  <2> QED
    BY <1>4, <2>1 DEF OwnTypeOK, StopGoesOn
<1>5. CASE StopFails(s)
  BY <1>5, BecomesOK DEF OwnTypeOK, StopFails
<1>6. ASSUME NEW p \in PID, Launch(s, p) PROVE OwnTypeOK'
  <2>1. job' \in [Stopper -> Job]
    BY <1>6, JobOK, NotOldOK DEF OwnTypeOK, Launch
  <2> QED
    BY <1>6, <2>1, FreshOK DEF OwnTypeOK, Launch
<1>7. CASE LaunchReports(s)
  BY <1>7, JobOK DEF OwnTypeOK, LaunchReports
<1> QED
  BY <1>1, <1>2, <1>3, <1>4, <1>5, <1>6, <1>7 DEF CommandStep

\* Every variable keeps its type.
THEOREM LifeTypes == LifeSpec => []LifeTypeOK
<1>1. LifeInit => OwnTypeOK
  BY ListOK, LifeConstantsOK
     DEF LifeInit, OwnTypeOK, NoEntry, UnitOff, NoJob, Unit, Job
<1>2. OwnTypeOK /\ [LifeNext]_lifeVars => OwnTypeOK'
  <2> SUFFICES ASSUME OwnTypeOK, [LifeNext]_lifeVars PROVE OwnTypeOK'
    OBVIOUS
  <2>1. CASE UnitStop
    BY <2>1, FaultOK, UnitOK DEF OwnTypeOK, UnitStop
  <2>2. CASE UNCHANGED lifeVars
    BY <2>2 DEF OwnTypeOK, lifeVars
  <2> QED
    BY <2>1, <2>2, ProcessTypes, CommandTypes DEF LifeNext
<1>3. TypeOK /\ OwnTypeOK => LifeTypeOK
  BY DEF OwnTypeOK, LifeTypeOK
<1> QED
  BY <1>1, <1>2, <1>3, LockInvariants, PTL DEF LifeSpec

-----------------------------------------------------------------------------
\* A process that ends has no part in the lock.
LEMMA EndsLeaves ==
  ASSUME TypeOK, NEW q, Ends(q), NEW p \in PID
  PROVE  proc'[p] = proc[p] \/ proc'[p] \in {"none", "zombie"}
<1>1. PICK state \in {"none", "zombie"} : proc' = [proc EXCEPT ![q] = state]
  BY DEF Ends, Goto
<1> QED
  BY <1>1 DEF TypeOK

\* Steps of the lock that begin no process.
OtherStep ==
  \/ \E q \in PID : Process(q) /\ ~Start(q)
  \/ \E s \in Stopper : Command(s)
  \/ UNCHANGED vars

\* A process that does not begin does not come to acquire the lock, and one that is not
\* acquiring it does not come to hold it.
LEMMA OnlyStartsAcquire ==
  ASSUME TypeOK, OtherStep, NEW p \in PID, p \notin Acquiring
  PROVE  p \notin Acquiring' /\ (Holds(p)' => Holds(p))
<1> DEFINE Early == {"create", "read", "check", "clear", "again", "write"}
<1> SUFFICES proc'[p] \notin Early /\ (Holds(p)' => Holds(p))
  BY DEF Acquiring
<1>0. proc[p] \notin Early
  BY DEF Acquiring
<1>1. ASSUME NEW q \in PID, Process(q), ~Start(q)
      PROVE  proc'[p] \notin Early /\ (Holds(p)' => Holds(p))
  BY <1>0, <1>1, EndsLeaves
     DEF TypeOK, Process, Create, TryAcquire, Read, Check, Clear, Again, Write, WriteFails,
         Serve, Leave, Release, Die, Reap, Reuse, Goto, Holds
<1>3. ASSUME NEW s \in Stopper, StopSignal(s)
      PROVE  proc'[p] \notin Early /\ (Holds(p)' => Holds(p))
  <2> DEFINE q == target[s]
  <2>1. \/ UNCHANGED proc
        \/ proc[q] \in {"serve", "leave"} /\ Goto(q, "leave")
        \/ Ends(q)
    BY <1>3 DEF StopSignal
  <2> HIDE DEF q
  <2>2. CASE UNCHANGED proc \/ Goto(q, "leave")
    BY <1>0, <2>2 DEF TypeOK, Goto, Holds
  <2>3. CASE Ends(q)
    BY <1>0, <2>3, EndsLeaves DEF Holds
  <2> QED
    BY <2>1, <2>2, <2>3
<1>4. ASSUME NEW s \in Stopper, Command(s), ~StopSignal(s)
      PROVE  proc'[p] \notin Early /\ (Holds(p)' => Holds(p))
  BY <1>0, <1>4 DEF Command, StopRead, StopCheck, StopWait, StopTimesOut, StopGivesUp,
     StopClear, Holds
<1>5. CASE UNCHANGED vars
  BY <1>0, <1>5 DEF vars, Holds
<1> QED
  BY <1>1, <1>3, <1>4, <1>5 DEF OtherStep

\* Races are not forgotten.
LEMMA RacesStay == [Next]_vars => (raced => raced')
  BY DEF Next, Process, Command, vars, Start, Create, Read, Check, Clear, Again, Write,
     WriteFails, Serve, Leave, Release, Die, Reap, Reuse, StopRead, StopCheck, StopSignal,
     StopWait, StopTimesOut, StopGivesUp, StopClear

\* The jobs and what they know, when no process begins.
LEMMA JobGoesOn ==
  ASSUME TypeOK, OwnTypeOK, RestartInv, OtherStep, NEW s \in Stopper,
         job'[s].old = job[s].old,
         ~raced /\ (job'[s].pc \in {"launch", "poll"} \/ job'[s].said) =>
           \A p \in job[s].old : ~Holds(p)
  PROVE  JobKnows(s)'
<1> SUFFICES ASSUME NEW p \in job'[s].old
             PROVE  /\ p \notin Acquiring'
                    /\ ~raced' /\ (job'[s].pc \in {"launch", "poll"} \/ job'[s].said)
                         => ~Holds(p)'
  BY DEF JobKnows
<1>1. p \in PID
  BY DEF OwnTypeOK, Job
<1>2. p \notin Acquiring
  BY DEF RestartInv, JobKnows
<1> QED
  BY <1>1, <1>2, OnlyStartsAcquire, RacesStay DEF OtherStep, Next

\* The same, when one does: no job counts it as old.
LEMMA JobAtStart ==
  ASSUME TypeOK, OwnTypeOK, RestartInv, NEW q \in PID, Start(q), NEW s \in Stopper,
         job'[s].old = job[s].old \ {q},
         job'[s].pc = job[s].pc \/ (job[s].pc = "launch" /\ job'[s].pc = "poll"),
         job'[s].said = job[s].said
  PROVE  JobKnows(s)'
<1> SUFFICES ASSUME NEW p \in job'[s].old
             PROVE  /\ p \notin Acquiring'
                    /\ ~raced' /\ (job'[s].pc \in {"launch", "poll"} \/ job'[s].said)
                         => ~Holds(p)'
  BY DEF JobKnows
<1>1. p \in PID /\ p # q
  BY DEF OwnTypeOK, Job
<1>2. proc'[p] = proc[p] /\ (raced => raced')
  BY <1>1 DEF Start, Goto, TypeOK
<1>3. p \notin Acquiring'
  BY <1>1, <1>2 DEF RestartInv, JobKnows, Acquiring
<1>4. Holds(p)' = Holds(p)
  BY <1>2 DEF Holds
<1> QED
  BY <1>2, <1>3, <1>4 DEF RestartInv, JobKnows

\* Steps around a process that has begun leave the jobs alone.
LEMMA QuietSteps ==
  ASSUME TypeOK, NEW p \in PID, RunStart(p) \/ Accident(p)
  PROVE  OtherStep /\ job' = job
<1>1. CASE RunStart(p)
  BY <1>1 DEF RunStart, Lock, ScheduleDatabase, StartsServing, Returns, Fails, OtherStep,
     life, Process, Start, Create, Read, Check, Clear, Again, Write, Serve, Leave, Holds, Release
<1>2. CASE Accident(p)
  BY <1>2 DEF Accident, SetUpFails, Signalled, Crash, Taken, Freed, Fails, OtherStep, life,
     TypeOK, Process, Start, WriteFails, Leave, Holds, Die, Reap, Reuse, Goto
<1> QED
  BY <1>1, <1>2

\* ... and so does stopping the service.
LEMMA UnitStopIsQuiet == UnitStop => OtherStep /\ job' = job
  BY DEF UnitStop, OtherStep, Process, Start, Leave, Holds, Die

\* Every step of a command leaves its own job knowing, and those of the others.
LEMMA CommandKnows ==
  ASSUME TypeOK, UnracedInv, OwnTypeOK, RestartInv, NEW s \in Stopper,
         NEW c \in Stopper, CommandStep(c)
  PROVE  JobKnows(s)'
<1>1. ASSUME OtherStep, job'[s] = job[s]
      PROVE  JobKnows(s)'
  BY <1>1, JobGoesOn DEF RestartInv, JobKnows
<1>2. ASSUME NEW pc \in {"no", "stop"}, OtherStep, job'[s] = [job[s] EXCEPT !.pc = pc]
      PROVE  JobKnows(s)'
  <2>1. job'[s].old = job[s].old /\ job'[s].pc = pc /\ job'[s].said = job[s].said
    BY <1>2 DEF OwnTypeOK, Job
  <2> QED
    BY <1>2, <2>1, JobGoesOn DEF RestartInv, JobKnows
<1>3. ASSUME ~raced => (\A q \in PID : ~Locked(q)), OtherStep,
             job'[s] = [job[s] EXCEPT !.pc = "launch"]
      PROVE  JobKnows(s)'
  <2>1. job'[s].old = job[s].old /\ job[s].old \subseteq PID
    BY <1>3 DEF OwnTypeOK, Job
  <2> QED
    BY <1>3, <2>1, JobGoesOn DEF Locked, Holds
<1>4. CASE Stop(c) \/ Restart(c) \/ InitLaunches(c)
  <2>1. OtherStep
    BY <1>4 DEF Stop, Restart, InitLaunches, OtherStep, Command
  <2>2. CASE s # c
    BY <1>1, <1>4, <2>1, <2>2 DEF Stop, Restart, InitLaunches, Asks, OwnTypeOK
  <2>3. ASSUME s = c, Stop(c) \/ InitLaunches(c) PROVE JobKnows(s)'
    <3>1. job'[s].old = {}
      BY <2>3 DEF Stop, InitLaunches, Asks, NoJob, OwnTypeOK
    <3> QED
      BY <3>1 DEF JobKnows
  <2>4. ASSUME s = c, Restart(c) PROVE JobKnows(s)'
    <3>1. /\ job'[s].old = {p \in PID : Holds(p)}
          /\ job'[s].pc = "read" /\ job'[s].said = FALSE
      BY <2>4 DEF Restart, Asks, NoJob, OwnTypeOK
    <3>2. UNCHANGED vars
      BY <2>4 DEF Restart
    <3> QED
      BY <3>1, <3>2 DEF JobKnows, Holds, Acquiring, vars
  <2> QED
    BY <1>4, <2>2, <2>3, <2>4
<1>5. CASE RestartReads(c)
  <2>1. OtherStep
    BY <1>5 DEF RestartReads, OtherStep, Command
  <2>2. CASE s # c
    BY <1>1, <1>5, <2>1, <2>2 DEF RestartReads, Becomes, OwnTypeOK
  <2>3. CASE s = c /\ Becomes(c, "stop")
    BY <1>2, <2>1, <2>3 DEF Becomes, OwnTypeOK
  <2>4. CASE s = c /\ ~(file # NoFile /\ file.full) /\ Becomes(c, "launch")
    <3>1. ~raced => \A q \in PID : ~Locked(q)
      <4> SUFFICES ASSUME ~raced, NEW q \in PID, Locked(q) PROVE FALSE
        OBVIOUS
      <4>1. file = [pid |-> q, full |-> TRUE]
        BY DEF UnracedInv
      <4>2. [pid |-> q, full |-> TRUE] # NoFile
        BY RecordIsFile
      <4> QED
        BY <2>4, <4>1, <4>2
    <3> QED
      BY <1>3, <2>1, <2>4, <3>1 DEF Becomes, OwnTypeOK
  <2> QED
    BY <1>5, <2>2, <2>3, <2>4 DEF RestartReads
<1>6. CASE StopSignals(c)
  BY <1>1, <1>6 DEF StopSignals, OtherStep, Command
<1>7. CASE StopGoesOn(c)
  <2>1. OtherStep
    BY <1>7 DEF StopGoesOn, OtherStep, Command
  <2>2. CASE s # c
    BY <1>1, <1>7, <2>1, <2>2 DEF StopGoesOn, Becomes, OwnTypeOK
  <2>6. CASE job' = job
    BY <1>1, <2>1, <2>6
  <2>4. CASE s = c /\ Becomes(c, "launch") /\ (StopClear(c) \/ (cmd[c] = "check" /\ StopGivesUp(c)))
    <3>1. ~raced => \A q \in PID : ~Locked(q)
      BY <2>4 DEF UnracedInv, StopperKnows, StopClear, StopGivesUp, Alive, Locked
    <3> QED
      BY <1>3, <2>1, <2>4, <3>1 DEF Becomes, OwnTypeOK
  <2>5. \/ job' = job
        \/ Becomes(c, "launch") /\ (StopClear(c) \/ (cmd[c] = "check" /\ StopGivesUp(c)))
    BY <1>7 DEF StopGoesOn
  <2> QED
    BY <2>2, <2>4, <2>5, <2>6
<1>8. CASE StopFails(c)
  <2>1. OtherStep
    BY <1>8 DEF StopFails, OtherStep, Command
  <2>2. CASE s # c
    BY <1>1, <1>8, <2>1, <2>2 DEF StopFails, Becomes, OwnTypeOK
  <2>3. CASE s = c
    BY <1>2, <1>8, <2>1, <2>3 DEF StopFails, Becomes, OwnTypeOK
  <2> QED
    BY <2>2, <2>3
<1>9. ASSUME NEW q \in PID, Launch(c, q) PROVE JobKnows(s)'
  <2>1. /\ Start(q) /\ job[c].pc = "launch"
        /\ job' = NotOld([job EXCEPT ![c] = [@ EXCEPT !.pc = "poll", !.child = q]], q)
    BY <1>9 DEF Launch
  <2>2. CASE s # c
    <3>1. job[s] \in Job /\ job'[s] = [job[s] EXCEPT !.old = @ \ {q}]
      BY <2>1, <2>2 DEF NotOld, OwnTypeOK
    <3>2. /\ job'[s].old = job[s].old \ {q}
          /\ job'[s].pc = job[s].pc /\ job'[s].said = job[s].said
      BY <3>1 DEF Job
    <3> QED
      BY <2>1, <3>2, JobAtStart
  <2>3. CASE s = c
    <3>1. job[s] \in Job /\ job'[s] = [[job[s] EXCEPT !.pc = "poll", !.child = q]
                                       EXCEPT !.old = @ \ {q}]
      BY <2>1, <2>3 DEF NotOld, OwnTypeOK
    <3>2. /\ job'[s].old = job[s].old \ {q}
          /\ job'[s].pc = job[s].pc \/ (job[s].pc = "launch" /\ job'[s].pc = "poll")
          /\ job'[s].said = job[s].said
      BY <2>1, <2>3, <3>1 DEF Job
    <3> QED
      BY <2>1, <3>2, JobAtStart
  <2> QED
    BY <2>2, <2>3
<1>10. CASE LaunchReports(c)
  <2>1. OtherStep
    BY <1>10 DEF LaunchReports, OtherStep
  <2>2. CASE s # c
    BY <1>1, <1>10, <2>1, <2>2 DEF LaunchReports, OwnTypeOK
  <2>3. CASE s = c
    <3>1. job'[s].old = job[s].old /\ job[s].pc = "poll"
      BY <1>10, <2>3 DEF LaunchReports, OwnTypeOK, Job
    <3> QED
      BY <2>1, <3>1, JobGoesOn DEF RestartInv, JobKnows
  <2> QED
    BY <2>2, <2>3
<1> QED
  BY <1>4, <1>5, <1>6, <1>7, <1>8, <1>9, <1>10 DEF CommandStep

\* What a restart found serving is gone when it launches the new daemon.
THEOREM RestartInvariant == LifeSpec => []RestartInv
<1>1. LifeInit => RestartInv
  BY DEF LifeInit, RestartInv, JobKnows, NoJob
<1>2. TypeOK /\ UnracedInv /\ OwnTypeOK /\ RestartInv /\ [LifeNext]_lifeVars => RestartInv'
  <2> SUFFICES ASSUME TypeOK, UnracedInv, OwnTypeOK, RestartInv, [LifeNext]_lifeVars,
                      NEW s \in Stopper
               PROVE  JobKnows(s)'
    BY DEF RestartInv
  <2>1. ASSUME job' = job, OtherStep PROVE JobKnows(s)'
    BY <2>1, JobGoesOn DEF RestartInv, JobKnows
  <2>2. ASSUME NEW q \in PID, StartByHand(q) \/ UnitStart(q)
        PROVE  JobKnows(s)'
    <3>1. Start(q) /\ job[s] \in Job /\ job'[s] = [job[s] EXCEPT !.old = @ \ {q}]
      BY <2>2 DEF StartByHand, UnitStart, NotOld, OwnTypeOK
    <3>2. /\ job'[s].old = job[s].old \ {q}
          /\ job'[s].pc = job[s].pc /\ job'[s].said = job[s].said
      BY <3>1 DEF Job
    <3> QED
      BY <3>1, <3>2, JobAtStart
  <2>3. ASSUME NEW q \in PID, RunStart(q) \/ Accident(q)
        PROVE  JobKnows(s)'
    BY <2>1, <2>3, QuietSteps
  <2>4. CASE UnitStop
    BY <2>1, <2>4, UnitStopIsQuiet
  <2>5. CASE UNCHANGED lifeVars
    BY <2>1, <2>5 DEF lifeVars, vars, OtherStep
  <2> QED
    BY <2>2, <2>3, <2>4, <2>5, CommandKnows DEF LifeNext
<1>3. LifeTypeOK => OwnTypeOK
  BY DEF LifeTypeOK, OwnTypeOK
<1> QED
  BY <1>1, <1>2, <1>3, LockInvariants, LifeTypes, PTL DEF LifeSpec

\* A restart that has reported the new daemon has ended the one that served before it.
THEOREM RestartReplacesTheorem == LifeSpec => []RestartReplaces
<1>1. RestartInv => RestartReplaces
  BY DEF RestartInv, JobKnows, RestartReplaces
<1> QED
  BY <1>1, RestartInvariant, PTL

-----------------------------------------------------------------------------
(* The schedule.                                                           *)

\* GetDatabaseByID finds, for the ID of an entry, the first entry with that ID.
LEMMA FindsFirst ==
  ASSUME OwnTypeOK, NEW i \in DOMAIN dbs
  PROVE  \E j \in 1 .. i :
           /\ GetDatabaseByID(dbs[i].id) = dbs[j] /\ dbs[j].id = dbs[i].id
           /\ \A k \in 1 .. j - 1 : dbs[k].id # dbs[i].id
<1> DEFINE d == dbs[i].id
           S == {j \in DOMAIN dbs : dbs[j].id = d}
           c == CHOOSE j \in DOMAIN dbs : dbs[j].id = d /\ \A k \in 1 .. j - 1 : dbs[k].id # d
<1>1. DOMAIN dbs = 1 .. Len(dbs) /\ Len(dbs) \in Nat
  BY LifeConstantsOK DEF OwnTypeOK
<1>2. \E j \in DOMAIN dbs : dbs[j].id = d /\ \A k \in 1 .. j - 1 : dbs[k].id # d
  <2>1. S \in SUBSET Nat /\ S # {}
    BY <1>1
  <2> HIDE DEF S
  <2>2. PICK j \in S : \A k \in S : j <= k
    BY <2>1, Smallest
  <2>3. ASSUME NEW k \in 1 .. j - 1 PROVE dbs[k].id # d
    <3>1. k \in DOMAIN dbs /\ ~(j <= k)
      BY <1>1, <2>1, <2>2 DEF S
    <3> QED
      BY <2>2, <3>1 DEF S
  <2> QED
    BY <2>2, <2>3 DEF S
<1>3. c \in DOMAIN dbs /\ dbs[c].id = d /\ \A k \in 1 .. c - 1 : dbs[k].id # d
  BY <1>2
<1>4. GetDatabaseByID(d) = dbs[c]
  BY DEF GetDatabaseByID
<1> HIDE DEF c
<1>5. c \in 1 .. i
  <2>1. ~(i \in 1 .. c - 1)
    BY <1>3
  <2> QED
    BY <1>1, <1>3, <2>1
<1> QED
  BY <1>3, <1>4, <1>5

\* The first n entries of the list have been gone through, and no schedule was refused.
Counts(p, n) ==
  /\ \A d \in ID : cron[p][d] =
       IF \E i \in 1 .. n : dbs[i].id = d /\ dbs[i].enabled /\ dbs[i].fields # 0 THEN 1 ELSE 0
  /\ \A i \in 1 .. n :
       dbs[i].enabled /\ dbs[i].fields # 0 => Parses(GetDatabaseByID(dbs[i].id))

\* A process that has begun has a cron entry for what it has gone through, and has gone
\* through all of the list when it serves.
CronKnows(p) ==
  /\ p \in Acquiring \/ Holds(p) => Counts(p, passed[p])
  /\ proc[p] = "serve" => passed[p] = Len(dbs)

CronInv == \A p \in PID : CronKnows(p)

\* The commands that begin no process leave the schedule alone.
LEMMA CommandsAreQuiet ==
  ASSUME NEW s \in Stopper, CommandStep(s)
  PROVE  \/ \E q \in PID : Launch(s, q)
         \/ OtherStep /\ UNCHANGED <<dbs, passed, cron>>
  BY DEF CommandStep, Stop, Restart, InitLaunches, RestartReads, StopSignals, StopGoesOn,
     StopFails, LaunchReports, OtherStep, Command

\* The kinds of steps: one that begins a process, one of the scheduler, and the others.
LEMMA StepKinds ==
  ASSUME TypeOK, [LifeNext]_lifeVars
  PROVE  /\ dbs' = dbs
         /\ \/ \E q \in PID : Start(q) /\ Fresh(q)
            \/ \E q \in PID : ScheduleDatabase(q)
            \/ OtherStep /\ UNCHANGED <<passed, cron>>
<1>1. ASSUME NEW q \in PID, StartByHand(q) \/ UnitStart(q)
      PROVE  dbs' = dbs /\ Start(q) /\ Fresh(q)
  BY <1>1 DEF StartByHand, UnitStart
<1>2. ASSUME NEW q \in PID, NEW s \in Stopper, Launch(s, q)
      PROVE  dbs' = dbs /\ Start(q) /\ Fresh(q)
  BY <1>2 DEF Launch
<1>3. ASSUME NEW q \in PID, ScheduleDatabase(q)
      PROVE  dbs' = dbs
  BY <1>3 DEF ScheduleDatabase, Fails
<1>4. ASSUME NEW q \in PID, RunStart(q) \/ Accident(q), ~ScheduleDatabase(q)
      PROVE  OtherStep /\ UNCHANGED <<dbs, passed, cron>>
  <2>1. UNCHANGED <<dbs, passed, cron>>
    BY <1>4 DEF RunStart, Accident, Lock, StartsServing, Returns, SetUpFails, Fails, Signalled,
       Crash, Taken, Freed, life
  <2> QED
    BY <1>4, <2>1, QuietSteps
<1>5. CASE UnitStop
  <2>1. UNCHANGED <<dbs, passed, cron>>
    BY <1>5 DEF UnitStop
  <2> QED
    BY <1>5, <2>1, UnitStopIsQuiet
<1>6. CASE UNCHANGED lifeVars
  BY <1>6 DEF lifeVars, vars, OtherStep
<1> QED
  BY <1>1, <1>2, <1>3, <1>4, <1>5, <1>6, CommandsAreQuiet DEF LifeNext

\* A process comes to serve when it has gone through the list, and not before.
LEMMA ServesAtTheEnd ==
  ASSUME TypeOK, LifeNext, NEW p \in PID, proc[p] # "serve", proc'[p] = "serve"
  PROVE  passed[p] = Len(dbs) /\ UNCHANGED <<dbs, passed, cron>>
<1>1. ASSUME NEW q \in PID, StartByHand(q) \/ UnitStart(q) PROVE FALSE
  BY <1>1 DEF StartByHand, UnitStart, Start, Goto, TypeOK
<1>2. ASSUME NEW q \in PID, RunStart(q), ~StartsServing(q) PROVE FALSE
  BY <1>2 DEF RunStart, Lock, ScheduleDatabase, Fails, Returns, Create, TryAcquire, Read, Check,
     Clear, Again, Write, Leave, Release, Ends, Goto, TypeOK, vars
<1>3. ASSUME NEW q \in PID, Accident(q) PROVE FALSE
  BY <1>3 DEF Accident, SetUpFails, Fails, Signalled, Crash, Taken, Freed, Leave, Die, WriteFails,
     Reuse, Reap, Ends, Goto, TypeOK
<1>4. ASSUME NEW s \in Stopper, StopSignal(s) PROVE FALSE
  <2> DEFINE q == target[s]
  <2>1. \/ UNCHANGED proc
        \/ Goto(q, "leave")
        \/ Ends(q)
    BY <1>4 DEF StopSignal
  <2> HIDE DEF q
  <2> QED
    BY <2>1 DEF Goto, Ends, TypeOK
<1>5. ASSUME NEW s \in Stopper, CommandStep(s) PROVE FALSE
  <2>1. \/ \E q \in PID : Start(q)
        \/ StopSignal(s)
        \/ UNCHANGED proc
    BY <1>5 DEF CommandStep, Stop, Restart, InitLaunches, RestartReads, StopSignals, StopGoesOn,
       StopFails, Launch, LaunchReports, StopRead, StopCheck, StopWait, StopTimesOut,
       StopGivesUp, StopClear, vars
  <2> QED
    BY <1>4, <2>1 DEF Start, Goto, TypeOK
<1>6. CASE UnitStop
  BY <1>6 DEF UnitStop, Leave, Die, Ends, Goto, TypeOK, vars
<1>7. ASSUME NEW q \in PID, StartsServing(q)
      PROVE  passed[p] = Len(dbs) /\ UNCHANGED <<dbs, passed, cron>>
  <2>1. q = p
    BY <1>7 DEF StartsServing, Serve, Goto, TypeOK
  <2> QED
    BY <1>7, <2>1 DEF StartsServing, life
<1> QED
  BY <1>1, <1>2, <1>3, <1>5, <1>6, <1>7 DEF LifeNext

\* The scheduler goes on to the next entry: whether its ID had an entry or not, it has one
\* then.
LEMMA ScheduleKnows ==
  ASSUME TypeOK, OwnTypeOK, CronInv, NEW p \in PID, ScheduleDatabase(p)
  PROVE  Holds(p)' => Counts(p, passed[p])'
<1> DEFINE n == passed[p]
           e == dbs[n + 1]
           due == e.enabled /\ e.fields # 0
<1>1. n \in Nat /\ dbs[n + 1] \in Entry
  <2>1. dbs \in Seq(Entry) /\ n \in 0 .. Len(dbs) /\ n < Len(dbs)
    BY LifeConstantsOK DEF OwnTypeOK, ScheduleDatabase
  <2> QED
    BY <2>1
<1>2. e.id \in ID /\ due \in BOOLEAN
  BY <1>1 DEF Entry
<1>3. Counts(p, n)
  BY DEF CronInv, CronKnows, ScheduleDatabase, Holds
<1>4. passed'[p] = n + 1 /\ dbs' = dbs
  BY DEF OwnTypeOK, ScheduleDatabase, Fails
<1>5. ASSUME Holds(p)'
      PROVE  /\ cron' = IF due THEN [cron EXCEPT ![p][e.id] = Rescheduled(@)] ELSE cron
             /\ due => Parses(GetDatabaseByID(e.id))
  <2>1. ASSUME NEW why, Fails(p, why) PROVE FALSE
    BY <1>5, <2>1 DEF Fails, Leave, Goto, Holds, TypeOK
  <2> QED
    BY <2>1 DEF ScheduleDatabase
<1> HIDE DEF e, n, due
<1>6. 1 .. n + 1 = 1 .. n \cup {n + 1}
  BY <1>1
<1>7. ASSUME Holds(p)', NEW d \in ID
      PROVE  cron'[p][d] =
               IF \E i \in 1 .. n + 1 : dbs[i].id = d /\ dbs[i].enabled /\ dbs[i].fields # 0
               THEN 1 ELSE 0
  <2>1. cron[p][d] =
          IF \E i \in 1 .. n : dbs[i].id = d /\ dbs[i].enabled /\ dbs[i].fields # 0
          THEN 1 ELSE 0
    BY <1>3 DEF Counts
  <2>2. CASE due /\ d = e.id
    <3>1. cron'[p][d] = Rescheduled(cron[p][d])
      BY <1>5, <1>7, <2>2 DEF OwnTypeOK
    <3>2. cron'[p][d] = 1
      BY <2>1, <3>1 DEF Rescheduled
    <3>3. n + 1 \in 1 .. n + 1 /\ dbs[n + 1].id = d /\ dbs[n + 1].enabled /\ dbs[n + 1].fields # 0
      BY <1>1, <2>2 DEF e, due
    <3> QED
      BY <3>2, <3>3
  <2>3. CASE ~(due /\ d = e.id)
    <3>1. cron'[p][d] = cron[p][d]
      BY <1>2, <1>5, <1>7, <2>3 DEF OwnTypeOK
    <3>2. ~(dbs[n + 1].id = d /\ dbs[n + 1].enabled /\ dbs[n + 1].fields # 0)
      BY <2>3 DEF e, due
    <3> QED
      BY <1>6, <2>1, <3>1, <3>2
  <2> QED
    BY <2>2, <2>3
<1>8. ASSUME Holds(p)', NEW i \in 1 .. n + 1, dbs[i].enabled, dbs[i].fields # 0
      PROVE  Parses(GetDatabaseByID(dbs[i].id))
  <2>1. CASE i \in 1 .. n
    BY <1>3, <1>8, <2>1 DEF Counts
  <2>2. CASE i = n + 1
    BY <1>5, <1>8, <2>2 DEF e, due
  <2> QED
    BY <1>6, <2>1, <2>2
<1>9. ASSUME NEW d PROVE GetDatabaseByID(d)' = GetDatabaseByID(d)
  BY <1>4 DEF GetDatabaseByID
<1> QED
  BY <1>4, <1>7, <1>8, <1>9 DEF Counts, Parses, n

\* A process whose schedule is left alone knows of it what it knew.
LEMMA CronKept ==
  ASSUME NEW p \in PID, CronKnows(p), dbs' = dbs, passed'[p] = passed[p], cron'[p] = cron[p]
  PROVE  /\ p \in Acquiring \/ Holds(p) => Counts(p, passed[p])'
         /\ proc'[p] = proc[p] => CronKnows(p)'
<1>1. \A d : GetDatabaseByID(d)' = GetDatabaseByID(d)
  BY DEF GetDatabaseByID
<1>2. Counts(p, passed[p]) => Counts(p, passed[p])'
  BY <1>1 DEF Counts, Parses
<1>3. ASSUME proc'[p] = proc[p]
      PROVE  (p \in Acquiring <=> p \in Acquiring') /\ (Holds(p) <=> Holds(p)')
  BY <1>3 DEF Acquiring, Holds
<1> QED
  BY <1>2, <1>3 DEF CronKnows

\* What the scheduler has gone through is what its daemon runs.
THEOREM CronInvariant == LifeSpec => []CronInv
<1>1. LifeInit => CronInv
  BY DEF LifeInit, Init, CronInv, CronKnows, Acquiring, Holds
<1>2. TypeOK /\ OwnTypeOK /\ CronInv /\ [LifeNext]_lifeVars => CronInv'
  <2> SUFFICES ASSUME TypeOK, OwnTypeOK, CronInv, [LifeNext]_lifeVars, NEW p \in PID
               PROVE  CronKnows(p)'
    BY DEF CronInv
  <2>1. dbs' = dbs
    BY StepKinds
  <2>2. ASSUME NEW q \in PID, Start(q), Fresh(q) PROVE CronKnows(p)'
    <3>1. CASE q = p
      <4>1. proc'[p] = "create"
        BY <2>2, <3>1 DEF Start, Goto, TypeOK
      <4>2. passed'[p] = 0 /\ cron'[p] = NoEntry
        BY <2>2, <3>1 DEF Fresh, OwnTypeOK
      <4>3. Counts(p, 0)'
        BY <4>2 DEF Counts, NoEntry
      <4> QED
        BY <4>1, <4>2, <4>3 DEF CronKnows
    <3>2. CASE q # p
      <4>1. proc'[p] = proc[p] /\ passed'[p] = passed[p] /\ cron'[p] = cron[p]
        BY <2>2, <3>2 DEF Start, Goto, Fresh, TypeOK, OwnTypeOK
      <4> QED
        BY <2>1, <4>1, CronKept DEF CronInv
    <3> QED
      BY <3>1, <3>2
  <2>3. ASSUME NEW q \in PID, ScheduleDatabase(q) PROVE CronKnows(p)'
    <3>1. UNCHANGED proc \/ proc' = [proc EXCEPT ![q] = "leave"]
      BY <2>3 DEF ScheduleDatabase, Fails, Leave, Goto, vars
    <3>2. proc[q] = "boot"
      BY <2>3 DEF ScheduleDatabase
    <3>3. CASE q = p
      <4>1. proc'[p] \in {"boot", "leave"}
        BY <3>1, <3>2, <3>3 DEF TypeOK
      <4> QED
        BY <2>3, <3>3, <4>1, ScheduleKnows DEF CronKnows, Acquiring
    <3>4. CASE q # p
      <4>1. proc'[p] = proc[p]
        BY <3>1, <3>4 DEF TypeOK
      <4>2. passed'[p] = passed[p] /\ cron'[p] = cron[p]
        BY <2>3, <3>4 DEF ScheduleDatabase, Fails, OwnTypeOK
      <4> QED
        BY <2>1, <4>1, <4>2, CronKept DEF CronInv
    <3> QED
      BY <3>3, <3>4
  <2>4. ASSUME OtherStep, UNCHANGED <<passed, cron>> PROVE CronKnows(p)'
    <3>1. p \in Acquiring' \/ Holds(p)' => p \in Acquiring \/ Holds(p)
      BY <2>4, OnlyStartsAcquire
    <3>2. p \in Acquiring' \/ Holds(p)' => Counts(p, passed[p])'
      BY <2>1, <2>4, <3>1, CronKept DEF CronInv
    <3>3. proc'[p] = "serve" => passed[p] = Len(dbs)
      <4>1. CASE proc[p] = "serve"
        BY <4>1 DEF CronInv, CronKnows
      <4>2. CASE proc[p] # "serve" /\ LifeNext
        BY <4>2, ServesAtTheEnd
      <4>3. CASE proc[p] # "serve" /\ UNCHANGED lifeVars
        BY <4>3 DEF lifeVars
      <4> QED
        BY <4>1, <4>2, <4>3
    <3> QED
      BY <2>1, <2>4, <3>2, <3>3 DEF CronKnows
  <2> QED
    BY <2>2, <2>3, <2>4, StepKinds
<1>3. LifeTypeOK => OwnTypeOK
  BY DEF LifeTypeOK, OwnTypeOK
<1> QED
  BY <1>1, <1>2, <1>3, LockInvariants, LifeTypes, PTL DEF LifeSpec

\* A daemon that serves runs each enabled database that has a schedule once, however often
\* its ID is in the list and however the daemon was started.
THEOREM EnabledRunOnceTheorem == LifeSpec => []EnabledRunOnce
<1>1. OwnTypeOK /\ CronInv => EnabledRunOnce
  <2> SUFFICES ASSUME OwnTypeOK, CronInv, NEW p \in PID, proc[p] = "serve"
               PROVE  \A d \in ID : cron[p][d] =
                        IF \E i \in DOMAIN dbs :
                             dbs[i].id = d /\ dbs[i].enabled /\ dbs[i].fields # 0
                        THEN 1 ELSE 0
    BY DEF EnabledRunOnce
  <2>1. DOMAIN dbs = 1 .. Len(dbs)
    BY LifeConstantsOK DEF OwnTypeOK
  <2> QED
    BY <2>1 DEF CronInv, CronKnows, Counts, Holds
<1>2. LifeTypeOK => OwnTypeOK
  BY DEF LifeTypeOK, OwnTypeOK
<1> QED
  BY <1>1, <1>2, CronInvariant, LifeTypes, PTL

\* A daemon that serves has left no schedule out that was refused.
THEOREM WholeScheduleTheorem == LifeSpec => []ServesWholeSchedule
<1>1. OwnTypeOK /\ CronInv => ServesWholeSchedule
  <2> SUFFICES ASSUME OwnTypeOK, CronInv, NEW p \in PID, proc[p] = "serve"
               PROVE  \A i \in DOMAIN dbs :
                        dbs[i].enabled /\ dbs[i].fields # 0 => Parses(GetDatabaseByID(dbs[i].id))
    BY DEF ServesWholeSchedule
  <2>1. DOMAIN dbs = 1 .. Len(dbs)
    BY LifeConstantsOK DEF OwnTypeOK
  <2> QED
    BY <2>1 DEF CronInv, CronKnows, Counts, Holds
<1>2. LifeTypeOK => OwnTypeOK
  BY DEF LifeTypeOK, OwnTypeOK
<1> QED
  BY <1>1, <1>2, CronInvariant, LifeTypes, PTL

\* So no daemon serves when an enabled database has a schedule of five fields, unless an
\* earlier entry has its ID: the defaults of init and db add never serve.
THEOREM FiveFieldsNeverServe ==
  LifeSpec => [](\A p \in PID : proc[p] = "serve" =>
                   \A i \in DOMAIN dbs :
                     (dbs[i].enabled /\ \A k \in 1 .. i - 1 : dbs[k].id # dbs[i].id) =>
                       dbs[i].fields # 5)
<1> DEFINE NotFive == \A p \in PID : proc[p] = "serve" =>
                        \A i \in DOMAIN dbs :
                          (dbs[i].enabled /\ \A k \in 1 .. i - 1 : dbs[k].id # dbs[i].id) =>
                            dbs[i].fields # 5
<1>1. OwnTypeOK /\ ServesWholeSchedule => NotFive
  <2> SUFFICES ASSUME OwnTypeOK, ServesWholeSchedule, NEW p \in PID, proc[p] = "serve",
                      NEW i \in DOMAIN dbs, dbs[i].enabled, dbs[i].fields = 5,
                      \A k \in 1 .. i - 1 : dbs[k].id # dbs[i].id
               PROVE  FALSE
    OBVIOUS
  <2>1. PICK j \in 1 .. i : GetDatabaseByID(dbs[i].id) = dbs[j] /\ dbs[j].id = dbs[i].id
    BY FindsFirst
  <2>2. i \in Nat
    BY LifeConstantsOK DEF OwnTypeOK
  <2>3. j = i
    BY <2>1, <2>2
  <2>4. Parses(dbs[i])
    BY <2>1, <2>3 DEF ServesWholeSchedule
  <2> QED
    BY <2>4 DEF Parses
<1>2. LifeTypeOK => OwnTypeOK
  BY DEF LifeTypeOK, OwnTypeOK
<1> QED
  BY <1>1, <1>2, WholeScheduleTheorem, LifeTypes, PTL

=============================================================================
