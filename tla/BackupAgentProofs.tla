-------------------------- MODULE BackupAgentProofs --------------------------
(***************************************************************************)
(* Proofs about BackupAgent, for any databases, runs, goroutines, retries, *)
(* and clock.                                                              *)
(***************************************************************************)
EXTENDS BackupAgent, TLAPS

-----------------------------------------------------------------------------
(* What the steps make of a run, a task, a row and the daemon has the type *)
(* of what it was.                                                         *)

RunPc  == {"idle", "dumping", "saving", "saved", "uploading", "ok", "failed"}
TaskPc == {"load", "put", "remove", "count"}

\* Every assignment Backup makes to a run leaves a run.
LEMMA RunSteps ==
  ASSUME NEW r \in Run
  PROVE  /\ \A pc \in RunPc : [r EXCEPT !.pc = pc] \in Run
         /\ \A b \in {"daemon", "cli"}, m \in {"s3", "local"}, rw \in BOOLEAN :
              [r EXCEPT !.pc = "dumping", !.by = b, !.mode = m, !.rw = rw] \in Run
         /\ \A t \in Second :
              [r EXCEPT !.pc = "saving", !.sec = t, !.reached = "named"] \in Run
         /\ [r EXCEPT !.pc = "saved", !.reached = "saved"] \in Run
         /\ \A pc \in RunPc, t \in Second :
              [r EXCEPT !.pc = pc, !.reached = "queued", !.created = t] \in Run
  BY DEF Run, RunPc

\* A new upload is a task, and loading its file or moving on leaves one.
LEMMA TaskSteps ==
  /\ \A n \in Name, t \in Second : NewTask(n, t) \in Task
  /\ \A k \in Task, pc \in TaskPc : [k EXCEPT !.pc = pc] \in Task
  /\ \A k \in Task, c \in Content \cup {NoFile} :
       [k EXCEPT !.pc = "put", !.content = c] \in Task
  BY DEF Task, TaskPc, NewTask

\* Enqueue's row is a row, and counting a failure or a minute leaves one.
LEMMA RowSteps ==
  /\ \A t \in Second : NewRow(t) \in Row
  /\ \A r \in Row : Counted(r) \in Row
  /\ \A r \in Row : [r EXCEPT !.age = @ + 1] \in Row
<1>1. \A t \in Second : NewRow(t) \in Row
  BY DEF Row, NewRow
<1>2. ASSUME NEW r \in Row
      PROVE  /\ Counted(r) \in Row
             /\ [r EXCEPT !.age = @ + 1] \in Row
  <2>1. r.retry + 1 \in Nat /\ r.age + 1 \in Nat
    BY DEF Row
  <2> QED
    BY <2>1 DEF Row, Counted
<1> QED
  BY <1>1, <1>2

\* The daemon as it starts, as its sweeps and minutes leave it, and when it is down.
LEMMA DaemonSteps ==
  /\ Down \in Daemon
  /\ \A m \in {"s3", "local"}, s \in SUBSET DB, rw \in BOOLEAN, w \in 0 .. SweepEvery :
       [up |-> TRUE, mode |-> m, dbs |-> s, rw |-> rw, wait |-> w, fresh |-> TRUE] \in Daemon
  /\ \A d \in Daemon : /\ [d EXCEPT !.fresh = FALSE] \in Daemon
                       /\ [d EXCEPT !.wait = SweepEvery] \in Daemon
                       /\ d.wait > 0 => [d EXCEPT !.wait = @ - 1] \in Daemon
<1>1. Down \in Daemon
  BY DEF Daemon, Down
<1>2. ASSUME NEW m \in {"s3", "local"}, NEW s \in SUBSET DB, NEW rw \in BOOLEAN,
             NEW w \in 0 .. SweepEvery
      PROVE  [up |-> TRUE, mode |-> m, dbs |-> s, rw |-> rw, wait |-> w, fresh |-> TRUE]
               \in Daemon
  <2>1. w \in Nat
    BY ConstantsOK
  <2> QED
    BY <2>1 DEF Daemon
<1>3. ASSUME NEW d \in Daemon
      PROVE  /\ [d EXCEPT !.fresh = FALSE] \in Daemon
             /\ [d EXCEPT !.wait = SweepEvery] \in Daemon
             /\ d.wait > 0 => [d EXCEPT !.wait = @ - 1] \in Daemon
  <2>1. d.wait \in Nat /\ SweepEvery \in Nat
    BY ConstantsOK DEF Daemon
  <2>2. d.wait > 0 => d.wait - 1 \in Nat
    BY <2>1
  <2> QED
    BY <2>1, <2>2 DEF Daemon
<1> QED
  BY <1>1, <1>2, <1>3

\* Backup's file name is a name, and Upload's object key a key.
LEMMA Names ==
  /\ \A j \in Job, t \in Second : <<DbOf[j], t>> \in Name
  /\ \A k \in Task : KeyOf(k) \in Key
  BY ConstantsOK DEF Name, Key, KeyOf, Task

\* A whole backup and a broken one are contents; no file is none.
LEMMA Contents == Job \subseteq Content /\ Partial \in Content /\ NoFile \notin Content
  BY ConstantsOK DEF Content

\* A worker's task, and the run of a worker that is one.
LEMMA TaskOf ==
  ASSUME TypeOK, NEW w \in Worker, tasks[w] # Idle
  PROVE  tasks[w] \in Task /\ tasks[w].name \in Name /\ KeyOf(tasks[w]) \in Key
  BY Names DEF TypeOK, Task

\* A failed upload leaves a task or nothing, and a command's run failed.
LEMMA FailType ==
  ASSUME TypeOK, NEW w \in Worker, tasks[w] # Idle, Fail(w)
  PROVE  jobs' \in [Job -> Run] /\ tasks' \in [Worker -> Task \cup {Idle}]
<1>1. CASE w \in Slot
  <2>1. [tasks[w] EXCEPT !.pc = "count"] \in Task
    BY TaskOf, TaskSteps DEF TaskPc
  <2> QED
    BY <1>1, <2>1 DEF Fail, TypeOK
<1>2. CASE w \in Job
  <2>1. [jobs[w] EXCEPT !.pc = "failed"] \in Run
    BY <1>2, RunSteps DEF RunPc, TypeOK
  <2> QED
    BY <1>2, <2>1, ConstantsOK DEF Fail, TypeOK
<1> QED
  BY <1>1, <1>2 DEF Worker

\* An upload that ends leaves no task, and a command's run with its result.
LEMMA FinishType ==
  ASSUME TypeOK, NEW w \in Worker, NEW result \in RunPc, Finish(w, result)
  PROVE  jobs' \in [Job -> Run] /\ tasks' \in [Worker -> Task \cup {Idle}]
<1>1. CASE w \in Slot
  BY <1>1 DEF Finish, TypeOK
<1>2. CASE w \in Job
  <2>1. [jobs[w] EXCEPT !.pc = result] \in Run
    BY <1>2, RunSteps DEF TypeOK
  <2> QED
    BY <1>2, <2>1, ConstantsOK DEF Finish, TypeOK
<1> QED
  BY <1>1, <1>2 DEF Worker

\* The end of the daemon's process leaves the types of what it stops.
LEMMA ExitType ==
  ASSUME TypeOK, Exit
  PROVE  /\ daemon' \in Daemon /\ jobs' \in [Job -> Run]
         /\ tasks' \in [Worker -> Task \cup {Idle}]
<1>1. \A j \in Job : jobs[j] \in Run /\ [jobs[j] EXCEPT !.pc = "failed"] \in Run
  BY RunSteps DEF TypeOK, RunPc
<1>2. jobs' \in [Job -> Run]
  BY <1>1 DEF Exit
<1>3. daemon' \in Daemon /\ tasks' \in [Worker -> Task \cup {Idle}]
  BY DaemonSteps DEF Exit, TypeOK
<1> QED
  BY <1>2, <1>3

\* What PutObject reads is a content, or nothing was loaded yet.
LEMMA ReadByType ==
  ASSUME TypeOK, NEW w \in Worker, tasks[w] # Idle
  PROVE  ReadBy(w) \subseteq Content \cup {NoFile}
<1>1. tasks[w].content \in Content \cup {NoFile}
  BY TaskOf DEF Task
<1>2. files[tasks[w].name] \in Content \cup {NoFile}
  BY TaskOf DEF TypeOK
<1> QED
  BY <1>1, <1>2 DEF ReadBy

\* IncrementRetry leaves a row or nothing under every name.
LEMMA CountType ==
  ASSUME TypeOK, NEW w \in Worker, IncrementRetry(w)
  PROVE  queue' \in [Name -> Row \cup {NoRow}]
<1> DEFINE n == tasks[w].name
           row == Counted(queue[n])
<1>1. n \in Name
  BY TaskOf DEF IncrementRetry, At
<1>2. queue' = IF queue[n] = NoRow THEN queue ELSE [queue EXCEPT ![n] = row]
  BY DEF IncrementRetry
<1>3. queue \in [Name -> Row \cup {NoRow}]
  BY DEF TypeOK
<1>4. queue[n] # NoRow => row \in Row
  BY <1>1, <1>3, RowSteps
<1> HIDE DEF n, row
<1> QED
  BY <1>1, <1>2, <1>3, <1>4

\* A sweep, whether it can list the queue or not, moves the daemon's own clock.
LEMMA SweepStartsType ==
  ASSUME TypeOK, SweepStarts
  PROVE  daemon' \in Daemon
<1>1. daemon \in Daemon
  BY DEF TypeOK
<1>2. CASE daemon' = [daemon EXCEPT !.fresh = FALSE]
  BY <1>1, <1>2, DaemonSteps, Zenon
<1>3. CASE daemon' = [daemon EXCEPT !.wait = SweepEvery]
  BY <1>1, <1>3, DaemonSteps, Zenon
<1> QED
  BY <1>2, <1>3 DEF SweepStarts

\* A sweep starts tasks and moves the daemon's own clock.
LEMMA SweepType ==
  ASSUME TypeOK, Sweep
  PROVE  tasks' \in [Worker -> Task \cup {Idle}] /\ daemon' \in Daemon
<1>1. PICK start \in Injection(DueNames, {s \in Slot : tasks[s] = Idle}) :
        tasks' = [w \in Worker |->
                    IF \E n \in DueNames : start[n] = w
                    THEN LET n == CHOOSE n \in DueNames : start[n] = w
                         IN  NewTask(n, queue[n].created)
                    ELSE tasks[w]]
  BY DEF Sweep, RetryFailedUploads
<1>2. \A n \in DueNames : n \in Name /\ queue[n].created \in Second
  BY DEF DueNames, Due, TypeOK, Row
<1>3. ASSUME NEW w \in Worker
      PROVE  (IF \E n \in DueNames : start[n] = w
              THEN LET n == CHOOSE n \in DueNames : start[n] = w
                   IN  NewTask(n, queue[n].created)
              ELSE tasks[w]) \in Task \cup {Idle}
  <2>1. CASE \E n \in DueNames : start[n] = w
    <3> DEFINE m == CHOOSE n \in DueNames : start[n] = w
    <3>1. m \in DueNames
      BY <2>1
    <3>2. NewTask(m, queue[m].created) \in Task
      BY <1>2, <3>1, TaskSteps
    <3> QED
      BY <2>1, <3>2
  <2>2. CASE ~\E n \in DueNames : start[n] = w
    BY <2>2 DEF TypeOK
  <2> QED
    BY <2>1, <2>2
<1>4. tasks' \in [Worker -> Task \cup {Idle}]
  BY <1>1, <1>3
<1>5. daemon' \in Daemon
  BY SweepStartsType DEF Sweep
<1> QED
  BY <1>4, <1>5

\* Every variable keeps its type.
THEOREM TypeInvariant == Spec => []TypeOK
<1>1. Init => TypeOK
  <2> SUFFICES ASSUME Init PROVE TypeOK
    OBVIOUS
  <2>1. Fresh \in Run /\ now \in Second
    BY ConstantsOK DEF Init, Fresh, Run, Second
  <2>2. jobs \in [Job -> Run] /\ daemon \in Daemon
    BY <2>1, DaemonSteps DEF Init
  <2>3. disk \in [mode : {"s3", "local"}, dbs : SUBSET DB]
    BY DEF Init
  <2> QED
    BY <2>1, <2>2, <2>3 DEF Init, TypeOK
<1>2. TypeOK /\ [Next]_vars => TypeOK'
  <2> SUFFICES ASSUME TypeOK, [Next]_vars PROVE TypeOK'
    OBVIOUS
  <2> USE Contents DEF TypeOK, Worker
  <2>1. CASE UNCHANGED vars
    BY <2>1 DEF vars
  <2>2. ASSUME NEW j \in Job, ScheduledBackup(j) PROVE TypeOK'
    <3>1. PICK m \in {"s3", "local"}, rw \in BOOLEAN, b \in {"daemon", "cli"} : Begin(j, b, m, rw)
      BY <2>2, ConstantsOK DEF ScheduledBackup, OpensWritable, Daemon
    <3>2. [jobs[j] EXCEPT !.pc = "dumping", !.by = b, !.mode = m, !.rw = rw] \in Run
      BY RunSteps
    <3>3. jobs' \in [Job -> Run]
      BY <3>1, <3>2 DEF Begin
    <3> QED
      BY <2>2, <3>3 DEF ScheduledBackup
  <2>3. ASSUME NEW j \in Job, CommandBackup(j) PROVE TypeOK'
    <3>1. PICK m \in {"s3", "local"}, rw \in BOOLEAN, b \in {"daemon", "cli"} : Begin(j, b, m, rw)
      BY <2>3, ConstantsOK DEF CommandBackup, OpensWritable, Daemon
    <3>2. [jobs[j] EXCEPT !.pc = "dumping", !.by = b, !.mode = m, !.rw = rw] \in Run
      BY RunSteps
    <3>3. jobs' \in [Job -> Run]
      BY <3>1, <3>2 DEF Begin
    <3> QED
      BY <2>3, <3>3 DEF CommandBackup
  <2>4. ASSUME NEW j \in Job, PipelineFails(j) PROVE TypeOK'
    BY <2>4, RunSteps, Names DEF PipelineFails, RunPc, NameFor
  <2>5. ASSUME NEW j \in Job, SaveOpen(j) PROVE TypeOK'
    BY <2>5, RunSteps, Names DEF SaveOpen, RunPc, NameFor
  <2>6. ASSUME NEW j \in Job, SaveDone(j) PROVE TypeOK'
    <3>0. jobs[j].sec \in Second
      BY DEF Run
    <3>1. NameFor(j) \in Name /\ jobs' \in [Job -> Run]
      <4>1. NameFor(j) \in Name
        BY <3>0, Names DEF NameFor
      <4>2. jobs' \in [Job -> Run]
        BY <2>6, RunSteps DEF SaveDone
      <4> QED
        BY <4>1, <4>2
    <3>2. files' \in [Name -> Content \cup {NoFile}]
      <4>1. Written(j) \subseteq Content \cup {NoFile}
        BY <3>1, Contents DEF Written
      <4> QED
        BY <2>6, <3>1, <4>1 DEF SaveDone
    <3> QED
      BY <2>6, <3>1, <3>2 DEF SaveDone
  <2>7. ASSUME NEW j \in Job, SaveFails(j) PROVE TypeOK'
    BY <2>7, RunSteps, Names DEF SaveFails, RunPc, NameFor
  <2>8. ASSUME NEW j \in Job, FinishLocal(j) PROVE TypeOK'
    BY <2>8, RunSteps, Names DEF FinishLocal, RunPc, NameFor
  <2>9. ASSUME NEW j \in Job, EnqueueAndUpload(j) PROVE TypeOK'
    <3>1. NameFor(j) \in Name
      BY Names DEF NameFor, Run
    <3>2. queue' \in [Name -> Row \cup {NoRow}]
      BY <2>9, <3>1, RowSteps DEF EnqueueAndUpload, Enqueue
    <3>3. NewTask(NameFor(j), now) \in Task
      BY <3>1, TaskSteps
    <3>4. \A pc \in RunPc :
            [jobs[j] EXCEPT !.pc = pc, !.reached = "queued", !.created = now] \in Run
      BY RunSteps
    <3>5. CASE jobs[j].by = "daemon"
      <4>1. tasks' \in [Worker -> Task \cup {Idle}]
        BY <2>9, <3>3, <3>5 DEF EnqueueAndUpload
      <4>2. jobs' \in [Job -> Run]
        BY <2>9, <3>4, <3>5 DEF EnqueueAndUpload, RunPc
      <4> QED
        BY <2>9, <3>2, <4>1, <4>2 DEF EnqueueAndUpload
    <3>6. CASE jobs[j].by # "daemon"
      <4>1. tasks' \in [Worker -> Task \cup {Idle}]
        BY <2>9, <3>3, <3>6 DEF EnqueueAndUpload
      <4>2. jobs' \in [Job -> Run]
        BY <2>9, <3>4, <3>6 DEF EnqueueAndUpload, RunPc
      <4> QED
        BY <2>9, <3>2, <4>1, <4>2 DEF EnqueueAndUpload
    <3> QED
      BY <3>5, <3>6
  <2>10. ASSUME NEW j \in Job, EnqueueFails(j) PROVE TypeOK'
    BY <2>10, RunSteps, Names DEF EnqueueFails, RunPc, NameFor
  <2>11. ASSUME NEW j \in Job, KillCommand(j) PROVE TypeOK'
    BY <2>11, RunSteps, Names DEF KillCommand, RunPc, NameFor
  <2>12. ASSUME NEW w \in Worker, Load(w) PROVE TypeOK'
    <3>1. /\ tasks[w] \in Task /\ files[tasks[w].name] \in Content \cup {NoFile}
      BY <2>12, TaskOf DEF Load, At
    <3>2. [tasks[w] EXCEPT !.pc = "put", !.content = files[tasks[w].name]] \in Task
      BY <3>1, TaskSteps
    <3> QED
      BY <2>12, <3>2 DEF Load
  <2>13. ASSUME NEW w \in Worker, LoadFails(w) PROVE TypeOK'
    BY <2>13, FailType DEF LoadFails, At
  <2>14. ASSUME NEW w \in Worker, Put(w) PROVE TypeOK'
    <3>1. /\ tasks[w] \in Task /\ KeyOf(tasks[w]) \in Key
          /\ ReadBy(w) \subseteq Content \cup {NoFile}
      BY <2>14, TaskOf, ReadByType DEF Put, At
    <3>2. remote' \in [Key -> Content \cup {NoFile}]
      BY <2>14, <3>1 DEF Put
    <3>3. [tasks[w] EXCEPT !.pc = "remove"] \in Task
      BY <3>1, TaskSteps DEF TaskPc
    <3> QED
      BY <2>14, <3>2, <3>3 DEF Put
  <2>15. ASSUME NEW w \in Worker, PutFails(w) PROVE TypeOK'
    <3>1. /\ KeyOf(tasks[w]) \in Key /\ ReadBy(w) \subseteq Content \cup {NoFile}
      BY <2>15, TaskOf, ReadByType DEF PutFails, At
    <3>2. remote' \in [Key -> Content \cup {NoFile}]
      BY <2>15, <3>1 DEF PutFails
    <3>3. jobs' \in [Job -> Run] /\ tasks' \in [Worker -> Task \cup {Idle}]
      BY <2>15, FailType DEF PutFails, At
    <3> QED
      BY <2>15, <3>2, <3>3 DEF PutFails
  <2>16. ASSUME NEW w \in Worker, UploadPanics(w) PROVE TypeOK'
    BY <2>16, ExitType DEF UploadPanics
  <2>17. ASSUME NEW w \in Worker, Remove(w) PROVE TypeOK'
    BY <2>17, FinishType DEF Remove, RunPc
  <2>18. ASSUME NEW w \in Worker, RemoveFails(w) PROVE TypeOK'
    BY <2>18, FinishType DEF RemoveFails, RunPc
  <2>19. ASSUME NEW w \in Worker, IncrementRetry(w) PROVE TypeOK'
    <3>1. jobs' \in [Job -> Run] /\ tasks' \in [Worker -> Task \cup {Idle}]
      BY <2>19, FinishType DEF IncrementRetry, RunPc
    <3>2. queue' \in [Name -> Row \cup {NoRow}]
      BY <2>19, CountType DEF IncrementRetry
    <3> QED
      BY <2>19, <3>1, <3>2 DEF IncrementRetry
  <2>20. ASSUME NEW w \in Worker, IncrementFails(w) PROVE TypeOK'
    BY <2>20, FinishType DEF IncrementFails, RunPc
  <2>21. ASSUME NEW n \in Name, Cleanup(n) PROVE TypeOK'
    BY <2>21 DEF Cleanup
  <2>22. ASSUME StartDaemon PROVE TypeOK'
    <3>1. daemon' \in Daemon
      <4>1. PICK wait \in 0 .. SweepEvery :
              daemon' = [up |-> TRUE, mode |-> disk.mode, dbs |-> disk.dbs,
                         rw |-> OpensWritable, wait |-> wait, fresh |-> TRUE]
        BY <2>22 DEF StartDaemon
      <4>2. disk.mode \in {"s3", "local"} /\ disk.dbs \in SUBSET DB
        OBVIOUS
      <4>3. OpensWritable \in BOOLEAN
        BY ConstantsOK DEF OpensWritable
      <4> QED
        BY <4>1, <4>2, <4>3, DaemonSteps
    <3> QED
      BY <2>22, <3>1 DEF StartDaemon
  <2>23. ASSUME Sweep PROVE TypeOK'
    BY <2>23, SweepType DEF Sweep
  <2>24. ASSUME StopOrCrash PROVE TypeOK'
    BY <2>24, ExitType DEF StopOrCrash
  <2>25. ASSUME ClearQueue PROVE TypeOK'
    BY <2>25 DEF ClearQueue
  <2>26. ASSUME EditConfig PROVE TypeOK'
    <3>1. disk' \in [mode : {"s3", "local"}, dbs : SUBSET DB]
      BY <2>26, ConstantsOK DEF EditConfig
    <3> QED
      BY <2>26, <3>1 DEF EditConfig
  <2>27. ASSUME SecondPasses PROVE TypeOK'
    <3>1. now' \in Second
      BY <2>27, ConstantsOK DEF SecondPasses, Tick, Second
    <3> QED
      BY <2>27, <3>1 DEF SecondPasses
  <2>29. ASSUME SweepFails PROVE TypeOK'
    BY <2>29, SweepStartsType DEF SweepFails
  <2>28. ASSUME MinutePasses PROVE TypeOK'
    <3>1. now' \in Second
      BY <2>28, ConstantsOK DEF MinutePasses, Tick, Second
    <3>2. daemon' \in Daemon
      BY <2>28, DaemonSteps DEF MinutePasses
    <3>3. queue' \in [Name -> Row \cup {NoRow}]
      BY <2>28, RowSteps DEF MinutePasses
    <3> QED
      BY <2>28, <3>1, <3>2, <3>3 DEF MinutePasses
  <2> HIDE DEF TypeOK
  <2> QED
    BY <2>1, <2>2, <2>3, <2>4, <2>5, <2>6, <2>7, <2>8, <2>9, <2>10, <2>11, <2>12, <2>13, <2>14, <2>15, <2>16, <2>17, <2>18, <2>19, <2>20, <2>21, <2>22, <2>23, <2>24, <2>25, <2>26, <2>27, <2>28, <2>29
    DEF Next, Backup, Upload, User, Clock
<1> QED
  BY <1>1, <1>2, PTL DEF Spec
=============================================================================
