-------------------------- MODULE DurabilityProofs --------------------------
(***************************************************************************)
(* Durable is an inductive invariant of BackupAgent, and what follows from *)
(* it: no backup that was enqueued is lost, damaged or misplaced, for any  *)
(* databases, runs, goroutines, retries, and clock; and the agent keeps    *)
(* the promise of Delivery.                                                *)
(*                                                                         *)
(* The first lemmas say what a step may do to a run, a row, a file, the    *)
(* bucket and an upload; the invariant's conjuncts follow from them.       *)
(***************************************************************************)
EXTENDS BackupAgentProofs

-----------------------------------------------------------------------------
(* Runs.                                                                   *)

\* How far a run came follows where it is.
Phase(r) ==
  /\ r.pc \in {"idle", "dumping"} => r.reached = "new"
  /\ r.pc = "saving" => r.reached = "named"
  /\ r.pc = "saved" => r.reached = "saved"
  /\ r.pc = "ok" /\ r.mode = "s3" => r.reached = "queued"

\* A run only comes further, and keeps the times it stamped.
Further(r, q) ==
  /\ r.reached # "new" => q.reached # "new" /\ q.sec = r.sec
  /\ r.reached \in {"saved", "queued"} => q.reached \in {"saved", "queued"}
  /\ r.reached = "queued" => q.reached = "queued" /\ q.created = r.created

\* ... in each of the assignments the actions make.
LEMMA RunFurther ==
  ASSUME NEW r \in Run, Phase(r)
  PROVE  /\ Further(r, r)
         /\ LET q == [r EXCEPT !.pc = "failed"]
            IN  Further(r, q) /\ Phase(q) /\ q.reached = r.reached
         /\ r.mode = "local" =>
              LET q == [r EXCEPT !.pc = "ok"]
              IN  Further(r, q) /\ Phase(q) /\ q.reached = r.reached
         /\ r.reached = "queued" =>
              \A pc \in {"ok", "failed"} :
                LET q == [r EXCEPT !.pc = pc]
                IN  Further(r, q) /\ Phase(q) /\ q.reached = r.reached
         /\ r.pc = "idle" =>
              \A b \in {"daemon", "cli"}, m \in {"s3", "local"}, rw \in BOOLEAN :
                LET q == [r EXCEPT !.pc = "dumping", !.by = b, !.mode = m, !.rw = rw]
                IN  Further(r, q) /\ Phase(q) /\ q.reached = r.reached
         /\ r.pc = "dumping" =>
              \A t \in Second :
                LET q == [r EXCEPT !.pc = "saving", !.sec = t, !.reached = "named"]
                IN  Further(r, q) /\ Phase(q)
         /\ r.pc = "saving" =>
              LET q == [r EXCEPT !.pc = "saved", !.reached = "saved"] IN Further(r, q) /\ Phase(q)
         /\ r.pc = "saved" =>
              \A pc \in {"ok", "uploading"}, t \in Second :
                LET q == [r EXCEPT !.pc = pc, !.reached = "queued", !.created = t]
                IN  Further(r, q) /\ Phase(q)
  BY DEF Run, Phase, Further

\* The steps that take a run from one stage to the next.
NextStage(j) == SaveOpen(j) \/ SaveDone(j) \/ EnqueueAndUpload(j)

\* Every step takes every run further, and no others change its stage.
LEMMA RunsStep ==
  ASSUME TypeOK, PhasesAgree, OwnUpload, [Next]_vars
  PROVE  \A j \in Job : /\ Further(jobs[j], jobs'[j]) /\ Phase(jobs'[j])
                        /\ jobs'[j].reached = jobs[j].reached \/ NextStage(j)
<1> DEFINE Goal == \A j \in Job : /\ Further(jobs[j], jobs'[j]) /\ Phase(jobs'[j])
                                  /\ jobs'[j].reached = jobs[j].reached \/ NextStage(j)
<1>1. \A j \in Job : jobs[j] \in Run /\ Phase(jobs[j])
  BY DEF TypeOK, PhasesAgree, Phase
<1>2. \A j \in Job : Further(jobs[j], jobs[j])
  BY <1>1, RunFurther
<1>3. jobs \in [Job -> Run]
  BY DEF TypeOK
<1>4. ASSUME NEW j \in Job, NEW q, jobs' = [jobs EXCEPT ![j] = q],
             Further(jobs[j], q), Phase(q), q.reached = jobs[j].reached \/ NextStage(j)
      PROVE  Goal
  <2>1. jobs'[j] = q /\ \A k \in Job \ {j} : jobs'[k] = jobs[k]
    BY <1>3, <1>4
  <2>2. \A k \in Job \ {j} : /\ Further(jobs[k], jobs'[k]) /\ Phase(jobs'[k])
                             /\ jobs'[k].reached = jobs[k].reached
    BY <1>1, <1>2, <2>1
  <2>3. Further(jobs[j], jobs'[j]) /\ Phase(jobs'[j])
    BY <1>4, <2>1
  <2>4. jobs'[j].reached = jobs[j].reached \/ NextStage(j)
    BY <1>4, <2>1
  <2> QED
    BY <2>2, <2>3, <2>4
<1>5. ASSUME UNCHANGED jobs PROVE Goal
  BY <1>1, <1>2, <1>5
<1>6. ASSUME NEW j \in Job, NEW b \in {"daemon", "cli"}, NEW m \in {"s3", "local"},
             NEW rw \in BOOLEAN, Begin(j, b, m, rw)
      PROVE  Goal
  <2> DEFINE q == [jobs[j] EXCEPT !.pc = "dumping", !.by = b, !.mode = m, !.rw = rw]
  <2>0. jobs[j] \in Run /\ Phase(jobs[j]) /\ jobs[j].pc = "idle"
    BY <1>1, <1>6 DEF Begin
  <2>1. Further(jobs[j], q) /\ Phase(q) /\ q.reached = jobs[j].reached
    BY <1>6, <2>0 DEF Run, Phase, Further
  <2>2. jobs' = [jobs EXCEPT ![j] = q]
    BY <1>6 DEF Begin
  <2> HIDE DEF q
  <2> QED
    BY <1>4, <2>1, <2>2
<1>7. ASSUME NEW w \in Worker, tasks[w] # Idle, NEW result \in {"ok", "failed"},
             Finish(w, result)
      PROVE  Goal
  <2>1. CASE w \in Slot
    BY <1>5, <1>7, <2>1 DEF Finish
  <2>2. CASE w \in Job
    <3> DEFINE q == [jobs[w] EXCEPT !.pc = result]
    <3>1. Further(jobs[w], q) /\ Phase(q) /\ q.reached = jobs[w].reached
      BY <1>1, <1>7, <2>2, RunFurther DEF OwnUpload
    <3>2. jobs' = [jobs EXCEPT ![w] = q]
      BY <1>3, <1>7, <2>2, ConstantsOK DEF Finish
    <3> HIDE DEF q
    <3> QED
      BY <1>4, <2>2, <3>1, <3>2
  <2> QED
    BY <2>1, <2>2 DEF Worker
<1>8. ASSUME NEW w \in Worker, tasks[w] # Idle, Fail(w) PROVE Goal
  <2>1. CASE w \in Slot
    BY <1>5, <1>8, <2>1 DEF Fail
  <2>2. CASE w \in Job
    <3>1. Finish(w, "failed")
      BY <1>8, <2>2, ConstantsOK DEF Fail, Finish
    <3> QED
      BY <1>7, <1>8, <3>1
  <2> QED
    BY <2>1, <2>2 DEF Worker
<1>9. ASSUME Exit PROVE Goal
  <2>1. \A j \in Job : jobs'[j] \in {jobs[j], [jobs[j] EXCEPT !.pc = "failed"]}
    BY <1>9 DEF Exit
  <2>2. \A j \in Job : LET q == [jobs[j] EXCEPT !.pc = "failed"]
                       IN  Further(jobs[j], q) /\ Phase(q) /\ q.reached = jobs[j].reached
    BY <1>1, RunFurther
  <2> QED
    BY <1>1, <1>2, <2>1, <2>2
<1>10. ASSUME NEW j \in Job, jobs' = [jobs EXCEPT ![j].pc = "failed"] PROVE Goal
  <2> DEFINE q == [jobs[j] EXCEPT !.pc = "failed"]
  <2>1. Further(jobs[j], q) /\ Phase(q) /\ q.reached = jobs[j].reached
    BY <1>1, RunFurther
  <2>2. jobs' = [jobs EXCEPT ![j] = q]
    BY <1>3, <1>10
  <2> HIDE DEF q
  <2> QED
    BY <1>4, <2>1, <2>2
<1> HIDE DEF Goal
<1>11. ASSUME NEW j \in Job, ScheduledBackup(j) PROVE Goal
  BY <1>6, <1>11, ConstantsOK DEF ScheduledBackup, TypeOK, Daemon
<1>12. ASSUME NEW j \in Job, CommandBackup(j) PROVE Goal
  BY <1>6, <1>12, ConstantsOK DEF CommandBackup, OpensWritable, TypeOK
<1>13. ASSUME NEW j \in Job,
              PipelineFails(j) \/ SaveFails(j) \/ EnqueueFails(j) \/ KillCommand(j)
       PROVE  Goal
  BY <1>10, <1>13 DEF PipelineFails, SaveFails, EnqueueFails, KillCommand
<1>14. ASSUME NEW j \in Job, SaveOpen(j) PROVE Goal
  <2> DEFINE q == [jobs[j] EXCEPT !.pc = "saving", !.sec = now, !.reached = "named"]
  <2>1. Further(jobs[j], q) /\ Phase(q)
    BY <1>1, <1>14, RunFurther DEF SaveOpen, TypeOK
  <2>2. jobs' = [jobs EXCEPT ![j] = q]
    BY <1>14 DEF SaveOpen
  <2> HIDE DEF q
  <2> QED
    BY <1>4, <1>14, <2>1, <2>2 DEF NextStage
<1>15. ASSUME NEW j \in Job, SaveDone(j) PROVE Goal
  <2> DEFINE q == [jobs[j] EXCEPT !.pc = "saved", !.reached = "saved"]
  <2>1. Further(jobs[j], q) /\ Phase(q)
    BY <1>1, <1>15, RunFurther DEF SaveDone
  <2>2. jobs' = [jobs EXCEPT ![j] = q]
    BY <1>15 DEF SaveDone
  <2> HIDE DEF q
  <2> QED
    BY <1>4, <1>15, <2>1, <2>2 DEF NextStage
<1>16. ASSUME NEW j \in Job, FinishLocal(j) PROVE Goal
  <2> DEFINE q == [jobs[j] EXCEPT !.pc = "ok"]
  <2>1. Further(jobs[j], q) /\ Phase(q) /\ q.reached = jobs[j].reached
    BY <1>1, <1>16, RunFurther DEF FinishLocal
  <2>2. jobs' = [jobs EXCEPT ![j] = q]
    BY <1>16 DEF FinishLocal
  <2> HIDE DEF q
  <2> QED
    BY <1>4, <2>1, <2>2
<1>17. ASSUME NEW j \in Job, EnqueueAndUpload(j) PROVE Goal
  <2>1. PICK pc \in {"ok", "uploading"} :
          jobs' = [jobs EXCEPT ![j] = [@ EXCEPT !.pc = pc, !.reached = "queued",
                                               !.created = now]]
    BY <1>17 DEF EnqueueAndUpload
  <2> DEFINE q == [jobs[j] EXCEPT !.pc = pc, !.reached = "queued", !.created = now]
  <2>2. Further(jobs[j], q) /\ Phase(q)
    BY <1>1, <1>17, RunFurther DEF EnqueueAndUpload, TypeOK
  <2>3. jobs' = [jobs EXCEPT ![j] = q]
    BY <2>1
  <2> HIDE DEF q
  <2> QED
    BY <1>4, <1>17, <2>2, <2>3 DEF NextStage
<1>18. ASSUME NEW w \in Worker, Upload(w) PROVE Goal
  <2>1. CASE Load(w) \/ Put(w)
    BY <1>5, <2>1 DEF Load, Put
  <2>2. CASE LoadFails(w) \/ PutFails(w)
    BY <1>8, <2>2 DEF LoadFails, PutFails, At
  <2>3. CASE Remove(w) \/ RemoveFails(w) \/ IncrementRetry(w) \/ IncrementFails(w)
    BY <1>7, <2>3 DEF Remove, RemoveFails, IncrementRetry, IncrementFails, At
  <2>4. CASE UploadPanics(w)
    BY <1>9, <2>4 DEF UploadPanics
  <2> QED
    BY <1>18, <2>1, <2>2, <2>3, <2>4 DEF Upload
<1>19. ASSUME StopOrCrash PROVE Goal
  BY <1>9, <1>19 DEF StopOrCrash
<1>20. ASSUME StartDaemon \/ Sweep \/ SweepFails \/ User \/ Clock \/ UNCHANGED vars
       PROVE  Goal
  BY <1>5, <1>20 DEF StartDaemon, Sweep, SweepFails, User, ClearQueue, EditConfig, Cleanup,
                     Clock, SecondPasses, MinutePasses, vars
<1> QED
  BY <1>11, <1>12, <1>13, <1>14, <1>15, <1>16, <1>17, <1>18, <1>19, <1>20
  DEF Next, Backup, Goal

\* So names, keys and what shares them are settled once they are stamped.
LEMMA StampsStay ==
  ASSUME TypeOK, PhasesAgree, OwnUpload, [Next]_vars
  PROVE  /\ \A j \in Job : jobs[j].reached # "new" =>
              NameFor(j)' = NameFor(j) /\ (SharesName(j) => SharesName(j)')
         /\ \A j \in Job : jobs[j].reached = "queued" =>
              KeyFor(j)' = KeyFor(j) /\ (SharesKey(j) => SharesKey(j)')
         /\ \A n, t : Made(n, t) => Made(n, t)'
<1>1. \A j \in Job : Further(jobs[j], jobs'[j])
  BY RunsStep
<1>2. \A j \in Job : jobs[j].reached # "new" =>
        jobs'[j].reached # "new" /\ NameFor(j)' = NameFor(j)
  BY <1>1 DEF Further, NameFor
<1>3. \A j \in Job : jobs[j].reached = "queued" =>
        /\ jobs'[j].reached = "queued" /\ jobs'[j].created = jobs[j].created
        /\ KeyFor(j)' = KeyFor(j)
  BY <1>1 DEF Further, KeyFor
<1>4. \A j \in Job : jobs[j].reached # "new" => (SharesName(j) => SharesName(j)')
  BY <1>2 DEF SharesName
<1>5. \A j \in Job : jobs[j].reached = "queued" => (SharesKey(j) => SharesKey(j)')
  BY <1>3 DEF SharesKey
<1>6. ASSUME NEW n, NEW t, Made(n, t) PROVE Made(n, t)'
  <2>1. PICK j \in Job : jobs[j].reached = "queued" /\ NameFor(j) = n /\ jobs[j].created = t
    BY <1>6 DEF Made
  <2>2. jobs'[j].reached = "queued" /\ NameFor(j)' = n /\ jobs'[j].created = t
    BY <1>2, <1>3, <2>1
  <2> QED
    BY <2>2 DEF Made
<1> QED
  BY <1>2, <1>3, <1>4, <1>5, <1>6

\* A run that is enqueued was saved before, under the name it is enqueued with.
LEMMA Enqueued ==
  ASSUME TypeOK, PhasesAgree, NEW j \in Job, EnqueueAndUpload(j)
  PROVE  /\ jobs[j].reached # "queued" /\ jobs[j].pc = "saved"
         /\ jobs'[j].reached = "queued" /\ jobs'[j].created = now
         /\ NameFor(j)' = NameFor(j)
         /\ queue'[NameFor(j)] = NewRow(now)
<1>1. jobs[j] \in Run /\ NameFor(j) \in Name
  BY Names DEF TypeOK, Run, NameFor
<1>2. PICK pc \in RunPc :
        jobs' = [jobs EXCEPT ![j] = [@ EXCEPT !.pc = pc, !.reached = "queued", !.created = now]]
  BY DEF EnqueueAndUpload, RunPc
<1>3. jobs'[j] = [jobs[j] EXCEPT !.pc = pc, !.reached = "queued", !.created = now]
  BY <1>2 DEF TypeOK
<1>4. /\ jobs'[j].reached = "queued" /\ jobs'[j].created = now
      /\ jobs'[j].sec = jobs[j].sec
  BY <1>1, <1>3 DEF Run
<1>5. queue'[NameFor(j)] = NewRow(now)
  BY <1>1 DEF EnqueueAndUpload, Enqueue, TypeOK
<1>6. jobs[j].pc = "saved" /\ jobs[j].reached = "saved"
  BY DEF EnqueueAndUpload, PhasesAgree
<1> QED
  BY <1>4, <1>5, <1>6 DEF NameFor

\* Only the save and the enqueue take a run to the stages that count.
LEMMA StagesStep ==
  ASSUME TypeOK, PhasesAgree, OwnUpload, [Next]_vars, NEW j \in Job
  PROVE  /\ jobs'[j].reached = "queued" => jobs[j].reached = "queued" \/ EnqueueAndUpload(j)
         /\ jobs'[j].reached \in {"saved", "queued"} =>
              jobs[j].reached \in {"saved", "queued"} \/ SaveDone(j)
<1>1. jobs'[j].reached = jobs[j].reached \/ NextStage(j)
  BY RunsStep
<1>2. SaveOpen(j) => jobs'[j].reached = "named"
  BY DEF SaveOpen, TypeOK, Run
<1>3. SaveDone(j) => jobs'[j].reached = "saved"
  BY DEF SaveDone, TypeOK, Run
<1>4. EnqueueAndUpload(j) => jobs[j].reached = "saved"
  BY DEF EnqueueAndUpload, PhasesAgree
<1> QED
  BY <1>1, <1>2, <1>3, <1>4 DEF NextStage

-----------------------------------------------------------------------------
(* Rows, files, the bucket, and uploads.                                   *)

\* A step leaves a row and its time, puts a new one there, or takes it away because
\* it was uploaded or the user said so.
LEMMA RowsStep ==
  ASSUME TypeOK, [Next]_vars, NEW n \in Name
  PROVE  /\ queue'[n] # NoRow =>
              \/ queue[n] # NoRow /\ queue'[n].created = queue[n].created
              \/ \E j \in Job : EnqueueAndUpload(j) /\ NameFor(j) = n /\ queue'[n] = NewRow(now)
         /\ queue[n] # NoRow /\ queue'[n] = NoRow =>
              \/ ClearQueue /\ n \in cleared'
              \/ \E w \in Worker : Remove(w) /\ tasks[w].name = n
<1> DEFINE Kept(q) == q # NoRow => queue[n] # NoRow /\ q.created = queue[n].created
           Gone    == \/ ClearQueue /\ n \in cleared'
                      \/ \E w \in Worker : Remove(w) /\ tasks[w].name = n
           Made1   == \E j \in Job : EnqueueAndUpload(j) /\ NameFor(j) = n /\ queue'[n] = NewRow(now)
           Goal    == /\ Kept(queue'[n]) \/ Made1
                      /\ queue[n] # NoRow /\ queue'[n] = NoRow => Gone
<1>1. queue \in [Name -> Row \cup {NoRow}] /\ NewRow(now) # NoRow
  BY RowSteps, NullsOK DEF TypeOK
<1>2. ASSUME queue'[n] = queue[n] PROVE Goal
  BY <1>2
<1>3. ASSUME queue[n] # NoRow, queue'[n] \in {Counted(queue[n]), [queue[n] EXCEPT !.age = @ + 1]}
      PROVE  Goal
  <2>1. queue[n] \in Row
    BY <1>1, <1>3
  <2>2. queue'[n] \in Row
    BY <1>3, <2>1, RowSteps
  <2>3. queue'[n].created = queue[n].created
    BY <1>3, <2>1 DEF Row, Counted
  <2> QED
    BY <1>3, <2>2, <2>3, NullsOK
<1>4. ASSUME NEW j \in Job, EnqueueAndUpload(j) PROVE Goal
  <2>1. NameFor(j) \in Name
    BY Names DEF TypeOK, Run, NameFor
  <2>2. CASE n = NameFor(j)
    BY <1>1, <1>4, <2>1, <2>2 DEF EnqueueAndUpload, Enqueue
  <2>3. CASE n # NameFor(j)
    <3>1. queue'[n] = queue[n]
      BY <1>1, <1>4, <2>1, <2>3 DEF EnqueueAndUpload, Enqueue
    <3> QED
      BY <1>2, <3>1
  <2> QED
    BY <2>2, <2>3
<1>5. ASSUME NEW w \in Worker, Remove(w) PROVE Goal
  <2> DEFINE m == tasks[w].name
  <2>1. m \in Name /\ queue' = [queue EXCEPT ![m] = NoRow]
    BY <1>5, TaskOf DEF Remove, At
  <2>2. CASE n = m
    BY <1>1, <1>5, <2>1, <2>2
  <2>3. CASE n # m
    <3> HIDE DEF m
    <3>1. queue'[n] = queue[n]
      BY <1>1, <2>1, <2>3
    <3> QED
      BY <1>2, <3>1
  <2> QED
    BY <2>2, <2>3
<1>6. ASSUME NEW w \in Worker, IncrementRetry(w) PROVE Goal
  <2> DEFINE m == tasks[w].name
  <2>1. m \in Name /\ queue' = IF queue[m] = NoRow THEN queue
                              ELSE [queue EXCEPT ![m] = Counted(queue[m])]
    BY <1>6, TaskOf DEF IncrementRetry, At
  <2> HIDE DEF m
  <2>2. queue'[n] = queue[n] \/ (queue[n] # NoRow /\ queue'[n] = Counted(queue[n]))
    <3>1. CASE queue[m] = NoRow
      <4>1. queue' = queue
        BY <2>1, <3>1
      <4> QED
        BY <4>1
    <3>2. CASE queue[m] # NoRow /\ n = m
      BY <1>1, <2>1, <3>2
    <3>3. CASE queue[m] # NoRow /\ n # m
      <4>1. queue'[n] = queue[n]
        BY <1>1, <2>1, <3>3
      <4> QED
        BY <4>1
    <3> QED
      BY <3>1, <3>2, <3>3
  <2> QED
    BY <1>2, <1>3, <2>2
<1>7. ASSUME ClearQueue PROVE Goal
  BY <1>7 DEF ClearQueue
<1>8. ASSUME MinutePasses PROVE Goal
  <2>1. queue'[n] = queue[n] \/ (queue[n] # NoRow /\ queue'[n] = [queue[n] EXCEPT !.age = @ + 1])
    <3>1. CASE queue[n] # NoRow /\ queue[n].age < Backoff(MaxRetries - 1)
      BY <1>8, <3>1 DEF MinutePasses
    <3>2. CASE ~(queue[n] # NoRow /\ queue[n].age < Backoff(MaxRetries - 1))
      <4>1. queue'[n] = queue[n]
        BY <1>8, <3>2 DEF MinutePasses
      <4> QED
        BY <4>1
    <3> QED
      BY <3>1, <3>2
  <2> QED
    BY <1>2, <1>3, <2>1
<1> HIDE DEF Goal
<1>9. ASSUME \A j \in Job : ~EnqueueAndUpload(j),
             \A w \in Worker : ~Remove(w) /\ ~IncrementRetry(w),
             ~ClearQueue, ~MinutePasses
      PROVE  Goal
  <2>1. UNCHANGED queue
    BY <1>9 DEF Next, vars, Backup, ScheduledBackup, CommandBackup, PipelineFails, SaveOpen,
           SaveDone, SaveFails, FinishLocal, EnqueueFails, KillCommand, Upload, Load, LoadFails,
           Put, PutFails, UploadPanics, RemoveFails, IncrementFails, StartDaemon, Sweep,
           SweepFails, StopOrCrash, User, EditConfig, Cleanup, Clock, SecondPasses
  <2> QED
    BY <1>2, <2>1
<1>10. Goal
  BY <1>4, <1>5, <1>6, <1>7, <1>8, <1>9
<1> QED
  BY <1>10 DEF Goal

\* A step leaves a file or is one of those that write or delete it.
LEMMA FilesStep ==
  ASSUME TypeOK, [Next]_vars, NEW n \in Name
  PROVE  \/ files'[n] = files[n]
         \/ \E j \in Job : SaveOpen(j) /\ n = <<DbOf[j], now>>
         \/ \E j \in Job : (SaveDone(j) \/ SaveFails(j)) /\ n = NameFor(j)
         \/ files'[n] = NoFile /\ n \in cleaned'
<1>1. \A j \in Job : NameFor(j) \in Name
  BY Names DEF TypeOK, Run, NameFor
<1>2. ASSUME NEW m \in Name, NEW c, files' = [files EXCEPT ![m] = c]
      PROVE  files'[n] = files[n] \/ n = m
  BY <1>2 DEF TypeOK
<1>3. ASSUME NEW j \in Job, SaveOpen(j) PROVE files'[n] = files[n] \/ n = <<DbOf[j], now>>
  <2>1. <<DbOf[j], now>> \in Name
    BY Names DEF TypeOK
  <2> QED
    BY <1>2, <1>3, <2>1 DEF SaveOpen
<1>4. ASSUME NEW j \in Job, SaveDone(j) \/ SaveFails(j)
      PROVE  files'[n] = files[n] \/ n = NameFor(j)
  BY <1>1, <1>2, <1>4 DEF SaveDone, SaveFails
<1>5. ASSUME NEW m \in Name, Cleanup(m)
      PROVE  files'[n] = files[n] \/ (files'[n] = NoFile /\ n \in cleaned')
  <2>1. files' = [files EXCEPT ![m] = NoFile] /\ m \in cleaned'
    BY <1>5 DEF Cleanup
  <2>2. CASE n = m
    BY <2>1, <2>2 DEF TypeOK
  <2>3. CASE n # m
    BY <2>1, <2>3 DEF TypeOK
  <2> QED
    BY <2>2, <2>3
<1>6. CASE /\ \A j \in Job : ~SaveOpen(j) /\ ~SaveDone(j) /\ ~SaveFails(j)
           /\ \A m \in Name : ~Cleanup(m)
  <2>1. UNCHANGED files
    BY <1>6 DEF Next, vars, Backup, ScheduledBackup, CommandBackup, PipelineFails, FinishLocal,
           EnqueueAndUpload, EnqueueFails, KillCommand, Upload, Load, LoadFails, Put, PutFails,
           UploadPanics, Remove, RemoveFails, IncrementRetry, IncrementFails, StartDaemon,
           Sweep, SweepFails, StopOrCrash, User, ClearQueue, EditConfig, Clock, SecondPasses,
           MinutePasses
  <2> QED
    BY <2>1
<1> QED
  BY <1>3, <1>4, <1>5, <1>6

\* What the user deleted is on record for good.
LEMMA HistoryStep ==
  ASSUME [Next]_vars
  PROVE  cleared \subseteq cleared' /\ cleaned \subseteq cleaned'
  BY DEF Next, vars, Backup, ScheduledBackup, CommandBackup, PipelineFails, SaveOpen, SaveDone,
         SaveFails, FinishLocal, EnqueueAndUpload, EnqueueFails, KillCommand, Upload, Load,
         LoadFails, Put, PutFails, UploadPanics, Remove, RemoveFails, IncrementRetry,
         IncrementFails, StartDaemon, Sweep, SweepFails, StopOrCrash, User, ClearQueue,
         EditConfig, Cleanup, Clock, SecondPasses, MinutePasses

\* Only an upload writes the bucket, under its key, with what it read.
LEMMA BucketStep ==
  ASSUME [Next]_vars
  PROVE  \/ UNCHANGED remote
         \/ \E w \in Worker : /\ At(w, "put")
                              /\ \E c \in ReadBy(w) :
                                   remote' = [remote EXCEPT ![KeyOf(tasks[w])] = c]
  BY DEF Next, vars, Backup, ScheduledBackup, CommandBackup, PipelineFails, SaveOpen, SaveDone,
         SaveFails, FinishLocal, EnqueueAndUpload, EnqueueFails, KillCommand, Upload, Load,
         LoadFails, Put, PutFails, UploadPanics, Remove, RemoveFails, IncrementRetry,
         IncrementFails, StartDaemon, Sweep, SweepFails, StopOrCrash, User, ClearQueue,
         EditConfig, Cleanup, Clock, SecondPasses, MinutePasses

\* An upload after a step is the one before it, at this or another stage, or is new,
\* for a row or for a run that was just enqueued.
LEMMA UploadsStep ==
  ASSUME TypeOK, [Next]_vars, NEW w \in Worker, tasks'[w] # Idle
  PROVE  \/ /\ tasks[w] # Idle
            /\ tasks'[w].name = tasks[w].name /\ tasks'[w].created = tasks[w].created
            /\ \/ tasks'[w] = tasks[w]
               \/ tasks'[w].pc = "count"
               \/ Load(w) /\ tasks'[w].pc = "put" /\ tasks'[w].content = files[tasks[w].name]
               \/ Put(w) /\ tasks'[w].pc = "remove"
         \/ w \in Slot /\ \E n \in Name : /\ queue[n] # NoRow
                                          /\ tasks'[w] = NewTask(n, queue[n].created)
         \/ \E j \in Job : /\ EnqueueAndUpload(j) /\ w \in Slot \cup {j}
                           /\ tasks'[w] = NewTask(NameFor(j), now)
<1> DEFINE Same  == /\ tasks[w] # Idle
                    /\ tasks'[w].name = tasks[w].name /\ tasks'[w].created = tasks[w].created
                    /\ \/ tasks'[w] = tasks[w]
                       \/ tasks'[w].pc = "count"
                       \/ /\ Load(w) /\ tasks'[w].pc = "put"
                          /\ tasks'[w].content = files[tasks[w].name]
                       \/ Put(w) /\ tasks'[w].pc = "remove"
           Retry == w \in Slot /\ \E n \in Name : /\ queue[n] # NoRow
                                                /\ tasks'[w] = NewTask(n, queue[n].created)
           First == \E j \in Job : /\ EnqueueAndUpload(j) /\ w \in Slot \cup {j}
                                   /\ tasks'[w] = NewTask(NameFor(j), now)
           Goal  == Same \/ Retry \/ First
<1>1. tasks \in [Worker -> Task \cup {Idle}]
  BY DEF TypeOK
<1>2. ASSUME tasks'[w] = tasks[w] PROVE Goal
  BY <1>2
<1>3. ASSUME NEW v \in Worker, tasks[v] # Idle,
             Fail(v) \/ \E result \in {"ok", "failed"} : Finish(v, result)
      PROVE  Goal
  <2>1. CASE w = v
    <3>1. tasks'[w] = [tasks[w] EXCEPT !.pc = "count"]
      BY <1>1, <1>3, <2>1 DEF Fail, Finish
    <3>2. tasks[w] \in Task
      BY <1>1, <1>3, <2>1
    <3> QED
      BY <1>3, <2>1, <3>1, <3>2 DEF Task
  <2>2. CASE w # v
    <3>1. tasks'[w] = tasks[w]
      BY <1>1, <1>3, <2>2 DEF Fail, Finish
    <3> QED
      BY <1>2, <3>1
  <2> QED
    BY <2>1, <2>2
<1>4. ASSUME NEW v \in Worker, Load(v) PROVE Goal
  <2>1. CASE w = v
    <3>1. tasks'[w] = [tasks[w] EXCEPT !.pc = "put", !.content = files[tasks[w].name]]
      BY <1>1, <1>4, <2>1 DEF Load
    <3>2. tasks[w] \in Task /\ tasks[w] # Idle
      BY <1>1, <1>4, <2>1 DEF Load, At
    <3> QED
      BY <1>4, <2>1, <3>1, <3>2 DEF Task
  <2>2. CASE w # v
    <3>1. tasks'[w] = tasks[w]
      BY <1>1, <1>4, <2>2 DEF Load
    <3> QED
      BY <1>2, <3>1
  <2> QED
    BY <2>1, <2>2
<1>5. ASSUME NEW v \in Worker, Put(v) PROVE Goal
  <2>1. CASE w = v
    <3>1. tasks'[w] = [tasks[w] EXCEPT !.pc = "remove"]
      BY <1>1, <1>5, <2>1 DEF Put
    <3>2. tasks[w] \in Task /\ tasks[w] # Idle
      BY <1>1, <1>5, <2>1 DEF Put, At
    <3> QED
      BY <1>5, <2>1, <3>1, <3>2 DEF Task
  <2>2. CASE w # v
    <3>1. tasks'[w] = tasks[w]
      BY <1>1, <1>5, <2>2 DEF Put
    <3> QED
      BY <1>2, <3>1
  <2> QED
    BY <2>1, <2>2
<1>6. ASSUME NEW j \in Job, EnqueueAndUpload(j) PROVE Goal
  <2>1. PICK s \in Slot \cup {j} : tasks' = [tasks EXCEPT ![s] = NewTask(NameFor(j), now)]
    BY <1>6 DEF EnqueueAndUpload
  <2>2. CASE w = s
    <3>1. tasks'[w] = NewTask(NameFor(j), now)
      BY <1>1, <2>1, <2>2
    <3> QED
      BY <1>6, <2>2, <3>1
  <2>3. CASE w # s
    <3>1. tasks'[w] = tasks[w]
      BY <1>1, <2>1, <2>3
    <3> QED
      BY <1>2, <3>1
  <2> QED
    BY <2>2, <2>3
<1>7. ASSUME Sweep PROVE Goal
  <2>1. PICK start \in Injection(DueNames, {s \in Slot : tasks[s] = Idle}) :
          tasks' = [v \in Worker |->
                      IF \E n \in DueNames : start[n] = v
                      THEN LET n == CHOOSE n \in DueNames : start[n] = v
                           IN  NewTask(n, queue[n].created)
                      ELSE tasks[v]]
    BY <1>7 DEF Sweep, RetryFailedUploads
  <2>2. CASE \E n \in DueNames : start[n] = w
    <3> DEFINE m == CHOOSE n \in DueNames : start[n] = w
    <3>1. m \in DueNames /\ start[m] = w
      BY <2>2
    <3>2. m \in Name /\ queue[m] # NoRow
      BY <3>1 DEF DueNames, Due
    <3>3. w \in Slot
      BY <2>1, <3>1 DEF Injection, IsInjective
    <3>4. tasks'[w] = NewTask(m, queue[m].created)
      BY <2>1, <2>2
    <3> HIDE DEF m
    <3> QED
      BY <3>2, <3>3, <3>4
  <2>3. CASE ~\E n \in DueNames : start[n] = w
    BY <1>2, <2>1, <2>3
  <2> QED
    BY <2>2, <2>3
<1>8. ASSUME Exit PROVE Goal
  BY <1>2, <1>8 DEF Exit
<1>9. ASSUME NEW j \in Job, KillCommand(j) PROVE Goal
  <2>1. tasks'[w] = tasks[w] \/ tasks'[w] = Idle
    BY <1>1, <1>9 DEF KillCommand
  <2> QED
    BY <1>2, <2>1
<1> HIDE DEF Goal
<1>10. ASSUME NEW v \in Worker, Upload(v) PROVE Goal
  <2>1. CASE Load(v) \/ Put(v)
    BY <1>4, <1>5, <2>1
  <2>2. CASE LoadFails(v) \/ PutFails(v)
    BY <1>3, <2>2 DEF LoadFails, PutFails, At
  <2>3. CASE Remove(v) \/ RemoveFails(v) \/ IncrementRetry(v) \/ IncrementFails(v)
    BY <1>3, <2>3 DEF Remove, RemoveFails, IncrementRetry, IncrementFails, At
  <2>4. CASE UploadPanics(v)
    BY <1>8, <2>4 DEF UploadPanics
  <2> QED
    BY <1>10, <2>1, <2>2, <2>3, <2>4 DEF Upload
<1>11. ASSUME StopOrCrash PROVE Goal
  BY <1>8, <1>11 DEF StopOrCrash
<1>12. ASSUME \A v \in Worker : ~Upload(v), ~Sweep, ~StopOrCrash,
              \A j \in Job : ~EnqueueAndUpload(j) /\ ~KillCommand(j)
       PROVE  Goal
  <2>1. UNCHANGED tasks
    BY <1>12 DEF Next, vars, Backup, ScheduledBackup, CommandBackup, PipelineFails, SaveOpen,
           SaveDone, SaveFails, FinishLocal, EnqueueFails, StartDaemon, SweepFails, User,
           ClearQueue, EditConfig, Cleanup, Clock, SecondPasses, MinutePasses
  <2> QED
    BY <1>2, <2>1
<1>13. Goal
  BY <1>6, <1>7, <1>9, <1>10, <1>11, <1>12
<1> QED
  BY <1>13 DEF Goal

-----------------------------------------------------------------------------
(* What the invariant gives for uploads.                                   *)

\* An upload of a name that one run has to itself is that run's: it has its key, and
\* at the put it reads its content and nothing else.
LEMMA OwnPut ==
  ASSUME TypeOK, TasksHaveRuns, FilesAreWhole, UploadsAreWhole,
         NEW w \in Worker, At(w, "put"),
         NEW j \in Job, jobs[j].reached = "queued", ~SharesName(j), tasks[w].name = NameFor(j)
  PROVE  KeyOf(tasks[w]) = KeyFor(j) /\ ReadBy(w) \subseteq {j}
<1>1. PICK k \in Job : /\ jobs[k].reached = "queued" /\ NameFor(k) = tasks[w].name
                       /\ jobs[k].created = tasks[w].created
  BY DEF TasksHaveRuns, Made, At
<1>2. k = j
  BY <1>1 DEF SharesName
<1>3. KeyOf(tasks[w]) = KeyFor(j)
  BY <1>1, <1>2 DEF KeyOf, KeyFor, NameFor
<1>4. tasks[w].content = j
  BY DEF UploadsAreWhole, At
<1>5. files[tasks[w].name] \in {j, NoFile}
  BY DEF FilesAreWhole
<1> QED
  BY <1>3, <1>4, <1>5 DEF ReadBy

\* What is in the bucket under the key of a run that shares neither name nor key
\* stays there.
LEMMA DeliveredStays ==
  ASSUME TypeOK, PhasesAgree, OwnUpload, TasksHaveRuns, FilesAreWhole, UploadsAreWhole,
         [Next]_vars,
         NEW j \in Job, jobs[j].reached = "queued", Delivered(j), ~SharesName(j), ~SharesKey(j)
  PROVE  Delivered(j)'
<1>1. KeyFor(j)' = KeyFor(j)
  BY StampsStay
<1>2. CASE UNCHANGED remote
  BY <1>1, <1>2 DEF Delivered
<1>3. ASSUME NEW w \in Worker, At(w, "put"), NEW c \in ReadBy(w),
             remote' = [remote EXCEPT ![KeyOf(tasks[w])] = c]
      PROVE  Delivered(j)'
  <2>1. KeyOf(tasks[w]) \in Key /\ remote \in [Key -> Content \cup {NoFile}]
    BY <1>3, TaskOf DEF At, TypeOK
  <2>2. CASE KeyOf(tasks[w]) # KeyFor(j)
    BY <1>1, <1>3, <2>2 DEF Delivered
  <2>3. CASE KeyOf(tasks[w]) = KeyFor(j)
    <3>1. PICK k \in Job : /\ jobs[k].reached = "queued" /\ NameFor(k) = tasks[w].name
                           /\ jobs[k].created = tasks[w].created
      BY <1>3 DEF TasksHaveRuns, Made, At
    <3>2. KeyFor(k) = KeyFor(j)
      BY <2>3, <3>1 DEF KeyOf, KeyFor, NameFor
    <3>3. k = j
      BY <3>1, <3>2 DEF SharesKey
    <3>4. c = j
      BY <1>3, <3>1, <3>3, OwnPut
    <3>5. remote'[KeyFor(j)] = j
      BY <1>3, <2>1, <2>3, <3>4
    <3> QED
      BY <1>1, <3>5 DEF Delivered
  <2> QED
    BY <2>2, <2>3
<1> QED
  BY <1>2, <1>3, BucketStep

\* A command comes to its end in cloud mode only by removing what it uploaded.
LEMMA SuccessStep ==
  ASSUME TypeOK, PhasesAgree, [Next]_vars, NEW j \in Job,
         jobs'[j].by = "cli", jobs'[j].mode = "s3", jobs'[j].pc = "ok"
  PROVE  \/ jobs[j].by = "cli" /\ jobs[j].mode = "s3" /\ jobs[j].pc = "ok"
         \/ Remove(j)
<1> DEFINE Goal == \/ jobs[j].by = "cli" /\ jobs[j].mode = "s3" /\ jobs[j].pc = "ok"
                  \/ Remove(j)
<1>1. jobs[j] \in Run /\ jobs \in [Job -> Run]
  BY DEF TypeOK
<1>2. ASSUME jobs'[j] = jobs[j] PROVE Goal
  BY <1>2
<1>3. ASSUME NEW k \in Job, NEW q, jobs' = [jobs EXCEPT ![k] = q],
             k = j => ~(q.by = "cli" /\ q.mode = "s3" /\ q.pc = "ok")
      PROVE  Goal
  <2>1. CASE k = j
    BY <1>1, <1>3, <2>1
  <2>2. CASE k # j
    <3>1. jobs'[j] = jobs[j]
      BY <1>1, <1>3, <2>2
    <3> QED
      BY <1>2, <3>1
  <2> QED
    BY <2>1, <2>2
<1>4. ASSUME NEW w \in Worker, Fail(w) \/ Finish(w, "failed") PROVE Goal
  <2>1. CASE w \in Slot
    BY <1>2, <1>4, <2>1 DEF Fail, Finish
  <2>2. CASE w \in Job
    <3> DEFINE q == [jobs[w] EXCEPT !.pc = "failed"]
    <3>1. jobs' = [jobs EXCEPT ![w] = q]
      BY <1>4, <2>2, ConstantsOK DEF Fail, Finish
    <3>2. q.pc = "failed"
      BY <1>1, <2>2 DEF Run
    <3> HIDE DEF q
    <3> QED
      BY <1>3, <2>2, <3>1, <3>2
  <2> QED
    BY <2>1, <2>2 DEF Worker
<1>5. ASSUME NEW w \in Worker, Remove(w) PROVE Goal
  <2>1. CASE w = j
    BY <1>5, <2>1
  <2>2. CASE w # j
    <3>1. jobs'[j] = jobs[j]
      BY <1>1, <1>5, <2>2 DEF Remove, Finish
    <3> QED
      BY <1>2, <3>1
  <2> QED
    BY <2>1, <2>2
<1>6. ASSUME Exit PROVE Goal
  <2>1. jobs'[j] = jobs[j] \/ jobs'[j] = [jobs[j] EXCEPT !.pc = "failed"]
    BY <1>6 DEF Exit
  <2> QED
    BY <1>1, <1>2, <2>1 DEF Run
<1> HIDE DEF Goal
<1>7. ASSUME NEW k \in Job, ScheduledBackup(k) \/ CommandBackup(k) PROVE Goal
  <2>1. PICK b, m, rw : Begin(k, b, m, rw)
    BY <1>7 DEF ScheduledBackup, CommandBackup
  <2> DEFINE q == [jobs[k] EXCEPT !.pc = "dumping", !.by = b, !.mode = m, !.rw = rw]
  <2>2. jobs' = [jobs EXCEPT ![k] = q]
    BY <2>1 DEF Begin
  <2>3. q.pc = "dumping"
    BY <1>1 DEF Run
  <2> HIDE DEF q
  <2> QED
    BY <1>3, <2>2, <2>3
<1>8. ASSUME NEW k \in Job,
             PipelineFails(k) \/ SaveFails(k) \/ EnqueueFails(k) \/ KillCommand(k)
      PROVE  Goal
  <2> DEFINE q == [jobs[k] EXCEPT !.pc = "failed"]
  <2>1. jobs' = [jobs EXCEPT ![k] = q]
    BY <1>8 DEF PipelineFails, SaveFails, EnqueueFails, KillCommand
  <2>2. q.pc = "failed"
    BY <1>1 DEF Run
  <2> HIDE DEF q
  <2> QED
    BY <1>3, <2>1, <2>2
<1>9. ASSUME NEW k \in Job, SaveOpen(k) PROVE Goal
  <2> DEFINE q == [jobs[k] EXCEPT !.pc = "saving", !.sec = now, !.reached = "named"]
  <2>1. jobs' = [jobs EXCEPT ![k] = q]
    BY <1>9 DEF SaveOpen
  <2>2. q.pc = "saving"
    BY <1>1 DEF Run
  <2> HIDE DEF q
  <2> QED
    BY <1>3, <2>1, <2>2
<1>10. ASSUME NEW k \in Job, SaveDone(k) PROVE Goal
  <2> DEFINE q == [jobs[k] EXCEPT !.pc = "saved", !.reached = "saved"]
  <2>1. jobs' = [jobs EXCEPT ![k] = q]
    BY <1>10 DEF SaveDone
  <2>2. q.pc = "saved"
    BY <1>1 DEF Run
  <2> HIDE DEF q
  <2> QED
    BY <1>3, <2>1, <2>2
<1>11. ASSUME NEW k \in Job, FinishLocal(k) PROVE Goal
  <2> DEFINE q == [jobs[k] EXCEPT !.pc = "ok"]
  <2>1. jobs' = [jobs EXCEPT ![k] = q]
    BY <1>11 DEF FinishLocal
  <2>2. q.mode = "local"
    BY <1>1, <1>11 DEF FinishLocal, Run
  <2> HIDE DEF q
  <2> QED
    BY <1>3, <2>1, <2>2
<1>12. ASSUME NEW k \in Job, EnqueueAndUpload(k) PROVE Goal
  <2>1. CASE jobs[k].by = "daemon"
    <3> DEFINE q == [jobs[k] EXCEPT !.pc = "ok", !.reached = "queued", !.created = now]
    <3>1. jobs' = [jobs EXCEPT ![k] = q]
      BY <1>12, <2>1 DEF EnqueueAndUpload
    <3>2. q.by = "daemon"
      BY <1>1, <2>1 DEF Run
    <3> HIDE DEF q
    <3> QED
      BY <1>3, <3>1, <3>2
  <2>2. CASE jobs[k].by # "daemon"
    <3> DEFINE q == [jobs[k] EXCEPT !.pc = "uploading", !.reached = "queued", !.created = now]
    <3>1. jobs' = [jobs EXCEPT ![k] = q]
      BY <1>12, <2>2 DEF EnqueueAndUpload
    <3>2. q.pc = "uploading"
      BY <1>1 DEF Run
    <3> HIDE DEF q
    <3> QED
      BY <1>3, <3>1, <3>2
  <2> QED
    BY <2>1, <2>2
<1>13. ASSUME NEW w \in Worker, Upload(w) PROVE Goal
  <2>1. CASE Load(w) \/ Put(w)
    BY <1>2, <2>1 DEF Load, Put
  <2>2. CASE LoadFails(w) \/ PutFails(w)
    BY <1>4, <2>2 DEF LoadFails, PutFails
  <2>3. CASE RemoveFails(w) \/ IncrementRetry(w) \/ IncrementFails(w)
    BY <1>4, <2>3 DEF RemoveFails, IncrementRetry, IncrementFails
  <2>4. CASE UploadPanics(w)
    BY <1>6, <2>4 DEF UploadPanics
  <2> QED
    BY <1>5, <1>13, <2>1, <2>2, <2>3, <2>4 DEF Upload
<1>14. ASSUME StopOrCrash PROVE Goal
  BY <1>6, <1>14 DEF StopOrCrash
<1>15. ASSUME StartDaemon \/ Sweep \/ SweepFails \/ User \/ Clock \/ UNCHANGED vars
       PROVE  Goal
  BY <1>2, <1>15 DEF StartDaemon, Sweep, SweepFails, User, ClearQueue, EditConfig, Cleanup,
                     Clock, SecondPasses, MinutePasses, vars
<1>16. Goal
  BY <1>7, <1>8, <1>9, <1>10, <1>11, <1>12, <1>13, <1>14, <1>15 DEF Next, Backup
<1> QED
  BY <1>16 DEF Goal

-----------------------------------------------------------------------------
(* The invariant.                                                          *)

\* Every step keeps the invariant of durability.
LEMMA DurableStep ==
  ASSUME TypeOK, Durable, [Next]_vars
  PROVE  Durable'
<1> USE DEF Durable
<1>1. PhasesAgree'
  BY RunsStep DEF Phase, PhasesAgree
<1>2. RowsHaveRuns'
  <2> SUFFICES ASSUME NEW n \in Name, queue'[n] # NoRow PROVE Made(n, queue[n].created)'
    BY DEF RowsHaveRuns
  <2>1. CASE queue[n] # NoRow /\ queue'[n].created = queue[n].created
    BY <2>1, StampsStay DEF RowsHaveRuns
  <2>2. ASSUME NEW j \in Job, EnqueueAndUpload(j), NameFor(j) = n, queue'[n] = NewRow(now)
        PROVE  Made(n, queue[n].created)'
    BY <2>2, Enqueued DEF Made, NewRow
  <2> QED
    BY <2>1, <2>2, RowsStep
<1>3. TasksHaveRuns'
  <2> SUFFICES ASSUME NEW w \in Worker, tasks'[w] # Idle
               PROVE  Made(tasks[w].name, tasks[w].created)'
    BY DEF TasksHaveRuns
  <2>1. CASE /\ tasks[w] # Idle
             /\ tasks'[w].name = tasks[w].name /\ tasks'[w].created = tasks[w].created
    BY <2>1, StampsStay DEF TasksHaveRuns
  <2>2. ASSUME NEW n \in Name, queue[n] # NoRow, tasks'[w] = NewTask(n, queue[n].created)
        PROVE  Made(tasks[w].name, tasks[w].created)'
    BY <2>2, StampsStay DEF RowsHaveRuns, NewTask
  <2>3. ASSUME NEW j \in Job, EnqueueAndUpload(j), tasks'[w] = NewTask(NameFor(j), now)
        PROVE  Made(tasks[w].name, tasks[w].created)'
    BY <2>3, Enqueued DEF Made, NewTask
  <2> QED
    BY <2>1, <2>2, <2>3, UploadsStep
<1>4. OwnUpload'
  <2> SUFFICES ASSUME NEW j \in Job, tasks'[j] # Idle
               PROVE  jobs'[j].reached = "queued" /\ tasks'[j].name = NameFor(j)'
    BY DEF OwnUpload
  <2>1. j \in Worker /\ j \notin Slot
    BY ConstantsOK DEF Worker
  <2>2. CASE tasks[j] # Idle /\ tasks'[j].name = tasks[j].name
    BY <2>2, StampsStay, RunsStep DEF OwnUpload, Further
  <2>3. ASSUME NEW k \in Job, EnqueueAndUpload(k), j \in Slot \cup {k},
               tasks'[j] = NewTask(NameFor(k), now)
        PROVE  jobs'[j].reached = "queued" /\ tasks'[j].name = NameFor(j)'
    BY <2>1, <2>3, Enqueued DEF NewTask
  <2> QED
    BY <2>1, <2>2, <2>3, UploadsStep
<1>5. FilesAreWhole'
  <2> SUFFICES ASSUME NEW j \in Job, jobs'[j].reached \in {"saved", "queued"}, ~SharesName(j)'
               PROVE  \/ files'[NameFor(j)'] = j
                      \/ files'[NameFor(j)'] = NoFile /\ NameFor(j)' \in cleaned'
    BY DEF FilesAreWhole
  <2>1. CASE jobs[j].reached \in {"saved", "queued"}
    <3> DEFINE n == NameFor(j)
    <3>1. ~SharesName(j) /\ NameFor(j)' = n /\ n \in Name
      BY <2>1, StampsStay, Names DEF TypeOK, Run, NameFor
    <3>2. files[n] = j \/ (files[n] = NoFile /\ n \in cleaned)
      BY <2>1, <3>1 DEF FilesAreWhole
    <3>3. CASE files'[n] = files[n]
      BY <3>1, <3>2, <3>3, HistoryStep
    <3>4. ASSUME NEW k \in Job, SaveOpen(k), n = <<DbOf[k], now>> PROVE FALSE
      <4>1. k # j
        BY <2>1, <3>4 DEF SaveOpen, PhasesAgree
      <4>2. jobs'[k].reached = "named" /\ NameFor(k)' = n
        BY <3>4 DEF SaveOpen, TypeOK, Run, NameFor
      <4> QED
        BY <3>1, <4>1, <4>2 DEF SharesName
    <3>5. ASSUME NEW k \in Job, SaveDone(k) \/ SaveFails(k), n = NameFor(k) PROVE FALSE
      <4>1. jobs[k].reached = "named"
        BY <3>5 DEF SaveDone, SaveFails, PhasesAgree
      <4> QED
        BY <2>1, <3>1, <3>5, <4>1 DEF SharesName
    <3>6. CASE files'[n] = NoFile /\ n \in cleaned'
      BY <3>1, <3>6
    <3> QED
      BY <3>1, <3>3, <3>4, <3>5, <3>6, FilesStep
  <2>2. CASE jobs[j].reached \notin {"saved", "queued"}
    <3>1. SaveDone(j)
      BY <2>2, StagesStep
    <3>2. jobs[j].reached = "named"
      BY <3>1 DEF SaveDone, PhasesAgree
    <3>3. ~SharesName(j) /\ NameFor(j)' = NameFor(j) /\ NameFor(j) \in Name
      BY <3>2, StampsStay, Names DEF TypeOK, Run, NameFor
    <3>4. files'[NameFor(j)] = j
      <4>1. Written(j) = {j}
        BY <3>3 DEF Written
      <4> QED
        BY <3>1, <3>3, <4>1 DEF SaveDone, TypeOK
    <3> QED
      BY <3>3, <3>4
  <2> QED
    BY <2>1, <2>2
<1>6. UploadsAreWhole'
  <2> SUFFICES ASSUME NEW j \in Job, NEW w \in Worker,
                      jobs'[j].reached = "queued", ~SharesName(j)',
                      tasks'[w] # Idle, tasks'[w].name = NameFor(j)'
               PROVE  /\ tasks'[w].pc = "put" => tasks'[w].content = j
                      /\ tasks'[w].pc = "remove" => Delivered(j)' \/ SharesKey(j)'
    BY DEF UploadsAreWhole
  <2>1. CASE \E n, t : tasks'[w] = NewTask(n, t)
    BY <2>1 DEF NewTask
  <2>2. ASSUME tasks[w] # Idle, tasks'[w].name = tasks[w].name
        PROVE  /\ jobs[j].reached = "queued" /\ ~SharesName(j)
               /\ tasks[w].name = NameFor(j)
    <3>1. ASSUME EnqueueAndUpload(j) PROVE FALSE
      <4>1. PICK k \in Job : jobs[k].reached = "queued" /\ NameFor(k) = tasks[w].name
        BY <2>2 DEF TasksHaveRuns, Made
      <4>2. jobs[j].reached = "saved" /\ NameFor(j)' = NameFor(j)
        BY <3>1, Enqueued DEF PhasesAgree
      <4>3. SharesName(j)
        BY <2>2, <4>1, <4>2 DEF SharesName
      <4> QED
        BY <4>2, <4>3, StampsStay
    <3>2. jobs[j].reached = "queued"
      BY <3>1, StagesStep
    <3> QED
      BY <2>2, <3>2, StampsStay
  <2>3. CASE tasks[w] # Idle /\ tasks'[w] = tasks[w]
    <3>1. /\ tasks[w].pc = "put" => tasks[w].content = j
          /\ tasks[w].pc = "remove" => Delivered(j) \/ SharesKey(j)
      BY <2>2, <2>3 DEF UploadsAreWhole
    <3>2. SharesKey(j) => SharesKey(j)'
      BY <2>2, <2>3, StampsStay
    <3>3. Delivered(j) /\ ~SharesKey(j) => Delivered(j)'
      BY <2>2, <2>3, DeliveredStays
    <3> QED
      BY <2>3, <3>1, <3>2, <3>3
  <2>4. CASE tasks[w] # Idle /\ tasks'[w].pc = "count"
    BY <2>4
  <2>5. CASE /\ Load(w) /\ tasks'[w].name = tasks[w].name
             /\ tasks'[w].pc = "put" /\ tasks'[w].content = files[tasks[w].name]
    BY <2>2, <2>5 DEF Load, At, FilesAreWhole
  <2>6. CASE Put(w) /\ tasks'[w].name = tasks[w].name /\ tasks'[w].pc = "remove"
    <3>1. jobs[j].reached = "queued" /\ ~SharesName(j) /\ tasks[w].name = NameFor(j)
      BY <2>2, <2>6 DEF Put, At
    <3>2. KeyOf(tasks[w]) = KeyFor(j) /\ ReadBy(w) \subseteq {j}
      BY <2>6, <3>1, OwnPut DEF Put
    <3>3. KeyOf(tasks[w]) \in Key
      BY <2>6, TaskOf DEF Put, At
    <3>4. remote'[KeyFor(j)] = j
      BY <2>6, <3>2, <3>3 DEF Put, TypeOK
    <3> QED
      BY <2>6, <3>1, <3>4, StampsStay DEF Delivered
  <2> QED
    BY <2>1, <2>3, <2>4, <2>5, <2>6, UploadsStep
<1>7. QueuedOrDelivered'
  <2> SUFFICES ASSUME NEW j \in Job, jobs'[j].reached = "queued", ~Queued(j)',
                      NameFor(j)' \notin cleared', ~SharesName(j)', ~SharesKey(j)'
               PROVE  Delivered(j)'
    BY DEF QueuedOrDelivered
  <2>1. ~EnqueueAndUpload(j)
    <3>1. NewRow(now) # NoRow
      BY RowSteps, NullsOK DEF TypeOK
    <3> QED
      BY <3>1, Enqueued DEF Queued
  <2>2. jobs[j].reached = "queued"
    BY <2>1, StagesStep
  <2>3. /\ NameFor(j)' = NameFor(j) /\ NameFor(j) \in Name
        /\ ~SharesName(j) /\ ~SharesKey(j) /\ NameFor(j) \notin cleared
    BY <2>2, StampsStay, HistoryStep, Names DEF TypeOK, Run, NameFor
  <2>4. Delivered(j)
    <3>1. CASE Queued(j)
      <4>1. PICK w \in Worker : Remove(w) /\ tasks[w].name = NameFor(j)
        BY <2>3, <3>1, RowsStep DEF Queued
      <4> QED
        BY <2>2, <2>3, <4>1 DEF UploadsAreWhole, Remove, At
    <3>2. CASE ~Queued(j)
      BY <2>2, <2>3, <3>2 DEF QueuedOrDelivered
    <3> QED
      BY <3>1, <3>2
  <2> QED
    BY <2>2, <2>3, <2>4, DeliveredStays
<1>8. BucketHoldsBackups'
  <2> SUFFICES ASSUME NEW k \in Key, remote'[k] # NoFile
               PROVE  \E j \in Job : /\ jobs'[j].reached = "queued" /\ KeyFor(j)' = k
                                     /\ Delivered(j)' \/ SharesName(j)'
    BY DEF BucketHoldsBackups
  <2>1. CASE remote'[k] = remote[k]
    <3>1. PICK j \in Job : /\ jobs[j].reached = "queued" /\ KeyFor(j) = k
                           /\ Delivered(j) \/ SharesName(j)
      BY <2>1 DEF BucketHoldsBackups
    <3>2. jobs'[j].reached = "queued" /\ KeyFor(j)' = k
      BY <3>1, StampsStay, RunsStep DEF Further
    <3>3. Delivered(j) => Delivered(j)'
      BY <2>1, <3>1, <3>2 DEF Delivered
    <3>4. SharesName(j) => SharesName(j)'
      BY <3>1, StampsStay
    <3> QED
      BY <3>1, <3>2, <3>3, <3>4
  <2>2. CASE remote'[k] # remote[k]
    <3>0. PICK w \in Worker :
            /\ At(w, "put")
            /\ \E c \in ReadBy(w) : remote' = [remote EXCEPT ![KeyOf(tasks[w])] = c]
      BY <2>2, BucketStep
    <3>1. PICK c \in ReadBy(w) :
            At(w, "put") /\ remote' = [remote EXCEPT ![KeyOf(tasks[w])] = c]
      BY <3>0
    <3>2. k = KeyOf(tasks[w]) /\ remote'[k] = c
      BY <2>2, <3>1 DEF TypeOK
    <3>3. PICK j \in Job : /\ jobs[j].reached = "queued" /\ NameFor(j) = tasks[w].name
                           /\ jobs[j].created = tasks[w].created
      BY <3>1 DEF TasksHaveRuns, Made, At
    <3>4. KeyFor(j) = k
      BY <3>2, <3>3 DEF KeyOf, KeyFor, NameFor
    <3>5. jobs'[j].reached = "queued" /\ KeyFor(j)' = k
      BY <3>3, <3>4, StampsStay, RunsStep DEF Further
    <3>6. ~SharesName(j) => c = j
      BY <3>1, <3>3, OwnPut
    <3>7. SharesName(j) => SharesName(j)'
      BY <3>3, StampsStay
    <3> QED
      BY <3>2, <3>5, <3>6, <3>7 DEF Delivered
  <2> QED
    BY <2>1, <2>2
<1>9. SuccessIsDelivered'
  <2> SUFFICES ASSUME NEW j \in Job,
                      jobs'[j].by = "cli", jobs'[j].mode = "s3", jobs'[j].pc = "ok",
                      ~SharesName(j)', ~SharesKey(j)'
               PROVE  Delivered(j)'
    BY DEF SuccessIsDelivered
  <2>1. jobs[j].reached = "queued"
    <3>1. CASE jobs[j].mode = "s3" /\ jobs[j].pc = "ok"
      BY <3>1 DEF PhasesAgree
    <3>2. CASE Remove(j)
      BY <3>2 DEF Remove, At, OwnUpload
    <3> QED
      BY <3>1, <3>2, SuccessStep
  <2>2. ~SharesName(j) /\ ~SharesKey(j)
    BY <2>1, StampsStay
  <2>3. Delivered(j)
    <3>1. CASE jobs[j].by = "cli" /\ jobs[j].mode = "s3" /\ jobs[j].pc = "ok"
      BY <2>2, <3>1 DEF SuccessIsDelivered
    <3>2. CASE Remove(j)
      BY <2>1, <2>2, <3>2 DEF Remove, At, OwnUpload, UploadsAreWhole, Worker
    <3> QED
      BY <3>1, <3>2, SuccessStep
  <2> QED
    BY <2>1, <2>2, <2>3, DeliveredStays
<1> QED
  BY <1>1, <1>2, <1>3, <1>4, <1>5, <1>6, <1>7, <1>8, <1>9

\* The invariant of durability holds in every state the program reaches.
THEOREM DurableInvariant == Spec => []Durable
<1>1. Init => Durable
  <2> SUFFICES ASSUME Init PROVE Durable
    OBVIOUS
  <2>1. \A j \in Job : jobs[j] = Fresh
    BY DEF Init
  <2>2. PhasesAgree
    BY <2>1 DEF PhasesAgree, Fresh
  <2>3. /\ \A n \in Name : queue[n] = NoRow
        /\ \A w \in Worker : tasks[w] = Idle
        /\ \A k \in Key : remote[k] = NoFile
    BY DEF Init
  <2>4. \A j \in Job : j \in Worker
    BY DEF Worker
  <2>5. RowsHaveRuns /\ TasksHaveRuns /\ OwnUpload /\ BucketHoldsBackups
    BY <2>3, <2>4 DEF RowsHaveRuns, TasksHaveRuns, OwnUpload, BucketHoldsBackups
  <2>6. FilesAreWhole /\ UploadsAreWhole /\ QueuedOrDelivered /\ SuccessIsDelivered
    BY <2>1 DEF FilesAreWhole, UploadsAreWhole, QueuedOrDelivered, SuccessIsDelivered, Fresh
  <2> QED
    BY <2>2, <2>5, <2>6 DEF Durable
<1> QED
  BY <1>1, DurableStep, TypeInvariant, PTL DEF Spec

\* What was enqueued is in the queue until it is in the bucket.
THEOREM QueuedOrDeliveredTheorem == Spec => []QueuedOrDelivered
BY DurableInvariant, PTL DEF Durable

\* The bucket holds whole backups, each under its first attempt's key.
THEOREM BucketTheorem == Spec => []BucketHoldsBackups
BY DurableInvariant, PTL DEF Durable

\* A command that reports a cloud backup as done has it in the bucket.
THEOREM SuccessTheorem == Spec => []SuccessIsDelivered
BY DurableInvariant, PTL DEF Durable

\* A saved file stays whole until the user cleans it up.
THEOREM LocalCopyTheorem == Spec => []LocalCopyStays
<1>1. Durable => LocalCopyStays
  BY DEF Durable, FilesAreWhole, LocalCopyStays
<1> QED
  BY <1>1, DurableInvariant, PTL

\* What reached the bucket stays there, whatever duplicate uploads still do.
THEOREM DeliveredForGoodTheorem == Spec => DeliveredForGood
<1>1. TypeOK /\ Durable /\ [Next]_vars =>
        [\A j \in Job : jobs[j].reached = "queued" /\ Delivered(j) =>
           Delivered(j)' \/ SharesName(j)' \/ SharesKey(j)']_vars
  <2> SUFFICES ASSUME TypeOK, Durable, [Next]_vars,
                      NEW j \in Job, jobs[j].reached = "queued", Delivered(j),
                      ~SharesName(j)', ~SharesKey(j)'
               PROVE  Delivered(j)'
    OBVIOUS
  <2> QED
    BY StampsStay, DeliveredStays DEF Durable
<1> QED
  BY <1>1, TypeInvariant, DurableInvariant, PTL DEF Spec, DeliveredForGood

\* A row that was removed never comes back.
THEOREM SettledStaysSettledTheorem == Spec => SettledStaysSettled
<1>1. TypeOK /\ Durable /\ [Next]_vars =>
        [\A j \in Job : jobs[j].reached = "queued" /\ ~Queued(j) =>
           ~Queued(j)' \/ SharesName(j)']_vars
  <2> SUFFICES ASSUME TypeOK, Durable, [Next]_vars,
                      NEW j \in Job, jobs[j].reached = "queued", ~Queued(j), Queued(j)'
               PROVE  SharesName(j)'
    OBVIOUS
  <2>1. NameFor(j)' = NameFor(j) /\ NameFor(j) \in Name
    BY StampsStay, Names DEF Durable, TypeOK, Run, NameFor
  <2>2. PICK k \in Job : EnqueueAndUpload(k) /\ NameFor(k) = NameFor(j)
    BY <2>1, RowsStep DEF Queued
  <2>3. k # j /\ jobs'[k].reached = "queued" /\ NameFor(k)' = NameFor(j)'
    BY <2>1, <2>2, Enqueued DEF Durable
  <2> QED
    BY <2>3 DEF SharesName
<1> QED
  BY <1>1, TypeInvariant, DurableInvariant, PTL DEF Spec, SettledStaysSettled

-----------------------------------------------------------------------------
(* The promise.  BackupAgent implements Delivery: for backups that have    *)
(* their name and key to themselves the queue keeps it, and those that     *)
(* collide become disputed without touching the others.                    *)

\* The variables of Delivery.
Accepted == {j \in Job : Undisputed(j)}
Owed     == {j \in Job : Undisputed(j) /\ Queued(j)}
Supplied == {j \in Job : Undisputed(j) /\ Delivered(j)}
Forgiven == {j \in Job : Undisputed(j) /\ NameFor(j) \in cleared}
Disputed == {j \in Job : jobs[j].reached = "queued" /\ ~Undisputed(j)}

\* A backup stays disputed; one is accepted when it is enqueued, and is then accepted or
\* disputed for good, under one name and one key.
LEMMA AcceptedStep ==
  ASSUME TypeOK, Durable, [Next]_vars, NEW j \in Job
  PROVE  /\ Undisputed(j)' => Undisputed(j) \/ EnqueueAndUpload(j)
         /\ Undisputed(j) => Undisputed(j)' \/ j \in Disputed'
         /\ j \in Disputed => j \in Disputed'
         /\ jobs[j].reached = "queued" =>
              NameFor(j) \in Name /\ NameFor(j)' = NameFor(j) /\ KeyFor(j)' = KeyFor(j)
<1> USE DEF Durable
<1>1. jobs'[j].reached = "queued" => jobs[j].reached = "queued" \/ EnqueueAndUpload(j)
  BY StagesStep
<1>2. jobs[j].reached = "queued" => jobs'[j].reached = "queued"
  BY RunsStep DEF Further
<1>3. jobs[j].reached = "queued" =>
        /\ NameFor(j)' = NameFor(j) /\ KeyFor(j)' = KeyFor(j)
        /\ SharesName(j) => SharesName(j)'
        /\ SharesKey(j) => SharesKey(j)'
  BY StampsStay
<1>4. NameFor(j) \in Name
  BY Names DEF TypeOK, Run, NameFor
<1> QED
  BY <1>1, <1>2, <1>3, <1>4 DEF Undisputed, Disputed

\* Who shares a name or a key changes only when a run stamps one.
LEMMA DisputesSame ==
  ASSUME TypeOK, Durable, [Next]_vars,
         \A j \in Job : ~SaveOpen(j) /\ ~EnqueueAndUpload(j)
  PROVE  Accepted' = Accepted /\ Disputed' = Disputed
<1> USE DEF Durable
<1>1. \A j \in Job : jobs'[j].reached = "queued" <=> jobs[j].reached = "queued"
  BY StagesStep, RunsStep DEF Further
<1>2. \A j \in Job : jobs'[j].reached # "new" <=> jobs[j].reached # "new"
  BY RunsStep DEF Further, NextStage, SaveDone, PhasesAgree
<1>3. \A j \in Job : jobs[j].reached # "new" => NameFor(j)' = NameFor(j)
  BY StampsStay
<1>4. \A j \in Job : jobs[j].reached = "queued" => KeyFor(j)' = KeyFor(j)
  BY StampsStay
<1>5. \A j \in Job : jobs[j].reached = "queued" => (SharesName(j)' <=> SharesName(j))
  BY <1>2, <1>3 DEF SharesName
<1>6. \A j \in Job : jobs[j].reached = "queued" => (SharesKey(j)' <=> SharesKey(j))
  BY <1>1, <1>4 DEF SharesKey
<1>7. \A j \in Job : Undisputed(j)' <=> Undisputed(j)
  BY <1>1, <1>5, <1>6 DEF Undisputed
<1> QED
  BY <1>1, <1>7 DEF Accepted, Disputed

\* A step that accepts nobody and leaves the others as they were is a collision or a stutter.
LEMMA QuietStep ==
  ASSUME TypeOK, Durable, [Next]_vars,
         \A j \in Job : Undisputed(j)' =>
            /\ Undisputed(j)
            /\ Queued(j)' <=> Queued(j)
            /\ Delivered(j)' <=> Delivered(j)
            /\ (NameFor(j) \in cleared)' <=> NameFor(j) \in cleared
  PROVE  [Promise!Collide]_(Promise!vars)
<1> USE DEF Accepted, Owed, Supplied, Forgiven
<1>1. Disputed \subseteq Disputed' /\ Disputed' \subseteq Job
  BY AcceptedStep DEF Disputed
<1>2. \A j \in Job : Undisputed(j)' <=> Undisputed(j) /\ j \notin Disputed'
  BY AcceptedStep DEF Disputed
<1>3. Accepted' = Accepted \ Disputed' /\ Owed' = Owed \ Disputed'
  BY <1>2
<1>4. Supplied' = Supplied \ Disputed' /\ Forgiven' = Forgiven \ Disputed'
  BY <1>2
<1>5. \A j \in Disputed : ~Undisputed(j)
  BY DEF Disputed
<1>6. CASE Disputed' = Disputed
  <2>1. Accepted' = Accepted /\ Owed' = Owed /\ Supplied' = Supplied /\ Forgiven' = Forgiven
    BY <1>3, <1>4, <1>5, <1>6
  <2> QED
    BY <1>6, <2>1 DEF Promise!vars, Disputed
<1>7. CASE Disputed' # Disputed
  BY <1>1, <1>3, <1>4, <1>7 DEF Promise!Collide, Disputed
<1> QED
  BY <1>6, <1>7

\* Only `queue clear` takes names out of the queue for the user.
LEMMA ClearedStays == ASSUME [Next]_vars, ~ClearQueue PROVE UNCHANGED cleared
  BY DEF Next, vars, Backup, ScheduledBackup, CommandBackup, PipelineFails, SaveOpen, SaveDone,
         SaveFails, FinishLocal, EnqueueAndUpload, EnqueueFails, KillCommand, Upload, Load,
         LoadFails, Put, PutFails, UploadPanics, Remove, RemoveFails, IncrementRetry,
         IncrementFails, StartDaemon, Sweep, SweepFails, StopOrCrash, User,
         EditConfig, Cleanup, Clock, SecondPasses, MinutePasses

\* What it takes out was put there by a run.
ClearedHaveRuns == \A n \in cleared : \E j \in Job : jobs[j].reached = "queued" /\ NameFor(j) = n

LEMMA ClearedStep ==
  ASSUME TypeOK, Durable, ClearedHaveRuns, [Next]_vars
  PROVE  ClearedHaveRuns'
<1> USE DEF Durable
<1>1. \A j \in Job : jobs[j].reached = "queued" =>
        jobs'[j].reached = "queued" /\ NameFor(j)' = NameFor(j)
  BY RunsStep, StampsStay DEF Further
<1>2. cleared' \subseteq cleared \cup {n \in Name : queue[n] # NoRow}
  BY ClearedStays DEF ClearQueue
<1>3. \A n \in cleared' : \E j \in Job : jobs[j].reached = "queued" /\ NameFor(j) = n
  BY <1>2 DEF ClearedHaveRuns, RowsHaveRuns, Made
<1> QED
  BY <1>1, <1>3 DEF ClearedHaveRuns

\* Enqueueing a backup changes nothing of those it does not share a name with.
LEMMA OthersStay ==
  ASSUME TypeOK, Durable, [Next]_vars, NEW j \in Job, EnqueueAndUpload(j),
         NEW k \in Job \ {j}, Undisputed(k)'
  PROVE  /\ Undisputed(k)
         /\ Queued(k)' <=> Queued(k)
         /\ Delivered(k)' <=> Delivered(k)
         /\ (NameFor(k) \in cleared)' <=> NameFor(k) \in cleared
<1> USE DEF Durable
<1>1. jobs'[k] = jobs[k] /\ NameFor(k)' = NameFor(k) /\ KeyFor(k)' = KeyFor(k)
  BY DEF EnqueueAndUpload, TypeOK, NameFor, KeyFor
<1>2. jobs[k].reached = "queued"
  BY <1>1 DEF Undisputed
<1>3. Undisputed(k)
  BY <1>2, AcceptedStep DEF Disputed, Undisputed
<1>4. jobs'[j].reached # "new" /\ NameFor(j)' = NameFor(j) /\ NameFor(j) \in Name
  BY Enqueued, Names DEF TypeOK, Run, NameFor
<1>5. NameFor(k) # NameFor(j)
  BY <1>1, <1>4 DEF Undisputed, SharesName
<1>6. NameFor(k) \in Name /\ queue'[NameFor(k)] = queue[NameFor(k)]
  BY <1>2, <1>4, <1>5, AcceptedStep DEF EnqueueAndUpload, Enqueue, TypeOK
<1>7. UNCHANGED <<remote, cleared>>
  BY DEF EnqueueAndUpload
<1> QED
  BY <1>1, <1>3, <1>6, <1>7 DEF Queued, Delivered

\* A run with a name and a key of its own is accepted when it is enqueued.
LEMMA EnqueueAccepts ==
  ASSUME TypeOK, Durable, ClearedHaveRuns, [Next]_vars,
         NEW j \in Job, EnqueueAndUpload(j), Undisputed(j)'
  PROVE  /\ j \notin Accepted /\ j \notin Disputed
         /\ Accepted' = Accepted \cup {j} /\ Owed' = Owed \cup {j}
         /\ Supplied' = Supplied /\ Forgiven' = Forgiven /\ Disputed' = Disputed
<1> USE DEF Durable
<1>1. /\ jobs[j].reached # "queued" /\ jobs'[j].reached = "queued" /\ NameFor(j)' = NameFor(j)
      /\ jobs[j].reached # "new"
      /\ queue'[NameFor(j)] = NewRow(now) /\ NewRow(now) # NoRow
  BY Enqueued, RowSteps, NullsOK DEF TypeOK, PhasesAgree
<1>2. \A k \in Job \ {j} : jobs'[k] = jobs[k] /\ NameFor(k)' = NameFor(k) /\ KeyFor(k)' = KeyFor(k)
  BY DEF EnqueueAndUpload, TypeOK, NameFor, KeyFor
<1>3. UNCHANGED <<remote, cleared>>
  BY DEF EnqueueAndUpload
<1>4. \A k \in Job \ {j} : jobs[k].reached # "new" => NameFor(k) # NameFor(j)
  BY <1>1, <1>2 DEF Undisputed, SharesName
<1>5. \A k \in Job \ {j} : jobs[k].reached = "queued" => KeyFor(k) # KeyFor(j)'
  BY <1>2 DEF Undisputed, SharesKey
<1>6. \A k \in Job \ {j} : jobs[k].reached = "queued" =>
        (SharesName(k)' <=> SharesName(k)) /\ (SharesKey(k)' <=> SharesKey(k))
  <2> SUFFICES ASSUME NEW k \in Job \ {j}, jobs[k].reached = "queued"
               PROVE  (SharesName(k)' <=> SharesName(k)) /\ (SharesKey(k)' <=> SharesKey(k))
    OBVIOUS
  <2>1. SharesName(k)' <=> SharesName(k)
    BY <1>1, <1>2, <1>4 DEF SharesName
  <2>2. SharesKey(k)' <=> SharesKey(k)
    BY <1>1, <1>2, <1>5 DEF SharesKey
  <2> QED
    BY <2>1, <2>2
<1>7. \A k \in Job \ {j} : Undisputed(k)' <=> Undisputed(k)
  BY <1>2, <1>6 DEF Undisputed
<1>8. j \notin Accepted /\ j \notin Disputed
  BY <1>1 DEF Accepted, Disputed, Undisputed
<1>9. Accepted' = Accepted \cup {j}
  BY <1>7 DEF Accepted
<1>10. Disputed' = Disputed
  BY <1>1, <1>2, <1>7, <1>8 DEF Disputed
<1>11. \A k \in Job \ {j} : Undisputed(k)' =>
         /\ Queued(k)' <=> Queued(k)
         /\ Delivered(k)' <=> Delivered(k)
         /\ (NameFor(k) \in cleared)' <=> NameFor(k) \in cleared
  BY OthersStay
<1>12. Owed' = Owed \cup {j}
  BY <1>1, <1>7, <1>11 DEF Owed, Queued
<1>13. ~Delivered(j)'
  <2> SUFFICES ASSUME remote[KeyFor(j)'] = j PROVE FALSE
    BY <1>3 DEF Delivered
  <2>1. KeyFor(j)' \in Key
    BY ConstantsOK, Enqueued DEF KeyFor, Key, TypeOK
  <2>2. j # NoFile
    BY Contents
  <2>3. PICK k \in Job : jobs[k].reached = "queued" /\ KeyFor(k) = KeyFor(j)'
    BY <2>1, <2>2 DEF BucketHoldsBackups
  <2> QED
    BY <1>1, <1>5, <2>3
<1>14. Supplied' = Supplied
  BY <1>7, <1>8, <1>11, <1>13 DEF Supplied, Accepted
<1>15. NameFor(j) \notin cleared
  BY <1>1, <1>4 DEF ClearedHaveRuns
<1>16. Forgiven' = Forgiven
  BY <1>1, <1>3, <1>7, <1>8, <1>11, <1>15 DEF Forgiven, Accepted
<1> QED
  BY <1>8, <1>9, <1>10, <1>12, <1>14, <1>16

\* An enqueue is an acceptance or a collision.
LEMMA EnqueuePromise ==
  ASSUME TypeOK, Durable, ClearedHaveRuns, [Next]_vars, NEW j \in Job, EnqueueAndUpload(j)
  PROVE  Promise!Accept(j) \/ [Promise!Collide]_(Promise!vars)
<1>1. CASE Undisputed(j)'
  BY <1>1, EnqueueAccepts
  DEF Accepted, Owed, Supplied, Forgiven, Disputed, Promise!Accept
<1>2. CASE ~Undisputed(j)'
  BY <1>2, OthersStay, QuietStep
<1> QED
  BY <1>1, <1>2

\* An upload that reaches the bucket delivers its run, or touches disputed ones only.
LEMMA PutDelivers ==
  ASSUME TypeOK, Durable, [Next]_vars, remote' # remote,
         ~ClearQueue, \A j \in Job : ~EnqueueAndUpload(j), \A w \in Worker : ~Remove(w),
         NEW w \in Worker, At(w, "put"),
         NEW c \in ReadBy(w), remote' = [remote EXCEPT ![KeyOf(tasks[w])] = c]
  PROVE  (\E j \in Job : Promise!Deliver(j)) \/ [Promise!Collide]_(Promise!vars)
<1> USE DEF Durable
<1>1. PICK j \in Job : /\ jobs[j].reached = "queued" /\ NameFor(j) = tasks[w].name
                       /\ jobs[j].created = tasks[w].created
  BY DEF TasksHaveRuns, Made, At
<1>2. KeyOf(tasks[w]) = KeyFor(j) /\ KeyFor(j) \in Key
  BY <1>1, TaskOf DEF At, KeyOf, KeyFor, NameFor
<1>3. \A k \in Job : ~SaveOpen(k)
  BY DEF SaveOpen
<1>4. Accepted' = Accepted /\ Disputed' = Disputed
  BY <1>3, DisputesSame
<1>5. \A k \in Job : Undisputed(k)' <=> Undisputed(k)
  BY <1>4 DEF Accepted
<1>6. \A k \in Accepted : /\ NameFor(k) \in Name /\ NameFor(k)' = NameFor(k)
                          /\ KeyFor(k)' = KeyFor(k)
  BY AcceptedStep DEF Accepted, Undisputed
<1>7. \A n \in Name : queue'[n] = NoRow <=> queue[n] = NoRow
  BY RowsStep
<1>8. \A k \in Accepted : Queued(k)' <=> Queued(k)
  BY <1>6, <1>7 DEF Queued
<1>9. UNCHANGED cleared
  BY ClearedStays
<1>10. \A k \in Accepted \ {j} : Delivered(k)' <=> Delivered(k)
  <2> SUFFICES ASSUME NEW k \in Accepted \ {j} PROVE Delivered(k)' <=> Delivered(k)
    OBVIOUS
  <2>1. KeyFor(k) # KeyFor(j)
    BY <1>1 DEF Accepted, Undisputed, SharesKey
  <2>2. remote'[KeyFor(k)] = remote[KeyFor(k)]
    BY <1>2, <2>1 DEF TypeOK
  <2> QED
    BY <1>6, <2>2 DEF Delivered
<1>11. CASE Undisputed(j)
  <2>1. c = j
    BY <1>1, <1>11, OwnPut DEF Undisputed
  <2>2. Delivered(j)'
    BY <1>2, <1>6, <1>11, <2>1 DEF Delivered, TypeOK, Accepted
  <2>3. Owed' = Owed /\ Forgiven' = Forgiven
    BY <1>5, <1>6, <1>8, <1>9 DEF Owed, Forgiven, Accepted
  <2>4. Supplied' = Supplied \cup {j}
    BY <1>5, <1>10, <1>11, <2>2 DEF Supplied, Accepted
  <2> QED
    BY <1>4, <1>11, <2>3, <2>4
    DEF Promise!Deliver, Accepted, Owed, Supplied, Forgiven, Disputed
<1>12. CASE ~Undisputed(j)
  <2>1. \A k \in Job : Undisputed(k)' =>
          /\ Undisputed(k)
          /\ Queued(k)' <=> Queued(k)
          /\ Delivered(k)' <=> Delivered(k)
          /\ (NameFor(k) \in cleared)' <=> NameFor(k) \in cleared
    BY <1>5, <1>6, <1>8, <1>9, <1>10, <1>12 DEF Accepted
  <2> QED
    BY <2>1, QuietStep
<1> QED
  BY <1>11, <1>12

\* A removal settles what was delivered, or touches disputed backups only.
LEMMA RemoveSettles ==
  ASSUME TypeOK, Durable, [Next]_vars, NEW w \in Worker, Remove(w)
  PROVE  (\E j \in Job : Promise!Settle(j)) \/ [Promise!Collide]_(Promise!vars)
<1> USE DEF Durable
<1>1. PICK j \in Job : /\ jobs[j].reached = "queued" /\ NameFor(j) = tasks[w].name
                       /\ jobs[j].created = tasks[w].created
  BY DEF TasksHaveRuns, Made, Remove, At
<1>2. UNCHANGED <<remote, cleared>> /\ queue' = [queue EXCEPT ![NameFor(j)] = NoRow]
  BY <1>1 DEF Remove
<1>3. \A k \in Job : jobs'[k].reached = jobs[k].reached
  <2> SUFFICES ASSUME NEW k \in Job PROVE jobs'[k].reached = jobs[k].reached
    OBVIOUS
  <2>1. CASE w \in Slot
    BY <2>1 DEF Remove, Finish
  <2>2. CASE w \notin Slot
    <3>1. jobs' = [jobs EXCEPT ![w] = [@ EXCEPT !.pc = "ok"]]
      BY <2>2 DEF Remove, Finish
    <3>2. [jobs[k] EXCEPT !.pc = "ok"].reached = jobs[k].reached
      BY DEF TypeOK, Run
    <3> QED
      BY <3>1, <3>2 DEF TypeOK
  <2> QED
    BY <2>1, <2>2
<1>4. \A k \in Job : ~EnqueueAndUpload(k)
  BY <1>3, Enqueued
<1>5. \A k \in Job : ~SaveOpen(k)
  <2> SUFFICES ASSUME NEW k \in Job, SaveOpen(k) PROVE FALSE
    OBVIOUS
  <2>1. jobs[k].reached = "new" /\ jobs'[k].reached = "named"
    BY DEF SaveOpen, PhasesAgree, TypeOK, Run
  <2> QED
    BY <1>3, <2>1
<1>6. Accepted' = Accepted /\ Disputed' = Disputed
  BY <1>4, <1>5, DisputesSame
<1>7. \A k \in Job : Undisputed(k)' <=> Undisputed(k)
  BY <1>6 DEF Accepted
<1>8. \A k \in Accepted : /\ NameFor(k) \in Name /\ NameFor(k)' = NameFor(k)
                          /\ KeyFor(k)' = KeyFor(k)
  BY AcceptedStep DEF Accepted, Undisputed
<1>9. NameFor(j) \in Name
  BY <1>1, AcceptedStep
<1>10. \A k \in Accepted \ {j} : Queued(k)' <=> Queued(k)
  <2> SUFFICES ASSUME NEW k \in Accepted \ {j} PROVE Queued(k)' <=> Queued(k)
    OBVIOUS
  <2>1. NameFor(k) # NameFor(j)
    BY <1>1 DEF Accepted, Undisputed, SharesName
  <2>2. queue'[NameFor(k)] = queue[NameFor(k)]
    BY <1>2, <1>8, <2>1 DEF TypeOK
  <2> QED
    BY <1>8, <2>2 DEF Queued
<1>11. \A k \in Accepted : Delivered(k)' <=> Delivered(k)
  BY <1>2, <1>8 DEF Delivered
<1>12. CASE Undisputed(j)
  <2>1. Delivered(j) /\ Queued(j)
    BY <1>1, <1>12 DEF UploadsAreWhole, Undisputed, Remove, At, Queued
  <2>2. ~Queued(j)'
    BY <1>2, <1>8, <1>9, <1>12 DEF Queued, TypeOK, Accepted
  <2>3. Owed' = Owed \ {j}
    BY <1>7, <1>10, <2>2 DEF Owed, Accepted
  <2>4. Supplied' = Supplied /\ Forgiven' = Forgiven
    BY <1>2, <1>7, <1>8, <1>11 DEF Supplied, Forgiven, Accepted
  <2> QED
    BY <1>6, <1>12, <2>1, <2>3, <2>4
    DEF Promise!Settle, Accepted, Owed, Supplied, Forgiven, Disputed
<1>13. CASE ~Undisputed(j)
  <2>1. \A k \in Job : Undisputed(k)' =>
          /\ Undisputed(k)
          /\ Queued(k)' <=> Queued(k)
          /\ Delivered(k)' <=> Delivered(k)
          /\ (NameFor(k) \in cleared)' <=> NameFor(k) \in cleared
    BY <1>2, <1>7, <1>8, <1>10, <1>11, <1>13 DEF Accepted
  <2> QED
    BY <2>1, QuietStep
<1> QED
  BY <1>12, <1>13

\* Every step of the pipeline is a step of Delivery, or none.
LEMMA PromiseStep ==
  ASSUME TypeOK, Durable, ClearedHaveRuns, [Next]_vars
  PROVE  [Promise!Next]_(Promise!vars)
<1>1. ASSUME NEW j \in Job, EnqueueAndUpload(j)
      PROVE  [Promise!Next]_(Promise!vars)
  BY <1>1, EnqueuePromise DEF Promise!Next
<1>2. ASSUME NEW w \in Worker, Remove(w)
      PROVE  [Promise!Next]_(Promise!vars)
  BY <1>2, RemoveSettles DEF Promise!Next
<1>3. ASSUME ClearQueue
      PROVE  [Promise!Next]_(Promise!vars)
  <2>1. UNCHANGED <<jobs, remote>> /\ \A n \in Name : queue'[n] = NoRow
    BY <1>3 DEF ClearQueue
  <2>2. \A j \in Job : NameFor(j) \in Name
    BY Names DEF TypeOK, Run, NameFor
  <2>3. cleared' = cleared \cup {n \in Name : queue[n] # NoRow}
    BY <1>3 DEF ClearQueue
  <2>4. \A j \in Job : NameFor(j)' = NameFor(j) /\ KeyFor(j)' = KeyFor(j)
    BY <2>1 DEF NameFor, KeyFor
  <2>5. \A j \in Job : (SharesName(j)' <=> SharesName(j)) /\ (SharesKey(j)' <=> SharesKey(j))
    BY <2>1, <2>4 DEF SharesName, SharesKey
  <2>6. \A j \in Job : Undisputed(j)' <=> Undisputed(j)
    BY <2>1, <2>5 DEF Undisputed
  <2>7. Accepted' = Accepted /\ Disputed' = Disputed
    BY <2>1, <2>6 DEF Accepted, Disputed
  <2>8. Owed' = {}
    BY <2>1, <2>2, <2>4 DEF Owed, Queued
  <2>9. Supplied' = Supplied
    BY <2>1, <2>4, <2>6 DEF Supplied, Delivered
  <2>10. Forgiven' = Forgiven \cup Owed
    BY <2>2, <2>3, <2>4, <2>6 DEF Forgiven, Owed, Queued
  <2> QED
    BY <2>7, <2>8, <2>9, <2>10
    DEF Promise!Next, Promise!Forgive, Accepted, Owed, Supplied, Forgiven, Disputed
<1>4. ASSUME ~ClearQueue, \A j \in Job : ~EnqueueAndUpload(j), \A w \in Worker : ~Remove(w)
      PROVE  [Promise!Next]_(Promise!vars)
  <2>1. CASE UNCHANGED remote
    <3>1. \A j \in Job : Undisputed(j)' =>
            Undisputed(j) /\ NameFor(j) \in Name /\ NameFor(j)' = NameFor(j) /\ KeyFor(j)' = KeyFor(j)
      BY <1>4, AcceptedStep DEF Undisputed
    <3>2. \A n \in Name : queue'[n] = NoRow <=> queue[n] = NoRow
      BY <1>4, RowsStep
    <3>3. UNCHANGED cleared
      BY <1>4, ClearedStays
    <3>4. \A j \in Job : Undisputed(j)' =>
            /\ Undisputed(j)
            /\ Queued(j)' <=> Queued(j)
            /\ Delivered(j)' <=> Delivered(j)
            /\ (NameFor(j) \in cleared)' <=> NameFor(j) \in cleared
      BY <2>1, <3>1, <3>2, <3>3 DEF Queued, Delivered
    <3> QED
      BY <3>4, QuietStep DEF Promise!Next
  <2>2. ASSUME remote' # remote,
               NEW w \in Worker, At(w, "put"),
               NEW c \in ReadBy(w), remote' = [remote EXCEPT ![KeyOf(tasks[w])] = c]
        PROVE  [Promise!Next]_(Promise!vars)
    BY <1>4, <2>2, PutDelivers DEF Promise!Next
  <2> QED
    BY <2>1, <2>2, BucketStep
<1> QED
  BY <1>1, <1>2, <1>3, <1>4

\* The pipeline implements Delivery: no order of failures, duplicates and crashes loses
\* an accepted backup or settles one the bucket lacks, and a collision of names harms
\* the backups that collide only.
THEOREM PromiseTheorem == Spec => KeepsThePromise
<1>1. Init => Promise!Init
  BY DEF Init, Promise!Init, Fresh, Undisputed
<1>2. Init => ClearedHaveRuns
  BY DEF Init, ClearedHaveRuns
<1>3. TypeOK /\ Durable /\ ClearedHaveRuns /\ [Next]_vars => ClearedHaveRuns'
  BY ClearedStep
<1>4. TypeOK /\ Durable /\ ClearedHaveRuns /\ [Next]_vars => [Promise!Next]_(Promise!vars)
  BY PromiseStep
<1> QED
  BY <1>1, <1>2, <1>3, <1>4, TypeInvariant, DurableInvariant, PTL
     DEF Spec, KeepsThePromise, Promise!Spec
=============================================================================
