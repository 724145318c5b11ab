------------------------ MODULE RolloutOrchestrator ------------------------
(***************************************************************************)
(* Firmware rollouts: services/fleet/rollout-orchestrator.ts, the worker   *)
(* that runs it (jobs/rollout-worker.ts) and the routes that start, cancel *)
(* and delete what it works on (api/routes/fleet-releases.ts).  One        *)
(* rollout of one release to the sensors 1..N.                             *)
(*                                                                         *)
(* The rollout and its progress are rows that the worker, the cancel       *)
(* route, the delete route and the recovery at startup change without a    *)
(* transaction; the job lives in Redis (BullMQ, external) and is run again *)
(* when an attempt throws or the process dies.  The worker of the server   *)
(* has a fleet commander, so the test mode without one is left out.        *)
(***************************************************************************)
EXTENDS Integers, FiniteSets

CONSTANTS N,                        \* sensors.length
          Strategy,                 \* the strategies the run looks at
          BatchSize,                \* options.batchSize
          MAX_BATCH_SIZE, CONCURRENCY, FailurePercent,
          MaxAttempts, MaxStalledCount,     \* BullMQ's options
          MaxFaults, MaxCrashes

ASSUME RolloutAssumption ==
  /\ {N, BatchSize, MAX_BATCH_SIZE, CONCURRENCY, MaxAttempts} \subseteq Nat \ {0}
  /\ Strategy \subseteq {"immediate", "canary", "rolling"}
  /\ FailurePercent \in 0..100
  /\ {MaxStalledCount, MaxFaults, MaxCrashes} \subseteq Nat

Sensor == 1..N
AtLeastOne(n) == IF n < 1 THEN 1 ELSE n
AtMost(n, max) == IF n > max THEN max ELSE n

MAX_TOTAL_FAILURES == AtLeastOne((N * FailurePercent) \div 100)

(* createBatches: the batch each sensor is in.                             *)
CanarySize == AtLeastOne(N \div 10)
BatchOf(strategy, s) ==
  CASE strategy = "canary" ->
         IF s <= CanarySize THEN 1 ELSE 2 + (s - CanarySize - 1) \div MAX_BATCH_SIZE
    [] strategy = "rolling" -> 1 + (s - 1) \div AtMost(BatchSize, MAX_BATCH_SIZE)
    [] OTHER -> 1 + (s - 1) \div MAX_BATCH_SIZE

Unfinished == {"pending", "downloading"}
Ended == {"completed", "failed", "cancelled", "deleted"}

VARIABLES
  strategy,
  status,         \* the row of the rollout; "deleted" once the row is gone
  progress,       \* the rows of its sensors
  job, attempts, stalls,            \* the job in Redis
  pc,             \* where the worker stands in its attempt
  batch, totalFailures,             \* locals of executeRollout
  unsent, sends,  \* processBatch: later chunks, and the stage of each send
  pendingSensors, failedSensors,    \* locals of monitorBatchHealth
  canceller, deleter, recovery,     \* the two routes and the recovery
  told, ran,      \* sensors sent the update; sensors seen on the version
  faults, crashes

rollout == <<status, progress>>
queue == <<job, attempts, stalls>>
attempt == <<batch, totalFailures>>
chunk == <<unsent, sends>>
monitor == <<pendingSensors, failedSensors>>
others == <<canceller, deleter, recovery>>
fleet == <<told, ran>>
bounds == <<faults, crashes>>
vars == <<strategy, rollout, queue, pc, attempt, chunk, monitor, others, fleet, bounds>>

TypeOK ==
  /\ strategy \in Strategy
  /\ status \in Ended \union {"pending", "in_progress"}
  /\ progress \in [Sensor -> Unfinished \union
                            {"activated", "failed", "cancelled", "deleted"}]
  /\ job \in {"none", "waiting", "active", "completed", "failed"}
  /\ attempts \in 0..MaxAttempts /\ stalls \in 0..MaxStalledCount
  /\ pc \in {"idle", "start", "batch", "sending", "monitor", "poll", "finalize",
             "completed", "failed", "failing", "returned", "catch"}
  /\ batch \in 1..(N + 1) /\ totalFailures \in 0..N
  /\ unsent \subseteq Sensor
  /\ sends \in [Sensor -> {"idle", "downloading", "sending", "marking"}]
  /\ pendingSensors \subseteq Sensor /\ failedSensors \subseteq Sensor
  /\ canceller \in {"none", "checked", "marked", "done"}
  /\ deleter \in {"none", "counted"}
  /\ recovery \in {"none", "found", "marked"}
  /\ told \subseteq Sensor /\ ran \subseteq Sensor
  /\ faults \in 0..MaxFaults /\ crashes \in 0..MaxCrashes

(* The rows as the start route has just created them.                      *)
Init ==
  /\ strategy \in Strategy
  /\ status = "pending" /\ progress = [s \in Sensor |-> "pending"]
  /\ job = "none" /\ attempts = 0 /\ stalls = 0
  /\ pc = "idle" /\ batch = 1 /\ totalFailures = 0
  /\ unsent = {} /\ sends = [s \in Sensor |-> "idle"]
  /\ pendingSensors = {} /\ failedSensors = {}
  /\ canceller = "none" /\ deleter = "none" /\ recovery = "none"
  /\ told = {} /\ ran = {}
  /\ faults = 0 /\ crashes = 0

-----------------------------------------------------------------------------
(* The database.  update throws when the row is gone; updateMany finds     *)
(* nothing to change.                                                      *)
Update(st) == status # "deleted" /\ status' = st
UpdateMany(S, st) ==
  progress' = [s \in Sensor |-> IF s \in S /\ status # "deleted" THEN st ELSE progress[s]]

Fault == faults < MaxFaults /\ faults' = faults + 1 /\ UNCHANGED crashes
UpdateThrows ==
  \/ status = "deleted" /\ UNCHANGED bounds
  \/ Fault

Goes(here, there) == pc = here /\ pc' = there

Batch(b) == {s \in Sensor : BatchOf(strategy, s) = b}
Idle == \A s \in Sensor : sends[s] = "idle"

-----------------------------------------------------------------------------
(* enqueueRollout; a rollout whose enqueueing throws stays pending.        *)
enqueueRollout ==
  /\ job = "none" /\ job' = "waiting"
  /\ UNCHANGED <<strategy, rollout, attempts, stalls, pc, attempt, chunk, monitor,
                 others, fleet, bounds>>

(* The worker takes the job.  What a failed attempt left running has ended *)
(* by then: the backoff is ten seconds at least.                           *)
TakeJob ==
  /\ job = "waiting" /\ Idle
  /\ job' = "active" /\ Goes("idle", "start")
  /\ UNCHANGED <<strategy, rollout, attempts, stalls, attempt, chunk, monitor,
                 others, fleet, bounds>>

(* The locals of an attempt that has ended.                                *)
Forget == batch' = 1 /\ totalFailures' = 0

Rethrow ==
  /\ attempts' = attempts + 1
  /\ job' = IF attempts' >= MaxAttempts THEN "failed" ELSE "waiting"
  /\ UNCHANGED stalls

(* job.updateProgress(0) is outside every try.                             *)
TakeJobThrows ==
  /\ Goes("start", "idle") /\ Fault /\ Rethrow
  /\ UNCHANGED <<strategy, rollout, attempt, chunk, monitor, others, fleet>>

(* executeRollout: the status is set whatever it was.                      *)
MarkInProgress ==
  /\ Goes("start", "batch") /\ Update("in_progress")
  /\ batch' = 1 /\ totalFailures' = 0
  /\ UNCHANGED <<strategy, progress, queue, chunk, monitor, others, fleet, bounds>>

MarkInProgressThrows ==
  /\ Goes("start", "catch") /\ UpdateThrows
  /\ UNCHANGED <<strategy, rollout, queue, attempt, chunk, monitor, others, fleet>>

(* The head of the loop over the batches, with its check of the row.       *)
NextBatch ==
  /\ \/ Batch(batch) = {} /\ Goes("batch", "finalize") /\ UNCHANGED unsent
     \/ /\ Batch(batch) # {} /\ status = "cancelled"
        /\ Goes("batch", "returned") /\ UNCHANGED unsent
     \/ /\ Batch(batch) # {} /\ status # "cancelled"
        /\ Goes("batch", "sending") /\ unsent' = Batch(batch)
  /\ UNCHANGED <<strategy, rollout, queue, attempt, sends, monitor, others, fleet,
                 bounds>>

-----------------------------------------------------------------------------
(* processBatch: the sends of a chunk run together.                        *)
FirstOf(S) == {s \in S : Cardinality({t \in S : t < s}) < CONCURRENCY}

SendChunk ==
  /\ pc = "sending" /\ Idle /\ unsent # {}
  /\ unsent' = unsent \ FirstOf(unsent)
  /\ sends' = [s \in Sensor |-> IF s \in FirstOf(unsent) THEN "downloading" ELSE "idle"]
  /\ UNCHANGED <<strategy, rollout, queue, pc, attempt, monitor, others, fleet,
                 bounds>>

SendGoes(s, here, there) == sends[s] = here /\ sends' = [sends EXCEPT ![s] = there]

MarkDownloading(s) ==
  /\ SendGoes(s, "downloading", "sending")
  /\ UpdateMany({s}, "downloading")
  /\ UNCHANGED <<strategy, status, queue, pc, attempt, unsent, monitor, others,
                 fleet, bounds>>

SendUpdate(s) ==
  /\ SendGoes(s, "sending", "idle")
  /\ told' = told \union {s}
  /\ UNCHANGED <<strategy, rollout, queue, pc, attempt, unsent, monitor, others,
                 ran, bounds>>

(* The progress update or sendCommand throws.                              *)
SendThrows(s) ==
  /\ SendGoes(s, "downloading", "marking") \/ SendGoes(s, "sending", "marking")
  /\ UNCHANGED <<strategy, rollout, queue, pc, attempt, unsent, monitor, others,
                 fleet, bounds>>

markSensorFailed(s) ==
  /\ SendGoes(s, "marking", "idle")
  /\ UpdateMany({s}, "failed")
  /\ UNCHANGED <<strategy, status, queue, pc, attempt, unsent, monitor, others,
                 fleet, bounds>>

(* It throws in turn: the batch is rejected, its other sends go on.        *)
MarkSensorThrows(s) ==
  /\ SendGoes(s, "marking", "idle") /\ Fault
  /\ pc' = IF pc = "sending" THEN "failing" ELSE pc
  /\ unsent' = {}
  /\ UNCHANGED <<strategy, rollout, queue, attempt, monitor, others, fleet>>

BatchSent ==
  /\ Goes("sending", "monitor") /\ Idle /\ unsent = {}
  /\ pendingSensors' = Batch(batch) /\ failedSensors' = {}
  /\ UNCHANGED <<strategy, rollout, queue, attempt, chunk, others, fleet, bounds>>

-----------------------------------------------------------------------------
(* monitorBatchHealth, and what executeRollout makes of its result.        *)
TooMany_OffByOne(failures) == failures > MAX_TOTAL_FAILURES
TooMany(failures) == failures >= MAX_TOTAL_FAILURES

BatchOver(failed) ==
  /\ totalFailures' = totalFailures + Cardinality(failed)
  /\ pendingSensors' = {} /\ failedSensors' = {}
  /\ \/ TooMany(totalFailures') /\ Goes("monitor", "finalize") /\ UNCHANGED batch
     \/ ~TooMany(totalFailures') /\ Goes("monitor", "batch") /\ batch' = batch + 1

(* The loop ends when no sensor is pending, or at the timeout.             *)
MonitorEnds ==
  /\ UpdateMany(pendingSensors, "failed")
  /\ BatchOver(pendingSensors \union failedSensors)
  /\ UNCHANGED <<strategy, status, queue, chunk, others, fleet, bounds>>

MonitorCancelled ==
  /\ pendingSensors # {} /\ status = "cancelled"
  /\ BatchOver(pendingSensors)
  /\ UNCHANGED <<strategy, rollout, queue, chunk, others, fleet, bounds>>

PollBegins ==
  /\ pendingSensors # {} /\ status # "cancelled"
  /\ Goes("monitor", "poll")
  /\ UNCHANGED <<strategy, rollout, queue, attempt, chunk, monitor, others, fleet,
                 bounds>>

(* One query for all pending sensors, then the updates it calls for.  Any  *)
(* of them may be on the version and fresh, told just now or long before,  *)
(* and the row of any may be gone.                                         *)
Poll ==
  \E gone \in SUBSET pendingSensors : \E ready \in SUBSET (pendingSensors \ gone) :
    /\ Goes("poll", "monitor")
    /\ ran' = ran \union ready
    /\ pendingSensors' = pendingSensors \ (gone \union ready)
    /\ failedSensors' = failedSensors \union gone
    /\ progress' = [s \in Sensor |->
                      IF status = "deleted" THEN progress[s]
                      ELSE IF s \in gone THEN "failed"
                      ELSE IF s \in ready THEN "activated"
                      ELSE progress[s]]
    /\ UNCHANGED <<strategy, status, queue, attempt, chunk, others, told, bounds>>

(* Any other query of the rollout throws: executeRollout catches it.       *)
QueryThrows ==
  /\ pc \in {"batch", "monitor", "poll", "finalize"} /\ pc' = "failing" /\ Fault
  /\ pendingSensors' = {} /\ failedSensors' = {}
  /\ UNCHANGED <<strategy, rollout, queue, attempt, chunk, others, fleet>>

-----------------------------------------------------------------------------
(* finalizeRollout reads the progress, then writes the status.             *)
Outcome_PendingOnly(p) ==
  IF \/ \A s \in Sensor : p[s] = "failed"
     \/ \E s \in Sensor : p[s] = "pending"
    THEN "failed" ELSE "completed"
Outcome(p) ==
  IF \/ \A s \in Sensor : p[s] = "failed"
     \/ \E s \in Sensor : p[s] \in Unfinished
    THEN "failed" ELSE "completed"

Finalize ==
  /\ Goes("finalize", IF status = "deleted" THEN "failed" ELSE Outcome(progress))
  /\ UNCHANGED <<strategy, rollout, queue, attempt, chunk, monitor, others, fleet,
                 bounds>>

WriteOutcome ==
  /\ pc \in {"completed", "failed"} /\ pc' = "returned" /\ Update(pc)
  /\ UNCHANGED <<strategy, progress, queue, attempt, chunk, monitor, others, fleet,
                 bounds>>

WriteThrows ==
  /\ pc \in {"completed", "failed"} /\ pc' = "failing" /\ UpdateThrows
  /\ UNCHANGED <<strategy, rollout, queue, attempt, chunk, monitor, others, fleet>>

failRollout_LogsOnly ==
  /\ Goes("failing", "returned") /\ UNCHANGED status
  /\ UNCHANGED <<strategy, progress, queue, attempt, chunk, monitor, others, fleet,
                 bounds>>
failRollout ==
  /\ Goes("failing", "returned") /\ Update("failed")
  /\ UNCHANGED <<strategy, progress, queue, attempt, chunk, monitor, others, fleet,
                 bounds>>

FailRolloutThrows ==
  /\ Goes("failing", "catch") /\ UpdateThrows
  /\ UNCHANGED <<strategy, rollout, queue, attempt, chunk, monitor, others, fleet>>

(* The worker around it: updateProgress(100) is inside its try.            *)
JobCompletes ==
  /\ Goes("returned", "idle") /\ job' = "completed" /\ Forget
  /\ UNCHANGED <<strategy, rollout, attempts, stalls, chunk, monitor,
                 others, fleet, bounds>>

JobProgressThrows ==
  /\ Goes("returned", "catch") /\ Fault
  /\ UNCHANGED <<strategy, rollout, queue, attempt, chunk, monitor, others, fleet>>

WorkerCatch ==
  /\ Goes("catch", "idle") /\ Rethrow /\ Forget
  /\ \/ Update("failed") /\ UNCHANGED bounds
     \/ UpdateThrows /\ UNCHANGED status
  /\ UNCHANGED <<strategy, progress, chunk, monitor, others, fleet>>

-----------------------------------------------------------------------------
(* The process dies with everything in memory.                             *)
Crash ==
  /\ crashes < MaxCrashes /\ crashes' = crashes + 1
  /\ pc' = "idle" /\ Forget /\ pendingSensors' = {} /\ failedSensors' = {}
  /\ unsent' = {} /\ sends' = [s \in Sensor |-> "idle"]
  /\ canceller' = CASE canceller = "checked" -> "none"
                    [] canceller = "marked" -> "done"
                    [] OTHER -> canceller
  /\ deleter' = "none" /\ recovery' = "none"
  /\ UNCHANGED <<strategy, rollout, queue, fleet, faults>>

(* BullMQ finds the lock of a job expired.                                 *)
Stalled ==
  /\ job = "active" /\ pc = "idle"
  /\ \/ stalls < MaxStalledCount /\ stalls' = stalls + 1 /\ job' = "waiting"
     \/ stalls = MaxStalledCount /\ job' = "failed" /\ UNCHANGED stalls
  /\ UNCHANGED <<strategy, rollout, attempts, pc, attempt, chunk, monitor, others,
                 fleet, bounds>>

(* recoverStalledRollouts of a server that starts, this one or another:    *)
(* the age of the rollout is all it looks at.  Errors are caught.          *)
RecoveryFinds ==
  /\ recovery = "none" /\ status = "in_progress" /\ recovery' = "found"
  /\ UNCHANGED <<strategy, rollout, queue, pc, attempt, chunk, monitor, canceller,
                 deleter, fleet, bounds>>

RecoveryFails ==
  /\ recovery = "found"
  /\ \/ Update("failed") /\ recovery' = "marked"
     \/ status = "deleted" /\ recovery' = "none" /\ UNCHANGED status
  /\ UNCHANGED <<strategy, progress, queue, pc, attempt, chunk, monitor, canceller,
                 deleter, fleet, bounds>>

RecoveryEnds ==
  /\ recovery = "marked" /\ recovery' = "none"
  /\ UpdateMany({s \in Sensor : progress[s] \in Unfinished}, "failed")
  /\ UNCHANGED <<strategy, status, queue, pc, attempt, chunk, monitor, canceller,
                 deleter, fleet, bounds>>

-----------------------------------------------------------------------------
(* The cancel route: a read and two updates.                               *)
CancelReads ==
  /\ canceller = "none" /\ status \in {"pending", "in_progress"}
  /\ canceller' = "checked"
  /\ UNCHANGED <<strategy, rollout, queue, pc, attempt, chunk, monitor, deleter,
                 recovery, fleet, bounds>>

CancelRollout ==
  /\ canceller = "checked"
  /\ \/ Update("cancelled") /\ canceller' = "marked"
     \/ status = "deleted" /\ canceller' = "done" /\ UNCHANGED status
  /\ UNCHANGED <<strategy, progress, queue, pc, attempt, chunk, monitor, deleter,
                 recovery, fleet, bounds>>

CancelProgress ==
  /\ canceller = "marked" /\ canceller' = "done"
  /\ UpdateMany({s \in Sensor : progress[s] = "pending"}, "cancelled")
  /\ UNCHANGED <<strategy, status, queue, pc, attempt, chunk, monitor, deleter,
                 recovery, fleet, bounds>>

(* Deleting the release takes its rollouts along.                          *)
DeleteCounts ==
  /\ deleter = "none" /\ status \notin {"in_progress", "deleted"} /\ deleter' = "counted"
  /\ UNCHANGED <<strategy, rollout, queue, pc, attempt, chunk, monitor, canceller,
                 recovery, fleet, bounds>>

DeleteRelease ==
  /\ deleter = "counted" /\ deleter' = "none"
  /\ status' = "deleted" /\ progress' = [s \in Sensor |-> "deleted"]
  /\ UNCHANGED <<strategy, queue, pc, attempt, chunk, monitor, canceller, recovery,
                 fleet, bounds>>

-----------------------------------------------------------------------------
Worker ==
  \/ TakeJob \/ TakeJobThrows \/ MarkInProgress \/ MarkInProgressThrows \/ NextBatch
  \/ SendChunk \/ BatchSent \/ MonitorCancelled \/ PollBegins \/ Poll \/ QueryThrows
  \/ Finalize \/ WriteOutcome \/ WriteThrows \/ failRollout \/ FailRolloutThrows
  \/ JobCompletes \/ JobProgressThrows \/ WorkerCatch
  \/ \E s \in Sensor : \/ MarkDownloading(s) \/ SendUpdate(s) \/ SendThrows(s)
                       \/ markSensorFailed(s) \/ MarkSensorThrows(s)

Next ==
  \/ enqueueRollout \/ Worker \/ MonitorEnds \/ Crash \/ Stalled
  \/ RecoveryFinds \/ RecoveryFails \/ RecoveryEnds
  \/ CancelReads \/ CancelRollout \/ CancelProgress
  \/ DeleteCounts \/ DeleteRelease

Spec == Init /\ [][Next]_vars

(* Promises settle, BullMQ offers the job, and the clock reaches the end   *)
(* of the monitoring although the poll comes round before.                 *)
FairSpec == Spec /\ WF_vars(Worker) /\ WF_vars(Stalled) /\ SF_vars(MonitorEnds)

-----------------------------------------------------------------------------
(* A bad release stops: however attempts, crashes and retries follow each  *)
(* other, a sensor is told to update only while fewer than                 *)
(* MAX_TOTAL_FAILURES sensors of the batches before its own have failed    *)
(* to come up with the version.  (A cancellation counts no failures.)      *)
HaltsOnFailures ==
  canceller = "none" =>
    \A s \in told :
      Cardinality({t \in Sensor \ ran : BatchOf(strategy, t) < BatchOf(strategy, s)})
        < MAX_TOTAL_FAILURES

(* "completed" is said of a rollout whose sensors are settled: none is     *)
(* still on its way, and one that is reported activated was really seen on *)
(* the version.  Sensors may have failed or been cancelled: finalizeRollout*)
(* writes completed "even with errors" (its comment), where the operator's *)
(* guide, site/guides/firmware-updates.md:424, says of Completed "All      *)
(* sensors successfully updated".                                          *)
CompletedIsSettled ==
  status = "completed" =>
    \A s \in Sensor : \/ progress[s] = "activated" /\ s \in ran
                      \/ progress[s] \in {"failed", "cancelled"}

(* A rollout that was enqueued comes to an end, through throwing queries,  *)
(* crashes and stalls, unless BullMQ has given its job up.                 *)
RolloutEnds == job = "waiting" ~> (status \in Ended \/ job = "failed")
=============================================================================
