--------------------- MODULE RolloutOrchestratorProofs ---------------------
(***************************************************************************)
(* Proofs about firmware rollouts, for any number of sensors, any batch    *)
(* size and any number of faults, retries and crashes.                     *)
(***************************************************************************)
EXTENDS RolloutOrchestrator, FiniteSetTheorems, TLAPS

(* What the proofs need to know of the types; batch and totalFailures are  *)
(* bounded by N as well, which nothing below depends on.                   *)
Shape ==
  /\ strategy \in Strategy
  /\ status \in Ended \union {"pending", "in_progress"}
  /\ progress \in [Sensor -> Unfinished \union
                            {"activated", "failed", "cancelled", "deleted"}]
  /\ pc \in {"idle", "start", "batch", "sending", "monitor", "poll", "finalize",
             "completed", "failed", "failing", "returned", "catch"}
  /\ batch \in Nat /\ totalFailures \in Nat
  /\ unsent \subseteq Sensor
  /\ sends \in [Sensor -> {"idle", "downloading", "sending", "marking"}]
  /\ pendingSensors \subseteq Sensor /\ failedSensors \subseteq Sensor
  /\ canceller \in {"none", "checked", "marked", "done"}
  /\ told \subseteq Sensor /\ ran \subseteq Sensor

-----------------------------------------------------------------------------
(* What "completed" says                                                   *)

(* A send left behind by a rejected batch may still write to the progress; *)
(* none is left when the outcome is computed, nor once it is "completed".  *)
SendsSettled ==
  \/ pc \in {"start", "batch", "monitor", "poll", "finalize", "completed", "failed"}
  \/ status = "completed"
  => Idle

ActivatedRan == \A s \in Sensor : progress[s] = "activated" => s \in ran
GoneTogether == \A s \in Sensor : progress[s] = "deleted" => status = "deleted"

(* The outcome is written some steps after the progress was read, and the  *)
(* row keeps it while the job is retried.                                  *)
OutcomeHolds ==
  /\ pc = "completed" \/ status = "completed" =>
       \A s \in Sensor : progress[s] \notin Unfinished
  /\ status = "completed" => pc \in {"idle", "start", "returned", "catch"}

TrueInv == Shape /\ SendsSettled /\ ActivatedRan /\ GoneTogether /\ OutcomeHolds

LEMMA TrueInit == Init => TrueInv
BY RolloutAssumption
DEF Init, TrueInv, Shape, SendsSettled, ActivatedRan, GoneTogether, OutcomeHolds, Idle,
    Unfinished, Ended, Sensor

LEMMA DoneIsFinished ==
  ASSUME NEW p, Outcome(p) = "completed"
  PROVE  \A s \in Sensor : p[s] \notin Unfinished
BY DEF Outcome

LEMMA FirstOfSubset == ASSUME NEW S PROVE FirstOf(S) \subseteq S
BY DEF FirstOf

LEMMA BatchSubset == ASSUME NEW b PROVE Batch(b) \subseteq Sensor
BY DEF Batch

LEMMA FailureCount ==
  ASSUME NEW S \in SUBSET Sensor
  PROVE  IsFiniteSet(S) /\ Cardinality(S) \in Nat
<1>1. IsFiniteSet(Sensor)
  BY RolloutAssumption, FS_Interval DEF Sensor
<1>2. IsFiniteSet(S)
  BY <1>1, FS_Subset
<1> QED
  BY <1>2, FS_CardinalityType

LEMMA WorkerKeepsTrue ==
  ASSUME TrueInv, Worker
  PROVE  TrueInv'
<1> USE DEF TrueInv, rollout, queue, attempt, chunk, monitor, others, fleet, bounds,
            Goes, Idle, Shape, SendsSettled, ActivatedRan, GoneTogether, OutcomeHolds
<1>1. CASE TakeJob
  BY <1>1 DEF TakeJob
<1>2. CASE TakeJobThrows
  BY <1>2 DEF TakeJobThrows, Fault, Rethrow
<1>3. CASE MarkInProgress
  BY <1>3 DEF MarkInProgress, Update
<1>4. CASE MarkInProgressThrows
  BY <1>4 DEF MarkInProgressThrows, UpdateThrows, Fault
<1>5. CASE NextBatch
  BY <1>5, BatchSubset DEF NextBatch
<1>6. CASE SendChunk
  BY <1>6, FirstOfSubset DEF SendChunk
<1>7. CASE BatchSent
  BY <1>7, BatchSubset DEF BatchSent
<1>8. CASE MonitorCancelled
  BY <1>8, FailureCount DEF MonitorCancelled, BatchOver
<1>9. CASE PollBegins
  BY <1>9 DEF PollBegins
<1>10. CASE Poll
  BY <1>10 DEF Poll, Unfinished
<1>11. CASE QueryThrows
  BY <1>11 DEF QueryThrows, Fault
<1>12. CASE Finalize
  BY <1>12, DoneIsFinished DEF Finalize, Outcome
<1>13. CASE WriteOutcome
  BY <1>13 DEF WriteOutcome, Update, Ended
<1>14. CASE WriteThrows
  BY <1>14 DEF WriteThrows, UpdateThrows, Fault
<1>15. CASE failRollout
  BY <1>15 DEF failRollout, Update, Ended
<1>16. CASE FailRolloutThrows
  BY <1>16 DEF FailRolloutThrows, UpdateThrows, Fault
<1>17. CASE JobCompletes
  BY <1>17 DEF JobCompletes, Forget
<1>18. CASE JobProgressThrows
  BY <1>18 DEF JobProgressThrows, Fault
<1>19. CASE WorkerCatch
  BY <1>19 DEF WorkerCatch, Rethrow, Forget, Update, UpdateThrows, Fault, Ended
<1>20. ASSUME NEW s \in Sensor, MarkDownloading(s) PROVE TrueInv'
  BY <1>20 DEF MarkDownloading, SendGoes, UpdateMany, Unfinished
<1>21. ASSUME NEW s \in Sensor, SendUpdate(s) PROVE TrueInv'
  BY <1>21 DEF SendUpdate, SendGoes
<1>22. ASSUME NEW s \in Sensor, SendThrows(s) PROVE TrueInv'
  BY <1>22 DEF SendThrows, SendGoes
<1>23. ASSUME NEW s \in Sensor, markSensorFailed(s) PROVE TrueInv'
  BY <1>23 DEF markSensorFailed, SendGoes, UpdateMany, Unfinished
<1>24. ASSUME NEW s \in Sensor, MarkSensorThrows(s) PROVE TrueInv'
  BY <1>24 DEF MarkSensorThrows, SendGoes, Fault
<1> QED
  BY <1>1, <1>2, <1>3, <1>4, <1>5, <1>6, <1>7, <1>8, <1>9, <1>10, <1>11, <1>12, <1>13,
     <1>14, <1>15, <1>16, <1>17, <1>18, <1>19, <1>20, <1>21, <1>22, <1>23, <1>24
  DEF Worker

LEMMA NextKeepsTrue == TrueInv /\ [Next]_vars => TrueInv'
<1> SUFFICES ASSUME TrueInv, [Next]_vars PROVE TrueInv'
  OBVIOUS
<1> USE DEF TrueInv, rollout, queue, attempt, chunk, monitor, others, fleet, bounds,
            Goes, Idle, Shape, SendsSettled, ActivatedRan, GoneTogether, OutcomeHolds
<1>1. CASE enqueueRollout
  BY <1>1 DEF enqueueRollout
<1>2. CASE MonitorEnds
  BY <1>2, FailureCount DEF MonitorEnds, UpdateMany, BatchOver, Unfinished
<1>3. CASE Crash
  BY <1>3 DEF Crash, Forget
<1>4. CASE Stalled
  BY <1>4 DEF Stalled
<1>5. CASE RecoveryFinds
  BY <1>5 DEF RecoveryFinds
<1>6. CASE RecoveryFails
  BY <1>6 DEF RecoveryFails, Update, Ended
<1>7. CASE RecoveryEnds
  BY <1>7 DEF RecoveryEnds, UpdateMany, Unfinished
<1>8. CASE CancelReads
  BY <1>8 DEF CancelReads
<1>9. CASE CancelRollout
  BY <1>9 DEF CancelRollout, Update, Ended
<1>10. CASE CancelProgress
  BY <1>10 DEF CancelProgress, UpdateMany, Unfinished
<1>11. CASE DeleteCounts
  BY <1>11 DEF DeleteCounts
<1>12. CASE DeleteRelease
  BY <1>12 DEF DeleteRelease, Ended, Unfinished
<1>13. CASE UNCHANGED vars
  BY <1>13 DEF vars
<1> QED
  BY <1>1, <1>2, <1>3, <1>4, <1>5, <1>6, <1>7, <1>8, <1>9, <1>10, <1>11, <1>12, <1>13,
     WorkerKeepsTrue DEF Next

(* "completed" is never said of a rollout with a sensor on its way, nor    *)
(* "activated" of a sensor that was not seen on the version, whichever     *)
(* retry, cancellation, recovery or late send came between finalizeRollout *)
(* reading the progress and writing the status, or after it.               *)
THEOREM CompletedRolloutIsSettled == Spec => []CompletedIsSettled
<1>1. TrueInv => CompletedIsSettled
  BY DEF TrueInv, CompletedIsSettled, OutcomeHolds, ActivatedRan, GoneTogether, Shape
<1> QED
  BY <1>1, TrueInit, NextKeepsTrue, PTL DEF Spec

-----------------------------------------------------------------------------
(* What stops a bad release                                                *)

(* The sensors of the batches before b that have not come up.              *)
Missing(strat, up, b) == {t \in Sensor \ up : BatchOf(strat, t) < b}
MayBeTold(s) == Cardinality(Missing(strategy, ran, BatchOf(strategy, s))) < MAX_TOTAL_FAILURES

(* totalFailures is a local of an attempt and begins again at zero with    *)
(* the next one: it bounds the sensors missing from the batches that this  *)
(* attempt has been through, and it walks through all of them.             *)
FailuresCounted ==
  pc \in {"batch", "sending", "monitor", "poll"} =>
    /\ Cardinality(Missing(strategy, ran, batch)) <= totalFailures
    /\ totalFailures < MAX_TOTAL_FAILURES

(* A sensor of the batch under watch has come up or will be counted.       *)
BatchWatched ==
  pc \in {"monitor", "poll"} =>
    Batch(batch) \ ran \subseteq pendingSensors \union failedSensors

(* Everyone who has been told, is being told or is next in the batch.      *)
Addressed == told \union unsent \union {s \in Sensor : sends[s] # "idle"}

(* A cancellation that was checked but has not written is undone by a      *)
(* crash, so the invariant must hold up to the write.                      *)
Halting ==
  canceller \in {"none", "checked"} =>
    /\ status # "cancelled"
    /\ FailuresCounted
    /\ BatchWatched
    /\ \A s \in Addressed : MayBeTold(s)

LEMMA DivideFact ==
  ASSUME NEW n \in Nat, NEW d \in Nat \ {0}
  PROVE  n \div d \in Nat
BY Z3

LEMMA BatchOfFact ==
  ASSUME NEW s \in Sensor, strategy \in Strategy
  PROVE  BatchOf(strategy, s) \in Nat /\ BatchOf(strategy, s) >= 1
<1>1. CanarySize \in Nat \ {0}
  BY RolloutAssumption, DivideFact DEF CanarySize, AtLeastOne
<1> QED
  BY <1>1, RolloutAssumption, DivideFact DEF BatchOf, Sensor, AtMost

LEMMA LimitFact == MAX_TOTAL_FAILURES \in Nat /\ MAX_TOTAL_FAILURES >= 1
<1>1. N * FailurePercent \in Nat
  BY RolloutAssumption
<1>2. (N * FailurePercent) \div 100 \in Nat
  BY <1>1, DivideFact
<1> QED
  BY <1>2 DEF MAX_TOTAL_FAILURES, AtLeastOne

LEMMA MissingFact ==
  ASSUME NEW up, NEW b
  PROVE  /\ Missing(strategy, up, b) \subseteq Sensor
         /\ IsFiniteSet(Missing(strategy, up, b))
         /\ Cardinality(Missing(strategy, up, b)) \in Nat
<1>1. Missing(strategy, up, b) \subseteq Sensor
  BY DEF Missing
<1> QED
  BY <1>1, FailureCount

(* More sensors up, fewer missing.                                         *)
LEMMA MissingShrinks ==
  ASSUME NEW up, NEW more, up \subseteq more, NEW b
  PROVE  Cardinality(Missing(strategy, more, b)) <= Cardinality(Missing(strategy, up, b))
<1>1. Missing(strategy, more, b) \subseteq Missing(strategy, up, b)
  BY DEF Missing
<1> QED
  BY <1>1, MissingFact, FS_Subset

LEMMA NoneBeforeFirst ==
  ASSUME Shape, NEW up
  PROVE  Cardinality(Missing(strategy, up, 1)) = 0
<1>1. Missing(strategy, up, 1) = {}
  BY BatchOfFact DEF Missing, Shape
<1> QED
  BY <1>1, FS_EmptySet

(* What is missing before the next batch was missing before this one or    *)
(* is counted as a failure of it.                                          *)
LEMMA BatchCounted ==
  ASSUME Shape, NEW F \in SUBSET Sensor, Batch(batch) \ ran \subseteq F
  PROVE  Cardinality(Missing(strategy, ran, batch + 1))
           <= Cardinality(Missing(strategy, ran, batch)) + Cardinality(F)
<1> DEFINE M == Missing(strategy, ran, batch)
<1>1. Missing(strategy, ran, batch + 1) \subseteq M \union F
  <2> SUFFICES ASSUME NEW t \in Missing(strategy, ran, batch + 1) PROVE t \in M \union F
    OBVIOUS
  <2>1. t \in Sensor \ ran /\ BatchOf(strategy, t) < batch + 1
    BY DEF Missing
  <2>2. BatchOf(strategy, t) \in Nat /\ batch \in Nat
    BY <2>1, BatchOfFact DEF Shape
  <2>3. CASE BatchOf(strategy, t) = batch
    BY <2>1, <2>3 DEF Batch
  <2>4. CASE BatchOf(strategy, t) < batch
    BY <2>1, <2>4 DEF Missing
  <2> QED
    BY <2>1, <2>2, <2>3, <2>4
<1>2. IsFiniteSet(M) /\ Cardinality(M) \in Nat /\ IsFiniteSet(F) /\ Cardinality(F) \in Nat
  BY MissingFact, FailureCount
<1>3. /\ IsFiniteSet(M \union F)
      /\ Cardinality(M \union F) = Cardinality(M) + Cardinality(F) - Cardinality(M \cap F)
  BY <1>2, FS_Union
<1>4. Cardinality(M \cap F) \in Nat
  BY FailureCount
<1>5. Cardinality(Missing(strategy, ran, batch + 1)) <= Cardinality(M \union F)
  BY <1>1, <1>3, FS_Subset
<1>6. Cardinality(Missing(strategy, ran, batch + 1)) \in Nat
  BY MissingFact
<1>7. Cardinality(Missing(strategy, ran, batch + 1)) <= Cardinality(M) + Cardinality(F)
  <2> HIDE DEF M
  <2> QED BY <1>2, <1>3, <1>4, <1>5, <1>6
<1> QED
  BY <1>7

LEMMA HaltInit == Init => Halting
BY DEF Init, Halting, FailuresCounted, BatchWatched, Addressed

(* A batch is over: the rollout goes on only with its failures counted.    *)
LEMMA BatchOverKeepsHalting ==
  ASSUME Shape, Halting, BatchOver(pendingSensors \union failedSensors),
         UNCHANGED <<strategy, status, chunk, canceller, fleet>>
  PROVE  Halting'
<1> SUFFICES ASSUME canceller \in {"none", "checked"}
             PROVE  (FailuresCounted /\ BatchWatched /\ (\A s \in Addressed : MayBeTold(s)))'
  BY DEF Halting
<1> DEFINE F == pendingSensors \union failedSensors
<1>1. pc = "monitor" /\ totalFailures' = totalFailures + Cardinality(F)
  BY DEF BatchOver, Goes
<1>2. Cardinality(Missing(strategy, ran, batch + 1))
        <= Cardinality(Missing(strategy, ran, batch)) + Cardinality(F)
  BY <1>1, BatchCounted DEF Halting, BatchWatched, Shape
<1>3. Cardinality(Missing(strategy, ran, batch)) <= totalFailures
  BY <1>1 DEF Halting, FailuresCounted
<1>4. /\ Cardinality(Missing(strategy, ran, batch)) \in Nat
      /\ Cardinality(Missing(strategy, ran, batch + 1)) \in Nat
      /\ Cardinality(F) \in Nat /\ totalFailures \in Nat
  BY MissingFact, FailureCount DEF Shape
<1>5. Cardinality(Missing(strategy, ran, batch + 1)) <= totalFailures'
  <2> HIDE DEF F
  <2> QED BY <1>1, <1>2, <1>3, <1>4
<1>6. FailuresCounted'
  <2>1. CASE pc' = "batch"
    <3>1. batch' = batch + 1 /\ totalFailures' < MAX_TOTAL_FAILURES
      BY <1>1, <1>4, <2>1, LimitFact DEF BatchOver, Goes, TooMany
    <3> QED
      BY <1>5, <3>1 DEF FailuresCounted, fleet
  <2>2. CASE pc' = "finalize"
    BY <2>2 DEF FailuresCounted
  <2> QED
    BY <2>1, <2>2 DEF BatchOver, Goes
<1>7. BatchWatched'
  BY DEF BatchWatched, BatchOver, Goes
<1>8. (\A s \in Addressed : MayBeTold(s))'
  BY DEF Halting, Addressed, MayBeTold, chunk, fleet
<1> QED
  BY <1>6, <1>7, <1>8

(* What leaves the batches, the sends and the sensors alone.               *)
LEMMA FrameKeepsHalting ==
  ASSUME Halting, UNCHANGED <<strategy, fleet>>,
         canceller' \in {"none", "checked"} =>
           canceller \in {"none", "checked"} /\ status' # "cancelled",
         Addressed' \subseteq Addressed,
         \/ pc' \notin {"batch", "sending", "monitor", "poll"}
         \/ UNCHANGED <<pc, attempt, monitor>>
  PROVE  Halting'
<1> SUFFICES ASSUME canceller' \in {"none", "checked"}
             PROVE  (FailuresCounted /\ BatchWatched /\ (\A s \in Addressed : MayBeTold(s)))'
  BY DEF Halting
<1>1. FailuresCounted' /\ BatchWatched'
  BY DEF Halting, FailuresCounted, BatchWatched, Batch, attempt, monitor, fleet
<1>2. (\A s \in Addressed : MayBeTold(s))'
  BY DEF Halting, MayBeTold, fleet
<1> QED
  BY <1>1, <1>2

LEMMA WorkerKeepsHalting ==
  ASSUME Shape, Halting, Worker
  PROVE  Halting'
<1> USE DEF Shape, rollout, queue, attempt, chunk, monitor, others, fleet, bounds, Goes
<1>1. CASE TakeJob \/ PollBegins
  BY <1>1 DEF TakeJob, PollBegins, Halting, FailuresCounted, BatchWatched, Addressed,
     MayBeTold, Batch
<1>2. CASE \/ TakeJobThrows \/ MarkInProgressThrows \/ QueryThrows \/ Finalize
           \/ WriteThrows \/ FailRolloutThrows \/ JobCompletes \/ JobProgressThrows
  <2>1. UNCHANGED <<strategy, status, chunk, fleet, canceller>>
        /\ pc' \notin {"batch", "sending", "monitor", "poll"}
    BY <1>2 DEF TakeJobThrows, MarkInProgressThrows, QueryThrows, Finalize, Outcome,
       WriteThrows, FailRolloutThrows, JobCompletes, JobProgressThrows
  <2>2. Addressed' = Addressed
    BY <2>1 DEF Addressed
  <2> QED
    BY <2>1, <2>2, FrameKeepsHalting DEF Halting
<1>3. CASE WriteOutcome \/ failRollout \/ WorkerCatch
  <2>1. /\ UNCHANGED <<strategy, chunk, fleet, canceller>>
        /\ pc' \notin {"batch", "sending", "monitor", "poll"}
        /\ status' # "cancelled" \/ status' = status
    BY <1>3 DEF WriteOutcome, failRollout, WorkerCatch, Update, UpdateThrows, Fault
  <2>2. Addressed' = Addressed
    BY <2>1 DEF Addressed
  <2> QED
    BY <2>1, <2>2, FrameKeepsHalting DEF Halting
<1>4. CASE MarkInProgress
  <2>1. Cardinality(Missing(strategy, ran, 1)) = 0
    BY NoneBeforeFirst
  <2> QED
    BY <1>4, <2>1, LimitFact DEF MarkInProgress, Update, Halting, FailuresCounted,
       BatchWatched, Addressed, MayBeTold
<1>5. CASE NextBatch
  <2>1. ASSUME canceller \in {"none", "checked"}, unsent' = Batch(batch),
               NEW s \in Batch(batch)
        PROVE  MayBeTold(s)
    <3>1. BatchOf(strategy, s) = batch
      BY <2>1 DEF Batch
    <3>2. Cardinality(Missing(strategy, ran, batch)) \in Nat
      BY MissingFact
    <3> QED
      BY <1>5, <2>1, <3>1, <3>2, LimitFact DEF NextBatch, Halting, FailuresCounted, MayBeTold
  <2>2. unsent' = unsent \/ unsent' = Batch(batch)
    BY <1>5 DEF NextBatch
  <2>3. (canceller \in {"none", "checked"} => \A s \in Addressed : MayBeTold(s))'
    BY <1>5, <2>1, <2>2 DEF NextBatch, Halting, Addressed, MayBeTold
  <2> QED
    BY <1>5, <2>3 DEF NextBatch, Halting, FailuresCounted, BatchWatched
<1>6. CASE SendChunk
  <2>1. Addressed' \subseteq Addressed
    BY <1>6, FirstOfSubset DEF SendChunk, Addressed
  <2> QED
    BY <1>6, <2>1, FrameKeepsHalting DEF SendChunk, Halting
<1>7. CASE BatchSent
  BY <1>7 DEF BatchSent, Halting, FailuresCounted, BatchWatched, Addressed, MayBeTold, Batch
<1>8. CASE MonitorCancelled
  BY <1>8 DEF MonitorCancelled, Halting
<1>9. CASE Poll
  <2> SUFFICES ASSUME canceller \in {"none", "checked"}
               PROVE  (FailuresCounted /\ BatchWatched /\ (\A s \in Addressed : MayBeTold(s)))'
    BY <1>9 DEF Poll, Halting
  <2>1. ran \subseteq ran' /\ UNCHANGED <<strategy, batch, totalFailures, Addressed>>
    BY <1>9 DEF Poll, Addressed
  <2>2. \A b : /\ Cardinality(Missing(strategy, ran', b)) <= Cardinality(Missing(strategy, ran, b))
               /\ Cardinality(Missing(strategy, ran', b)) \in Nat
               /\ Cardinality(Missing(strategy, ran, b)) \in Nat
    BY <2>1, MissingShrinks, MissingFact
  <2>3. FailuresCounted'
    BY <1>9, <2>1, <2>2, LimitFact DEF Poll, Halting, FailuresCounted
  <2>4. BatchWatched'
    BY <1>9 DEF Poll, Halting, BatchWatched, Batch
  <2>5. (\A s \in Addressed : MayBeTold(s))'
    BY <2>1, <2>2, LimitFact DEF Halting, MayBeTold
  <2> QED
    BY <2>3, <2>4, <2>5
<1>10. ASSUME NEW s \in Sensor,
              \/ MarkDownloading(s) \/ SendThrows(s) \/ markSensorFailed(s)
              \/ MarkSensorThrows(s)
       PROVE  Halting'
  <2>1. Addressed' \subseteq Addressed
    BY <1>10 DEF MarkDownloading, SendThrows, markSensorFailed, MarkSensorThrows, SendGoes,
       Addressed
  <2>2. /\ UNCHANGED <<strategy, status, canceller, fleet, attempt, monitor>>
        /\ pc' = pc \/ pc' = "failing"
    BY <1>10 DEF MarkDownloading, SendThrows, markSensorFailed, MarkSensorThrows
  <2> QED
    BY <2>1, <2>2, FrameKeepsHalting DEF Halting
<1>11. ASSUME NEW s \in Sensor, SendUpdate(s) PROVE Halting'
  <2>1. Addressed' \subseteq Addressed
    BY <1>11 DEF SendUpdate, SendGoes, Addressed
  <2> QED
    BY <1>11, <2>1 DEF SendUpdate, Halting, FailuresCounted, BatchWatched, MayBeTold, Batch
<1> QED
  BY <1>1, <1>2, <1>3, <1>4, <1>5, <1>6, <1>7, <1>8, <1>9, <1>10, <1>11 DEF Worker

LEMMA NextKeepsHalting == Shape /\ Halting /\ [Next]_vars => Halting'
<1> SUFFICES ASSUME Shape, Halting, [Next]_vars PROVE Halting'
  OBVIOUS
<1> USE DEF Shape, rollout, queue, attempt, chunk, monitor, others, fleet, bounds, Goes
<1>1. CASE MonitorEnds
  BY <1>1, BatchOverKeepsHalting DEF MonitorEnds
<1>2. CASE Crash
  <2>1. Addressed' \subseteq Addressed
    BY <1>2 DEF Crash, Addressed
  <2>2. canceller' = "none" => canceller \in {"none", "checked"}
    BY <1>2 DEF Crash
  <2>3. canceller' # "checked"
    BY <1>2 DEF Crash
  <2> QED
    BY <1>2, <2>1, <2>2, <2>3, FrameKeepsHalting DEF Crash, Halting
<1>3. CASE \/ enqueueRollout \/ Stalled \/ RecoveryFinds \/ RecoveryFails \/ RecoveryEnds
           \/ CancelReads \/ CancelRollout \/ CancelProgress \/ DeleteCounts
           \/ DeleteRelease \/ UNCHANGED vars
  <2>1. /\ UNCHANGED <<strategy, pc, attempt, chunk, monitor, fleet>>
        /\ canceller' \in {"none", "checked"} =>
             /\ canceller \in {"none", "checked"}
             /\ status' = "cancelled" => status = "cancelled"
    BY <1>3 DEF enqueueRollout, Stalled, RecoveryFinds, RecoveryFails, RecoveryEnds,
       CancelReads, CancelRollout, CancelProgress, DeleteCounts, DeleteRelease, vars, Update
  <2>2. Addressed' = Addressed
    BY <2>1 DEF Addressed
  <2> QED
    BY <2>1, <2>2, FrameKeepsHalting DEF Halting
<1> QED
  BY <1>1, <1>2, <1>3, WorkerKeepsHalting DEF Next

(* A release that fails is stopped: no sensor is told to update when       *)
(* MAX_TOTAL_FAILURES sensors of earlier batches have not come up with it, *)
(* although the count starts again with every attempt of the job.          *)
THEOREM BadReleaseIsStopped == Spec => []HaltsOnFailures
<1>1. TrueInv /\ Halting => HaltsOnFailures
  BY DEF Halting, HaltsOnFailures, Addressed, MayBeTold, Missing
<1>2. Init => TrueInv /\ Halting
  BY TrueInit, HaltInit
<1>3. TrueInv /\ Halting /\ [Next]_vars => (TrueInv /\ Halting)'
  BY NextKeepsTrue, NextKeepsHalting DEF TrueInv
<1> QED
  BY <1>1, <1>2, <1>3, PTL DEF Spec
=============================================================================
