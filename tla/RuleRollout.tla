----------------------------- MODULE RuleRollout -----------------------------
(***************************************************************************)
(* Immediate, canary and rolling rollouts of rules, and the rollback, in   *)
(* services/fleet/rule-distributor.ts.  A rollout sends push_rules through *)
(* the fleet commander, batch by batch, and a rolling one waits for the    *)
(* health of each batch; the sensors execute the commands meanwhile.       *)
(*                                                                         *)
(* Rules are version numbers: 0 is the empty rule set, r the rules of the  *)
(* r-th rollout and ScheduledRules those of the scheduled deployments of   *)
(* RuleDistributor.  Sensors are their positions in sensorIds.  The        *)
(* command sender delivers the commands of a sensor in order.              *)
(***************************************************************************)
EXTENDS Integers, Sequences, FiniteSets

CONSTANTS NumSensors,
          CanaryPercentage,   \* values of the option canaryPercentage
          BatchSize, MaxFailures, RollbackOnFailure,   \* the RolloutConfig
          MaxRollouts, MaxRestarts, MaxQueued   \* bounds

ASSUME RuleRolloutAssumption ==
  /\ NumSensors \in Nat \ {0} /\ CanaryPercentage \subseteq 1..100
  /\ BatchSize \in Nat \ {0} /\ MaxFailures \in Nat \ {0}
  /\ RollbackOnFailure \in BOOLEAN
  /\ MaxRollouts \in Nat /\ MaxRestarts \in Nat /\ MaxQueued \in Nat

Sensor == 1..NumSensors
ScheduledRules == MaxRollouts + 1
Rules == 0..ScheduledRules
Strategy == {"immediate", "canary", "rolling"}

VARIABLES
  running,   \* the rules each sensor runs
  commands,  \* push_rules commands of each sensor, first in first out
  recent,    \* the rules of the last two successful commands, latest last
  ruleSyncState, \* sensors with a row in this table
  pc, strategy, version,   \* of the current rollout
  percentages,    \* canary stages to come
  first, last,    \* the current batch of sensors
  next,           \* the next sensor of the batch to send to
  deployedSensors, failureCount,
  confirmed,      \* sensors of the batch found healthy
  unconfirmed,    \* those of earlier batches that were not
  previousRules,  \* what getPreviousRuleVersion returned
  before,         \* what each sensor ran when the rollout began
  restarts

fleet == <<running, commands, recent, ruleSyncState>>
batch == <<percentages, first, last, next, confirmed>>
rollout == <<strategy, version, deployedSensors, failureCount, unconfirmed,
             previousRules, before>>
vars == <<fleet, pc, batch, rollout, restarts>>

TypeOK ==
  /\ running \in [Sensor -> Rules]
  /\ commands \in [Sensor -> Seq(Rules)]
  /\ recent \in Seq(Rules) /\ Len(recent) <= 2
  /\ ruleSyncState \subseteq Sensor
  /\ pc \in {"idle", "syncing", "sending", "delay", "health", "rollback",
             "done", "rolledback", "error"}
  /\ strategy \in Strategy /\ version \in Rules
  /\ percentages \in Seq(1..100)
  /\ first \in Nat /\ last \in 0..NumSensors /\ next \in Nat
  /\ deployedSensors \subseteq Sensor
  /\ failureCount \in 0..(2 * NumSensors)
  /\ confirmed \subseteq first..last /\ unconfirmed \subseteq Sensor
  /\ previousRules \in Rules /\ before \in [Sensor -> Rules]
  /\ restarts \in 0..MaxRestarts

Init ==
  /\ running = [s \in Sensor |-> 0] /\ commands = [s \in Sensor |-> << >>]
  /\ recent = << >> /\ ruleSyncState = {}
  /\ pc = "idle" /\ strategy = "immediate" /\ version = 0
  /\ percentages = << >> /\ first = 1 /\ last = 0 /\ next = 1
  /\ deployedSensors = {} /\ failureCount = 0 /\ confirmed = {}
  /\ unconfirmed = {}
  /\ previousRules = 0 /\ before = [s \in Sensor |-> 0]
  /\ restarts = 0

-----------------------------------------------------------------------------
(* The batches.                                                            *)
Smaller(m, n) == IF m <= n THEN m ELSE n

(* deployCanary: Math.ceil of the share of a stage.                        *)
targetCount(p) == (NumSensors * p + 99) \div 100

(* Stages that add no sensor are skipped: the first of the stages to come  *)
(* that does is number StageIndex.                                         *)
Adds(ps, n) == {k \in DOMAIN ps : targetCount(ps[k]) > n}
StageIndex(ps, n) == CHOOSE k \in Adds(ps, n) : \A j \in Adds(ps, n) : k <= j

Batch(from, to, begin) ==
  /\ first' = from /\ last' = to /\ next' = from
  /\ confirmed' = {} /\ pc' = begin

CanaryStage(ps, n) ==
  IF Adds(ps, n) = {}
    THEN pc' = "done" /\ UNCHANGED batch
    ELSE LET k == StageIndex(ps, n)
         IN  /\ Batch(n + 1, targetCount(ps[k]), "syncing")
             /\ percentages' = SubSeq(ps, k + 1, Len(ps))

MoreBatches_OneShort(n) == n < NumSensors - 1
MoreBatches(n) == n < NumSensors
RollingBatch(n) ==
  Batch(n + 1, Smaller(n + BatchSize, NumSensors), "sending")

-----------------------------------------------------------------------------
(* pushRulesWithStrategy for the next rules.                               *)
Start ==
  /\ pc \in {"idle", "done", "rolledback", "error"}
  /\ version < MaxRollouts /\ version' = version + 1
  /\ deployedSensors' = {} /\ failureCount' = 0 /\ unconfirmed' = {}
  /\ before' = running /\ UNCHANGED previousRules
  /\ \/ /\ strategy' = "immediate"
        /\ Batch(1, NumSensors, "syncing") /\ percentages' = << >>
     \/ /\ strategy' = "canary"
        /\ \E p \in CanaryPercentage : CanaryStage(<<p, 50, 100>>, 0)
     \/ /\ strategy' = "rolling"
        /\ RollingBatch(0) /\ percentages' = << >>
  /\ UNCHANGED <<fleet, restarts>>

(* deployImmediate: the rows of the batch in one transaction, then the     *)
(* commands one by one; an error of either ends the rollout.               *)
SyncRows ==
  /\ pc = "syncing"
  /\ pc' = "sending" /\ ruleSyncState' = ruleSyncState \union first..last
  /\ UNCHANGED <<running, commands, recent, batch, rollout,
                 restarts>>

Throws ==
  /\ \/ pc = "syncing"
     \/ pc = "sending" /\ strategy # "rolling"
  /\ pc' = "error"
  /\ UNCHANGED <<fleet, batch, rollout, restarts>>

Queued(s, v) == [commands EXCEPT ![s] = Append(@, v)]

AfterSend ==
  IF next < last
    THEN next' = next + 1 /\ UNCHANGED <<pc, percentages, first, last, confirmed>>
    ELSE /\ pc' = IF strategy = "rolling" THEN "health" ELSE "delay"
         /\ UNCHANGED batch

Send ==
  /\ pc = "sending" /\ Len(commands[next]) < MaxQueued
  /\ commands' = Queued(next, version)
  /\ deployedSensors' = deployedSensors \union {next}
  /\ AfterSend
  /\ UNCHANGED <<running, recent, ruleSyncState, strategy, version,
                 failureCount, unconfirmed, previousRules, before,
                 restarts>>

(* deployRolling counts a send that throws and goes on.                    *)
SendThrows ==
  /\ pc = "sending" /\ strategy = "rolling"
  /\ failureCount' = failureCount + 1
  /\ AfterSend
  /\ UNCHANGED <<fleet, strategy, version, deployedSensors, unconfirmed,
                 previousRules, before, restarts>>

(* The end of a canary stage; an immediate rollout has no stages left.     *)
NextStage ==
  /\ pc = "delay"
  /\ CanaryStage(percentages, last)
  /\ UNCHANGED <<fleet, rollout, restarts>>

-----------------------------------------------------------------------------
(* deployRolling: waitForHealthConfirmation polls the batch until all are  *)
(* healthy or the timeout; a sensor once found healthy stays so.  Healthy  *)
(* are those with a sync row, a fresh heartbeat and no lost connection,    *)
(* whether or not the rules have arrived.                                  *)
Poll ==
  /\ pc = "health" /\ confirmed # first..last
  /\ \E fresh \in SUBSET ((first..last) \intersect ruleSyncState) :
       confirmed' = confirmed \union fresh
  /\ UNCHANGED <<fleet, pc, percentages, first, last, next, rollout,
                 restarts>>

Aborts_Beyond(unhealthy, failures) ==
  RollbackOnFailure /\ unhealthy > 0 /\ failures > MaxFailures
Aborts(unhealthy, failures) ==
  RollbackOnFailure /\ unhealthy > 0 /\ failures >= MaxFailures

(* The wait ends when all are healthy, or by its timeout.                  *)
HealthKnown_NoTimeout == confirmed = first..last
HealthKnown == TRUE

BatchEnds ==
  LET unhealthy == Cardinality((first..last) \ confirmed)
      failures == failureCount + unhealthy
  IN  /\ pc = "health" /\ HealthKnown
      /\ failureCount' = failures
      /\ unconfirmed' = unconfirmed \union ((first..last) \ confirmed)
      /\ \/ Aborts(unhealthy, failures) /\ pc' = "rollback" /\ UNCHANGED batch
         \/ /\ ~Aborts(unhealthy, failures)
            /\ IF MoreBatches(last)
                 THEN RollingBatch(last) /\ UNCHANGED percentages
                 ELSE pc' = "done" /\ UNCHANGED batch
      /\ UNCHANGED <<fleet, strategy, version, deployedSensors, previousRules,
                     before, restarts>>

(* getPreviousRuleVersion: the second latest successful command, of any    *)
(* sensor; a payload without rules cannot succeed on a sensor.             *)
getPreviousRuleVersion == IF Len(recent) < 2 THEN 0 ELSE recent[1]

(* rollbackDeployment: a send that throws is logged.                       *)
Rollback ==
  /\ pc = "rollback" /\ pc' = "rolledback"
  /\ previousRules' = getPreviousRuleVersion
  /\ \E reached \in SUBSET deployedSensors :
       /\ \A s \in reached : Len(commands[s]) < MaxQueued
       /\ commands' = [s \in Sensor |->
                         IF s \in reached THEN Append(commands[s], previousRules')
                         ELSE commands[s]]
  /\ UNCHANGED <<running, recent, ruleSyncState, batch, strategy, version,
                 deployedSensors, failureCount, unconfirmed, before, restarts>>

-----------------------------------------------------------------------------
(* The two latest successes are all that a rollback asks for (take: 2).    *)
Latest(v) == IF recent = << >> THEN <<v>> ELSE <<recent[Len(recent)], v>>

(* The sensor: update_waf_rules leaves the rules alone when it is sent an  *)
(* empty set, and says it succeeded.                                       *)
Applied(s) ==
  IF Head(commands[s]) = 0 THEN running
  ELSE [running EXCEPT ![s] = Head(commands[s])]

Execute(s) ==
  /\ commands[s] # << >>
  /\ running' = Applied(s)
  /\ commands' = [commands EXCEPT ![s] = Tail(@)]
  /\ recent' = Latest(Head(commands[s]))
  /\ UNCHANGED <<ruleSyncState, pc, batch, rollout, restarts>>

(* The command fails, before the sensor has it or after.                   *)
CommandFails(s) ==
  /\ commands[s] # << >>
  /\ commands' = [commands EXCEPT ![s] = Tail(@)]
  /\ running' \in {running, Applied(s)}
  /\ UNCHANGED <<recent, ruleSyncState, pc, batch, rollout, restarts>>

-----------------------------------------------------------------------------
(* The process dies with its rollout and its command queues.               *)
Restart ==
  /\ restarts < MaxRestarts /\ restarts' = restarts + 1
  /\ pc' = IF pc \in {"idle", "done", "rolledback"} THEN pc ELSE "error"
  /\ commands' = [s \in Sensor |-> << >>]
  /\ UNCHANGED <<running, recent, ruleSyncState, batch, rollout>>

RolloutStep ==
  \/ SyncRows \/ Throws \/ Send \/ SendThrows \/ NextStage
  \/ BatchEnds \/ Rollback

Next ==
  \/ Start \/ RolloutStep \/ Poll
  \/ \E s \in Sensor : Execute(s) \/ CommandFails(s)
  \/ Restart

Spec == Init /\ [][Next]_vars

(* Each await ends, the sensors answer, and the timeouts come.             *)
FairSpec ==
  /\ Spec
  /\ WF_vars(RolloutStep)
  /\ \A s \in Sensor : WF_vars(Execute(s))

-----------------------------------------------------------------------------
(* A rolling rollout that goes wrong stops early: with rollback enabled it *)
(* reaches at most MaxFailures - 1 sensors that were not found healthy,    *)
(* and the batch under way.                                                *)
BlastRadius ==
  strategy = "rolling" /\ RollbackOnFailure /\ pc \in {"sending", "health"} =>
    Cardinality(unconfirmed \union ((first..last) \ confirmed)) <=
      MaxFailures - 1 + BatchSize

(* A rollout that ends without an error has tried every target: the slices *)
(* of the batches and of the canary stages leave none out.                 *)
DoneIsComplete ==
  pc = "done" =>
    /\ strategy # "rolling" => deployedSensors = Sensor
    /\ strategy = "rolling" =>
         Cardinality(Sensor \ deployedSensors) <= failureCount

(* A rollout ends.                                                         *)
RolloutEnds == pc = "sending" ~> pc \in {"done", "rolledback", "error"}

(* "Rollback deployment to previous rules"; "We look for the second-to-    *)
(* last successful deployment (since the last one is current)": the rules  *)
(* a rollback sends are those the sensor ran before the rollout.           *)
RollbackRestores ==
  pc = "rolledback" => \A s \in deployedSensors : previousRules = before[s]
=============================================================================
