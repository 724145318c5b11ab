--------------------------- MODULE RuleDistributor ---------------------------
(***************************************************************************)
(* The rule distributor at work on one fleet: rollouts and scheduled       *)
(* deployments run side by side.  They meet in the sensors' command        *)
(* queues, in the table of sync states, in the history a rollback reads    *)
(* and in the restart of the process.                                      *)
(***************************************************************************)
EXTENDS RuleRollout

CONSTANT Deployment   \* the scheduled deployments

VARIABLES row, timer, executing, cancelling, executions

Schedule == INSTANCE ScheduledDeployment

scheduled == <<row, timer, executing, cancelling, executions>>
rollouts == <<fleet, pc, batch, rollout>>
all == <<rollouts, scheduled, restarts>>

(* The deployImmediate of a scheduled deployment: the rows of all sensors, *)
(* then the commands in order, up to the first that throws.                *)
PushScheduled(d) ==
  /\ Schedule!Deploy(d)
  /\ \E n \in 0..NumSensors :
       /\ \A s \in 1..n : Len(commands[s]) < MaxQueued
       /\ (n = NumSensors) = (executing'[d] = "recording")
       /\ commands' = [s \in Sensor |-> IF s <= n THEN Append(commands[s], ScheduledRules)
                                        ELSE commands[s]]
  /\ ruleSyncState' = Sensor
  /\ UNCHANGED <<running, recent, pc, batch, rollout>>

ScheduleStep(d) ==
  /\ \/ Schedule!deployScheduled(d) \/ Schedule!TimerFires(d)
     \/ Schedule!Mark(d) \/ Schedule!Record(d)
     \/ Schedule!CancelReads(d) \/ Schedule!CancelChecks(d)
     \/ Schedule!CancelWrites(d)
  /\ UNCHANGED rollouts

RestartAll == Restart /\ Schedule!Restart

DistributorInit == Init /\ Schedule!Init

DistributorNext ==
  \/ /\ \/ Start \/ RolloutStep \/ Poll
        \/ \E s \in Sensor : Execute(s) \/ CommandFails(s)
     /\ UNCHANGED scheduled
  \/ \E d \in Deployment : ScheduleStep(d) \/ PushScheduled(d)
  \/ RestartAll

(* Each await ends, by its timeout if not otherwise, and the sensors       *)
(* answer.                                                                 *)
DistributorSpec ==
  /\ DistributorInit /\ [][DistributorNext]_all
  /\ WF_all(RolloutStep /\ UNCHANGED scheduled)
  /\ \A s \in Sensor : WF_all(Execute(s) /\ UNCHANGED scheduled)

(* The rules of a scheduled deployment are pushed at most once, whatever   *)
(* the timer, a cancellation, a restart and the recovery do: the row says  *)
(* EXECUTING before the first command leaves.                              *)
PushedOnce == Schedule!PushedOnce
=============================================================================
