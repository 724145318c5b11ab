------------------------- MODULE ScheduledDeployment -------------------------
(***************************************************************************)
(* Scheduled rule deployments (services/fleet/rule-distributor.ts): a row  *)
(* in the database, a timer in memory, a cancellation that reads, checks   *)
(* and overwrites the row, and the recovery after a restart.               *)
(***************************************************************************)
EXTENDS Naturals

CONSTANTS Deployment, MaxRestarts

VARIABLES
  row,         \* status in the database
  timer,       \* entries of scheduledTimers
  executing,   \* where executeScheduledDeployment stands
  cancelling,  \* where cancelScheduledDeployment stands, or what it has read
  executions,  \* how often the rules were pushed
  restarts

vars == <<row, timer, executing, cancelling, executions, restarts>>

RowStatus == {"PENDING", "EXECUTING", "COMPLETED", "FAILED", "CANCELLED"}
Stage == {"no", "marking", "deploying", "recording", "failing"}

TypeOK ==
  /\ row \in [Deployment -> RowStatus \union {"none"}]
  /\ timer \subseteq Deployment
  /\ executing \in [Deployment -> Stage]
  /\ cancelling \in [Deployment -> RowStatus \union {"no", "cleared"}]
  /\ executions \in [Deployment -> Nat]
  /\ restarts \in 0..MaxRestarts

Init ==
  /\ row = [d \in Deployment |-> "none"] /\ timer = {}
  /\ executing = [d \in Deployment |-> "no"]
  /\ cancelling = [d \in Deployment |-> "no"]
  /\ executions = [d \in Deployment |-> 0]
  /\ restarts = 0

(* deployScheduled and scheduleDeploymentTimer.                            *)
deployScheduled(d) ==
  /\ row[d] = "none"
  /\ row' = [row EXCEPT ![d] = "PENDING"]
  /\ timer' = timer \union {d}
  /\ UNCHANGED <<executing, cancelling, executions, restarts>>

-----------------------------------------------------------------------------
(* executeScheduledDeployment, await by await; every query may fail.       *)
Executes(d, here, there) ==
  executing[d] = here /\ executing' = [executing EXCEPT ![d] = there]

TimerFires(d) ==
  /\ d \in timer /\ timer' = timer \ {d}
  /\ Executes(d, "no", "marking")
  /\ UNCHANGED <<row, cancelling, executions, restarts>>

MarkExecuting_Skips(d) == Executes(d, "marking", "deploying") /\ UNCHANGED row
MarkExecuting(d) ==
  /\ Executes(d, "marking", "deploying")
  /\ row' = [row EXCEPT ![d] = "EXECUTING"]

Mark(d) ==
  /\ \/ MarkExecuting(d)
     \/ Executes(d, "marking", "failing") /\ UNCHANGED row
  /\ UNCHANGED <<timer, cancelling, executions, restarts>>

(* deployImmediate, which may fail having sent some of its commands.       *)
Deploy(d) ==
  /\ \/ Executes(d, "deploying", "recording") \/ Executes(d, "deploying", "failing")
  /\ executions' = [executions EXCEPT ![d] = @ + 1]
  /\ UNCHANGED <<row, timer, cancelling, restarts>>

Record(d) ==
  /\ \/ /\ Executes(d, "recording", "no")
        /\ row' = [row EXCEPT ![d] = "COMPLETED"]
     \/ Executes(d, "recording", "failing") /\ UNCHANGED row
     \/ /\ Executes(d, "failing", "no")
        /\ row' \in {row, [row EXCEPT ![d] = "FAILED"]}
  /\ UNCHANGED <<timer, cancelling, executions, restarts>>

-----------------------------------------------------------------------------
(* cancelScheduledDeployment: the timer may fire between the read and the  *)
(* check, and between the check and the write.                             *)
CancelReads(d) ==
  /\ cancelling[d] = "no" /\ row[d] # "none"
  /\ cancelling' = [cancelling EXCEPT ![d] = row[d]]
  /\ UNCHANGED <<row, timer, executing, executions, restarts>>

CancelChecks(d) ==
  /\ \/ /\ cancelling[d] = "PENDING"
        /\ timer' = timer \ {d}
        /\ cancelling' = [cancelling EXCEPT ![d] = "cleared"]
     \/ /\ cancelling[d] \in RowStatus \ {"PENDING"}
        /\ cancelling' = [cancelling EXCEPT ![d] = "no"] /\ UNCHANGED timer
  /\ UNCHANGED <<row, executing, executions, restarts>>

CancelWrites(d) ==
  /\ cancelling[d] = "cleared"
  /\ cancelling' = [cancelling EXCEPT ![d] = "no"]
  /\ \/ row' = [row EXCEPT ![d] = "CANCELLED"]
     \/ UNCHANGED row
  /\ UNCHANGED <<timer, executing, executions, restarts>>

-----------------------------------------------------------------------------
(* A new process.  recoverScheduledDeployments takes the pending rows up   *)
(* again, those whose time has come at once; nothing calls it today, and   *)
(* the restart is modelled without it and with it.                         *)
Pending == {d \in Deployment : row[d] = "PENDING"}

Restart ==
  /\ restarts < MaxRestarts /\ restarts' = restarts + 1
  /\ cancelling' = [d \in Deployment |-> "no"]
  /\ \E due \in SUBSET Pending, recovered \in {{}, Pending} :
       /\ timer' = recovered \ due
       /\ executing' = [d \in Deployment |->
                          IF d \in recovered \intersect due THEN "marking" ELSE "no"]
  /\ UNCHANGED <<row, executions>>

ExecuteStep(d) == TimerFires(d) \/ Mark(d) \/ Deploy(d) \/ Record(d)
CancelStep(d) == CancelReads(d) \/ CancelChecks(d) \/ CancelWrites(d)

Next ==
  \/ \E d \in Deployment : deployScheduled(d) \/ ExecuteStep(d) \/ CancelStep(d)
  \/ Restart

Spec == Init /\ [][Next]_vars

-----------------------------------------------------------------------------
(* The rules of a scheduled deployment are pushed at most once, whatever   *)
(* the timer, a cancellation, a restart and the recovery do: the row says  *)
(* EXECUTING before the first command leaves.                              *)
PushedOnce == \A d \in Deployment : executions[d] <= 1
=============================================================================
