------------------------------ MODULE BlueGreen ------------------------------
(***************************************************************************)
(* Blue/green rule deployments (services/fleet/rule-distributor.ts):       *)
(* the rules are staged on every target, then one broadcast switches the   *)
(* fleet.  deployBlueGreen is a process that awaits the state store, the   *)
(* fleet commander and its two timeouts; meanwhile the commander's events  *)
(* update the state the process polls.  The state store                    *)
(* (deployment-state-store.ts) brings deployments back after a restart.    *)
(*                                                                         *)
(* The fleet commander keeps one row per command and merges a push_rules   *)
(* into a row of the same sensor that is still pending and less than five  *)
(* seconds old: the new payload goes out under the old id.  A row stays    *)
(* pending until the update that follows the send, so the earlier payload  *)
(* may be on its way.  A success is credited with the payload the hub last *)
(* stored under the id, whichever one the sensor has answered.  Retries    *)
(* let commands arrive in any order.  What a sensor loads of a row that    *)
(* was answered or taken over is left out: it only makes records true.     *)
(*                                                                         *)
(* The sensor is push_rules of synapse-pingora/src/horizon/client.rs: it   *)
(* has no place for staged rules.  It serves the rules of every payload    *)
(* that carries some at once, and refuses the payloads that carry none, to *)
(* activate or to abort.                                                   *)
(***************************************************************************)
EXTENDS Integers, FiniteSets

CONSTANTS Deployment,
          Sensor,                \* the sensors of the tenant
          Target,                \* sensorIds of every deployment
          NoDeployment,          \* deploymentId of other callers' push_rules
          RequireAllStaged, MinStagedPercentage,   \* the RolloutConfig
          MaxRestarts, MaxMerges \* bounds of the model

ASSUME BlueGreenAssumption ==
  /\ Target \subseteq Sensor /\ NoDeployment \notin Deployment
  /\ IsFiniteSet(Sensor) /\ Target # {}
  /\ RequireAllStaged \in BOOLEAN
  /\ MinStagedPercentage \in 0..100 /\ MaxRestarts \in Nat /\ MaxMerges \in Nat

(* A BlueGreenDeploymentState before its first staging; "absent" stands    *)
(* for one that a map does not hold.                                       *)
Fresh(status) ==
  [status |-> status, staging |-> [s \in Target |-> "none"], green |-> {}]
Absent == Fresh("absent")

VARIABLES
  pc,                \* where deployBlueGreen stands
  unsent,            \* sensors the current command has still to be sent to
  activeDeployments, \* the map, with Absent for what it does not hold
  store,             \* the same in Redis
  rows,              \* the open rows whose payload is a deployment's
  acked,             \* the command-success events on the way to the distributor
  loaded,            \* <<d, s>>: s has loaded, and serves, the rules of d
  merged,            \* history: commands sent under an id with an earlier payload
                     \* on the wire, whose answer may be taken for theirs
  restarts

process == <<pc, unsent>>
state == <<activeDeployments, store>>
wire == <<rows, acked>>
sensors == <<loaded, merged>>
vars == <<process, state, wire, sensors, restarts>>

Kind == {"stage", "activate", "abort"}
Command == [d : Deployment, s : Sensor, kind : Kind]
Other == [d |-> NoDeployment, kind |-> "rules"]
Payload == [d : Deployment, kind : Kind] \union {Other}
PayloadOf(c) == [d |-> c.d, kind |-> c.kind]

(* A row: the command the hub has stored under its id, and the payloads    *)
(* sent under the id, which the sensor may execute.                        *)
Row(c, w) == [cmd |-> c, wire |-> w]
RowType == [cmd : Command, wire : SUBSET Payload]

Stages == {"idle", "starting", "staging", "waiting", "staged", "switching", "activating",
           "confirming", "aborting", "recalling", "cleanup", "retired", "failed", "done",
           "dead"}

StagingStatus == {"none", "pending", "staged", "failed"}
DeploymentState ==
  [status : {"absent", "staging", "staged", "switching", "active", "failed",
             "retired"},
   staging : [Target -> StagingStatus],
   green : SUBSET Target]

TypeOK ==
  /\ pc \in [Deployment -> Stages]
  /\ unsent \in [Deployment -> SUBSET Sensor]
  /\ activeDeployments \in [Deployment -> DeploymentState]
  /\ store \in [Deployment -> DeploymentState]
  /\ rows \subseteq RowType
  /\ acked \subseteq Command
  /\ loaded \subseteq Deployment \X Sensor
  /\ merged \subseteq Command
  /\ restarts \in 0..MaxRestarts

Init ==
  /\ pc = [d \in Deployment |-> "idle"]
  /\ unsent = [d \in Deployment |-> {}]
  /\ activeDeployments = [d \in Deployment |-> Absent]
  /\ store = [d \in Deployment |-> Absent]
  /\ rows = {} /\ acked = {}
  /\ loaded = {} /\ merged = {}
  /\ restarts = 0

-----------------------------------------------------------------------------
(* The state store: an error is logged and forgotten.                      *)
safeUpsertDeploymentState(d, st) == store' \in {store, [store EXCEPT ![d] = st]}
safeDeleteDeploymentState(d) == store' \in {store, [store EXCEPT ![d] = Absent]}

Becomes(d, st) ==
  /\ activeDeployments' = [activeDeployments EXCEPT ![d] = st]
  /\ safeUpsertDeploymentState(d, st)

Goes(d, here, there) == pc[d] = here /\ pc' = [pc EXCEPT ![d] = there]

Staged(st) == {s \in Target : st.staging[s] = "staged"}
AllSwitched(st) == Staged(st) \subseteq st.green

-----------------------------------------------------------------------------
(* FleetCommander.sendCommand: a row of its own, or the pending row of an  *)
(* earlier push_rules, of this or any other caller.  The sender's object   *)
(* is overwritten: if the earlier payload had not left it never will,      *)
(* otherwise the sensor may execute and answer either.                     *)
Pending(s) == {r \in rows : r.cmd.s = s}

sendCommand(c) ==
  \/ /\ rows' = rows \union {Row(c, {PayloadOf(c)})}
     /\ UNCHANGED merged
  \/ \E r \in Pending(c.s) :
        /\ rows' = (rows \ {r}) \union {Row(c, {PayloadOf(c)})}
        /\ UNCHANGED merged
  \/ /\ Cardinality(merged) < MaxMerges
     /\ merged' = merged \union {c}
     /\ \/ rows' = rows \union {Row(c, {PayloadOf(c), Other})}
        \/ \E r \in Pending(c.s) :
             rows' = (rows \ {r}) \union {Row(c, r.wire \union {PayloadOf(c)})}

(* Another caller's push_rules takes a row over: its answer will name      *)
(* nothing, its failure is one of OtherCommandFails.                       *)
OtherPush(r) ==
  /\ r \in rows /\ rows' = rows \ {r}
  /\ UNCHANGED <<process, state, acked, sensors, restarts>>

(* One of the calls of sendCommand in Promise.all or sendCommandToMultiple.*)
Send(d, s, kind) ==
  /\ s \in unsent[d]
  /\ unsent' = [unsent EXCEPT ![d] = @ \ {s}]
  /\ sendCommand([d |-> d, s |-> s, kind |-> kind])
  /\ UNCHANGED <<pc, state, acked, loaded, restarts>>

(* broadcastCommand reads the sensors of the tenant connected at the       *)
(* moment, targets or not, and sends to one after the other.               *)
broadcastCommand(d) == \E connected \in SUBSET Sensor : unsent' = [unsent EXCEPT ![d] = connected]

-----------------------------------------------------------------------------
(* deployBlueGreen                                                         *)
Start(d) ==
  /\ Goes(d, "idle", "starting")
  /\ Becomes(d, Fresh("staging"))
  /\ UNCHANGED <<unsent, wire, sensors, restarts>>

(* stageGreenDeployment: every target is pending before the first send.    *)
StageGreen(d) ==
  /\ Goes(d, "starting", "staging")
  /\ unsent' = [unsent EXCEPT ![d] = Target]
  /\ activeDeployments' =
       [activeDeployments EXCEPT ![d].staging = [s \in Target |-> "pending"]]
  /\ UNCHANGED <<store, wire, sensors, restarts>>

SendStage(d, s) == pc[d] = "staging" /\ Send(d, s, "stage")

SendStageThrows(d, s) ==
  /\ pc[d] = "staging" /\ s \in unsent[d]
  /\ unsent' = [unsent EXCEPT ![d] = @ \ {s}]
  /\ activeDeployments' = [activeDeployments EXCEPT ![d].staging[s] = "failed"]
  /\ UNCHANGED <<pc, store, wire, sensors, restarts>>

StageSent(d) ==
  /\ Goes(d, "staging", "waiting")
  /\ unsent[d] = {}
  /\ Becomes(d, activeDeployments[d])
  /\ UNCHANGED <<unsent, wire, sensors, restarts>>

(* The two conditions of deployBlueGreen on the staged targets.            *)
StagedEnough(S) ==
  /\ RequireAllStaged => S = Target
  /\ Cardinality(S) * 100 >= MinStagedPercentage * Cardinality(Target)

StagingSucceeded_Answered(st) ==
  StagedEnough({s \in Target : st.staging[s] # "pending"})
StagingSucceeded(st) == StagedEnough(Staged(st))

(* waitForStagingComplete ends when no target is pending, or by the        *)
(* timeout; the thrown error sets "failed" in the same step.               *)
WaitForStaging_NoTimeout(d) ==
  \A s \in Target : activeDeployments[d].staging[s] \notin {"none", "pending"}
WaitForStaging(d) == TRUE

StagingEnds(d) ==
  LET st == activeDeployments[d]
  IN  /\ pc[d] = "waiting" /\ WaitForStaging(d)
      /\ \/ /\ StagingSucceeded(st)
            /\ Goes(d, "waiting", "staged")
            /\ Becomes(d, [st EXCEPT !.status = "staged"])
         \/ /\ ~StagingSucceeded(st)
            /\ Goes(d, "waiting", "aborting")
            /\ Becomes(d, [st EXCEPT !.status = "failed"])
      /\ UNCHANGED <<unsent, wire, sensors, restarts>>

Switch(d) ==
  /\ Goes(d, "staged", "switching")
  /\ Becomes(d, [activeDeployments[d] EXCEPT !.status = "switching"])
  /\ UNCHANGED <<unsent, wire, sensors, restarts>>

(* executeBlueGreenSwitch: the broadcast, which may throw on its way       *)
(* through the sensors, and the poll for the confirmations.                *)
ExecuteSwitch(d) ==
  /\ Goes(d, "switching", "activating")
  /\ broadcastCommand(d)
  /\ UNCHANGED <<state, wire, sensors, restarts>>

SendActivate(d, s) == pc[d] = "activating" /\ Send(d, s, "activate")

ActivateSent(d) ==
  /\ Goes(d, "activating", "confirming")
  /\ unsent[d] = {}
  /\ UNCHANGED <<unsent, state, wire, sensors, restarts>>

SwitchThrows(d) ==
  /\ Goes(d, "switching", "aborting") \/ Goes(d, "activating", "aborting")
  /\ unsent' = [unsent EXCEPT ![d] = {}]
  /\ Becomes(d, [activeDeployments[d] EXCEPT !.status = "failed"])
  /\ UNCHANGED <<wire, sensors, restarts>>

SwitchConfirmed(d) ==
  /\ Goes(d, "confirming", "cleanup")
  /\ AllSwitched(activeDeployments[d])
  /\ Becomes(d, [activeDeployments[d] EXCEPT !.status = "active"])
  /\ UNCHANGED <<unsent, wire, sensors, restarts>>

SwitchTimesOut(d) ==
  /\ Goes(d, "confirming", "aborting")
  /\ Becomes(d, [activeDeployments[d] EXCEPT !.status = "failed"])
  /\ UNCHANGED <<unsent, wire, sensors, restarts>>

Forget(d) ==
  /\ activeDeployments' = [activeDeployments EXCEPT ![d] = Absent]
  /\ safeDeleteDeploymentState(d)

(* abortGreenDeployment: the broadcast may throw anywhere, and the error is*)
(* swallowed.                                                              *)
AbortGreen(d) ==
  /\ Goes(d, "aborting", "recalling")
  /\ broadcastCommand(d)
  /\ UNCHANGED <<state, wire, sensors, restarts>>

SendAbort(d, s) == pc[d] = "recalling" /\ Send(d, s, "abort")

AbortEnds(d) ==
  /\ Goes(d, "recalling", "failed")
  /\ unsent' = [unsent EXCEPT ![d] = {}]
  /\ Forget(d)
  /\ UNCHANGED <<wire, sensors, restarts>>

(* scheduleBlueCleanup: the two timers.                                    *)
Retire(d) ==
  /\ Goes(d, "cleanup", "retired")
  /\ Becomes(d, [activeDeployments[d] EXCEPT !.status = "retired"])
  /\ UNCHANGED <<unsent, wire, sensors, restarts>>

CleanUp(d) ==
  /\ Goes(d, "retired", "done")
  /\ Forget(d)
  /\ UNCHANGED <<unsent, wire, sensors, restarts>>

-----------------------------------------------------------------------------
(* The listeners of setFleetCommander.                                     *)
Known(d) == IF activeDeployments[d] = Absent THEN store[d] ELSE activeDeployments[d]

(* A success names the deployment of the payload it is credited with, which*)
(* is loaded from the store if need be.  In the switch any success counts. *)
MarkSuccess_Promotes(st, s) ==
  IF st.status = "staging" /\ st.staging[s] = "pending"
    THEN [st EXCEPT !.staging[s] = "staged"]
  ELSE IF st.status = "switching"
    THEN [st EXCEPT !.staging[s] = "staged", !.green = @ \union {s}]
  ELSE st
MarkSuccess_WrongField(st, s) ==
  IF st.status = "staging" /\ st.staging[s] = "pending"
    THEN [st EXCEPT !.staging[s] = "staged"]
  ELSE IF st.status = "switching"
    THEN [st EXCEPT !.staging[s] = "green"]
  ELSE st
MarkSuccess(st, s) ==
  IF st.status = "staging" /\ st.staging[s] = "pending"
    THEN [st EXCEPT !.staging[s] = "staged"]
  ELSE IF st.status = "switching"
    THEN [st EXCEPT !.green = @ \union {s}]
  ELSE st

CommandSucceeded(c) ==
  LET st == Known(c.d)
      new == IF c.s \in Target /\ st.staging[c.s] # "none"
               THEN MarkSuccess(st, c.s) ELSE st
  IN  /\ c \in acked /\ acked' = acked \ {c}
      /\ activeDeployments' = [activeDeployments EXCEPT ![c.d] = new]
      /\ IF new = st THEN UNCHANGED store ELSE safeUpsertDeploymentState(c.d, new)
      /\ UNCHANGED <<process, rows, sensors, restarts>>

(* A failure names no deployment: that of any command of the sensor counts *)
(* for every deployment that waits for the sensor.                         *)
MarkFailed_Staged(st, s) ==
  IF s \in Target /\ st.status = "staging" /\ st.staging[s] = "pending"
    THEN [st EXCEPT !.staging[s] = "staged"] ELSE st
MarkFailed(st, s) ==
  IF s \in Target /\ st.status = "staging" /\ st.staging[s] = "pending"
    THEN [st EXCEPT !.staging[s] = "failed"] ELSE st

FailureEvent(s) ==
  /\ activeDeployments' =
       [d \in Deployment |-> MarkFailed(activeDeployments[d], s)]
  /\ store' \in {store,
                 [d \in Deployment |->
                    IF activeDeployments'[d] = activeDeployments[d] THEN store[d]
                    ELSE activeDeployments'[d]]}

OtherCommandFails(s) ==
  /\ FailureEvent(s)
  /\ UNCHANGED <<process, wire, sensors, restarts>>

-----------------------------------------------------------------------------
(* PushRules of the sensor: it serves the rules of a payload that carries  *)
(* some.  The success is credited with what the row says; or it is lost,   *)
(* and the command may still fail.                                         *)
CarriesRules(q) == q.kind \in {"stage", "rules"}

push_rules(r, q) ==
  /\ r \in rows /\ q \in r.wire /\ CarriesRules(q)
  /\ loaded' = IF q = Other THEN loaded ELSE loaded \union {<<q.d, r.cmd.s>>}
  /\ \/ rows' = rows \ {r} /\ acked' = acked \union {r.cmd}
     \/ UNCHANGED wire
  /\ UNCHANGED <<process, state, merged, restarts>>

(* The sensor refuses the payload, as it does every one without rules, or  *)
(* the command never reaches it: the row fails.                            *)
CommandFailed(r) ==
  /\ r \in rows /\ rows' = rows \ {r}
  /\ FailureEvent(r.cmd.s)
  /\ UNCHANGED <<process, acked, sensors, restarts>>

-----------------------------------------------------------------------------
(* A new process: the constructor loads the store, which may fail, and     *)
(* nobody runs the deployments it finds.  Commands and answers outlive the *)
(* process: other instances share the database.                            *)
Restart ==
  /\ restarts < MaxRestarts /\ restarts' = restarts + 1
  /\ pc' = [d \in Deployment |->
              IF pc[d] \in {"idle", "failed", "done"} THEN pc[d] ELSE "dead"]
  /\ unsent' = [d \in Deployment |-> {}]
  /\ activeDeployments' \in {store, [d \in Deployment |-> Absent]}
  /\ UNCHANGED <<store, wire, sensors>>

Process(d) ==
  \/ StageGreen(d) \/ StageSent(d) \/ StagingEnds(d)
  \/ \E s \in Target : SendStage(d, s) \/ SendStageThrows(d, s)
  \/ Switch(d) \/ ExecuteSwitch(d) \/ ActivateSent(d) \/ SwitchThrows(d)
  \/ \E s \in Sensor : SendActivate(d, s) \/ SendAbort(d, s)
  \/ SwitchConfirmed(d) \/ SwitchTimesOut(d) \/ AbortGreen(d) \/ AbortEnds(d)
  \/ Retire(d) \/ CleanUp(d)

Next ==
  \/ \E d \in Deployment : Start(d) \/ Process(d)
  \/ \E r \in rows : \/ \E q \in r.wire : push_rules(r, q)
                     \/ CommandFailed(r) \/ OtherPush(r)
  \/ \E c \in acked : CommandSucceeded(c)
  \/ \E s \in Sensor : OtherCommandFails(s)
  \/ Restart

Spec == Init /\ [][Next]_vars

(* Sends, the store and the timers come back: the process does not stop.   *)
FairSpec == Spec /\ \A d \in Deployment : WF_vars(Process(d))

-----------------------------------------------------------------------------
(* A command of the deployment to the sensor shared its id with another's  *)
(* payload, so that an answer to that one may have been taken for its own. *)
Shared(d, s) == \E kind \in Kind : [d |-> d, s |-> s, kind |-> kind] \in merged

(* The fleet is told to switch only after the required share of the targets*)
(* has loaded the rules: nobody is sent the activation before, however the *)
(* store fails, answers overtake each other or processes come and go.  A   *)
(* target may be missing only where the commander's merge of push_rules    *)
(* let another answer pass for its own.                                    *)
SwitchNeedsQuorum ==
  \A d \in Deployment, r \in rows :
    [d |-> d, kind |-> "activate"] \in r.wire
      => StagedEnough({t \in Target : <<d, t>> \in loaded \/ Shared(d, t)})

(* A late answer to the staging never passes for a confirmation of the     *)
(* switch.  The sensor of this repository refuses the activation, so what  *)
(* has confirmed it, on every sensor that counts as staged in an active    *)
(* deployment, is an answer to another push_rules under the id that the    *)
(* activation shared.                                                      *)
ActiveIsSwitched ==
  \A d \in Deployment :
    LET st == activeDeployments[d]
    IN  st.status = "active" =>
          \A s \in Staged(st) : [d |-> d, s |-> s, kind |-> "activate"] \in merged

(* What is recorded of a sensor is true, in memory, in the store and after *)
(* a restart: staged rules were loaded, unless a command of the deployment *)
(* to the sensor shared its id and may have another's answer.              *)
StagedWasLoaded ==
  \A d \in Deployment :
    \A st \in {activeDeployments[d], store[d]} :
      \A s \in Staged(st) : <<d, s>> \in loaded \/ Shared(d, s)

(* A deployment ends, whatever the sensors do, unless the process dies.    *)
DeploymentEnds ==
  \A d \in Deployment : pc[d] = "starting" ~> pc[d] \in {"failed", "done", "dead"}
=============================================================================
