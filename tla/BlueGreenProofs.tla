--------------------------- MODULE BlueGreenProofs ---------------------------
(***************************************************************************)
(* What the blue/green protocol guarantees, for any number of deployments, *)
(* sensors and restarts and any thresholds.  Type correctness comes first; *)
(* then the record of what is staged is shown to be true but for merged    *)
(* commands; from it, that nobody is told to switch without the required   *)
(* share of staged targets; last, what a confirmation of the switch means. *)
(***************************************************************************)
EXTENDS BlueGreen, FiniteSetTheorems, TLAPS

(* What Becomes and Forget do to the two maps.                             *)
LEMMA BecomesMaps ==
  ASSUME TypeOK, NEW d \in Deployment, NEW st \in DeploymentState, Becomes(d, st)
  PROVE  /\ activeDeployments' \in [Deployment -> DeploymentState]
         /\ store' \in [Deployment -> DeploymentState]
         /\ activeDeployments'[d] = st /\ store'[d] \in {store[d], st}
         /\ \A e \in Deployment \ {d} : activeDeployments'[e] = activeDeployments[e]
                                        /\ store'[e] = store[e]
  BY DEF TypeOK, Becomes, safeUpsertDeploymentState

LEMMA AbsentTyped ==
  ASSUME NEW status \in {"absent", "staging"}
  PROVE  /\ Fresh(status) \in DeploymentState
         /\ Fresh(status).staging = [s \in Target |-> "none"]
  BY DEF Fresh, DeploymentState, StagingStatus

LEMMA ForgetMaps ==
  ASSUME TypeOK, NEW d \in Deployment, Forget(d)
  PROVE  /\ activeDeployments' \in [Deployment -> DeploymentState]
         /\ store' \in [Deployment -> DeploymentState]
         /\ activeDeployments'[d] = Absent /\ store'[d] \in {store[d], Absent}
         /\ \A e \in Deployment \ {d} : activeDeployments'[e] = activeDeployments[e]
                                        /\ store'[e] = store[e]
  BY AbsentTyped DEF TypeOK, Forget, safeDeleteDeploymentState, Absent

(* A state with another status.                                            *)
LEMMA StateUpdates ==
  ASSUME NEW st \in DeploymentState
  PROVE  \A v \in {"staged", "switching", "active", "failed", "retired"} :
           /\ [st EXCEPT !.status = v] \in DeploymentState
           /\ [st EXCEPT !.status = v].staging = st.staging
  BY DEF DeploymentState, StagingStatus

(* The listeners keep a state well-formed; a failure stages nothing, and a *)
(* success stages at most its own sensor.                                  *)
LEMMA MarkUpdates ==
  ASSUME NEW st \in DeploymentState, NEW s \in Sensor
  PROVE  /\ MarkFailed(st, s) \in DeploymentState
         /\ \A t \in Target : MarkFailed(st, s).staging[t] = "staged"
                              => st.staging[t] = "staged"
         /\ s \in Target => MarkSuccess(st, s) \in DeploymentState
         /\ s \in Target => \A t \in Target : MarkSuccess(st, s).staging[t] = "staged"
                              => t = s \/ st.staging[t] = "staged"
<1>1. st.staging \in [Target -> StagingStatus]
  BY DEF DeploymentState
<1>3. /\ MarkFailed(st, s) \in DeploymentState
      /\ \A t \in Target : MarkFailed(st, s).staging[t] = "staged"
                           => st.staging[t] = "staged"
  <2>1. CASE s \in Target /\ st.status = "staging" /\ st.staging[s] = "pending"
    <3>1. MarkFailed(st, s) = [st EXCEPT !.staging[s] = "failed"]
      BY <2>1 DEF MarkFailed
    <3>2. /\ [st EXCEPT !.staging[s] = "failed"] \in DeploymentState
          /\ [st EXCEPT !.staging[s] = "failed"].staging
               = [st.staging EXCEPT ![s] = "failed"]
      BY <2>1 DEF DeploymentState, StagingStatus
    <3>3. \A t \in Target : [st.staging EXCEPT ![s] = "failed"][t] = "staged"
                             => st.staging[t] = "staged"
      BY <2>1, <1>1
    <3> QED
      BY <3>1, <3>2, <3>3, Zenon
  <2>2. CASE ~(s \in Target /\ st.status = "staging" /\ st.staging[s] = "pending")
    BY <2>2 DEF MarkFailed
  <2> QED
    BY <2>1, <2>2
<1>4. ASSUME s \in Target
      PROVE  /\ MarkSuccess(st, s) \in DeploymentState
             /\ \A t \in Target : MarkSuccess(st, s).staging[t] = "staged"
                                  => t = s \/ st.staging[t] = "staged"
  <2>1. MarkSuccess(st, s) \in {st, [st EXCEPT !.staging[s] = "staged"],
                                [st EXCEPT !.green = @ \union {s}]}
    BY DEF MarkSuccess
  <2>2. /\ [st EXCEPT !.staging[s] = "staged"] \in DeploymentState
        /\ [st EXCEPT !.staging[s] = "staged"].staging
             = [st.staging EXCEPT ![s] = "staged"]
        /\ [st EXCEPT !.green = @ \union {s}] \in DeploymentState
        /\ [st EXCEPT !.green = @ \union {s}].staging = st.staging
    BY <1>4 DEF DeploymentState, StagingStatus
  <2>3. MarkSuccess(st, s).staging \in {st.staging, [st.staging EXCEPT ![s] = "staged"]}
    BY <2>1, <2>2
  <2>4. \A t \in Target : [st.staging EXCEPT ![s] = "staged"][t] = "staged"
                           => t = s \/ st.staging[t] = "staged"
    BY <1>1, <1>4
  <2>5. MarkSuccess(st, s) \in DeploymentState
    BY <2>1, <2>2, Zenon
  <2> QED
    BY <2>3, <2>4, <2>5, Zenon
<1> QED
  BY <1>3, <1>4

-----------------------------------------------------------------------------
(* The initial state is well-typed.                                        *)
LEMMA InitTyped == Init => TypeOK
  BY AbsentTyped, BlueGreenAssumption DEF Init, TypeOK, Absent, Stages

(* The listeners.                                                          *)
LEMMA SuccessMaps ==
  ASSUME TypeOK, NEW c \in Command, CommandSucceeded(c)
  PROVE  /\ activeDeployments' \in [Deployment -> DeploymentState]
         /\ store' \in [Deployment -> DeploymentState]
         /\ \A e \in Deployment \ {c.d} : activeDeployments'[e] = activeDeployments[e]
                                          /\ store'[e] = store[e]
         /\ \A st \in {activeDeployments'[c.d], store'[c.d]}, t \in Target :
              st.staging[t] = "staged" =>
                \/ t = c.s
                \/ activeDeployments[c.d].staging[t] = "staged"
                \/ store[c.d].staging[t] = "staged"
<1>0. c.d \in Deployment /\ c.s \in Sensor
  BY DEF Command
<1> DEFINE st == Known(c.d)
           new == IF c.s \in Target /\ st.staging[c.s] # "none"
                    THEN MarkSuccess(st, c.s) ELSE st
<1>1. st \in DeploymentState /\ st \in {activeDeployments[c.d], store[c.d]}
  BY <1>0 DEF TypeOK, Known
<1>2. /\ new \in DeploymentState
      /\ \A t \in Target : new.staging[t] = "staged" => t = c.s \/ st.staging[t] = "staged"
  BY <1>0, <1>1, MarkUpdates
<1>3. /\ activeDeployments' = [activeDeployments EXCEPT ![c.d] = new]
      /\ store' \in {store, [store EXCEPT ![c.d] = new]}
  BY DEF CommandSucceeded, safeUpsertDeploymentState
<1> HIDE DEF new, st
<1>4. activeDeployments'[c.d] = new /\ store'[c.d] \in {store[c.d], new}
  BY <1>0, <1>3 DEF TypeOK
<1>5. /\ activeDeployments' \in [Deployment -> DeploymentState]
      /\ store' \in [Deployment -> DeploymentState]
      /\ \A e \in Deployment \ {c.d} : activeDeployments'[e] = activeDeployments[e]
                                       /\ store'[e] = store[e]
  BY <1>0, <1>2, <1>3 DEF TypeOK
<1> QED
  BY <1>1, <1>2, <1>4, <1>5

LEMMA FailureMaps ==
  ASSUME TypeOK, NEW s \in Sensor, FailureEvent(s)
  PROVE  /\ activeDeployments' \in [Deployment -> DeploymentState]
         /\ store' \in [Deployment -> DeploymentState]
         /\ \A d \in Deployment : \A st \in {activeDeployments'[d], store'[d]}, t \in Target :
              st.staging[t] = "staged" =>
                \/ activeDeployments[d].staging[t] = "staged"
                \/ store[d].staging[t] = "staged"
<1>1. \A d \in Deployment : activeDeployments[d] \in DeploymentState
                            /\ store[d] \in DeploymentState
  BY DEF TypeOK
<1>2. \A d \in Deployment :
        /\ activeDeployments'[d] = MarkFailed(activeDeployments[d], s)
        /\ store'[d] \in {store[d], activeDeployments'[d]}
  BY DEF FailureEvent, TypeOK
<1>3. /\ activeDeployments' = [d \in Deployment |-> activeDeployments'[d]]
      /\ store' = [d \in Deployment |-> store'[d]]
  BY DEF FailureEvent, TypeOK
<1>4. \A d \in Deployment :
        /\ activeDeployments'[d] \in DeploymentState
        /\ \A t \in Target : activeDeployments'[d].staging[t] = "staged"
                             => activeDeployments[d].staging[t] = "staged"
  BY <1>1, <1>2, MarkUpdates
<1>5. \A d \in Deployment : store'[d] \in DeploymentState
  BY <1>1, <1>2, <1>4
<1>6. /\ activeDeployments' \in [Deployment -> DeploymentState]
      /\ store' \in [Deployment -> DeploymentState]
  BY <1>3, <1>4, <1>5
<1>7. ASSUME NEW d \in Deployment, NEW st \in {activeDeployments'[d], store'[d]},
             NEW t \in Target, st.staging[t] = "staged"
      PROVE  \/ activeDeployments[d].staging[t] = "staged"
             \/ store[d].staging[t] = "staged"
  BY <1>2, <1>4, <1>7
<1> QED
  BY <1>6, <1>7
-----------------------------------------------------------------------------
(* The maps stay well-formed, and hold a target as staged only when they   *)
(* did before, the target holds the rules or its commands shared an id.    *)
Maps ==
  /\ activeDeployments \in [Deployment -> DeploymentState]
  /\ store \in [Deployment -> DeploymentState]

StagedFrom ==
  \A d \in Deployment : \A st \in {activeDeployments'[d], store'[d]}, t \in Target :
    st.staging[t] = "staged" => \/ activeDeployments[d].staging[t] = "staged"
                                \/ store[d].staging[t] = "staged"
                                \/ <<d, t>> \in loaded \/ Shared(d, t)

(* A row that shares its id with no earlier payload carries its own; so a  *)
(* success credited to a command that did not share its id is one to the   *)
(* staging, by a sensor that holds the rules.                              *)
AnswersAreTrue ==
  /\ \A r \in rows : r.cmd \in merged \/ r.wire = {PayloadOf(r.cmd)}
  /\ \A c \in acked : c \in merged \/ (c.kind = "stage" /\ <<c.d, c.s>> \in loaded)

LEMMA NewStatus ==
  ASSUME TypeOK, NEW d \in Deployment,
         NEW v \in {"staged", "switching", "active", "failed", "retired"},
         Becomes(d, [activeDeployments[d] EXCEPT !.status = v])
  PROVE  Maps' /\ StagedFrom
<1> DEFINE st == [activeDeployments[d] EXCEPT !.status = v]
<1>1. activeDeployments[d] \in DeploymentState
  BY DEF TypeOK
<1>2. st \in DeploymentState /\ st.staging = activeDeployments[d].staging
  BY <1>1, StateUpdates
<1> HIDE DEF st
<1>3. Becomes(d, st)
  BY DEF st
<1>4. /\ activeDeployments' \in [Deployment -> DeploymentState]
      /\ store' \in [Deployment -> DeploymentState]
      /\ activeDeployments'[d] = st /\ store'[d] \in {store[d], st}
      /\ \A e \in Deployment \ {d} : activeDeployments'[e] = activeDeployments[e]
                                     /\ store'[e] = store[e]
  BY <1>2, <1>3, BecomesMaps
<1> QED
  BY <1>2, <1>4 DEF Maps, StagedFrom

LEMMA Forgotten ==
  ASSUME TypeOK, NEW d \in Deployment, Forget(d)
  PROVE  Maps' /\ StagedFrom
<1>1. \A t \in Target : Absent.staging[t] = "none"
  BY AbsentTyped DEF Absent
<1>2. /\ activeDeployments' \in [Deployment -> DeploymentState]
      /\ store' \in [Deployment -> DeploymentState]
      /\ activeDeployments'[d] = Absent /\ store'[d] \in {store[d], Absent}
      /\ \A e \in Deployment \ {d} : activeDeployments'[e] = activeDeployments[e]
                                     /\ store'[e] = store[e]
  BY ForgetMaps
<1> QED
  BY <1>1, <1>2 DEF Maps, StagedFrom

(* What the process itself records of a target is never that it is staged. *)
LEMMA NewStaging ==
  ASSUME TypeOK, NEW d \in Deployment, NEW f \in [Target -> StagingStatus],
         \A t \in Target : f[t] = "staged" => activeDeployments[d].staging[t] = "staged",
         activeDeployments' =
           [activeDeployments EXCEPT ![d] = [activeDeployments[d] EXCEPT !.staging = f]],
         store' = store
  PROVE  Maps' /\ StagedFrom
<1> DEFINE st == [activeDeployments[d] EXCEPT !.staging = f]
<1>1. activeDeployments[d] \in DeploymentState
  BY DEF TypeOK
<1>2. st \in DeploymentState /\ st.staging = f
  BY <1>1 DEF DeploymentState
<1> HIDE DEF st
<1>3. activeDeployments' = [activeDeployments EXCEPT ![d] = st]
  BY DEF st
<1> QED
  BY <1>2, <1>3 DEF TypeOK, Maps, StagedFrom

(* The steps of deployBlueGreen.                                           *)
LEMMA ProcessMaps ==
  ASSUME TypeOK, NEW d \in Deployment, Start(d) \/ Process(d)
  PROVE  Maps' /\ StagedFrom
<1>1. CASE Start(d)
  <2>1. /\ Fresh("staging") \in DeploymentState
        /\ \A t \in Target : Fresh("staging").staging[t] = "none"
    BY AbsentTyped
  <2>2. Becomes(d, Fresh("staging"))
    BY <1>1 DEF Start
  <2>3. /\ activeDeployments' \in [Deployment -> DeploymentState]
        /\ store' \in [Deployment -> DeploymentState]
        /\ activeDeployments'[d] = Fresh("staging")
        /\ store'[d] \in {store[d], Fresh("staging")}
        /\ \A e \in Deployment \ {d} : activeDeployments'[e] = activeDeployments[e]
                                       /\ store'[e] = store[e]
    BY <2>1, <2>2, BecomesMaps
  <2> QED
    BY <2>1, <2>3 DEF Maps, StagedFrom
<1>2. CASE StageGreen(d)
  <2> DEFINE f == [s \in Target |-> "pending"]
  <2>1. f \in [Target -> StagingStatus] /\ \A t \in Target : f[t] # "staged"
    BY DEF StagingStatus
  <2>2. /\ activeDeployments' =
             [activeDeployments EXCEPT ![d] = [activeDeployments[d] EXCEPT !.staging = f]]
        /\ store' = store
    BY <1>2 DEF StageGreen
  <2> HIDE DEF f
  <2> QED
    BY <2>1, <2>2, NewStaging
<1>3. ASSUME NEW s \in Target, SendStage(d, s) PROVE Maps' /\ StagedFrom
  BY <1>3 DEF SendStage, Send, state, TypeOK, Maps, StagedFrom
<1>4. ASSUME NEW s \in Target, SendStageThrows(d, s) PROVE Maps' /\ StagedFrom
  <2> DEFINE f == [activeDeployments[d].staging EXCEPT ![s] = "failed"]
  <2>1. activeDeployments[d].staging \in [Target -> StagingStatus]
    BY DEF TypeOK, DeploymentState
  <2>2. /\ f \in [Target -> StagingStatus]
        /\ \A t \in Target : f[t] = "staged" => activeDeployments[d].staging[t] = "staged"
    BY <2>1, <1>4 DEF StagingStatus
  <2>3. /\ activeDeployments' =
             [activeDeployments EXCEPT ![d] = [activeDeployments[d] EXCEPT !.staging = f]]
        /\ store' = store
    BY <1>4 DEF SendStageThrows
  <2> HIDE DEF f
  <2> QED
    BY <2>2, <2>3, NewStaging
<1>5. CASE StageSent(d)
  <2>1. activeDeployments[d] \in DeploymentState
    BY DEF TypeOK
  <2>2. Becomes(d, activeDeployments[d])
    BY <1>5 DEF StageSent
  <2> QED
    BY <2>1, <2>2, BecomesMaps DEF Maps, StagedFrom
<1>6. CASE StagingEnds(d)
  BY <1>6, NewStatus DEF StagingEnds
<1>7. CASE Switch(d)
  BY <1>7, NewStatus DEF Switch
<1>8. CASE ExecuteSwitch(d)
  BY <1>8 DEF ExecuteSwitch, state, TypeOK, Maps, StagedFrom
<1>9. CASE SwitchThrows(d)
  BY <1>9, NewStatus DEF SwitchThrows
<1>10. CASE SwitchConfirmed(d)
  BY <1>10, NewStatus DEF SwitchConfirmed
<1>11. CASE SwitchTimesOut(d)
  BY <1>11, NewStatus DEF SwitchTimesOut
<1>12. CASE AbortEnds(d)
  BY <1>12, Forgotten DEF AbortEnds
<1>13. CASE Retire(d)
  BY <1>13, NewStatus DEF Retire
<1>14. CASE CleanUp(d)
  BY <1>14, Forgotten DEF CleanUp
<1>15. CASE ActivateSent(d) \/ AbortGreen(d)
  BY <1>15 DEF ActivateSent, AbortGreen, state, TypeOK, Maps, StagedFrom
<1>16. ASSUME NEW s \in Sensor, SendActivate(d, s) \/ SendAbort(d, s)
       PROVE  Maps' /\ StagedFrom
  BY <1>16 DEF SendActivate, SendAbort, Send, state, TypeOK, Maps, StagedFrom
<1> QED
  BY <1>1, <1>2, <1>3, <1>4, <1>5, <1>6, <1>7, <1>8, <1>9, <1>10, <1>11, <1>12,
     <1>13, <1>14, <1>15, <1>16 DEF Process

(* Every step.                                                             *)
LEMMA NextMaps ==
  ASSUME TypeOK, AnswersAreTrue, [Next]_vars
  PROVE  Maps' /\ StagedFrom
<1>1. ASSUME NEW d \in Deployment, Start(d) \/ Process(d) PROVE Maps' /\ StagedFrom
  BY <1>1, ProcessMaps
<1>2. ASSUME NEW r \in rows, OtherPush(r) \/ \E q \in r.wire : push_rules(r, q)
      PROVE  Maps' /\ StagedFrom
  BY <1>2 DEF push_rules, OtherPush, state, TypeOK, Maps, StagedFrom
<1>3. ASSUME NEW c \in acked, CommandSucceeded(c) PROVE Maps' /\ StagedFrom
  <2>1. c \in Command /\ c = [d |-> c.d, s |-> c.s, kind |-> c.kind] /\ c.kind \in Kind
    BY DEF TypeOK, Command
  <2>2. <<c.d, c.s>> \in loaded \/ Shared(c.d, c.s)
    BY <2>1 DEF AnswersAreTrue, Shared
  <2> QED
    BY <1>3, <2>1, <2>2, SuccessMaps DEF Maps, StagedFrom
<1>4. ASSUME NEW s \in Sensor, FailureEvent(s) PROVE Maps' /\ StagedFrom
  BY <1>4, FailureMaps DEF Maps, StagedFrom
<1>5. ASSUME NEW r \in rows, CommandFailed(r) PROVE Maps' /\ StagedFrom
  <2>1. FailureEvent(r.cmd.s) /\ r.cmd.s \in Sensor
    BY <1>5 DEF CommandFailed, TypeOK, RowType, Command
  <2> QED
    BY <2>1, <1>4
<1>6. ASSUME NEW s \in Sensor, OtherCommandFails(s) PROVE Maps' /\ StagedFrom
  BY <1>6, <1>4 DEF OtherCommandFails
<1>7. CASE Restart
  <2>1. \A t \in Target : Absent.staging[t] = "none"
    BY AbsentTyped DEF Absent
  <2>2. /\ activeDeployments' \in {store, [d \in Deployment |-> Absent]}
        /\ store' = store /\ Absent \in DeploymentState
    BY <1>7, AbsentTyped DEF Restart, Absent
  <2>3. Maps'
    BY <2>2 DEF Maps, TypeOK
  <2>4. \A d \in Deployment : activeDeployments'[d] \in {store[d], Absent}
    BY <2>2
  <2> QED
    BY <2>1, <2>2, <2>3, <2>4 DEF StagedFrom
<1>8. CASE UNCHANGED vars
  BY <1>8 DEF vars, state, TypeOK, Maps, StagedFrom
<1> QED
  BY <1>1, <1>2, <1>3, <1>5, <1>6, <1>7, <1>8 DEF Next

-----------------------------------------------------------------------------
(* What a step of a process does to the wire: at most one send, of the     *)
(* command that the process is at.                                         *)
Cmd(d, s, kind) == [d |-> d, s |-> s, kind |-> kind]

SendingAt(kind) == CASE kind = "stage" -> "staging"
                     [] kind = "activate" -> "activating"
                     [] kind = "abort" -> "recalling"

Sends(d) == \E s \in Sensor, kind \in Kind : pc[d] = SendingAt(kind) /\ Send(d, s, kind)

LEMMA ProcessSteps ==
  ASSUME TypeOK, NEW d \in Deployment, Start(d) \/ Process(d)
  PROVE  /\ acked' = acked /\ loaded' = loaded /\ restarts' = restarts
         /\ UNCHANGED <<rows, merged>> \/ Sends(d)
<1>1. ASSUME NEW s \in Target, SendStage(d, s) PROVE Sends(d)
  BY <1>1, BlueGreenAssumption DEF Sends, SendingAt, SendStage, Kind
<1>2. ASSUME NEW s \in Sensor, SendActivate(d, s) PROVE Sends(d)
  BY <1>2 DEF Sends, SendingAt, SendActivate, Kind
<1>3. ASSUME NEW s \in Sensor, SendAbort(d, s) PROVE Sends(d)
  BY <1>3 DEF Sends, SendingAt, SendAbort, Kind
<1>4. CASE Sends(d)
  BY <1>4 DEF Sends, Send
<1>5. CASE ~Sends(d)
  <2>1. \/ Start(d) \/ StageGreen(d) \/ StageSent(d) \/ StagingEnds(d) \/ Switch(d)
        \/ \E s \in Target : SendStageThrows(d, s)
        \/ ExecuteSwitch(d) \/ ActivateSent(d) \/ SwitchThrows(d) \/ SwitchConfirmed(d)
        \/ SwitchTimesOut(d) \/ AbortGreen(d) \/ AbortEnds(d) \/ Retire(d) \/ CleanUp(d)
    BY <1>1, <1>2, <1>3, <1>5 DEF Process
  <2> QED
    BY <2>1 DEF Start, StageGreen, StageSent, StagingEnds, Switch, SendStageThrows,
       ExecuteSwitch, ActivateSent, SwitchThrows, SwitchConfirmed, SwitchTimesOut,
       AbortGreen, AbortEnds, Retire, CleanUp, wire, sensors
<1> QED
  BY <1>4, <1>5

(* sendCommand opens one row, with the new payload on its wire and maybe   *)
(* those of the row it took.                                               *)
LEMMA SendFact ==
  ASSUME TypeOK, AnswersAreTrue, NEW c \in Command, sendCommand(c)
  PROVE  /\ merged \subseteq merged' /\ merged' \subseteq Command
         /\ \E w \in SUBSET Payload :
              /\ rows' \subseteq rows \cup {Row(c, w)}
              /\ c \in merged' \/ w = {PayloadOf(c)}
              /\ \A q \in w : q \in {PayloadOf(c), Other} \/ \E o \in rows : q \in o.wire
<1>1. PayloadOf(c) \in Payload /\ Other \in Payload
  BY DEF PayloadOf, Payload, Command
<1>2. merged \subseteq merged' /\ merged' \subseteq merged \cup {c}
  BY DEF sendCommand
<1>3. \A r \in rows : r.wire \subseteq Payload
  BY DEF TypeOK, RowType
<1>4. \/ rows' \subseteq rows \cup {Row(c, {PayloadOf(c)})}
      \/ c \in merged' /\ rows' \subseteq rows \cup {Row(c, {PayloadOf(c), Other})}
      \/ \E r \in rows : /\ c \in merged'
                         /\ rows' \subseteq rows \cup {Row(c, r.wire \cup {PayloadOf(c)})}
  BY DEF sendCommand, Pending
<1> DEFINE Opens(w) ==
             /\ rows' \subseteq rows \cup {Row(c, w)}
             /\ c \in merged' \/ w = {PayloadOf(c)}
             /\ \A q \in w : q \in {PayloadOf(c), Other} \/ \E o \in rows : q \in o.wire
<1>5. CASE rows' \subseteq rows \cup {Row(c, {PayloadOf(c)})}
  <2>1. {PayloadOf(c)} \in SUBSET Payload /\ Opens({PayloadOf(c)})
    BY <1>1, <1>5
  <2> QED
    BY <1>2, <2>1 DEF TypeOK
<1>6. CASE c \in merged' /\ rows' \subseteq rows \cup {Row(c, {PayloadOf(c), Other})}
  <2>1. {PayloadOf(c), Other} \in SUBSET Payload /\ Opens({PayloadOf(c), Other})
    BY <1>1, <1>6
  <2> QED
    BY <1>2, <2>1 DEF TypeOK
<1>7. ASSUME NEW r \in rows, c \in merged',
             rows' \subseteq rows \cup {Row(c, r.wire \cup {PayloadOf(c)})}
      PROVE  \E w \in SUBSET Payload : Opens(w)
  <2>1. /\ r.wire \cup {PayloadOf(c)} \in SUBSET Payload
        /\ Opens(r.wire \cup {PayloadOf(c)})
    BY <1>1, <1>3, <1>7
  <2> QED
    BY <2>1
<1>8. merged' \subseteq Command
  BY <1>2 DEF TypeOK
<1> QED
  BY <1>2, <1>4, <1>5, <1>6, <1>7, <1>8

-----------------------------------------------------------------------------
(* The other variables, one group at a time.                               *)
LEMMA ProcessTyped ==
  ASSUME TypeOK, [Next]_vars
  PROVE  /\ pc' \in [Deployment -> Stages]
         /\ unsent' \in [Deployment -> SUBSET Sensor]
         /\ restarts' \in 0..MaxRestarts
<1> USE DEF TypeOK
<1>1. ASSUME NEW d \in Deployment, Start(d) \/ Process(d)
      PROVE  /\ pc' \in [Deployment -> Stages]
             /\ unsent' \in [Deployment -> SUBSET Sensor]
             /\ restarts' = restarts
  <2>1. pc' = pc \/ \E there \in Stages : pc' = [pc EXCEPT ![d] = there]
    BY <1>1 DEF Start, Process, Goes, Stages, StageGreen, StageSent, StagingEnds,
       SendStage, SendStageThrows, Switch, ExecuteSwitch, SwitchThrows, Send,
       SendActivate, ActivateSent, SendAbort, AbortEnds,
       SwitchConfirmed, SwitchTimesOut, AbortGreen, Retire, CleanUp
  <2>2. unsent' = unsent \/ \E S \in SUBSET Sensor : unsent' = [unsent EXCEPT ![d] = S]
    BY <1>1, BlueGreenAssumption DEF Start, Process, StageGreen, StageSent, StagingEnds,
       SendStage, SendStageThrows, Switch, ExecuteSwitch, SwitchThrows, Send,
       SendActivate, ActivateSent, SendAbort, AbortEnds, broadcastCommand,
       SwitchConfirmed, SwitchTimesOut, AbortGreen, Retire, CleanUp
  <2>3. restarts' = restarts
    BY <1>1, ProcessSteps
  <2> QED
    BY <2>1, <2>2, <2>3
<1>2. CASE Restart
  BY <1>2, BlueGreenAssumption DEF Restart, Stages
<1>3. ASSUME \/ \E r \in rows : \/ \E q \in r.wire : push_rules(r, q)
                                \/ CommandFailed(r) \/ OtherPush(r)
             \/ \E c \in acked : CommandSucceeded(c)
             \/ \E s \in Sensor : OtherCommandFails(s)
             \/ UNCHANGED vars
      PROVE  UNCHANGED <<pc, unsent, restarts>>
  BY <1>3 DEF push_rules, OtherPush, CommandSucceeded, CommandFailed,
     OtherCommandFails, vars, process
<1> QED
  BY <1>1, <1>2, <1>3 DEF Next

(* The wire, the sensors and the history of shared ids.                    *)
WireInv ==
  /\ rows \subseteq RowType /\ acked \subseteq Command
  /\ loaded \subseteq Deployment \X Sensor /\ merged \subseteq Command
  /\ AnswersAreTrue

LEMMA SendKeeps ==
  ASSUME TypeOK, AnswersAreTrue, NEW c \in Command, sendCommand(c),
         acked' = acked, loaded' = loaded
  PROVE  WireInv' /\ merged \subseteq merged'
<1>1. PICK w \in SUBSET Payload :
        /\ rows' \subseteq rows \cup {Row(c, w)}
        /\ c \in merged' \/ w = {PayloadOf(c)}
  BY SendFact
<1>2. merged \subseteq merged' /\ merged' \subseteq Command
  BY SendFact
<1>3. Row(c, w) \in RowType /\ Row(c, w).cmd = c /\ Row(c, w).wire = w
  BY DEF Row, RowType
<1>4. rows' \subseteq RowType
  BY <1>1, <1>3 DEF TypeOK
<1>5. \A r \in rows' : r.cmd \in merged' \/ r.wire = {PayloadOf(r.cmd)}
  BY <1>1, <1>2, <1>3 DEF AnswersAreTrue
<1>6. \A a \in acked' : a \in merged' \/ (a.kind = "stage" /\ <<a.d, a.s>> \in loaded')
  BY <1>2 DEF AnswersAreTrue
<1>7. AnswersAreTrue'
  BY <1>5, <1>6 DEF AnswersAreTrue, PayloadOf
<1> QED
  BY <1>2, <1>4, <1>7 DEF TypeOK, WireInv

LEMMA SensorKeeps ==
  ASSUME TypeOK, AnswersAreTrue, NEW r \in rows, NEW q \in r.wire, push_rules(r, q)
  PROVE  WireInv' /\ loaded \subseteq loaded' /\ merged' = merged
<1> DEFINE c == r.cmd
<1>1. /\ c \in Command /\ c.d \in Deployment /\ c.s \in Sensor /\ c.kind \in Kind
      /\ q \in Payload
  BY DEF TypeOK, RowType, Command
<1>2. /\ merged' = merged /\ rows' \subseteq rows /\ acked' \subseteq acked \cup {c}
      /\ loaded \subseteq loaded'
      /\ loaded' = IF q = Other THEN loaded ELSE loaded \union {<<q.d, c.s>>}
  BY DEF push_rules, wire
<1>3. q # Other => q.d \in Deployment
  BY <1>1 DEF Payload
<1>4. ASSUME c \notin merged PROVE c.kind = "stage" /\ <<c.d, c.s>> \in loaded'
  <2>1. q = PayloadOf(c)
    BY <1>4 DEF AnswersAreTrue
  <2>2. q.d = c.d /\ q.kind = c.kind
    BY <2>1 DEF PayloadOf
  <2>3. c.kind = "stage"
    BY <1>1, <2>2 DEF push_rules, CarriesRules, Kind
  <2>4. q # Other
    BY <1>1, <2>2, BlueGreenAssumption DEF Other
  <2> QED
    BY <1>2, <2>2, <2>3, <2>4
<1>5. rows' \subseteq RowType /\ acked' \subseteq Command /\ merged' \subseteq Command
  BY <1>1, <1>2 DEF TypeOK
<1>6. loaded' \subseteq Deployment \X Sensor
  BY <1>1, <1>2, <1>3 DEF TypeOK
<1>7. \A x \in rows' : x.cmd \in merged' \/ x.wire = {PayloadOf(x.cmd)}
  BY <1>2 DEF AnswersAreTrue
<1>8. \A a \in acked' : a \in merged' \/ (a.kind = "stage" /\ <<a.d, a.s>> \in loaded')
  BY <1>2, <1>4 DEF AnswersAreTrue
<1>9. AnswersAreTrue'
  BY <1>7, <1>8 DEF AnswersAreTrue, PayloadOf
<1> QED
  BY <1>2, <1>5, <1>6, <1>9 DEF WireInv

LEMMA WireKept ==
  ASSUME TypeOK, AnswersAreTrue, [Next]_vars
  PROVE  WireInv' /\ loaded \subseteq loaded' /\ merged \subseteq merged'
<1>0. ASSUME rows' \subseteq rows, acked' \subseteq acked, loaded' = loaded, merged' = merged
      PROVE  WireInv' /\ loaded \subseteq loaded' /\ merged \subseteq merged'
  <2>1. AnswersAreTrue'
    BY <1>0 DEF AnswersAreTrue, PayloadOf
  <2> QED
    BY <1>0, <2>1 DEF TypeOK, WireInv
<1>1. ASSUME NEW d \in Deployment, Start(d) \/ Process(d)
      PROVE  WireInv' /\ loaded \subseteq loaded' /\ merged \subseteq merged'
  <2>1. acked' = acked /\ loaded' = loaded
    BY <1>1, ProcessSteps
  <2>2. CASE Sends(d)
    <3>1. PICK s \in Sensor, kind \in Kind : sendCommand(Cmd(d, s, kind))
      BY <2>2 DEF Sends, Send, Cmd
    <3>2. Cmd(d, s, kind) \in Command
      BY DEF Cmd, Command
    <3> QED
      BY <2>1, <3>1, <3>2, SendKeeps
  <2> QED
    BY <1>0, <1>1, <2>1, <2>2, ProcessSteps
<1>2. ASSUME NEW r \in rows, NEW q \in r.wire, push_rules(r, q)
      PROVE  WireInv' /\ loaded \subseteq loaded' /\ merged \subseteq merged'
  BY <1>2, SensorKeeps
<1>3. ASSUME \/ \E r \in rows : CommandFailed(r) \/ OtherPush(r)
             \/ \E c \in acked : CommandSucceeded(c)
             \/ \E s \in Sensor : OtherCommandFails(s)
             \/ Restart \/ UNCHANGED vars
      PROVE  rows' \subseteq rows /\ acked' \subseteq acked /\ loaded' = loaded
             /\ merged' = merged
  BY <1>3 DEF CommandSucceeded, CommandFailed, OtherPush, OtherCommandFails, Restart, vars,
     wire, sensors
<1> QED
  BY <1>0, <1>1, <1>2, <1>3 DEF Next

-----------------------------------------------------------------------------
(* The inductive invariant: the staging record is true because answers     *)
(* are, and answers are because a sensor answers after it has loaded.      *)
StagingInv == TypeOK /\ AnswersAreTrue /\ StagedWasLoaded

LEMMA StagingInvKept ==
  ASSUME StagingInv, [Next]_vars
  PROVE  StagingInv' /\ loaded \subseteq loaded' /\ merged \subseteq merged'
<1> USE DEF StagingInv
<1>1. Maps' /\ StagedFrom
  BY NextMaps
<1>2. WireInv' /\ loaded \subseteq loaded' /\ merged \subseteq merged'
  BY WireKept
<1>3. TypeOK'
  BY <1>1, <1>2, ProcessTyped DEF TypeOK, Maps, WireInv
<1>4. \A d, t : Shared(d, t) => Shared(d, t)'
  BY <1>2 DEF Shared
<1>5. StagedWasLoaded'
  BY <1>1, <1>2, <1>4 DEF StagedWasLoaded, StagedFrom, Staged
<1> QED
  BY <1>2, <1>3, <1>5 DEF WireInv

LEMMA StagingInvInit == Init => StagingInv
<1> SUFFICES ASSUME Init PROVE StagingInv
  OBVIOUS
<1>1. \A t \in Target : Absent.staging[t] = "none"
  BY AbsentTyped DEF Absent
<1>2. AnswersAreTrue /\ StagedWasLoaded
  BY <1>1 DEF Init, AnswersAreTrue, StagedWasLoaded, Staged
<1> QED
  BY <1>2, InitTyped DEF StagingInv

LEMMA StagingInvAlways == Spec => []StagingInv
<1>1. StagingInv /\ [Next]_vars => StagingInv'
  BY StagingInvKept
<1> QED
  BY <1>1, StagingInvInit, PTL DEF Spec

(* Type correctness, whatever the deployments, sensors and thresholds.     *)
THEOREM BlueGreenTyped == Spec => []TypeOK
  BY StagingInvAlways, PTL DEF StagingInv

(* A sensor is recorded as staged, in memory or in the store, only if it   *)
(* has loaded the rules or one of the deployment's commands to it was      *)
(* merged into another push_rules; across restarts, lost answers and       *)
(* failures of the store.                                                  *)
THEOREM StagedRecordIsTrue == Spec => []StagedWasLoaded
  BY StagingInvAlways, PTL DEF StagingInv

-----------------------------------------------------------------------------
(* More staged targets never undo a quorum.                                *)
LEMMA StagedEnoughGrows ==
  ASSUME NEW S, NEW T \in SUBSET Target, S \subseteq T, StagedEnough(S)
  PROVE  StagedEnough(T)
<1>1. IsFiniteSet(Target) /\ IsFiniteSet(T) /\ IsFiniteSet(S)
  BY BlueGreenAssumption, FS_Subset
<1>2. /\ Cardinality(S) \in Nat /\ Cardinality(T) \in Nat /\ Cardinality(Target) \in Nat
      /\ Cardinality(S) <= Cardinality(T)
  BY <1>1, FS_CardinalityType, FS_Subset
<1>3. Cardinality(S) * 100 <= Cardinality(T) * 100
  BY <1>2
<1>4. MinStagedPercentage * Cardinality(Target) \in Int
  BY <1>2, BlueGreenAssumption
<1>5. Cardinality(T) * 100 >= MinStagedPercentage * Cardinality(Target)
  BY <1>2, <1>3, <1>4 DEF StagedEnough
<1> QED
  BY <1>5 DEF StagedEnough

Holding(d) == {t \in Target : <<d, t>> \in loaded \/ Shared(d, t)}

(* From the decision to switch to the end of the broadcast the quorum      *)
(* holds, and it does for whoever was told to switch.                      *)
Decided == {"staged", "switching", "activating"}
QuorumInv ==
  /\ \A d \in Deployment : pc[d] \in Decided => StagedEnough(Holding(d))
  /\ SwitchNeedsQuorum

(* Who decides, and who tells.                                             *)
LEMMA DecisionSteps ==
  ASSUME TypeOK, [Next]_vars, NEW d \in Deployment
  PROVE  pc'[d] \in Decided => \/ pc[d] \in Decided
                               \/ StagingSucceeded(activeDeployments[d])
<1> USE DEF TypeOK, Decided
<1>1. ASSUME NEW e \in Deployment, Start(e) \/ Process(e)
      PROVE  \/ pc' = pc
             \/ \E v \in Stages \ Decided : pc' = [pc EXCEPT ![e] = v]
             \/ \E v \in Decided : pc[e] \in Decided /\ pc' = [pc EXCEPT ![e] = v]
             \/ StagingSucceeded(activeDeployments[e]) /\ pc' = [pc EXCEPT ![e] = "staged"]
  BY <1>1 DEF Start, Process, Goes, Stages, StageGreen, StageSent, StagingEnds,
     SendStage, SendStageThrows, Switch, ExecuteSwitch, SwitchThrows, Send,
     SendActivate, ActivateSent, SendAbort, AbortEnds,
     SwitchConfirmed, SwitchTimesOut, AbortGreen, Retire, CleanUp
<1>2. CASE Restart
  BY <1>2 DEF Restart
<1>3. ASSUME \/ \E r \in rows : \/ \E q \in r.wire : push_rules(r, q)
                                \/ CommandFailed(r) \/ OtherPush(r)
             \/ \E c \in acked : CommandSucceeded(c)
             \/ \E s \in Sensor : OtherCommandFails(s)
             \/ UNCHANGED vars
      PROVE  pc' = pc
  BY <1>3 DEF push_rules, OtherPush, CommandSucceeded, CommandFailed,
     OtherCommandFails, vars, process
<1> QED
  BY <1>1, <1>2, <1>3 DEF Next

LEMMA TellingSteps ==
  ASSUME TypeOK, AnswersAreTrue, [Next]_vars, NEW d \in Deployment, NEW r \in rows',
         [d |-> d, kind |-> "activate"] \in r.wire
  PROVE  \/ \E o \in rows : [d |-> d, kind |-> "activate"] \in o.wire
         \/ pc[d] = "activating"
<1> DEFINE p == [d |-> d, kind |-> "activate"]
<1>1. CASE rows' \subseteq rows
  BY <1>1
<1>2. ASSUME NEW e \in Deployment, Sends(e)
      PROVE  (\E o \in rows : p \in o.wire) \/ pc[d] = "activating"
  <2>1. PICK s \in Sensor, kind \in Kind :
          pc[e] = SendingAt(kind) /\ sendCommand(Cmd(e, s, kind))
    BY <1>2 DEF Sends, Send, Cmd
  <2>2. Cmd(e, s, kind) \in Command
    BY DEF Cmd, Command
  <2>3. PICK w \in SUBSET Payload :
          /\ rows' \subseteq rows \cup {Row(Cmd(e, s, kind), w)}
          /\ \A q \in w : \/ q \in {PayloadOf(Cmd(e, s, kind)), Other}
                          \/ \E o \in rows : q \in o.wire
    BY <2>1, <2>2, SendFact
  <2>4. CASE r \in rows
    BY <2>4
  <2>5. CASE r = Row(Cmd(e, s, kind), w)
    <3>1. p \in w
      BY <2>5 DEF Row
    <3>2. p # Other
      BY BlueGreenAssumption DEF Other
    <3>3. CASE p = PayloadOf(Cmd(e, s, kind))
      <4>1. d = e /\ kind = "activate"
        BY <3>3 DEF PayloadOf, Cmd
      <4> QED
        BY <2>1, <4>1 DEF SendingAt
    <3> QED
      BY <2>3, <3>1, <3>2, <3>3
  <2> QED
    BY <2>3, <2>4, <2>5
<1>3. ASSUME \/ \E x \in rows : \/ \E q \in x.wire : push_rules(x, q)
                                \/ CommandFailed(x) \/ OtherPush(x)
             \/ \E c \in acked : CommandSucceeded(c)
             \/ \E s \in Sensor : OtherCommandFails(s)
             \/ Restart \/ UNCHANGED vars
      PROVE  rows' \subseteq rows
  BY <1>3 DEF push_rules, OtherPush, CommandSucceeded, CommandFailed,
     OtherCommandFails, Restart, vars, wire
<1> QED
  BY <1>1, <1>2, <1>3, ProcessSteps DEF Next

LEMMA QuorumKept ==
  ASSUME StagingInv, QuorumInv, [Next]_vars
  PROVE  QuorumInv'
<1> USE DEF StagingInv
<1>1. ASSUME NEW d \in Deployment, StagedEnough(Holding(d)) PROVE StagedEnough(Holding(d))'
  <2>1. Holding(d) \subseteq Holding(d)' /\ Holding(d)' \subseteq Target
    BY StagingInvKept DEF Holding, Shared
  <2>2. StagedEnough(Holding(d)')
    BY <1>1, <2>1, StagedEnoughGrows
  <2> QED
    BY <2>2 DEF StagedEnough
<1>2. ASSUME NEW d \in Deployment, StagingSucceeded(activeDeployments[d])
      PROVE  StagedEnough(Holding(d))
  <2>1. Staged(activeDeployments[d]) \subseteq Holding(d) /\ Holding(d) \subseteq Target
    BY DEF StagedWasLoaded, Staged, Holding
  <2> QED
    BY <1>2, <2>1, StagedEnoughGrows DEF StagingSucceeded
<1>3. ASSUME NEW d \in Deployment, pc'[d] \in Decided
      PROVE  StagedEnough(Holding(d))'
  BY <1>1, <1>2, <1>3, DecisionSteps DEF QuorumInv
<1>4. ASSUME NEW d \in Deployment, NEW r \in rows', [d |-> d, kind |-> "activate"] \in r.wire
      PROVE  StagedEnough(Holding(d))'
  <2>1. \/ \E o \in rows : [d |-> d, kind |-> "activate"] \in o.wire
        \/ pc[d] = "activating"
    BY <1>4, TellingSteps
  <2>2. StagedEnough(Holding(d))
    BY <2>1 DEF QuorumInv, SwitchNeedsQuorum, Holding, Decided
  <2> QED
    BY <1>1, <2>2
<1> QED
  BY <1>3, <1>4 DEF QuorumInv, SwitchNeedsQuorum, Holding, Decided

(* Nobody is sent the activation of a deployment before the required share *)
(* of its targets holds the rules, counting those for which a merge let    *)
(* another push_rules' answer pass for a staging.                          *)
THEOREM SwitchHasQuorum == Spec => []SwitchNeedsQuorum
<1>1. Init => QuorumInv
  BY DEF Init, QuorumInv, SwitchNeedsQuorum, Decided
<1>2. StagingInv /\ QuorumInv /\ [Next]_vars => QuorumInv'
  BY QuorumKept
<1>3. QuorumInv => SwitchNeedsQuorum
  BY DEF QuorumInv
<1> QED
  BY <1>1, <1>2, <1>3, StagingInvAlways, PTL DEF Spec

-----------------------------------------------------------------------------
(* What a deployment that is active has behind it.  A confirmation of the  *)
(* switch is told from a late answer to the staging by counting: a target  *)
(* is sent one staging command, and once it counts as staged that command  *)
(* has been answered and used up.  What is credited to the activation then *)
(* is an answer that another payload under the same id has got.            *)
OnWire(d, s, kind) ==
  Cmd(d, s, kind) \in acked \/ \E r \in rows : r.cmd = Cmd(d, s, kind)

Gathering == {"starting", "staging", "waiting"}
Before == Gathering \cup {"staged"}
Switching == {"switching", "activating", "confirming"}
Live == Before \cup Switching \cup {"aborting", "recalling", "cleanup", "retired"}

(* The process alone moves the status of the deployment it runs.           *)
StatusFollows(d) ==
  LET status == activeDeployments[d].status
  IN  /\ pc[d] \in Gathering => status = "staging"
      /\ pc[d] = "staged" => status = "staged"
      /\ pc[d] \in Switching => status = "switching"
      /\ pc[d] \in {"aborting", "recalling"} => status = "failed"
      /\ pc[d] = "cleanup" => status = "active"
      /\ pc[d] = "retired" => status = "retired"

(* Which commands can be open, or answered, at which point.                *)
WireFollows(d) ==
  \A s \in Sensor :
    /\ OnWire(d, s, "stage") => pc[d] \notin {"idle", "starting"}
    /\ OnWire(d, s, "activate") => pc[d] \notin {"idle"} \cup Before \cup {"switching"}
    /\ OnWire(d, s, "abort") => pc[d] \in {"recalling", "failed", "dead"}

(* A target's staging command exists once, and not any more once used up.  *)
StagedOnce(d) ==
  \A s \in Target :
    /\ pc[d] = "staging" /\ s \in unsent[d] => ~OnWire(d, s, "stage")
    /\ \A r \in rows : r.cmd = Cmd(d, s, "stage") =>
         Cmd(d, s, "stage") \notin acked /\ \A o \in rows : o.cmd = r.cmd => o = r
    /\ pc[d] \in Live /\ activeDeployments[d].staging[s] = "staged"
         => ~OnWire(d, s, "stage") /\ (pc[d] = "staging" => s \notin unsent[d])

(* A staged target is green through a merged activation only.              *)
GreenShared(d) ==
  LET st == activeDeployments[d]
  IN  /\ pc[d] \in Before => st.green = {}
      /\ pc[d] \in Switching =>
           \A s \in Target : st.staging[s] = "staged" /\ s \in st.green
                             => Cmd(d, s, "activate") \in merged

ActiveShared(d) ==
  \A st \in {activeDeployments[d], store[d]} :
    st.status = "active" =>
      \A s \in Target : st.staging[s] = "staged" => Cmd(d, s, "activate") \in merged

SwitchInv(d) ==
  /\ StatusFollows(d) /\ WireFollows(d) /\ StagedOnce(d)
  /\ GreenShared(d) /\ ActiveShared(d)

(* Records with another status, and what the listeners make of a record.   *)
LEMMA StatusUpdates ==
  ASSUME NEW st \in DeploymentState,
         NEW v \in {"staged", "switching", "active", "failed", "retired"}
  PROVE  /\ [st EXCEPT !.status = v].status = v
         /\ [st EXCEPT !.status = v].staging = st.staging
         /\ [st EXCEPT !.status = v].green = st.green
  BY DEF DeploymentState

LEMMA MarkFailedFields ==
  ASSUME NEW st \in DeploymentState, NEW s \in Sensor
  PROVE  /\ MarkFailed(st, s).status = st.status
         /\ MarkFailed(st, s).green = st.green
         /\ st.status # "staging" => MarkFailed(st, s) = st
         /\ \A t \in Target : MarkFailed(st, s).staging[t] = "staged"
                              => st.staging[t] = "staged"
<1>1. /\ MarkFailed(st, s).status = st.status /\ MarkFailed(st, s).green = st.green
      /\ st.status # "staging" => MarkFailed(st, s) = st
  BY DEF MarkFailed, DeploymentState
<1> QED
  BY <1>1, MarkUpdates

LEMMA MarkSuccessFields ==
  ASSUME NEW st \in DeploymentState, NEW s \in Target
  PROVE  /\ MarkSuccess(st, s).status = st.status
         /\ st.status \notin {"staging", "switching"} => MarkSuccess(st, s) = st
         /\ st.status = "staging" => MarkSuccess(st, s).green = st.green
         /\ st.status = "switching" =>
              /\ MarkSuccess(st, s).staging = st.staging
              /\ MarkSuccess(st, s).green = st.green \cup {s}
         /\ \A t \in Target : MarkSuccess(st, s).staging[t] = "staged"
                              => t = s \/ st.staging[t] = "staged"
<1>1. s \in Sensor
  BY BlueGreenAssumption
<1>2. /\ MarkSuccess(st, s).status = st.status
      /\ st.status \notin {"staging", "switching"} => MarkSuccess(st, s) = st
      /\ st.status = "staging" => MarkSuccess(st, s).green = st.green
      /\ st.status = "switching" =>
           /\ MarkSuccess(st, s).staging = st.staging
           /\ MarkSuccess(st, s).green = st.green \cup {s}
  BY DEF MarkSuccess, DeploymentState
<1> QED
  BY <1>1, <1>2, MarkUpdates

(* A step that opens no row of the deployment and answers none, and leaves *)
(* its process and its records alone.                                      *)
Aside(d) ==
  /\ pc'[d] = pc[d] /\ unsent'[d] = unsent[d]
  /\ activeDeployments'[d] = activeDeployments[d] /\ store'[d] = store[d]
  /\ \A r \in rows' : r.cmd.d = d => r \in rows
  /\ \A c \in acked' : c.d = d => c \in acked
  /\ merged \subseteq merged'

LEMMA AsideFact ==
  ASSUME NEW d \in Deployment, SwitchInv(d), Aside(d)
  PROVE  SwitchInv(d)'
<1> USE BlueGreenAssumption DEF SwitchInv, Aside, Kind
<1>1. StatusFollows(d)' /\ ActiveShared(d)' /\ GreenShared(d)'
  BY DEF StatusFollows, ActiveShared, GreenShared
<1>2. \A s \in Sensor, k \in Kind : OnWire(d, s, k)' => OnWire(d, s, k)
  BY DEF OnWire, Cmd
<1>3. WireFollows(d)'
  BY <1>2 DEF WireFollows
<1>4. StagedOnce(d)'
  BY <1>2 DEF StagedOnce, Cmd
<1> QED
  BY <1>1, <1>3, <1>4

(* A step of the process that changes at most the status and the sensors   *)
(* still to be told, and sends nothing.                                    *)
Moves ==
  {<<"staging", "waiting">>, <<"waiting", "staged">>, <<"waiting", "aborting">>,
   <<"staged", "switching">>, <<"switching", "activating">>, <<"switching", "aborting">>,
   <<"activating", "confirming">>, <<"activating", "aborting">>,
   <<"confirming", "cleanup">>, <<"confirming", "aborting">>,
   <<"aborting", "recalling">>, <<"cleanup", "retired">>}

LEMMA MoveFact ==
  ASSUME NEW d \in Deployment, SwitchInv(d), <<pc[d], pc'[d]>> \in Moves,
         pc'[d] = "cleanup" => AllSwitched(activeDeployments[d]),
         UNCHANGED <<rows, acked, merged>>,
         StatusFollows(d)',
         activeDeployments'[d].staging = activeDeployments[d].staging,
         activeDeployments'[d].green = activeDeployments[d].green,
         store'[d] \in {store[d], activeDeployments'[d]}
  PROVE  SwitchInv(d)'
<1> USE BlueGreenAssumption DEF SwitchInv, Kind
<1>0. \/ pc[d] = "staging" /\ pc'[d] = "waiting"
      \/ pc[d] = "waiting" /\ pc'[d] \in {"staged", "aborting"}
      \/ pc[d] = "staged" /\ pc'[d] = "switching"
      \/ pc[d] = "switching" /\ pc'[d] \in {"activating", "aborting"}
      \/ pc[d] = "activating" /\ pc'[d] \in {"confirming", "aborting"}
      \/ pc[d] = "confirming" /\ pc'[d] \in {"cleanup", "aborting"}
      \/ pc[d] = "aborting" /\ pc'[d] = "recalling"
      \/ pc[d] = "cleanup" /\ pc'[d] = "retired"
  BY DEF Moves
<1>1. \A s \in Sensor, k \in Kind : OnWire(d, s, k)' <=> OnWire(d, s, k)
  BY DEF OnWire
<1>2. WireFollows(d)'
  BY <1>0, <1>1 DEF WireFollows, Before, Gathering
<1>3. StagedOnce(d)'
  BY <1>0, <1>1 DEF StagedOnce, Live, Before, Switching, Gathering
<1>5. GreenShared(d)'
  BY <1>0 DEF GreenShared, Before, Switching, Gathering
<1>6. ActiveShared(d)'
  <2>1. activeDeployments'[d].status = "active" =>
          \A s \in Target : activeDeployments'[d].staging[s] = "staged"
                            => Cmd(d, s, "activate") \in merged'
    BY <1>0 DEF StatusFollows, Gathering, Switching, GreenShared, AllSwitched, Staged
  <2> QED
    BY <2>1 DEF ActiveShared
<1> QED
  BY <1>2, <1>3, <1>5, <1>6

(* The process ends, and the deployment is forgotten.                      *)
LEMMA EndFact ==
  ASSUME TypeOK, NEW d \in Deployment, SwitchInv(d), Forget(d),
         <<pc[d], pc'[d]>> \in {<<"recalling", "failed">>, <<"retired", "done">>},
         UNCHANGED <<rows, acked, merged>>
  PROVE  SwitchInv(d)'
<1> USE BlueGreenAssumption DEF SwitchInv, Kind
<1>0. (pc[d] = "recalling" /\ pc'[d] = "failed") \/ (pc[d] = "retired" /\ pc'[d] = "done")
  OBVIOUS
<1>1. \A s \in Sensor, k \in Kind : OnWire(d, s, k)' <=> OnWire(d, s, k)
  BY DEF OnWire
<1>2. StatusFollows(d)' /\ GreenShared(d)'
  BY <1>0 DEF StatusFollows, GreenShared, Before, Switching, Gathering
<1>3. WireFollows(d)'
  BY <1>0, <1>1 DEF WireFollows, Before, Gathering
<1>4. StagedOnce(d)'
  BY <1>0, <1>1 DEF StagedOnce, Live, Before, Switching, Gathering
<1>6. ActiveShared(d)'
  <2>1. Absent.status = "absent"
    BY DEF Absent, Fresh
  <2> QED
    BY <2>1, ForgetMaps DEF ActiveShared
<1> QED
  BY <1>2, <1>3, <1>4, <1>6

(* A step of another deployment's process.                                 *)
LEMMA ProcessAside ==
  ASSUME TypeOK, AnswersAreTrue, NEW e \in Deployment, Start(e) \/ Process(e),
         NEW d \in Deployment \ {e}
  PROVE  Aside(d)
<1>1. pc'[d] = pc[d] /\ unsent'[d] = unsent[d]
  BY DEF TypeOK, Start, Process, Goes, StageGreen, StageSent, StagingEnds, Send,
     SendStage, SendStageThrows, Switch, ExecuteSwitch, SwitchThrows, broadcastCommand,
     SendActivate, ActivateSent, SendAbort, AbortEnds,
     SwitchConfirmed, SwitchTimesOut, AbortGreen, Retire, CleanUp
<1>2. activeDeployments'[d] = activeDeployments[d] /\ store'[d] = store[d]
  BY DEF TypeOK, Start, Process, Becomes, Forget, safeUpsertDeploymentState,
     safeDeleteDeploymentState, StageGreen, StageSent, StagingEnds, state, Send,
     SendStage, SendStageThrows, Switch, ExecuteSwitch, SwitchThrows,
     SendActivate, ActivateSent, SendAbort, AbortEnds,
     SwitchConfirmed, SwitchTimesOut, AbortGreen, Retire, CleanUp
<1>3. acked' = acked
  BY ProcessSteps
<1>4. merged \subseteq merged' /\ \A r \in rows' : r.cmd.d = d => r \in rows
  <2>1. CASE Sends(e)
    <3>1. PICK s \in Sensor, kind \in Kind : sendCommand(Cmd(e, s, kind))
      BY <2>1 DEF Sends, Send, Cmd
    <3>2. Cmd(e, s, kind) \in Command /\ Cmd(e, s, kind).d = e
      BY DEF Cmd, Command
    <3>3. PICK w \in SUBSET Payload : rows' \subseteq rows \cup {Row(Cmd(e, s, kind), w)}
      BY <3>1, <3>2, SendFact
    <3>4. Row(Cmd(e, s, kind), w).cmd = Cmd(e, s, kind)
      BY DEF Row
    <3> QED
      BY <3>1, <3>2, <3>3, <3>4, SendFact
  <2> QED
    BY <2>1, ProcessSteps
<1> QED
  BY <1>1, <1>2, <1>3, <1>4 DEF Aside

(* A send.  The stage of a target goes out once; the others only when the  *)
(* process has come so far.                                                *)
LEMMA SendSwitch ==
  ASSUME TypeOK, AnswersAreTrue, NEW d \in Deployment, SwitchInv(d), Sends(d)
  PROVE  SwitchInv(d)'
<1> USE BlueGreenAssumption
<1>1. PICK s \in Sensor, kind \in Kind : pc[d] = SendingAt(kind) /\ Send(d, s, kind)
  BY DEF Sends
<1> DEFINE c == Cmd(d, s, kind)
<1>2. /\ s \in unsent[d] /\ unsent'[d] = unsent[d] \ {s} /\ sendCommand(c)
      /\ UNCHANGED <<pc, activeDeployments, store, acked>>
  BY <1>1 DEF Send, TypeOK, state, Cmd
<1>3. c \in Command
  BY DEF Cmd, Command
<1>4. /\ merged \subseteq merged'
      /\ \E w \in SUBSET Payload : rows' \subseteq rows \cup {Row(c, w)}
  BY <1>2, <1>3, SendFact
<1>5. PICK n : n.cmd = c /\ rows' \subseteq rows \cup {n}
  BY <1>4 DEF Row
<1>6. ASSUME NEW t \in Sensor, NEW k \in Kind, OnWire(d, t, k)'
      PROVE  OnWire(d, t, k) \/ (t = s /\ k = kind)
  <2>1. Cmd(d, t, k) = c => t = s /\ k = kind
    BY DEF Cmd
  <2> QED
    BY <1>2, <1>5, <1>6, <2>1 DEF OnWire
<1>7. StatusFollows(d)' /\ GreenShared(d)' /\ ActiveShared(d)'
  BY <1>2, <1>4 DEF SwitchInv, StatusFollows, GreenShared, ActiveShared
<1>8. \/ kind = "stage" /\ pc[d] = "staging"
      \/ kind = "activate" /\ pc[d] = "activating"
      \/ kind = "abort" /\ pc[d] = "recalling"
  BY <1>1 DEF Kind, SendingAt
<1>9. WireFollows(d)'
  BY <1>2, <1>6, <1>8 DEF SwitchInv, WireFollows, Kind, Before, Gathering
<1>10. StagedOnce(d)'
  <2> SUFFICES ASSUME NEW t \in Target
               PROVE  /\ pc'[d] = "staging" /\ t \in unsent'[d] => ~OnWire(d, t, "stage")'
                      /\ \A r \in rows' : r.cmd = Cmd(d, t, "stage") =>
                           /\ Cmd(d, t, "stage") \notin acked'
                           /\ \A o \in rows' : o.cmd = r.cmd => o = r
                      /\ pc'[d] \in Live /\ activeDeployments'[d].staging[t] = "staged"
                           => /\ ~OnWire(d, t, "stage")'
                              /\ pc'[d] = "staging" => t \notin unsent'[d]
    BY DEF StagedOnce
  <2>0. t \in Sensor /\ "stage" \in Kind
    BY DEF Kind
  <2>1. CASE t = s /\ kind = "stage"
    <3>1. ~OnWire(d, t, "stage") /\ activeDeployments[d].staging[t] # "staged"
      BY <1>2, <1>8, <2>1 DEF SwitchInv, StagedOnce, Live, Before, Gathering
    <3> QED
      BY <1>2, <1>5, <1>8, <2>1, <3>1 DEF OnWire
  <2>2. CASE ~(t = s /\ kind = "stage")
    <3>1. OnWire(d, t, "stage")' => OnWire(d, t, "stage")
      BY <1>6, <2>0, <2>2
    <3>2. c # Cmd(d, t, "stage")
      BY <2>2 DEF Cmd
    <3>3. \A r \in rows' : r.cmd = Cmd(d, t, "stage") => r \in rows
      BY <1>5, <3>2
    <3> QED
      BY <1>2, <3>1, <3>3 DEF SwitchInv, StagedOnce
  <2> QED
    BY <2>1, <2>2
<1> QED
  BY <1>7, <1>9, <1>10 DEF SwitchInv

(* The steps of a deployment's own process.                                *)
LEMMA ProcessSwitch ==
  ASSUME TypeOK, AnswersAreTrue, NEW d \in Deployment, SwitchInv(d), Start(d) \/ Process(d)
  PROVE  SwitchInv(d)'
<1> DEFINE st == activeDeployments[d]
<1>0. st \in DeploymentState /\ pc \in [Deployment -> Stages]
  BY DEF TypeOK
<1>1. CASE Start(d)
  <2>1. /\ Fresh("staging") \in DeploymentState /\ Fresh("staging").status = "staging"
        /\ Fresh("staging").green = {}
        /\ \A t \in Target : Fresh("staging").staging[t] = "none"
    BY AbsentTyped DEF Fresh
  <2>2. /\ activeDeployments'[d] = Fresh("staging")
        /\ store'[d] \in {store[d], Fresh("staging")}
    BY <1>1, <2>1, BecomesMaps DEF Start
  <2>3. /\ pc[d] = "idle" /\ pc'[d] = "starting"
        /\ UNCHANGED <<rows, acked, merged>>
    BY <1>0, <1>1 DEF Start, Goes, wire, sensors
  <2>4. StatusFollows(d)' /\ GreenShared(d)'
    BY <2>1, <2>2, <2>3 DEF StatusFollows, GreenShared, Gathering, Before, Switching
  <2>5. \A s \in Sensor, k \in Kind : OnWire(d, s, k)' <=> OnWire(d, s, k)
    BY <2>3 DEF OnWire
  <2>6. WireFollows(d)'
    BY <2>3, <2>5 DEF Kind, SwitchInv, WireFollows
  <2>7. StagedOnce(d)'
    BY <2>1, <2>2, <2>3, <2>5, BlueGreenAssumption DEF Kind, SwitchInv, StagedOnce
  <2>8. ActiveShared(d)'
    BY <2>1, <2>2, <2>3 DEF SwitchInv, ActiveShared
  <2> QED
    BY <2>4, <2>6, <2>7, <2>8 DEF SwitchInv
<1>2. CASE StageGreen(d)
  <2>1. /\ pc[d] = "starting" /\ pc'[d] = "staging"
        /\ UNCHANGED <<rows, acked, merged, store>>
    BY <1>0, <1>2 DEF StageGreen, Goes, wire, sensors, TypeOK
  <2>2. /\ activeDeployments'[d].status = st.status
        /\ activeDeployments'[d].green = st.green
        /\ \A t \in Target : activeDeployments'[d].staging[t] = "pending"
    BY <1>2 DEF StageGreen, TypeOK, DeploymentState
  <2>3. StatusFollows(d)' /\ GreenShared(d)' /\ ActiveShared(d)'
    BY <2>1, <2>2 DEF SwitchInv, StatusFollows, GreenShared, ActiveShared, Gathering, Before,
       Switching
  <2>5. \A s \in Sensor, k \in Kind : OnWire(d, s, k)' <=> OnWire(d, s, k)
    BY <2>1 DEF OnWire
  <2>6. WireFollows(d)'
    BY <2>1, <2>5 DEF Kind, SwitchInv, WireFollows, Before, Gathering
  <2>7. StagedOnce(d)'
    BY <2>1, <2>2, <2>5, BlueGreenAssumption DEF Kind, SwitchInv, WireFollows, StagedOnce
  <2> QED
    BY <2>3, <2>6, <2>7 DEF SwitchInv
<1>3. CASE Sends(d)
  BY <1>3, SendSwitch
<1>4. ASSUME NEW s \in Target, SendStageThrows(d, s) PROVE SwitchInv(d)'
  <2>1. /\ unsent'[d] \subseteq unsent[d] /\ UNCHANGED <<pc, rows, acked, merged, store>>
    BY <1>4 DEF SendStageThrows, TypeOK, wire, sensors
  <2>2. /\ activeDeployments'[d].status = st.status
        /\ activeDeployments'[d].green = st.green
        /\ \A t \in Target : activeDeployments'[d].staging[t] = "staged"
                             => st.staging[t] = "staged"
    <3>1. activeDeployments'[d] = [st EXCEPT !.staging[s] = "failed"]
      BY <1>4 DEF SendStageThrows, TypeOK
    <3>2. [st EXCEPT !.staging[s] = "failed"].staging = [st.staging EXCEPT ![s] = "failed"]
      BY <1>0 DEF DeploymentState
    <3>3. \A t \in Target : [st.staging EXCEPT ![s] = "failed"][t] = "staged"
                            => st.staging[t] = "staged"
      BY <1>0 DEF DeploymentState
    <3>4. /\ [st EXCEPT !.staging[s] = "failed"].status = st.status
          /\ [st EXCEPT !.staging[s] = "failed"].green = st.green
      BY <1>0 DEF DeploymentState
    <3> QED
      BY <3>1, <3>2, <3>3, <3>4
  <2>3. StatusFollows(d)' /\ GreenShared(d)' /\ ActiveShared(d)'
    BY <2>1, <2>2 DEF SwitchInv, StatusFollows, GreenShared, ActiveShared
  <2>5. \A t \in Sensor, k \in Kind : OnWire(d, t, k)' <=> OnWire(d, t, k)
    BY <2>1 DEF OnWire
  <2>6. WireFollows(d)'
    BY <2>1, <2>5 DEF Kind, SwitchInv, WireFollows
  <2>7. StagedOnce(d)'
    BY <2>1, <2>2, <2>5, BlueGreenAssumption DEF Kind, SwitchInv, StagedOnce
  <2> QED
    BY <2>3, <2>6, <2>7 DEF SwitchInv
<1>5. ASSUME NEW v \in {"staged", "switching", "active", "failed", "retired"},
             Becomes(d, [st EXCEPT !.status = v])
      PROVE  /\ activeDeployments'[d].status = v
             /\ activeDeployments'[d].staging = st.staging
             /\ activeDeployments'[d].green = st.green
             /\ store'[d] \in {store[d], activeDeployments'[d]}
  <2> DEFINE new == [st EXCEPT !.status = v]
  <2>1. /\ new \in DeploymentState /\ new.status = v
        /\ new.staging = st.staging /\ new.green = st.green
    BY <1>0, StateUpdates, StatusUpdates
  <2> HIDE DEF new
  <2>2. Becomes(d, new)
    BY <1>5 DEF new
  <2> QED
    BY <2>1, <2>2, BecomesMaps
<1> USE DEF Moves, Goes, StatusFollows, Gathering, Switching, SwitchInv
<1>6. CASE StageSent(d)
  <2>1. /\ pc[d] = "staging" /\ pc'[d] = "waiting" /\ UNCHANGED <<rows, acked, merged>>
    BY <1>0, <1>6 DEF StageSent, wire, sensors
  <2>2. activeDeployments'[d] = st /\ store'[d] \in {store[d], activeDeployments'[d]}
    BY <1>0, <1>6, BecomesMaps DEF StageSent
  <2> QED
    BY <2>1, <2>2, MoveFact
<1>7. CASE ExecuteSwitch(d) \/ ActivateSent(d) \/ AbortGreen(d)
  <2>1. /\ UNCHANGED <<rows, acked, merged, activeDeployments, store>>
        /\ \/ pc[d] = "switching" /\ pc'[d] = "activating"
           \/ pc[d] = "activating" /\ pc'[d] = "confirming"
           \/ pc[d] = "aborting" /\ pc'[d] = "recalling"
    BY <1>0, <1>7 DEF ExecuteSwitch, ActivateSent, AbortGreen, wire, sensors, state
  <2> QED
    BY <2>1, MoveFact
<1>8. ASSUME NEW v \in {"staged", "switching", "active", "failed", "retired"},
             Becomes(d, [st EXCEPT !.status = v]),
             UNCHANGED <<rows, acked, merged>>,
             \/ pc[d] = "waiting" /\ pc'[d] = "staged" /\ v = "staged"
             \/ pc[d] = "waiting" /\ pc'[d] = "aborting" /\ v = "failed"
             \/ pc[d] = "staged" /\ pc'[d] = "switching" /\ v = "switching"
             \/ pc[d] \in {"switching", "activating", "confirming"}
                  /\ pc'[d] = "aborting" /\ v = "failed"
             \/ pc[d] = "confirming" /\ pc'[d] = "cleanup" /\ v = "active" /\ AllSwitched(st)
             \/ pc[d] = "cleanup" /\ pc'[d] = "retired" /\ v = "retired"
      PROVE  SwitchInv(d)'
  <2>1. /\ activeDeployments'[d].status = v
        /\ activeDeployments'[d].staging = st.staging
        /\ activeDeployments'[d].green = st.green
        /\ store'[d] \in {store[d], activeDeployments'[d]}
    BY <1>5, <1>8
  <2>2. StatusFollows(d)' /\ <<pc[d], pc'[d]>> \in Moves
    BY <1>8, <2>1
  <2>3. pc'[d] = "cleanup" => AllSwitched(st)
    BY <1>8
  <2> QED
    BY <1>8, <2>1, <2>2, <2>3, MoveFact
<1>9. CASE StagingEnds(d)
  <2>1. pc[d] = "waiting" /\ UNCHANGED <<rows, acked, merged>>
    BY <1>9 DEF StagingEnds, wire, sensors
  <2>2. \/ pc'[d] = "staged" /\ Becomes(d, [st EXCEPT !.status = "staged"])
        \/ pc'[d] = "aborting" /\ Becomes(d, [st EXCEPT !.status = "failed"])
    BY <1>0, <1>9 DEF StagingEnds
  <2> QED
    BY <1>8, <2>1, <2>2
<1>10. CASE Switch(d)
  <2>1. /\ pc[d] = "staged" /\ pc'[d] = "switching" /\ UNCHANGED <<rows, acked, merged>>
        /\ Becomes(d, [st EXCEPT !.status = "switching"])
    BY <1>0, <1>10 DEF Switch, wire, sensors
  <2> QED
    BY <1>8, <2>1
<1>11. CASE SwitchThrows(d) \/ SwitchTimesOut(d)
  <2>1. /\ pc[d] \in {"switching", "activating", "confirming"} /\ pc'[d] = "aborting"
        /\ UNCHANGED <<rows, acked, merged>>
        /\ Becomes(d, [st EXCEPT !.status = "failed"])
    BY <1>0, <1>11 DEF SwitchThrows, SwitchTimesOut, wire, sensors
  <2> QED
    BY <1>8, <2>1
<1>12. CASE SwitchConfirmed(d)
  <2>1. /\ pc[d] = "confirming" /\ pc'[d] = "cleanup" /\ UNCHANGED <<rows, acked, merged>>
        /\ AllSwitched(st) /\ Becomes(d, [st EXCEPT !.status = "active"])
    BY <1>0, <1>12 DEF SwitchConfirmed, wire, sensors
  <2> QED
    BY <1>8, <2>1
<1>13. CASE Retire(d)
  <2>1. /\ pc[d] = "cleanup" /\ pc'[d] = "retired" /\ UNCHANGED <<rows, acked, merged>>
        /\ Becomes(d, [st EXCEPT !.status = "retired"])
    BY <1>0, <1>13 DEF Retire, wire, sensors
  <2> QED
    BY <1>8, <2>1
<1>14. CASE AbortEnds(d) \/ CleanUp(d)
  <2>1. /\ \/ pc[d] = "recalling" /\ pc'[d] = "failed"
           \/ pc[d] = "retired" /\ pc'[d] = "done"
        /\ Forget(d) /\ UNCHANGED <<rows, acked, merged>>
    BY <1>0, <1>14 DEF AbortEnds, CleanUp, wire, sensors
  <2> QED
    BY <2>1, EndFact
<1>15. \/ Sends(d) \/ Start(d) \/ StageGreen(d) \/ StageSent(d) \/ StagingEnds(d)
       \/ Switch(d) \/ \E s \in Target : SendStageThrows(d, s)
       \/ ExecuteSwitch(d) \/ ActivateSent(d) \/ SwitchThrows(d) \/ SwitchConfirmed(d)
       \/ SwitchTimesOut(d) \/ AbortGreen(d) \/ AbortEnds(d) \/ Retire(d) \/ CleanUp(d)
  BY BlueGreenAssumption DEF Process, Sends, SendingAt, Kind, SendStage, SendActivate, SendAbort
<1> QED
  BY <1>1, <1>2, <1>3, <1>4, <1>6, <1>7, <1>9, <1>10, <1>11, <1>12, <1>13, <1>14, <1>15

(* A sensor executes a payload; or a row is closed without a success.      *)
LEMMA AnswerSwitch ==
  ASSUME TypeOK, NEW d \in Deployment, SwitchInv(d), NEW r \in rows,
         OtherPush(r) \/ \E q \in r.wire : push_rules(r, q)
  PROVE  SwitchInv(d)'
<1> USE BlueGreenAssumption DEF SwitchInv, Kind
<1>1. /\ rows' \subseteq rows /\ merged' = merged
      /\ UNCHANGED <<pc, unsent, activeDeployments, store>>
      /\ acked' = acked \/ (acked' = acked \cup {r.cmd} /\ r \notin rows')
  BY DEF push_rules, OtherPush, process, state, wire, sensors
<1>2. \A s \in Sensor, k \in Kind : OnWire(d, s, k)' => OnWire(d, s, k)
  BY <1>1 DEF OnWire
<1>3. StatusFollows(d)' /\ GreenShared(d)' /\ ActiveShared(d)'
  BY <1>1 DEF StatusFollows, GreenShared, ActiveShared
<1>4. WireFollows(d)'
  BY <1>1, <1>2 DEF WireFollows
<1>5. StagedOnce(d)'
  BY <1>1, <1>2 DEF StagedOnce
<1> QED
  BY <1>3, <1>4, <1>5

(* A failure, of a command of this protocol or of another, stages nothing. *)
LEMMA FailureSwitch ==
  ASSUME TypeOK, NEW d \in Deployment, SwitchInv(d), NEW s \in Sensor, FailureEvent(s),
         UNCHANGED <<pc, unsent, acked, merged>>, rows' \subseteq rows
  PROVE  SwitchInv(d)'
<1> USE BlueGreenAssumption DEF SwitchInv, Kind
<1>0. activeDeployments[d] \in DeploymentState
  BY DEF TypeOK
<1>1. /\ activeDeployments'[d] = MarkFailed(activeDeployments[d], s)
      /\ store'[d] \in {store[d], activeDeployments'[d]}
  BY DEF FailureEvent, TypeOK
<1>2. /\ activeDeployments'[d].status = activeDeployments[d].status
      /\ activeDeployments'[d].green = activeDeployments[d].green
      /\ activeDeployments[d].status # "staging" =>
           activeDeployments'[d] = activeDeployments[d]
      /\ \A t \in Target : activeDeployments'[d].staging[t] = "staged"
                           => activeDeployments[d].staging[t] = "staged"
  BY <1>0, <1>1, MarkFailedFields
<1>3. \A t \in Sensor, k \in Kind : OnWire(d, t, k)' => OnWire(d, t, k)
  BY DEF OnWire
<1>4. StatusFollows(d)'
  BY <1>2 DEF StatusFollows
<1>5. GreenShared(d)'
  BY <1>2 DEF GreenShared
<1>6. ActiveShared(d)'
  BY <1>1, <1>2 DEF ActiveShared
<1>7. WireFollows(d)'
  BY <1>3 DEF WireFollows
<1>8. StagedOnce(d)'
  BY <1>2, <1>3 DEF StagedOnce
<1> QED
  BY <1>4, <1>5, <1>6, <1>7, <1>8

(* A success.  While the process runs, it finds the deployment in memory;  *)
(* a staging command that makes a target staged is used up, and an answer  *)
(* that makes a staged target green is credited to the switch.             *)
LEMMA SuccessSwitch ==
  ASSUME TypeOK, AnswersAreTrue, NEW d \in Deployment, SwitchInv(d),
         NEW c \in acked, CommandSucceeded(c)
  PROVE  SwitchInv(d)'
<1> USE BlueGreenAssumption DEF Kind
<1>0. /\ c \in Command /\ c.d \in Deployment /\ c.s \in Sensor /\ c.kind \in Kind
      /\ c = Cmd(c.d, c.s, c.kind)
  BY DEF TypeOK, Command, Cmd
<1>1. acked' = acked \ {c} /\ UNCHANGED <<pc, unsent, rows, merged>>
  BY DEF CommandSucceeded, process, sensors
<1>2. CASE d # c.d
  <2>1. activeDeployments'[d] = activeDeployments[d] /\ store'[d] = store[d]
    BY <1>0, <1>2, SuccessMaps
  <2>2. Aside(d)
    BY <1>1, <2>1 DEF Aside
  <2> QED
    BY <2>2, AsideFact
<1>3. CASE d = c.d
  <2> DEFINE s == c.s
             st == activeDeployments[d]
             new == activeDeployments'[d]
             base == Known(d)
  <2>1. st \in DeploymentState /\ store[d] \in DeploymentState /\ base \in {st, store[d]}
    BY DEF TypeOK, Known
  <2>2. /\ new \in {base, IF s \in Target THEN MarkSuccess(base, s) ELSE base}
        /\ store'[d] \in {store[d], new}
    BY <1>0, <1>3 DEF CommandSucceeded, TypeOK, safeUpsertDeploymentState
  <2>3. ASSUME pc[d] \in Live PROVE base = st
    <3>1. st.status # "absent"
      BY <2>3 DEF SwitchInv, StatusFollows, Live, Before, Gathering, Switching
    <3>2. st # Absent
      BY <3>1 DEF Absent, Fresh
    <3> QED
      BY <3>2 DEF Known
  <2>4. OnWire(d, s, c.kind) /\ \A t \in Sensor, k \in Kind : OnWire(d, t, k)' => OnWire(d, t, k)
    BY <1>0, <1>1, <1>3 DEF OnWire
  <2> HIDE DEF base, new, st, s
  <2>5. ActiveShared(d)'
    <3>1. s \in Target => /\ MarkSuccess(base, s).status = base.status
                          /\ base.status = "active" => MarkSuccess(base, s) = base
      BY <2>1, MarkSuccessFields
    <3>2. new.status # "active" \/ new \in {st, store[d]}
      BY <2>1, <2>2, <3>1
    <3> QED
      BY <1>1, <2>2, <3>2 DEF SwitchInv, ActiveShared, st, new
  <2>6. WireFollows(d)'
    BY <1>1, <2>4 DEF SwitchInv, WireFollows
  <2>7. CASE pc[d] \notin Live
    <3>1. StatusFollows(d)' /\ GreenShared(d)'
      BY <1>1, <2>7 DEF StatusFollows, GreenShared, Live, Before, Gathering, Switching
    <3>2. StagedOnce(d)'
      BY <1>1, <2>4, <2>7 DEF SwitchInv, StagedOnce
    <3> QED
      BY <2>5, <2>6, <3>1, <3>2 DEF SwitchInv
  <2>8. CASE new = st
    <3>1. StatusFollows(d)' /\ GreenShared(d)'
      BY <1>1, <2>8 DEF SwitchInv, StatusFollows, GreenShared, st, new
    <3>2. StagedOnce(d)'
      BY <1>1, <2>4, <2>8 DEF SwitchInv, StagedOnce, st, new
    <3> QED
      BY <2>5, <2>6, <3>1, <3>2 DEF SwitchInv
  <2>9. CASE pc[d] \in Live /\ s \in Target /\ new = MarkSuccess(st, s)
    <3>1. /\ new.status = st.status
          /\ st.status \notin {"staging", "switching"} => new = st
          /\ st.status = "staging" => new.green = st.green
          /\ st.status = "switching" => new.staging = st.staging
                                        /\ new.green = st.green \cup {s}
          /\ \A t \in Target : new.staging[t] = "staged" => t = s \/ st.staging[t] = "staged"
      BY <2>1, <2>9, MarkSuccessFields
    <3>2. CASE st.status = "staging"
      <4>1. pc[d] \in Gathering
        BY <2>9, <3>2 DEF SwitchInv, StatusFollows, Live, Before, Switching, st
      <4>2. c = Cmd(d, s, "stage")
        <5>1. c.kind = "stage"
          BY <1>0, <2>4, <4>1 DEF SwitchInv, WireFollows, Gathering, Before, s
        <5> QED
          BY <1>0, <1>3, <5>1 DEF s
      <4>3. StatusFollows(d)' /\ GreenShared(d)'
        BY <1>1, <3>1, <3>2, <4>1 DEF SwitchInv, StatusFollows, GreenShared, Before,
           Gathering, Switching, st, new
      <4>4. /\ ~OnWire(d, s, "stage")'
            /\ pc[d] = "staging" => s \notin unsent[d]
        <5>1. \A r \in rows : r.cmd # Cmd(d, s, "stage")
          BY <2>9, <4>2 DEF SwitchInv, StagedOnce
        <5>2. pc[d] = "staging" => s \notin unsent[d]
          BY <2>9, <4>2 DEF SwitchInv, StagedOnce, OnWire
        <5>3. ~OnWire(d, s, "stage")'
          BY <1>1, <4>2, <5>1 DEF OnWire
        <5> QED
          BY <5>2, <5>3
      <4>5. StagedOnce(d)'
        <5>1. \A t \in Target : s # t /\ new.staging[t] = "staged" => st.staging[t] = "staged"
          BY <3>1
        <5> QED
          BY <1>1, <2>4, <4>4, <5>1 DEF SwitchInv, StagedOnce, st, new
      <4> QED
        BY <2>5, <2>6, <4>3, <4>5 DEF SwitchInv
    <3>3. CASE st.status = "switching"
      <4>1. pc[d] \in Switching
        BY <2>9, <3>3 DEF SwitchInv, StatusFollows, Live, Before, Gathering, st
      <4>2. st.staging[s] = "staged" => Cmd(d, s, "activate") \in merged
        <5> SUFFICES ASSUME st.staging[s] = "staged" PROVE Cmd(d, s, "activate") \in merged
          OBVIOUS
        <5>1. ~OnWire(d, s, "stage")
          BY <2>9 DEF SwitchInv, StagedOnce, st
        <5>2. ~OnWire(d, s, "abort")
          BY <1>0, <4>1 DEF SwitchInv, WireFollows, Switching, s
        <5>3. c.kind = "activate"
          BY <1>0, <2>4, <5>1, <5>2
        <5>4. c \in merged /\ c = Cmd(d, s, "activate")
          BY <1>0, <1>3, <5>3 DEF AnswersAreTrue, s
        <5> QED
          BY <5>4
      <4>3. StatusFollows(d)'
        BY <1>1, <3>1, <3>3, <4>1 DEF SwitchInv, StatusFollows, st, new
      <4>4. GreenShared(d)'
        BY <1>1, <3>1, <3>3, <4>1, <4>2 DEF SwitchInv, GreenShared, Before, Gathering,
           Switching, st, new
      <4>5. StagedOnce(d)'
        BY <1>1, <2>4, <3>1, <3>3 DEF SwitchInv, StagedOnce, st, new
      <4> QED
        BY <2>5, <2>6, <4>3, <4>4, <4>5 DEF SwitchInv
    <3> QED
      BY <2>8, <3>1, <3>2, <3>3
  <2> QED
    BY <2>2, <2>3, <2>7, <2>8, <2>9
<1> QED
  BY <1>2, <1>3

LEMMA RestartSwitch ==
  ASSUME TypeOK, NEW d \in Deployment, SwitchInv(d), Restart
  PROVE  SwitchInv(d)'
<1> USE BlueGreenAssumption DEF SwitchInv, Kind
<1>1. /\ pc'[d] = IF pc[d] \in {"idle", "failed", "done"} THEN pc[d] ELSE "dead"
      /\ unsent'[d] = {} /\ UNCHANGED <<store, rows, acked, merged>>
      /\ activeDeployments'[d] \in {store[d], Absent}
  BY DEF Restart, wire, sensors
<1>2. Absent.status = "absent"
  BY DEF Absent, Fresh
<1>3. \A s \in Sensor, k \in Kind : OnWire(d, s, k)' <=> OnWire(d, s, k)
  BY <1>1 DEF OnWire
<1>4. StatusFollows(d)' /\ GreenShared(d)'
  BY <1>1 DEF StatusFollows, GreenShared, Before, Gathering, Switching
<1>5. WireFollows(d)'
  BY <1>1, <1>3 DEF WireFollows, Before, Gathering
<1>6. StagedOnce(d)'
  BY <1>1, <1>3 DEF StagedOnce, Live, Before, Gathering, Switching
<1>7. ActiveShared(d)'
  BY <1>1, <1>2 DEF ActiveShared
<1> QED
  BY <1>4, <1>5, <1>6, <1>7

LEMMA SwitchKept ==
  ASSUME TypeOK, AnswersAreTrue, NEW d \in Deployment, SwitchInv(d), [Next]_vars
  PROVE  SwitchInv(d)'
<1>1. ASSUME NEW e \in Deployment, Start(e) \/ Process(e) PROVE SwitchInv(d)'
  BY <1>1, ProcessSwitch, ProcessAside, AsideFact
<1>2. ASSUME NEW r \in rows, OtherPush(r) \/ \E q \in r.wire : push_rules(r, q)
      PROVE  SwitchInv(d)'
  BY <1>2, AnswerSwitch
<1>3. ASSUME NEW c \in acked, CommandSucceeded(c) PROVE SwitchInv(d)'
  BY <1>3, SuccessSwitch
<1>4. ASSUME NEW r \in rows, CommandFailed(r) PROVE SwitchInv(d)'
  <2>1. /\ r.cmd.s \in Sensor /\ FailureEvent(r.cmd.s) /\ rows' \subseteq rows
        /\ UNCHANGED <<pc, unsent, acked, merged>>
    BY <1>4 DEF TypeOK, RowType, Command, CommandFailed, process, sensors
  <2> QED
    BY <2>1, FailureSwitch
<1>5. ASSUME NEW s \in Sensor, OtherCommandFails(s) PROVE SwitchInv(d)'
  <2>1. FailureEvent(s) /\ rows' \subseteq rows /\ UNCHANGED <<pc, unsent, acked, merged>>
    BY <1>5 DEF OtherCommandFails, process, sensors, wire
  <2> QED
    BY <2>1, FailureSwitch
<1>6. CASE Restart
  BY <1>6, RestartSwitch
<1>7. CASE UNCHANGED vars
  <2>1. Aside(d)
    BY <1>7 DEF vars, process, state, wire, sensors, Aside
  <2> QED
    BY <2>1, AsideFact
<1> QED
  BY <1>1, <1>2, <1>3, <1>4, <1>5, <1>6, <1>7 DEF Next

(* An active deployment was confirmed, on every sensor it counts as        *)
(* staged, by an answer credited to an activation that shared its id: an   *)
(* acknowledgement of the staging that comes during the switch cannot pass *)
(* for a confirmation under its own id, through lost answers, failures of  *)
(* the store and restarts.                                                 *)
THEOREM ActiveHasSwitched == Spec => []ActiveIsSwitched
<1> DEFINE Inv == \A d \in Deployment : SwitchInv(d)
<1>1. Init => Inv
  <2> SUFFICES ASSUME Init, NEW d \in Deployment PROVE SwitchInv(d)
    OBVIOUS
  <2>1. Absent.status = "absent"
    BY DEF Absent, Fresh
  <2> QED
    BY <2>1 DEF Init, SwitchInv, StatusFollows, WireFollows, OnWire, StagedOnce,
       GreenShared, ActiveShared, Live, Before, Gathering, Switching
<1>2. StagingInv /\ Inv /\ [Next]_vars => Inv'
  BY SwitchKept DEF StagingInv
<1>3. Inv => ActiveIsSwitched
  BY DEF SwitchInv, ActiveShared, ActiveIsSwitched, Staged, Cmd
<1> HIDE DEF Inv
<1> QED
  BY <1>1, <1>2, <1>3, StagingInvAlways, PTL DEF Spec
=============================================================================
