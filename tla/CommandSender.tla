--------------------------- MODULE CommandSender ---------------------------
(***************************************************************************)
(* The hub's in-memory command queue (protocols/command-sender.ts): one    *)
(* Map of commands, a queue per sensor, at most one command in flight per  *)
(* sensor, a timer per command put on the wire, and a sweep that expires   *)
(* what got old.  Every handler runs to completion on the event loop, so   *)
(* each is one action.                                                     *)
(*                                                                         *)
(* A command id is a database row (fleet-commander.ts passes it in), so it *)
(* always names the same sensor.  The ids in Reusable may be handed to     *)
(* sendCommand again while an earlier object of that id is still known:    *)
(* the Map entry is overwritten, but a timer armed for the old object goes *)
(* on holding it.  Such a timer is "orphan" here, and orphanAttempts is    *)
(* the attempt count of the object it holds.                               *)
(***************************************************************************)
EXTENDS Integers, Sequences, FiniteSets

CONSTANTS Sensor,                \* sensor ids
          Id,                    \* command ids
          NoId,                  \* no command in flight
          SensorOf,              \* the sensor each command is for
          MaxAttempts,           \* getMaxAttempts, by command
          Unsendable,            \* commands whose payload makes JSON.stringify throw
          Reusable,              \* commands the caller may send again
          MaxQueueSize,          \* config.maxQueueSize
          MaxPerSensorQueueSize, \* config.maxPerSensorQueueSize
          MaxSends               \* bound of the model: calls of sendCommand

ASSUME SenderAssumption ==
  /\ IsFiniteSet(Id)
  /\ NoId \notin Id
  /\ SensorOf \in [Id -> Sensor]
  /\ MaxAttempts \in [Id -> Nat \ {0}]
  /\ Unsendable \subseteq Id
  /\ Reusable \subseteq Id
  /\ Unsendable \cap Reusable = {}
  /\ MaxQueueSize \in Nat \ {0}
  /\ MaxPerSensorQueueSize \in Nat \ {0}
  /\ MaxSends \in Nat

VARIABLES
  status,         \* status of the object in the Map, "none" when there is none
  attempts,       \* its attempts
  createdAt,      \* its createdAt; 0 for an id that was never sent
  clock,          \* Date.now(), advanced by every sendCommand
  queue,          \* sensorQueues
  inflight,       \* inflightCommands
  timer,          \* timeoutHandles: "off", "own" (object in the Map) or "orphan"
  orphanAttempts, \* attempts of the overwritten object an orphan timer holds
  conn,           \* sensorConnections: "none", or readyState of the socket
  delivered,      \* commands a sensor has been sent, so may answer
  emitted         \* events the last step emitted

vars == <<status, attempts, createdAt, clock, queue, inflight, timer,
          orphanAttempts, conn, delivered, emitted>>

Terminal == {"success", "failed", "timeout"}
CommandStatus == {"none", "pending", "sent"} \cup Terminal
Event == {"sent", "complete", "failed", "timeout", "evicted", "dropped"} \X Id

TypeOK ==
  /\ status \in [Id -> CommandStatus]
  /\ attempts \in [Id -> Nat]
  /\ createdAt \in [Id -> Nat]
  /\ clock \in Nat
  /\ queue \in [Sensor -> Seq(Id)]
  /\ inflight \in [Sensor -> Id \cup {NoId}]
  /\ timer \in [Id -> {"off", "own", "orphan"}]
  /\ orphanAttempts \in [Id -> Nat]
  /\ conn \in [Sensor -> {"none", "open", "closed"}]
  /\ delivered \subseteq Id
  /\ emitted \subseteq Event

-----------------------------------------------------------------------------
(* Helpers over the state.                                                 *)

commands == {id \in Id : status[id] # "none"}
Pending(s) == {id \in Id : SensorOf[id] = s /\ status[id] = "pending"}
Ready(s) == conn[s] = "open"
Oldest(S) == {id \in S : \A other \in S : createdAt[id] <= createdAt[other]}
Emit(kind, ids) == {<<kind, id>> : id \in ids}
QueuedIds(q) == {q[i] : i \in 1..Len(q)}

(* getPendingCommands(s).length: entries of the queue, or the Map when the *)
(* queue is empty.                                                         *)
PendingCount(s) ==
  IF queue[s] = <<>> THEN Cardinality(Pending(s))
  ELSE Cardinality({i \in 1..Len(queue[s]) : status[queue[s][i]] = "pending"})

(* Array.indexOf + splice: drops the first entry for id, if there is one.  *)
Without(q, id) ==
  IF \E i \in 1..Len(q) : q[i] = id
  THEN LET k == CHOOSE i \in 1..Len(q) : q[i] = id /\ \A j \in 1..(i-1) : q[j] # id
       IN  [i \in 1..(Len(q)-1) |-> IF i < k THEN q[i] ELSE q[i+1]]
  ELSE q

removeFromQueue(qs, id) ==
  [s \in Sensor |-> IF id \in Id /\ SensorOf[id] = s THEN Without(qs[s], id) ELSE qs[s]]

(* What is left of q once its first k-1 entries have been shifted out.     *)
Suffix(q, k) == [i \in 1..(Len(q)-k+1) |-> q[i+k-1]]

SortedPending_Unsorted(s) ==
  {q \in [1..Cardinality(Pending(s)) -> Pending(s)] :
     \A i, j \in DOMAIN q : i # j => q[i] # q[j]}

(* The pending commands of s, oldest first: the queue a reconnect builds.  *)
SortedPending(s) ==
  {q \in [1..Cardinality(Pending(s)) -> Pending(s)] :
     \A i, j \in DOMAIN q : i < j => createdAt[q[i]] < createdAt[q[j]]}

(* k is where a walk of q stops at a command of S: the first such entry, or*)
(* one past the end.                                                       *)
FirstIn(q, S, k) ==
  /\ \A i \in 1..(k-1) : q[i] \notin S
  /\ k <= Len(q) => q[k] \in S

(***************************************************************************)
(* trySendNext(s), run after the caller has made the Map st, the queues qs,*)
(* the in-flight table fl, the timers tm and the attempts at, and emitted  *)
(* ev.  It skips entries that are not pending, and on an open socket sends *)
(* the first pending command; a send that throws marks the command failed, *)
(* without an event, and the walk goes on behind it.                       *)
(***************************************************************************)
TrySendNext(s, st, at, qs, fl, tm, ev) ==
  LET q == qs[s]
      pending == {id \in Id : st[id] = "pending"}
  IN
  \/ /\ fl[s] # NoId
     /\ status' = st /\ attempts' = at /\ queue' = qs /\ inflight' = fl
     /\ timer' = tm /\ delivered' = delivered /\ emitted' = ev
  \/ /\ fl[s] = NoId
     /\ conn'[s] # "open"
     /\ \E k \in 1..(Len(q)+1) :
          /\ FirstIn(q, pending, k)
          /\ queue' = [qs EXCEPT ![s] = Suffix(q, k)]
     /\ status' = st /\ attempts' = at /\ inflight' = fl
     /\ timer' = tm /\ delivered' = delivered /\ emitted' = ev
  \/ /\ fl[s] = NoId
     /\ conn'[s] = "open"
     /\ \E k \in 1..(Len(q)+1) :
          /\ FirstIn(q, pending \ Unsendable, k)
          /\ LET threw == {q[i] : i \in 1..(k-1)} \cap pending
                 sent  == {q[i] : i \in {k} \cap (1..Len(q))}
             IN  /\ status' = [id \in Id |-> IF id \in threw THEN "failed"
                                             ELSE IF id \in sent THEN "sent" ELSE st[id]]
                 /\ attempts' = [id \in Id |-> IF id \in threw \cup sent
                                               THEN at[id] + 1 ELSE at[id]]
                 /\ timer' = [id \in Id |-> IF id \in threw THEN "off"
                                            ELSE IF id \in sent THEN "own" ELSE tm[id]]
                 /\ inflight' = [fl EXCEPT ![s] = IF k <= Len(q) THEN q[k] ELSE NoId]
                 /\ queue' = [qs EXCEPT ![s] = Suffix(q, k+1)]
                 /\ delivered' = delivered \cup sent
                 /\ emitted' = ev \cup Emit("sent", sent)

(* An orphan timer is cleared, with the object it held, by every handler   *)
(* that clears or re-arms the timer of its id.                             *)
DropOrphans(tm) ==
  orphanAttempts' = [id \in Id |-> IF tm[id] = "orphan" THEN orphanAttempts[id] ELSE 0]

(* clearCommandTimeout, and finalizeCommand freeing the in-flight slot if  *)
(* the command holds it.                                                   *)
clearCommandTimeout(id) == [timer EXCEPT ![id] = "off"]
FreeSlot(id) ==
  [s \in Sensor |-> IF inflight[s] = id THEN NoId ELSE inflight[s]]

FinalizeCommand_NoNext(id, final, ev) ==
  /\ status' = [status EXCEPT ![id] = final]
  /\ queue' = removeFromQueue(queue, id)
  /\ inflight' = FreeSlot(id)
  /\ timer' = clearCommandTimeout(id)
  /\ DropOrphans(timer')
  /\ emitted' = ev
  /\ UNCHANGED <<attempts, delivered>>

(* finalizeCommand.                                                        *)
FinalizeCommand(id, final, ev) ==
  /\ TrySendNext(SensorOf[id], [status EXCEPT ![id] = final], attempts,
                 removeFromQueue(queue, id), FreeSlot(id), clearCommandTimeout(id), ev)
  /\ DropOrphans(timer')

(* attempts < maxAttempts, for an object that has been sent n times.       *)
MayRetry(n, id) == n < MaxAttempts[id]

-----------------------------------------------------------------------------
(* trySendCommand of the object in the Map when it already is in flight: a *)
(* retry after a timeout or on a reconnect.                                *)
Resend(id, qs) ==
  /\ queue' = removeFromQueue(qs, id)
  /\ status' = [status EXCEPT ![id] = "sent"]
  /\ attempts' = [attempts EXCEPT ![id] = @ + 1]
  /\ timer' = [timer EXCEPT ![id] = "own"]
  /\ DropOrphans(timer')
  /\ delivered' = delivered \cup {id}
  /\ emitted' = {<<"sent", id>>}
  /\ UNCHANGED inflight

Init ==
  /\ status = [id \in Id |-> "none"]
  /\ attempts = [id \in Id |-> 0]
  /\ createdAt = [id \in Id |-> 0]
  /\ clock = 0
  /\ queue = [s \in Sensor |-> <<>>]
  /\ inflight = [s \in Sensor |-> NoId]
  /\ timer = [id \in Id |-> "off"]
  /\ orphanAttempts = [id \in Id |-> 0]
  /\ conn = [s \in Sensor |-> "none"]
  /\ delivered = {}
  /\ emitted = {}

(* The command evicted for the per-sensor limit, NoId if there is room.    *)
PerSensorVictim(s) ==
  IF PendingCount(s) >= MaxPerSensorQueueSize THEN Oldest(Pending(s)) ELSE {NoId}

GlobalVictim_OffByOne(v) ==
  IF Cardinality(commands \ {v}) > MaxQueueSize
  THEN Oldest({id \in Id \ {v} : status[id] = "pending"}) ELSE {NoId}

(* The command evicted for the global limit once v has gone, NoId if there *)
(* is room.  The set is empty when nothing pending can make room.          *)
GlobalVictim(v) ==
  IF Cardinality(commands \ {v}) >= MaxQueueSize
  THEN Oldest({id \in Id \ {v} : status[id] = "pending"}) ELSE {NoId}

Evicted_EvenNone(v) == Emit("evicted", {v})

Evicted(v) == Emit("evicted", {v} \ {NoId})

(* sendCommand: both limits checked, the new object stored and queued.     *)
SendAccepted(id) ==
  LET s == SensorOf[id]
  IN  \E v \in PerSensorVictim(s) : \E w \in GlobalVictim(v) :
        LET overwrites == timer[id] = "own"
            st == [x \in Id |-> IF x = id THEN "pending"
                                ELSE IF x \in {v, w} THEN "none" ELSE status[x]]
            qs == removeFromQueue(removeFromQueue(queue, v), w)
            tm == IF overwrites THEN [timer EXCEPT ![id] = "orphan"] ELSE timer
        IN  /\ createdAt' = [createdAt EXCEPT ![id] = clock + 1]
            /\ TrySendNext(s, st, [attempts EXCEPT ![id] = 0],
                           [x \in Sensor |-> IF x = s THEN Append(qs[x], id) ELSE qs[x]], inflight, tm,
                           Evicted(v) \cup Evicted(w))
            /\ orphanAttempts' =
                 [x \in Id |-> IF timer'[x] # "orphan" THEN 0
                               ELSE IF x = id /\ overwrites THEN attempts[id]
                               ELSE orphanAttempts[x]]

(* sendCommand returning null: the Map is full of commands in flight or    *)
(* completed.  The per-sensor eviction that came first is not undone.      *)
SendDropped(id) ==
  \E v \in PerSensorVictim(SensorOf[id]) :
    /\ GlobalVictim(v) = {}
    /\ status' = [x \in Id |-> IF x = v THEN "none" ELSE status[x]]
    /\ queue' = removeFromQueue(queue, v)
    /\ emitted' = Evicted(v) \cup {<<"dropped", id>>}
    /\ createdAt' = [createdAt EXCEPT ![id] = clock + 1]
    /\ UNCHANGED <<attempts, inflight, timer, orphanAttempts, delivered>>

SendCommand(id) ==
  /\ clock < MaxSends
  /\ createdAt[id] = 0 \/ id \in Reusable
  /\ clock' = clock + 1
  /\ UNCHANGED conn
  /\ SendAccepted(id) \/ SendDropped(id)

(* registerConnection and its flushPendingCommands.  The socket may have   *)
(* closed while the gateway was still authenticating it (r = "closed").    *)
RegisterConnection(s, r) ==
  /\ conn' = [conn EXCEPT ![s] = r]
  /\ UNCHANGED <<createdAt, clock>>
  /\ \E q \in SortedPending(s) :
       LET qs == [queue EXCEPT ![s] = q]
           id == inflight[s]
           resend == /\ id # NoId
                     /\ status[id] \in {"sent", "pending"}
                     /\ MayRetry(attempts[id], id)
                     /\ r = "open"
       IN  \/ resend /\ Resend(id, qs)
           \/ /\ ~resend
              /\ TrySendNext(s, status, attempts, qs, inflight, timer, {})
              /\ DropOrphans(timer')

(* The registered socket closes; its close event has not been handled.     *)
SocketCloses(s) ==
  /\ conn[s] = "open"
  /\ conn' = [conn EXCEPT ![s] = "closed"]
  /\ emitted' = {}
  /\ UNCHANGED <<status, attempts, createdAt, clock, queue, inflight, timer,
                 orphanAttempts, delivered>>

(* unregisterConnection alone, as token revalidation calls it.             *)
UnregisterConnection(s) ==
  /\ conn[s] # "none"
  /\ conn' = [conn EXCEPT ![s] = "none"]
  /\ emitted' = {}
  /\ UNCHANGED <<status, attempts, createdAt, clock, queue, inflight, timer,
                 orphanAttempts, delivered>>

toClean_PendingOnly(s) == Pending(s)

(* cleanupSensor: the command in flight and every pending one fail and     *)
(* leave the Map.  An orphan timer of a command no longer there survives.  *)
toClean(s) ==
  {id \in Id : \/ id = inflight[s] /\ status[id] \in {"sent", "pending"}
               \/ id \in Pending(s)}

CleanupSensor(s) ==
  /\ status' = [id \in Id |-> IF id \in toClean(s) THEN "none" ELSE status[id]]
  /\ timer' = [id \in Id |-> IF id \in toClean(s) THEN "off" ELSE timer[id]]
  /\ DropOrphans(timer')
  /\ queue' = [queue EXCEPT ![s] = <<>>]
  /\ inflight' = [inflight EXCEPT ![s] = NoId]
  /\ emitted' = Emit("failed", toClean(s))
  /\ UNCHANGED <<attempts, createdAt, clock, delivered>>

(* The gateway's close handler: cleanupSensor, then unregisterConnection.  *)
Disconnect(s) ==
  /\ CleanupSensor(s)
  /\ conn' = [conn EXCEPT ![s] = "none"]

Answerable_Late(id) == status[id] # "none"

(* handleResponse ignores an answer to a command that is gone or completed.*)
Answerable(id) == status[id] \in {"pending", "sent"}

(* handleResponse.  A sensor answers what it was sent, any number of times *)
(* and arbitrarily late.                                                   *)
HandleResponse(id, success) ==
  /\ UNCHANGED <<createdAt, clock, conn>>
  /\ id \in delivered
  /\ Answerable(id)
  /\ FinalizeCommand(id, IF success THEN "success" ELSE "failed",
                     {<<IF success THEN "complete" ELSE "failed", id>>})

TimerFires_OnlyRetries(id) ==
  /\ UNCHANGED <<createdAt, clock, conn>>
  /\ timer[id] = "own" /\ Ready(SensorOf[id])
  /\ MayRetry(attempts[id], id) /\ Resend(id, queue)

(* The timeout callback of a command in the Map.  While the socket is not  *)
(* open it only re-arms itself, which changes nothing.                     *)
TimerFires(id) ==
  /\ UNCHANGED <<createdAt, clock, conn>>
  /\ timer[id] = "own"
  /\ Ready(SensorOf[id])
  /\ IF MayRetry(attempts[id], id)
     THEN Resend(id, queue)
     ELSE FinalizeCommand(id, "timeout", {<<"timeout", id>>})

(* The timeout callback of an overwritten object: it still resends, still  *)
(* times out and still frees the in-flight slot, whatever the Map holds.   *)
OrphanTimerFires(id) ==
  LET s == SensorOf[id]
  IN  /\ UNCHANGED <<createdAt, clock, conn>>
      /\ timer[id] = "orphan"
      /\ Ready(s)
      /\ \/ /\ MayRetry(orphanAttempts[id], id)
            /\ inflight[s] \in {id, NoId}
            /\ queue' = removeFromQueue(queue, id)
            /\ inflight' = [inflight EXCEPT ![s] = id]
            /\ orphanAttempts' = [orphanAttempts EXCEPT ![id] = @ + 1]
            /\ delivered' = delivered \cup {id}
            /\ emitted' = {<<"sent", id>>}
            /\ UNCHANGED <<status, attempts, timer>>
         \/ /\ MayRetry(orphanAttempts[id], id)
            /\ inflight[s] \notin {id, NoId}
            /\ timer' = [timer EXCEPT ![id] = "off"]
            /\ orphanAttempts' = [orphanAttempts EXCEPT ![id] = 0]
            /\ emitted' = {}
            /\ UNCHANGED <<status, attempts, queue, inflight, delivered>>
         \/ /\ ~MayRetry(orphanAttempts[id], id)
            /\ FinalizeCommand(id, status[id], {<<"timeout", id>>})

(* cleanupOldCommands, one command at a time (the sweep's iterations are   *)
(* independent): a completed command is forgotten, ...                     *)
ExpireCompleted(id) ==
  /\ status[id] \in Terminal
  /\ status' = [status EXCEPT ![id] = "none"]
  /\ queue' = removeFromQueue(queue, id)
  /\ inflight' = FreeSlot(id)
  /\ emitted' = {}
  /\ UNCHANGED <<attempts, createdAt, clock, timer, orphanAttempts, conn, delivered>>

(* ... a pending one evicted after pendingTTL, ...                         *)
ExpirePending(id) ==
  /\ status[id] = "pending"
  /\ status' = [status EXCEPT ![id] = "none"]
  /\ queue' = removeFromQueue(queue, id)
  /\ emitted' = {<<"evicted", id>>}
  /\ UNCHANGED <<attempts, createdAt, clock, inflight, timer, orphanAttempts, conn,
                 delivered>>

(* ... and a sent one failed once its sensor is not registered.            *)
SensorGone_Inverted(id) == conn[SensorOf[id]] # "none"

SensorGone(id) == conn[SensorOf[id]] = "none"

ExpireStaleSent(id) ==
  /\ UNCHANGED <<createdAt, clock, conn>>
  /\ status[id] = "sent"
  /\ SensorGone(id)
  /\ FinalizeCommand(id, "failed", {<<"failed", id>>})

Timers == \E id \in Id : TimerFires(id) \/ OrphanTimerFires(id)

Next ==
  \/ \E id \in Id : SendCommand(id)
  \/ \E s \in Sensor, r \in {"open", "closed"} : RegisterConnection(s, r)
  \/ \E s \in Sensor : SocketCloses(s) \/ UnregisterConnection(s) \/ Disconnect(s)
  \/ \E id \in Id, success \in BOOLEAN : HandleResponse(id, success)
  \/ Timers
  \/ \E id \in Id : ExpireCompleted(id) \/ ExpirePending(id) \/ ExpireStaleSent(id)

Spec == Init /\ [][Next]_vars

(* The event loop runs armed timers, the 60-second sweep, and the close    *)
(* event of a registered socket that has closed.                           *)
CloseHandled(s) == conn[s] = "closed" /\ Disconnect(s)

FairSpec ==
  /\ Spec
  /\ \A id \in Id : /\ WF_vars(TimerFires(id))
                   /\ WF_vars(OrphanTimerFires(id))
                   /\ WF_vars(ExpireStaleSent(id))
  /\ \A s \in Sensor : WF_vars(CloseHandled(s))

-----------------------------------------------------------------------------
(* What must hold.                                                         *)

(* At most one command is outstanding at a sensor: a command marked sent   *)
(* occupies its sensor's in-flight slot (trySendCommand refuses another),  *)
(* through retries, reconnects, overwritten objects and the sweep.         *)
OneInFlight ==
  \A id \in Id : status[id] = "sent" => inflight[SensorOf[id]] = id

(* An occupied in-flight slot blocks the sensor's queue, so it always has  *)
(* an armed timer that will free it: no handler may clear the timer or     *)
(* forget the command and leave the slot taken.                            *)
SlotHasTimer ==
  \A s \in Sensor : inflight[s] # NoId =>
     /\ SensorOf[inflight[s]] = s
     /\ timer[inflight[s]] # "off"

(* A timer watches the object in the Map exactly while that object is sent *)
(* (setCommandTimeout and clearCommandTimeout are always paired with the   *)
(* change of status), so a late callback never acts on a completed command.*)
TimerMatchesStatus ==
  \A id \in Id : timer[id] = "own" <=> status[id] = "sent"

(* No command is put on the wire more often than maxAttempts, whichever of *)
(* the timeout and the reconnect does the resending.                       *)
AttemptsBounded ==
  \A id \in Id : attempts[id] <= MaxAttempts[id] /\ orphanAttempts[id] <= MaxAttempts[id]

(* sensorQueues hold only commands of their own sensor.                    *)
QueueOwn ==
  \A s \in Sensor : \A i \in 1..Len(queue[s]) : SensorOf[queue[s][i]] = s

(* The two limits sendCommand enforces by evicting.  The per-sensor one is *)
(* about commands that are sent once.                                      *)
WithinLimits ==
  /\ Cardinality(commands) <= MaxQueueSize
  /\ Reusable = {} =>
       \A s \in Sensor : Cardinality(Pending(s)) <= MaxPerSensorQueueSize

(* Nothing pending is stuck.  A pending command that is sent once is in    *)
(* its sensor's queue, the only way to its delivery; and no wake-up is     *)
(* lost: when the socket is open and nothing is in flight, nothing pending *)
(* waits in the queue (every path that frees the slot or opens the socket  *)
(* ends in trySendNext).                                                   *)
NothingStuck ==
  /\ \A id \in Id \ Reusable :
       status[id] = "pending" => id \in QueuedIds(queue[SensorOf[id]])
  /\ \A s \in Sensor : Ready(s) /\ inflight[s] = NoId =>
       \A id \in QueuedIds(queue[s]) : status[id] # "pending"

(* Commands of a sensor go out in the order they were created: a first     *)
(* send never overtakes an older command that is still waiting.            *)
FirstInFirstOut ==
  [][\A id, older \in Id \ Reusable :
       /\ status[id] # "sent" /\ status'[id] = "sent"
       /\ SensorOf[older] = SensorOf[id] /\ status'[older] = "pending"
       => createdAt'[id] <= createdAt'[older]]_vars

(* A completed command keeps its outcome until it is forgotten or sent     *)
(* again: a late answer does not overturn a timeout, nor a late timeout an *)
(* answer.                                                                 *)
OutcomeSticks ==
  [][\A id \in Id : status[id] \in Terminal /\ createdAt'[id] = createdAt[id]
       => status'[id] \in {status[id], "none"}]_vars

(* A command on the wire is eventually answered, timed out or failed, once *)
(* connections stop coming and going, and provided that a closed socket    *)
(* that is still registered gets its close handler run.                    *)
SentIsResolved ==
  <>[][conn' = conn]_conn => \A id \in Id : status[id] = "sent" ~> status[id] # "sent"

(* The inductive invariant behind OneInFlight, SlotHasTimer and            *)
(* AttemptsBounded: a pending object has never been sent, and              *)
(* queues do not mix sensors.                                              *)
PendingUnsent ==
  \A id \in Id : status[id] = "pending" => attempts[id] = 0

IInv ==
  /\ TypeOK
  /\ OneInFlight
  /\ SlotHasTimer
  /\ TimerMatchesStatus
  /\ AttemptsBounded
  /\ QueueOwn
  /\ PendingUnsent
=============================================================================
