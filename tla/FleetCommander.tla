--------------------------- MODULE FleetCommander ---------------------------
(***************************************************************************)
(* The commander (services/fleet/fleet-commander.ts) on top of the command *)
(* queue: every command is a database row, and the rows follow the queue's *)
(* events through updates that run concurrently and finish in any order.   *)
(*                                                                         *)
(* A request r is a call of FleetCommander.sendCommand; it is named by the *)
(* row it creates when it is not merged into a row that is already there.  *)
(* A database operation in progress is counted in ops until it takes       *)
(* effect; each one is a single conditional update, except                 *)
(* markCommandFailed, which first reads the row.                           *)
(***************************************************************************)
EXTENDS Integers, FiniteSets

CONSTANTS Sensor, Id, NoId, SensorOf, MaxAttempts, Unsendable, MaxQueueSize,
          MaxPerSensorQueueSize, MaxSends,
          TypeOf,      \* the command type of a request
          MaxRetries,  \* config.maxRetries
          MaxCrashes   \* bound of the model: restarts of the hub

ASSUME CommanderAssumption == MaxRetries \in Nat /\ MaxCrashes \in Nat

VARIABLES status, attempts, createdAt, clock, queue, inflight, timer,
          orphanAttempts, conn, delivered, emitted   \* the command queue
VARIABLES
  row,          \* status of the row, "none" before it exists
  rowAttempts,  \* its attempts
  sentAt,       \* rows whose sentAt is set
  aged,         \* rows created more than five seconds ago
  ops,          \* database operations in progress
  tx,           \* requests: "idle", transaction "open", "committed", or "done"
  found,        \* the duplicate the open transaction found, or NoId
  cancelled,    \* rows cancelCommand reported as cancelled
  acked,        \* commands a sensor has answered with success
  crashes

sender == <<status, attempts, createdAt, clock, queue, inflight, timer,
            orphanAttempts, conn, delivered, emitted>>
(* A step of the commander alone: the queue does nothing and says nothing. *)
Quiet ==
  /\ UNCHANGED <<status, attempts, createdAt, clock, queue, inflight, timer,
                 orphanAttempts, conn, delivered>>
  /\ emitted' = {}

db == <<row, rowAttempts, sentAt, aged>>
requests == <<tx, found>>
history == <<cancelled, acked>>
vars == <<sender, db, ops, requests, history, crashes>>

(* Any command may be re-sent: a merged request sends the row's id again.  *)
Q == INSTANCE CommandSender WITH Reusable <- Id

Final == {"success", "failed", "timeout"}
Open == {"pending", "sent"}
OpKind == {"markSent", "markSuccess", "markFailed", "retry", "giveUp"}
NoOps == [k \in OpKind |-> [id \in Id |-> 0]]

TypeOK ==
  /\ Q!TypeOK
  /\ row \in [Id -> {"none"} \cup Open \cup Final]
  /\ rowAttempts \in [Id -> Nat]
  /\ ops \in [OpKind -> [Id -> Nat]]
  /\ tx \in [Id -> {"idle", "open", "committed", "done"}]
  /\ found \in [Id -> Id \cup {NoId}]
  /\ sentAt \subseteq Id /\ aged \subseteq Id /\ cancelled \subseteq Id /\ acked \subseteq Id
  /\ crashes \in 0..MaxCrashes

Init ==
  /\ Q!Init
  /\ row = [id \in Id |-> "none"]
  /\ rowAttempts = [id \in Id |-> 0]
  /\ sentAt = {} /\ aged = {}
  /\ ops = NoOps
  /\ tx = [r \in Id |-> "idle"]
  /\ found = [r \in Id |-> NoId]
  /\ cancelled = {} /\ acked = {}
  /\ crashes = 0

-----------------------------------------------------------------------------
Starts_SuccessOnSend(k, id) ==
  CASE k \in {"markSent", "markSuccess"} -> <<"sent", id>> \in emitted'
    [] k = "markFailed" -> <<"failed", id>> \in emitted' \/ <<"timeout", id>> \in emitted'
    [] OTHER            -> FALSE

(* setCommandSender's listeners: each event of the queue starts an update. *)
(* Nothing listens to command-evicted and command-dropped.                 *)
Starts(k, id) ==
  CASE k = "markSent"    -> <<"sent", id>> \in emitted'
    [] k = "markSuccess" -> <<"complete", id>> \in emitted'
    [] k = "markFailed"  -> <<"failed", id>> \in emitted' \/ <<"timeout", id>> \in emitted'
    [] OTHER             -> FALSE

Listen ==
  ops' = [k \in OpKind |-> [id \in Id |-> ops[k][id] + (IF Starts(k, id) THEN 1 ELSE 0)]]

(* The queue's own steps, with no call of the commander behind them.       *)
QueueStep ==
  /\ \/ \E s \in Sensor, r \in {"open", "closed"} : Q!RegisterConnection(s, r)
     \/ \E s \in Sensor : \/ Q!SocketCloses(s) \/ Q!UnregisterConnection(s)
                          \/ Q!Disconnect(s)
     \/ \E id \in Id : Q!HandleResponse(id, FALSE)
     \/ Q!Timers
     \/ \E id \in Id : \/ Q!ExpireCompleted(id) \/ Q!ExpirePending(id)
                       \/ Q!ExpireStaleSent(id)
  /\ Listen
  /\ UNCHANGED <<db, requests, cancelled, acked, crashes>>

SensorAcks(id) ==
  /\ Q!HandleResponse(id, TRUE)
  /\ acked' = acked \cup {id}
  /\ Listen
  /\ UNCHANGED <<db, requests, cancelled, crashes>>

-----------------------------------------------------------------------------
(* sendCommand, up to the query for a duplicate: a pending row of the same *)
(* sensor and type, at most five seconds old.                              *)
Duplicates(r) ==
  {id \in Id \ aged : /\ row[id] = "pending"
                      /\ SensorOf[id] = SensorOf[r] /\ TypeOf[id] = TypeOf[r]}

OpenTransaction(r) ==
  /\ tx[r] = "idle"
  /\ tx' = [tx EXCEPT ![r] = "open"]
  /\ \E id \in IF Duplicates(r) = {} THEN {NoId} ELSE Duplicates(r) :
       found' = [found EXCEPT ![r] = id]
  /\ Quiet /\ UNCHANGED <<db, ops, history, crashes>>

(* The transaction commits: the row is created unless a duplicate was      *)
(* found.  The promise of the transaction has yet to resolve.              *)
Commit(r) ==
  /\ tx[r] = "open"
  /\ tx' = [tx EXCEPT ![r] = "committed"]
  /\ row' = IF found[r] = NoId THEN [row EXCEPT ![r] = "pending"] ELSE row
  /\ Quiet /\ UNCHANGED <<rowAttempts, sentAt, aged, ops, found, history, crashes>>

(* The rest of sendCommand: the queue is handed the row's id with this     *)
(* call's payload, not the row's.  A null from the queue (dropped) is      *)
(* ignored, and the caller gets the row's id.                              *)
Send(r) ==
  LET id == IF found[r] = NoId THEN r ELSE found[r]
  IN  /\ tx[r] = "committed"
      /\ tx' = [tx EXCEPT ![r] = "done"]
      /\ Q!SendCommand(id)
      /\ Listen
      /\ UNCHANGED <<db, found, cancelled, acked, crashes>>

-----------------------------------------------------------------------------
Matches_AnyRow(id) == row[id] # "none"

(* Database operations taking effect.  Each update names the statuses it   *)
(* applies to in its WHERE clause.                                         *)
Matches(id) == row[id] \in Open

Finish(k, id) ==
  /\ ops[k][id] > 0
  /\ ops' = [ops EXCEPT ![k][id] = @ - 1]
  /\ Quiet /\ UNCHANGED <<requests, history, crashes>>

Update(id, st) == row' = IF Matches(id) THEN [row EXCEPT ![id] = st] ELSE row

markCommandSent(id) ==
  /\ Finish("markSent", id)
  /\ Update(id, "sent")
  /\ rowAttempts' = IF Matches(id) THEN [rowAttempts EXCEPT ![id] = @ + 1] ELSE rowAttempts
  /\ sentAt' = IF Matches(id) THEN sentAt \cup {id} ELSE sentAt
  /\ UNCHANGED aged

markCommandSuccess(id) ==
  /\ Finish("markSuccess", id)
  /\ Update(id, "success")
  /\ UNCHANGED <<rowAttempts, sentAt, aged>>

MayRetry_OffByOne(id) == rowAttempts[id] + 1 < MaxRetries

(* markCommandFailed reads the row, and from its attempts decides which    *)
(* update to make.                                                         *)
MayRetry(id) == rowAttempts[id] < MaxRetries

markCommandFailed(id) ==
  /\ ops["markFailed"][id] > 0
  /\ ops' = LET next == IF MayRetry(id) THEN "retry" ELSE "giveUp"
                done == [ops EXCEPT !["markFailed"][id] = @ - 1]
            IN  IF Matches(id) THEN [done EXCEPT ![next][id] = @ + 1] ELSE done
  /\ Quiet /\ UNCHANGED <<db, requests, history, crashes>>

(* Reset to pending for retry, if the attempts still allow it.             *)
ResetToPending(id) ==
  /\ Finish("retry", id)
  /\ row' = IF Matches(id) /\ MayRetry(id) THEN [row EXCEPT ![id] = "pending"] ELSE row
  /\ UNCHANGED <<rowAttempts, sentAt, aged>>

FailPermanently(id) ==
  /\ Finish("giveUp", id)
  /\ Update(id, "failed")
  /\ UNCHANGED <<rowAttempts, sentAt, aged>>

(* An operation that the database rejects: the listener's promise rejects. *)
OperationFails(k, id) ==
  /\ Finish(k, id)
  /\ UNCHANGED db

Expirable_SentOnly(id) == row[id] = "sent"

(* checkTimeouts, for one row whose timeoutAt has passed; a request chooses*)
(* its timeout, so that may be before or after the row is five seconds old.*)
Expirable(id) == row[id] \in Open

checkTimeouts(id) ==
  /\ Expirable(id)
  /\ Update(id, "timeout")
  /\ Quiet /\ UNCHANGED <<rowAttempts, sentAt, aged, ops, requests, history, crashes>>

(* cancelCommand updates the row, and only the row.                        *)
cancelCommand(id) ==
  /\ Matches(id)
  /\ Update(id, "failed")
  /\ cancelled' = cancelled \cup {id}
  /\ Quiet /\ UNCHANGED <<rowAttempts, sentAt, aged, ops, requests, acked, crashes>>

(* Five seconds pass since a row was created.                              *)
Age(id) ==
  /\ row[id] # "none" /\ id \notin aged
  /\ aged' = aged \cup {id}
  /\ Quiet /\ UNCHANGED <<row, rowAttempts, sentAt, ops, requests, history, crashes>>

(* The hub restarts: the rows survive, the queue and every operation and   *)
(* request in progress do not.  Nothing reads pending rows back.           *)
Crash ==
  /\ crashes < MaxCrashes
  /\ crashes' = crashes + 1
  /\ status' = [id \in Id |-> "none"]
  /\ queue' = [s \in Sensor |-> << >>]
  /\ inflight' = [s \in Sensor |-> NoId]
  /\ timer' = [id \in Id |-> "off"]
  /\ orphanAttempts' = [id \in Id |-> 0]
  /\ conn' = [s \in Sensor |-> "none"]
  /\ emitted' = {}
  /\ ops' = NoOps
  /\ tx' = [r \in Id |-> IF tx[r] = "idle" THEN "idle" ELSE "done"]
  /\ UNCHANGED <<attempts, createdAt, clock, delivered, db, found, history>>

DatabaseStep(id) ==
  \/ markCommandSent(id) \/ markCommandSuccess(id) \/ markCommandFailed(id)
  \/ ResetToPending(id) \/ FailPermanently(id)

Next ==
  \/ QueueStep
  \/ \E id \in Id :
       \/ SensorAcks(id) \/ OpenTransaction(id) \/ Commit(id) \/ Send(id)
       \/ DatabaseStep(id) \/ checkTimeouts(id) \/ cancelCommand(id) \/ Age(id)
  \/ \E k \in OpKind, id \in Id : OperationFails(k, id)
  \/ Crash

Spec == Init /\ [][Next]_vars

(* Every timeoutAt passes, and the checker runs every                      *)
(* timeoutCheckIntervalMs.                                                 *)
FairSpec == Spec /\ \A id \in Id : WF_vars(checkTimeouts(id))

-----------------------------------------------------------------------------
(* A row's outcome is final: updates that raced past each other, a retry   *)
(* decided on a stale read, the checker and cancelCommand never overturn   *)
(* one another.                                                            *)
RowOutcomeSticks ==
  [][\A id \in Id : row[id] \in Final => row'[id] = row[id]]_vars

(* A row says success only when a sensor has answered that command with    *)
(* success, however late and through whichever object of the queue.        *)
SuccessWasAcked ==
  \A id \in Id : row[id] = "success" => id \in acked

(* A row fails for good only when it was cancelled or was put on the wire  *)
(* maxRetries times: markCommandFailed decides on a read that may be stale *)
(* by the time it writes.                                                  *)
FailedWhenExhausted ==
  \A id \in Id : row[id] = "failed" => id \in cancelled \/ rowAttempts[id] >= MaxRetries

(* The commands' rows follow the promised life cycle, and each one settles, *)
(* through lost events, rejected updates and restarts of the hub.          *)
Lifecycle == INSTANCE CommandLifecycle
ImplementsLifecycle == Lifecycle!Spec

(* A request's row exists only once its transaction has committed, so a    *)
(* commit never overwrites a row.                                          *)
RowsOfFinishedRequests ==
  /\ row \in [Id -> {"none"} \cup Open \cup Final]
  /\ tx \in [Id -> {"idle", "open", "committed", "done"}]
  /\ \A r \in Id : tx[r] \in {"idle", "open"} => row[r] = "none"

=============================================================================
