--------------------------- MODULE SensorGateway ---------------------------
(***************************************************************************)
(* The life of a sensor connection in the hub                              *)
(* (websocket/sensor-gateway.ts), composed with the command queue it       *)
(* registers sockets with.  handleAuth awaits the database several times,  *)
(* and the socket may close, time out or be replaced in between; the close *)
(* handler, the heartbeat sweep and the token revalidation each take a     *)
(* connection down their own way.                                          *)
(*                                                                         *)
(* A socket is used once.  An AuthCall is an auth message sent on a socket *)
(* and the handleAuth that runs for it: handleAuth has no check that the   *)
(* connection is authenticated already and nothing serialises the message  *)
(* handlers, so calls of one socket overlap and may name other sensors.    *)
(* conn, the queue's view of a sensor's registered socket, follows         *)
(* registered and the sockets' readyState.                                 *)
(***************************************************************************)
EXTENDS Integers, FiniteSets

CONSTANTS Sensor, Id, NoId, SensorOf, MaxAttempts, MaxQueueSize,
          MaxPerSensorQueueSize, MaxSends,
          Socket, NoSocket,
          AuthCall,        \* the auth messages
          SocketOf,        \* the socket an auth message arrives on
          ClaimOf,         \* the sensor it names
          NoSensor,        \* conn.sensorId before authentication
          MaxConnections   \* config.maxConnections

ASSUME GatewayAssumption ==
  /\ NoSocket \notin Socket
  /\ NoSensor \notin Sensor
  /\ SocketOf \in [AuthCall -> Socket]
  /\ ClaimOf \in [AuthCall -> Sensor]
  /\ MaxConnections \in Nat \ {0}

VARIABLES status, attempts, createdAt, clock, queue, inflight, timer,
          orphanAttempts, conn, delivered, emitted   \* the command queue
VARIABLES
  sock,         \* "new", "open", "closed" (close event to come), or "gone"
  connections,  \* the gateway's Map of connections
  auth,         \* where a handleAuth stands: "none" is not running
  sensorId,     \* conn.sensorId of a socket's connection
  authTimer,    \* sockets with an armed auth timeout
  checking,     \* connections the token revalidation in progress looks at
  registered,   \* the socket the command queue holds for a sensor
  dbState,      \* connectionState of the sensor's row
  statusOps,    \* sensors with an updateSensorStatus('DISCONNECTED') in progress
  unattended    \* history: sockets whose Map entry an error or the heartbeat
                \* sweep deleted before their close event, or that a handleAuth
                \* registered when the entry was already gone

sender == <<status, attempts, createdAt, clock, queue, inflight, timer,
            orphanAttempts, conn, delivered, emitted>>
gateway == <<sock, connections, auth, sensorId, authTimer, checking,
             registered, dbState, statusOps, unattended>>
vars == <<sender, gateway>>

Q == INSTANCE CommandSender WITH Reusable <- {}, Unsendable <- {}

TypeOK ==
  /\ Q!TypeOK
  /\ sock \in [Socket -> {"new", "open", "closed", "gone"}]
  /\ connections \subseteq Socket
  /\ auth \in [AuthCall -> {"none", "lookup", "validated", "committed", "over"}]
  /\ sensorId \in [Socket -> Sensor \cup {NoSensor}]
  /\ unattended \subseteq Socket /\ authTimer \subseteq Socket /\ checking \subseteq Socket
  /\ registered \in [Sensor -> Socket \cup {NoSocket}]
  /\ dbState \in [Sensor -> {"CONNECTED", "DISCONNECTED"}]
  /\ statusOps \subseteq Sensor

Init ==
  /\ Q!Init
  /\ sock = [c \in Socket |-> "new"]
  /\ connections = {}
  /\ auth = [a \in AuthCall |-> "none"]
  /\ sensorId = [c \in Socket |-> NoSensor]
  /\ unattended = {} /\ authTimer = {} /\ checking = {}
  /\ registered = [s \in Sensor |-> NoSocket]
  /\ dbState = [s \in Sensor |-> "DISCONNECTED"]
  /\ statusOps = {}

(* conn.sensorId is set.                                                   *)
Authenticated(c) == sensorId[c] # NoSensor

-----------------------------------------------------------------------------
(* ws.close() or a lost peer: readyState leaves OPEN at once, and the      *)
(* close event follows.  The queue sees it if the socket is registered.    *)
Close(c) == sock' = IF sock[c] = "open" THEN [sock EXCEPT ![c] = "closed"] ELSE sock

QueueSeesClose(c) ==
  IF sock[c] = "open" /\ \E s \in Sensor : registered[s] = c
  THEN /\ conn' = [s \in Sensor |-> IF registered[s] = c THEN "closed" ELSE conn[s]]
       /\ emitted' = {}
       /\ UNCHANGED <<status, attempts, createdAt, clock, queue, inflight, timer,
                      orphanAttempts, delivered>>
  ELSE UNCHANGED sender

(* this.connections.delete(connectionId)                                   *)
Forget(c) == connections' = connections \ {c}

(* handleConnection; a full gateway closes the socket and attaches nothing.*)
(* The Map also holds the connections of others, any number at a time.     *)
HasRoom(others) == Cardinality(connections) + others < MaxConnections

handleConnection(c) ==
  /\ sock[c] = "new"
  /\ \/ /\ \E others \in 0..MaxConnections : HasRoom(others)
        /\ sock' = [sock EXCEPT ![c] = "open"]
        /\ connections' = connections \cup {c}
        /\ authTimer' = authTimer \cup {c}
     \/ /\ \E others \in 0..MaxConnections : ~HasRoom(others)
        /\ sock' = [sock EXCEPT ![c] = "gone"]
        /\ UNCHANGED <<connections, authTimer>>
  /\ UNCHANGED <<sender, auth, sensorId, checking, registered, dbState, statusOps,
                 unattended>>

(* The peer goes away, or send() hits its backpressure limit.              *)
SocketCloses(c) ==
  /\ sock[c] = "open"
  /\ Close(c)
  /\ QueueSeesClose(c)
  /\ UNCHANGED <<connections, auth, sensorId, authTimer, checking, registered, dbState,
                 statusOps, unattended>>

(* The 10-second auth timeout.                                             *)
AuthTimeout(c) ==
  /\ c \in authTimer
  /\ authTimer' = authTimer \ {c}
  /\ IF Authenticated(c) THEN UNCHANGED <<sender, sock, connections>>
     ELSE Close(c) /\ QueueSeesClose(c) /\ Forget(c)
  /\ UNCHANGED <<auth, sensorId, checking, registered, dbState, statusOps, unattended>>

(* An auth message starts handleAuth: the key or token is looked up.  The  *)
(* peer may try again after a failure, repeat it or name another sensor;   *)
(* messages still come in between ws.close() and the close event.          *)
ReceiveAuth(a) ==
  /\ sock[SocketOf[a]] \in {"open", "closed"} /\ SocketOf[a] \in connections
  /\ auth[a] = "none"
  /\ auth' = [auth EXCEPT ![a] = "lookup"]
  /\ UNCHANGED <<sender, sock, connections, sensorId, authTimer, checking, registered,
                 dbState, statusOps, unattended>>

(* The credential is good: the timeout is cleared, the sensor looked up.   *)
CredentialAccepted(a) ==
  /\ auth[a] = "lookup"
  /\ auth' = [auth EXCEPT ![a] = "validated"]
  /\ authTimer' = authTimer \ {SocketOf[a]}
  /\ UNCHANGED <<sender, sock, connections, sensorId, checking, registered, dbState,
                 statusOps, unattended>>

(* handleAuth gives up.  Some failures only answer auth-failed (a bad JWT, *)
(* an error of the database); the others close the socket too.             *)
AuthFails(a) ==
  /\ auth[a] \in {"lookup", "validated"}
  /\ auth' = [auth EXCEPT ![a] = "over"]
  /\ \/ UNCHANGED <<sender, sock>>
     \/ Close(SocketOf[a]) /\ QueueSeesClose(SocketOf[a])
  /\ UNCHANGED <<connections, sensorId, authTimer, checking, registered, dbState, statusOps,
                 unattended>>

(* sensor.update or sensor.create commits connectionState CONNECTED.       *)
SensorRowCommits(a) ==
  /\ auth[a] = "validated"
  /\ auth' = [auth EXCEPT ![a] = "committed"]
  /\ dbState' = [dbState EXCEPT ![ClaimOf[a]] = "CONNECTED"]
  /\ UNCHANGED <<sender, sock, connections, sensorId, authTimer, checking, registered,
                 statusOps, unattended>>

(* handleAuth resumes: the connection gets its sensorId, which a later call*)
(* overwrites, and its socket is registered with the command queue under   *)
(* that id, whatever became of it meanwhile and whatever the sensor's      *)
(* approval status.  An earlier registration under another id stays.       *)
AuthCompletes(a) ==
  LET c == SocketOf[a]
      s == ClaimOf[a]
  IN  /\ auth[a] = "committed"
      /\ auth' = [auth EXCEPT ![a] = "over"]
      /\ sensorId' = [sensorId EXCEPT ![c] = s]
      /\ registered' = [registered EXCEPT ![s] = c]
      /\ Q!RegisterConnection(s, IF sock[c] = "open" THEN "open" ELSE "closed")
      /\ unattended' = IF c \in connections THEN unattended ELSE unattended \cup {c}
      /\ UNCHANGED <<sock, connections, authTimer, checking, dbState, statusOps>>

(* cleanupSensor and unregisterConnection.                                 *)
Deregister(s) ==
  /\ registered' = [registered EXCEPT ![s] = NoSocket]
  /\ Q!Disconnect(s)

FindsConnection_AfterDelete(c) == c \in connections \ {c} /\ Authenticated(c)

(* The close handler looks its connection up in the Map; it does nothing   *)
(* for one that is not there or has no sensorId.                           *)
FindsConnection(c) == c \in connections /\ Authenticated(c)

(* The close handler: cleanup and deregistration of the sensor, by its id, *)
(* whichever socket is registered under it.                                *)
CloseEvent(c) ==
  LET s == sensorId[c]
  IN  /\ sock[c] = "closed"
      /\ sock' = [sock EXCEPT ![c] = "gone"]
      /\ authTimer' = authTimer \ {c}
      /\ Forget(c)
      /\ IF FindsConnection(c)
         THEN /\ statusOps' = statusOps \cup {s}
              /\ Deregister(s)
         ELSE UNCHANGED <<sender, registered, statusOps>>
      /\ UNCHANGED <<auth, sensorId, checking, dbState, unattended>>

(* The Map entry goes before the close event: its handler finds nothing.   *)
Unattend(c) == Forget(c) /\ unattended' = unattended \cup {c}

(* The error handler; the close event still follows.                       *)
ErrorEvent(c) ==
  /\ sock[c] = "open"
  /\ Close(c) /\ QueueSeesClose(c) /\ Unattend(c)
  /\ authTimer' = authTimer \ {c}
  /\ UNCHANGED <<auth, sensorId, checking, registered, dbState, statusOps>>

Stale_IdentifiedOnly(c) == c \in connections /\ Authenticated(c)

(* The heartbeat sweep finds a connection it has not heard from: the socket*)
(* is closed and the Map entry deleted, so the close handler will not find *)
(* it; the command queue is not told.                                      *)
Stale(c) == c \in connections

HeartbeatTimeout(c) ==
  /\ Stale(c)
  /\ Close(c) /\ QueueSeesClose(c) /\ Unattend(c)
  /\ statusOps' = IF Authenticated(c) THEN statusOps \cup {sensorId[c]} ELSE statusOps
  /\ UNCHANGED <<auth, sensorId, authTimer, checking, registered, dbState>>

(* Token revalidation: a snapshot of the authenticated connections, ...    *)
RevalidationStarts ==
  /\ checking = {}
  /\ checking' = {c \in connections : Authenticated(c)}
  /\ checking' # {}
  /\ UNCHANGED <<sender, sock, connections, auth, sensorId, authTimer, registered, dbState,
                 statusOps, unattended>>

(* ... and, once the keys have been read, its revoked members R disconnect,*)
(* each unregistering its sensor by id.  R is empty if the query fails.    *)
RevalidationEnds(R) ==
  LET sensors == {sensorId[c] : c \in R}
      closing == {c \in R : sock[c] = "open"}
  IN  /\ checking # {} /\ R \subseteq checking
      /\ checking' = {}
      /\ sock' = [c \in Socket |-> IF c \in closing THEN "closed" ELSE sock[c]]
      /\ connections' = connections \ R
      /\ statusOps' = statusOps \cup sensors
      /\ registered' = [s \in Sensor |-> IF s \in sensors THEN NoSocket ELSE registered[s]]
      /\ conn' = [s \in Sensor |-> IF s \in sensors THEN "none"
                                   ELSE IF registered[s] \in closing THEN "closed"
                                   ELSE conn[s]]
      /\ emitted' = {}
      /\ UNCHANGED <<status, attempts, createdAt, clock, queue, inflight, timer,
                     orphanAttempts, delivered, auth, sensorId, authTimer, dbState,
                     unattended>>

(* A DISCONNECTED of updateSensorStatus, which nobody awaits, is written;  *)
(* or the database rejects it and the error is logged.                     *)
StatusWritten(s) ==
  /\ s \in statusOps
  /\ statusOps' = statusOps \ {s}
  /\ \/ dbState' = [dbState EXCEPT ![s] = "DISCONNECTED"]
     \/ UNCHANGED dbState
  /\ UNCHANGED <<sender, sock, connections, auth, sensorId, authTimer, checking, registered,
                 unattended>>

(* The command queue's own steps.  An answer arrives on any authenticated  *)
(* connection of the Map: handleCommandAck compares nothing with sensorId. *)
CanAnswer == \E c \in connections : sock[c] \in {"open", "closed"} /\ Authenticated(c)

QueueStep ==
  /\ \/ \E id \in Id : Q!SendCommand(id)
     \/ \E id \in Id, success \in BOOLEAN : CanAnswer /\ Q!HandleResponse(id, success)
     \/ Q!Timers
     \/ \E id \in Id : \/ Q!ExpireCompleted(id) \/ Q!ExpirePending(id)
                       \/ Q!ExpireStaleSent(id)
  /\ UNCHANGED gateway

Next ==
  \/ \E c \in Socket :
       \/ handleConnection(c) \/ SocketCloses(c) \/ AuthTimeout(c) \/ CloseEvent(c)
       \/ ErrorEvent(c) \/ HeartbeatTimeout(c)
  \/ \E a \in AuthCall :
       \/ ReceiveAuth(a) \/ CredentialAccepted(a) \/ AuthFails(a) \/ SensorRowCommits(a)
       \/ AuthCompletes(a)
  \/ RevalidationStarts \/ \E R \in SUBSET Socket : RevalidationEnds(R)
  \/ \E s \in Sensor : StatusWritten(s)
  \/ QueueStep

Spec == Init /\ [][Next]_vars

(* The timers of the queue and the sweeps run.  A connection that answers  *)
(* pings is never stale, so the heartbeat sweep is only sure to take one   *)
(* that has not authenticated (its messages are refused) or whose socket   *)
(* has closed.  Nothing is assumed of peers, close events or the database. *)
FairSpec ==
  /\ Spec
  /\ \A c \in Socket :
       WF_vars(HeartbeatTimeout(c) /\ (~Authenticated(c) \/ sock[c] # "open"))
  /\ \A id \in Id : /\ WF_vars(Q!TimerFires(id) /\ UNCHANGED gateway)
                    /\ WF_vars(Q!ExpireStaleSent(id) /\ UNCHANGED gateway)

-----------------------------------------------------------------------------
(* Whoever is registered with the command queue is looked after: the       *)
(* socket held for a sensor has a connection in the gateway's Map, under   *)
(* that sensor's id, and its close event, which will deregister it, is     *)
(* still to come.  The ways out are the code's own: an error or the        *)
(* heartbeat sweep deleted the entry first, handleAuth finished after the  *)
(* entry was gone, or the same connection has authenticated as another     *)
(* sensor since.                                                           *)
RegistrationIsAttended ==
  \A s \in Sensor : LET c == registered[s] IN
    c # NoSocket => \/ c \in connections /\ sock[c] \in {"open", "closed"}
                    \/ c \in unattended
                    \/ sensorId[c] # s

(* A connection that does not authenticate is eventually dropped: through  *)
(* the auth timeout, or, once that has been cleared, the heartbeat sweep.  *)
PreAuthIsDropped ==
  \A c \in Socket : c \in connections ~> (c \notin connections \/ Authenticated(c))

(* A command on the wire gets an outcome from its timer, the sweep or a    *)
(* disconnect, unless its sensor's registered socket is a closed one.  That*)
(* happens when the error handler, the heartbeat sweep or a late           *)
(* registration leave a dead socket behind in the queue; the command then  *)
(* waits for the sensor to come back.                                      *)
SentIsResolvedOrStranded ==
  \A id \in Id : status[id] = "sent" ~> (status[id] # "sent" \/ conn[SensorOf[id]] = "closed")
=============================================================================
