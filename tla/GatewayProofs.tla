---------------------------- MODULE GatewayProofs ----------------------------
(***************************************************************************)
(* Proofs about the two components that keep WebSockets by sensor: the     *)
(* sensor gateway (SensorGateway) and the tunnel broker (TunnelBroker).    *)
(* Both await a database in the handshake, and both find a socket by the   *)
(* sensor's name: the question is whether the name still leads to the      *)
(* connection that is meant.                                               *)
(*                                                                         *)
(* First, the sockets the command queue holds, for any number of sockets,  *)
(* sensors and auth messages and any limits of the queue: handleAuth, the  *)
(* close and error handlers, the heartbeat sweep and the token             *)
(* revalidation may interleave at every await.                             *)
(***************************************************************************)
EXTENDS SensorGateway, TunnelBroker, TLAPS

GatewayTyped ==
  /\ sock \in [Socket -> {"new", "open", "closed", "gone"}]
  /\ connections \subseteq Socket
  /\ sensorId \in [Socket -> Sensor \cup {NoSensor}]
  /\ registered \in [Sensor -> Socket \cup {NoSocket}]

(* The close event of a connection in the Map is still to come.            *)
EntriesAreLive == \A c \in connections : sock[c] \in {"open", "closed"}

Attended == GatewayTyped /\ EntriesAreLive /\ RegistrationIsAttended

LEMMA AttendedInit == Init => Attended
BY DEF Init, Attended, GatewayTyped, EntriesAreLive, RegistrationIsAttended

(* A socket that closes while its entry stays, or that was never registered*)
(* under the id of its connection, disturbs nothing; neither does one whose*)
(* early removal is on record.                                             *)
LEMMA CloseFact ==
  ASSUME Attended, NEW c \in Socket, Close(c) \/ UNCHANGED sock,
         UNCHANGED <<sensorId, registered>>,
         \/ UNCHANGED <<connections, unattended>>
         \/ Forget(c) /\ ~Authenticated(c) /\ UNCHANGED unattended
         \/ Unattend(c)
  PROVE  Attended'
<1> USE GatewayAssumption DEF Attended, GatewayTyped
<1>1. \/ sock' = [sock EXCEPT ![c] = "closed"] /\ sock[c] = "open"
      \/ sock' = sock
  BY DEF Close
<1>2. GatewayTyped' /\ EntriesAreLive'
  BY <1>1 DEF EntriesAreLive, Forget, Unattend
<1>3. RegistrationIsAttended'
  BY <1>1 DEF RegistrationIsAttended, Forget, Unattend, Authenticated
<1> QED
  BY <1>2, <1>3

(* handleAuth registers the socket under the id it gives the connection,   *)
(* and leaves a record if the entry was gone.                              *)
LEMMA AuthFact ==
  ASSUME Attended, NEW a \in AuthCall, AuthCompletes(a) PROVE Attended'
<1> USE GatewayAssumption DEF Attended, GatewayTyped
<1> DEFINE c == SocketOf[a]
           s == ClaimOf[a]
<1>1. /\ sensorId' = [sensorId EXCEPT ![c] = s]
      /\ registered' = [registered EXCEPT ![s] = c]
      /\ unattended' = IF c \in connections THEN unattended ELSE unattended \cup {c}
      /\ UNCHANGED <<sock, connections>>
  BY DEF AuthCompletes
<1>2. c \in Socket /\ s \in Sensor
  OBVIOUS
<1> HIDE DEF c, s
<1>3. GatewayTyped' /\ EntriesAreLive'
  BY <1>1, <1>2 DEF EntriesAreLive
<1>4. ASSUME NEW t \in Sensor, registered'[t] # NoSocket
      PROVE  \/ registered'[t] \in connections' /\ sock'[registered'[t]] \in {"open", "closed"}
             \/ registered'[t] \in unattended'
             \/ sensorId'[registered'[t]] # t
  <2>1. CASE t = s
    BY <1>1, <1>2, <2>1 DEF EntriesAreLive
  <2>2. CASE t # s /\ registered[t] = c
    BY <1>1, <1>2, <2>2
  <2>3. CASE t # s /\ registered[t] # c
    BY <1>1, <1>2, <1>4, <2>3 DEF RegistrationIsAttended
  <2> QED
    BY <2>1, <2>2, <2>3
<1> QED
  BY <1>3, <1>4 DEF RegistrationIsAttended

(* The close handler deregisters the id of the entry it finds; the other   *)
(* registrations of the socket are under an id it no longer has.           *)
LEMMA CloseEventFact ==
  ASSUME Attended, NEW c \in Socket, CloseEvent(c) PROVE Attended'
<1> USE GatewayAssumption DEF Attended, GatewayTyped
<1>1. /\ sock[c] = "closed" /\ sock' = [sock EXCEPT ![c] = "gone"]
      /\ connections' = connections \ {c}
      /\ UNCHANGED <<sensorId, unattended>>
  BY DEF CloseEvent, Forget
<1>2. IF c \in connections /\ sensorId[c] # NoSensor
      THEN registered' = [registered EXCEPT ![sensorId[c]] = NoSocket]
      ELSE registered' = registered
  BY DEF CloseEvent, FindsConnection, Authenticated, Deregister
<1>3. GatewayTyped' /\ EntriesAreLive'
  BY <1>1, <1>2 DEF EntriesAreLive
<1>4. ASSUME NEW t \in Sensor, registered'[t] # NoSocket
      PROVE  \/ registered'[t] \in connections' /\ sock'[registered'[t]] \in {"open", "closed"}
             \/ registered'[t] \in unattended'
             \/ sensorId'[registered'[t]] # t
  <2>1. registered'[t] = registered[t]
    BY <1>2, <1>4
  <2>2. CASE registered[t] = c
    BY <1>1, <1>2, <1>4, <2>1, <2>2 DEF RegistrationIsAttended
  <2>3. CASE registered[t] # c
    BY <1>1, <1>4, <2>1, <2>3 DEF RegistrationIsAttended
  <2> QED
    BY <2>2, <2>3
<1> QED
  BY <1>3, <1>4 DEF RegistrationIsAttended

(* Revalidation unregisters the ids of the entries it deletes.             *)
LEMMA RevalidationFact ==
  ASSUME Attended, NEW R \in SUBSET Socket, RevalidationEnds(R) PROVE Attended'
<1> USE GatewayAssumption DEF Attended, GatewayTyped
<1> DEFINE sensors == {sensorId[c] : c \in R}
           closing == {c \in R : sock[c] = "open"}
<1>1. /\ sock' = [c \in Socket |-> IF c \in closing THEN "closed" ELSE sock[c]]
      /\ connections' = connections \ R
      /\ registered' = [s \in Sensor |-> IF s \in sensors THEN NoSocket ELSE registered[s]]
      /\ UNCHANGED <<sensorId, unattended>>
  BY DEF RevalidationEnds
<1>2. \A c \in R : sensorId[c] \in sensors
  OBVIOUS
<1>3. \A c \in closing : sock[c] = "open"
  OBVIOUS
<1> HIDE DEF sensors, closing
<1>4. GatewayTyped' /\ EntriesAreLive'
  BY <1>1, <1>3 DEF EntriesAreLive
<1>5. RegistrationIsAttended'
  BY <1>1, <1>2, <1>3 DEF RegistrationIsAttended
<1> QED
  BY <1>4, <1>5

LEMMA NextKeepsAttended ==
  ASSUME Attended, [Next]_vars PROVE Attended'
<1> USE GatewayAssumption DEF Attended, GatewayTyped
<1>1. CASE UNCHANGED <<sock, connections, sensorId, registered, unattended>>
  BY <1>1 DEF EntriesAreLive, RegistrationIsAttended
<1>2. ASSUME NEW c \in Socket, handleConnection(c) PROVE Attended'
  <2>1. /\ sock[c] = "new" /\ UNCHANGED <<sensorId, registered, unattended>>
        /\ \/ /\ sock' = [sock EXCEPT ![c] = "open"]
              /\ connections' = connections \cup {c}
           \/ /\ sock' = [sock EXCEPT ![c] = "gone"]
              /\ connections' = connections
    BY <1>2 DEF handleConnection
  <2>2. c \notin connections
    BY <2>1 DEF EntriesAreLive
  <2>3. GatewayTyped' /\ EntriesAreLive'
    BY <2>1, <2>2 DEF EntriesAreLive
  <2>4. RegistrationIsAttended'
    BY <2>1, <2>2 DEF RegistrationIsAttended
  <2> QED
    BY <2>3, <2>4
<1>3. ASSUME NEW c \in Socket, SocketCloses(c) \/ AuthTimeout(c) PROVE Attended'
  BY <1>3, CloseFact DEF SocketCloses, AuthTimeout
<1>4. ASSUME NEW c \in Socket, ErrorEvent(c) \/ HeartbeatTimeout(c) PROVE Attended'
  BY <1>4, CloseFact DEF ErrorEvent, HeartbeatTimeout
<1>5. ASSUME NEW a \in AuthCall, \/ ReceiveAuth(a) \/ CredentialAccepted(a)
                                 \/ SensorRowCommits(a)
      PROVE  Attended'
  BY <1>1, <1>5 DEF ReceiveAuth, CredentialAccepted, SensorRowCommits
<1>6. ASSUME NEW a \in AuthCall, AuthFails(a) PROVE Attended'
  <2>1. SocketOf[a] \in Socket
    OBVIOUS
  <2> QED
    BY <1>6, <2>1, CloseFact DEF AuthFails
<1>7. CASE RevalidationStarts \/ \E s \in Sensor : StatusWritten(s)
  BY <1>1, <1>7 DEF RevalidationStarts, StatusWritten
<1>8. CASE QueueStep
  BY <1>1, <1>8 DEF QueueStep, gateway
<1>9. CASE UNCHANGED vars
  BY <1>1, <1>9 DEF vars, gateway
<1> QED
  BY <1>2, <1>3, <1>4, <1>5, <1>6, <1>7, <1>8, <1>9, AuthFact, CloseEventFact,
     RevalidationFact DEF Next

(* A socket registered with the command queue has an entry whose close     *)
(* event will deregister it, or is left over for one of the three causes   *)
(* the property names, however often its peer authenticates and whatever   *)
(* interleaves with handleAuth's awaits.                                   *)
THEOREM RegistrationsAreAttended == Spec => []RegistrationIsAttended
<1>1. Attended /\ [Next]_vars => Attended'
  BY NextKeepsAttended
<1>2. Attended => RegistrationIsAttended
  BY DEF Attended
<1> QED
  BY <1>1, <1>2, AttendedInit, PTL DEF Spec

-----------------------------------------------------------------------------
(* The tunnel broker, for any sockets of the sensor and of the dashboards. *)
(* Sessions and requests are tied to a connection, and the broker finds    *)
(* everything by sensor and session id: the invariant is that the ids      *)
(* never lead to something of an earlier connection.                       *)

(* OfThisTunnel lets a request wait with no tunnel at all; then the next   *)
(* connection would inherit it.                                            *)
AskedSomebody == request = "pending" => asked \in SensorWs

TunnelInv == TunnelTypeOK /\ OfThisTunnel /\ AskedSomebody

(* ws.close() keeps the table of sockets well-typed.                       *)
LEMMA CloseType ==
  ASSUME NEW rs \in [WebSocket -> {"open", "closing", "closed"}], NEW S
  PROVE  CloseAll(rs, S) \in [WebSocket -> {"open", "closing", "closed"}]
BY DEF CloseAll

LEMMA TunnelStarts == TunnelInit => TunnelInv
BY TunnelAssumption DEF TunnelInit, TunnelInv, TunnelTypeOK, OfThisTunnel,
   AskedSomebody, WebSocket

(* After handleSensorDisconnect no session is left and no request pending, *)
(* whichever connection comes next.                                        *)
LEMMA DisconnectFact ==
  ASSUME TunnelInv, NEW rs \in [WebSocket -> {"open", "closing", "closed"}],
         Disconnect(rs),
         tunnel' \in SensorWs \union {None}, late' = FALSE,
         phase' \in [WebSocket -> {"new", "reading", "updated", "attached", "over"}],
         UNCHANGED <<permissionCheck, row, stopped>>
  PROVE  TunnelInv'
<1>1. ready' \in [WebSocket -> {"open", "closing", "closed"}]
  BY CloseType DEF Disconnect
<1>2. session' = None /\ base' = None /\ idle' = FALSE /\ talk' = FALSE
  BY DEF Disconnect, SessionEnds
<1>3. request' \in {"none", "settled"} /\ asked' = None
  BY DEF Disconnect, RejectPending, TunnelInv, TunnelTypeOK
<1> QED
  BY <1>1, <1>2, <1>3 DEF TunnelInv, TunnelTypeOK, OfThisTunnel, AskedSomebody

(* Ending the session leaves the tunnel and its requests alone.            *)
LEMMA EndSessionFact ==
  ASSUME TunnelInv, NEW rs \in [WebSocket -> {"open", "closing", "closed"}],
         endUserSession(rs), UNCHANGED <<sensorSide, requests, row, stopped, phase>>,
         permissionCheck' \in [UserWs -> UserWs \union {None}]
  PROVE  TunnelInv'
<1>1. ready' \in [WebSocket -> {"open", "closing", "closed"}]
  BY CloseType DEF endUserSession
<1>2. session' = None /\ base' = None /\ idle' = FALSE /\ talk' = FALSE
  BY DEF endUserSession, SessionEnds
<1> QED
  BY <1>1, <1>2 DEF TunnelInv, TunnelTypeOK, OfThisTunnel, AskedSomebody, sensorSide,
     requests

(* What sensors do, and what happens to their sockets.                     *)
LEMMA SensorSidePreserves ==
  ASSUME TunnelInv, NEW k \in SensorWs,
         \/ SensorAuth(k) \/ SensorStep(k) \/ SensorClosed(k)
         \/ Heartbeat(k) \/ routeToUser(k) \/ SensorError(k)
  PROVE  TunnelInv'
<1> USE DEF TunnelInv
<1>1. CASE SensorAuth(k)
  BY <1>1 DEF SensorAuth, Goes, TunnelTypeOK, OfThisTunnel, AskedSomebody, sensorSide,
     userSide, requests
<1>2. CASE SensorAuthFails(k)
  BY <1>2 DEF SensorAuthFails, Goes, Refuse, TunnelTypeOK, OfThisTunnel, AskedSomebody,
     sensorSide, userSide, requests
<1>3. CASE handleSensorConnect(k)
  <2>1. phase' \in [WebSocket -> {"new", "reading", "updated", "attached", "over"}]
    BY <1>3 DEF handleSensorConnect, Goes, TunnelTypeOK
  <2>2. CASE tunnel # None /\ ready[tunnel] = "open"
    BY <1>3, <2>1, <2>2 DEF handleSensorConnect, Goes, Refuse, TunnelTypeOK,
       OfThisTunnel, AskedSomebody, sensorSide, userSide, requests
  <2>3. CASE tunnel # None /\ ready[tunnel] # "open"
    <3>1. /\ Disconnect(ready) /\ tunnel' = k /\ late' = FALSE
          /\ UNCHANGED <<permissionCheck, row, stopped>>
      BY <1>3, <2>3 DEF handleSensorConnect
    <3> QED
      BY <2>1, <3>1, DisconnectFact DEF TunnelTypeOK
  <2>4. CASE tunnel = None
    <3>1. session = None /\ request # "pending"
      BY <2>4, TunnelAssumption DEF OfThisTunnel, AskedSomebody
    <3> QED
      BY <1>3, <2>1, <2>4, <3>1 DEF handleSensorConnect, Goes, TunnelTypeOK,
         OfThisTunnel, AskedSomebody, userSide, requests
  <2> QED
    BY <2>2, <2>3, <2>4
<1>4. CASE SensorClosed(k)
  <2> DEFINE rs == [ready EXCEPT ![k] = "closed"]
  <2>1. rs \in [WebSocket -> {"open", "closing", "closed"}]
    BY DEF TunnelTypeOK
  <2>2. CASE phase[k] = "attached" /\ OwnsTunnel(k)
    <3>1. Disconnect(rs) /\ tunnel' = None /\ late' = FALSE
          /\ UNCHANGED <<phase, permissionCheck, row, stopped>>
      BY <1>4, <2>2 DEF SensorClosed
    <3> QED
      BY <2>1, <3>1, DisconnectFact DEF TunnelTypeOK
  <2>3. CASE ~ (phase[k] = "attached" /\ OwnsTunnel(k))
    BY <1>4, <2>1, <2>3 DEF SensorClosed, TunnelTypeOK, OfThisTunnel, AskedSomebody,
       sensorSide, userSide, requests
  <2> QED
    BY <2>2, <2>3
<1>5. CASE Heartbeat(k)
  BY <1>5 DEF Heartbeat, TunnelTypeOK, OfThisTunnel, AskedSomebody, sockets, userSide,
     requests
<1>6. CASE routeToUser(k)
  BY <1>6 DEF routeToUser, TunnelTypeOK, OfThisTunnel, AskedSomebody, sockets,
     sensorSide, requests
<1>7. CASE SensorError(k)
  BY <1>7, EndSessionFact DEF SensorError, TunnelTypeOK
<1> QED
  BY <1>1, <1>2, <1>3, <1>4, <1>5, <1>6, <1>7 DEF SensorStep

(* What dashboards do, and what happens to their sockets.                  *)
LEMMA UserSidePreserves ==
  ASSUME TunnelInv, NEW u \in UserWs,
         \/ SessionLookup(u) \/ UserStep(u) \/ UserClosed(u)
         \/ UserError(u) \/ handleUserMessage(u)
  PROVE  TunnelInv'
<1> USE DEF TunnelInv
<1>1. CASE SessionLookup(u)
  BY <1>1 DEF SessionLookup, Goes, Refuse, TunnelTypeOK, OfThisTunnel, AskedSomebody,
     sensorSide, userSide, requests
<1>2. CASE MarkConnected(u)
  BY <1>2 DEF MarkConnected, Goes, TunnelTypeOK, OfThisTunnel, AskedSomebody,
     sensorSide, userSide, requests
<1>3. CASE StartSession(u)
  BY <1>3 DEF StartSession, Goes, Refuse, TunnelTypeOK, OfThisTunnel, AskedSomebody,
     sensorSide, userSide, requests
<1>4. CASE MessageAllowed(u)
  BY <1>4 DEF MessageAllowed, Checked, TunnelTypeOK, OfThisTunnel, AskedSomebody,
     sockets, sensorSide, requests
<1>5. CASE MessageDenied(u)
  BY <1>5, EndSessionFact DEF MessageDenied, Checked, TunnelTypeOK
<1>6. CASE UserClosed(u)
  <2> DEFINE rs == [ready EXCEPT ![u] = "closed"]
  <2>1. rs \in [WebSocket -> {"open", "closing", "closed"}]
    BY DEF TunnelTypeOK
  <2>2. CASE endUserSession(rs)
    BY <1>6, <2>1, <2>2, EndSessionFact DEF UserClosed, TunnelTypeOK
  <2>3. CASE ready' = rs /\ UNCHANGED userSide
    BY <1>6, <2>1, <2>3 DEF UserClosed, TunnelTypeOK, OfThisTunnel, AskedSomebody,
       sensorSide, userSide, requests
  <2> QED
    BY <1>6, <2>2, <2>3 DEF UserClosed
<1>7. CASE UserError(u)
  BY <1>7, CloseType, EndSessionFact DEF UserError, TunnelTypeOK
<1>8. CASE handleUserMessage(u)
  BY <1>8 DEF handleUserMessage, TunnelTypeOK, OfThisTunnel, AskedSomebody, sockets,
     sensorSide, userSide, requests
<1> QED
  BY <1>1, <1>2, <1>3, <1>4, <1>5, <1>6, <1>7, <1>8 DEF UserStep

(* Every step of the broker, its sockets and its timers preserves the      *)
(* invariant.                                                              *)
LEMMA TunnelStepKeeps == TunnelInv /\ [TunnelNext]_tunnelVars => TunnelInv'
<1> SUFFICES ASSUME TunnelInv, [TunnelNext]_tunnelVars PROVE TunnelInv'
  OBVIOUS
<1> USE DEF TunnelInv
<1>1. ASSUME NEW w \in WebSocket, PeerCloses(w) \/ HandshakeTimeout(w) PROVE TunnelInv'
  <2>1. ready' \in [WebSocket -> {"open", "closing", "closed"}]
    BY <1>1, CloseType DEF PeerCloses, HandshakeTimeout, TunnelTypeOK
  <2> QED
    BY <1>1, <2>1 DEF PeerCloses, HandshakeTimeout, TunnelTypeOK, OfThisTunnel,
       AskedSomebody, sensorSide, userSide, requests
<1>2. CASE HeartbeatIsLate
  BY <1>2 DEF HeartbeatIsLate, TunnelTypeOK, OfThisTunnel, AskedSomebody, sockets,
     userSide, requests
<1>3. CASE TunnelHeartbeatTimeout
  BY <1>3, DisconnectFact DEF TunnelHeartbeatTimeout, TunnelTypeOK
<1>4. CASE IdlePasses
  BY <1>4 DEF IdlePasses, TunnelTypeOK, OfThisTunnel, AskedSomebody, sockets,
     sensorSide, requests
<1>5. CASE IdleTimeout
  BY <1>5, EndSessionFact DEF IdleTimeout, TunnelTypeOK
<1>6. CASE RowGone
  BY <1>6 DEF RowGone, TunnelTypeOK, OfThisTunnel, AskedSomebody, sockets, sensorSide,
     userSide, requests
<1>7. CASE sendRequest
  BY <1>7 DEF sendRequest, TunnelTypeOK, OfThisTunnel, AskedSomebody, sockets,
     sensorSide, userSide
<1>8. CASE handleSensorResponse \/ RequestTimeout
  BY <1>8 DEF handleSensorResponse, RequestTimeout, TunnelTypeOK, OfThisTunnel,
     AskedSomebody, sockets, sensorSide, userSide
<1>9. CASE Shutdown
  BY <1>9, TunnelAssumption DEF Shutdown, SessionEnds, RejectPending, TunnelTypeOK,
     OfThisTunnel, AskedSomebody, requests
<1>10. CASE UNCHANGED tunnelVars
  BY <1>10 DEF tunnelVars, TunnelTypeOK, OfThisTunnel, AskedSomebody, sockets,
     sensorSide, userSide, requests
<1> QED
  BY <1>1, <1>2, <1>3, <1>4, <1>5, <1>6, <1>7, <1>8, <1>9, <1>10, SensorSidePreserves,
     UserSidePreserves DEF TunnelNext

(* A session or a request that is alive was begun on the connection the    *)
(* sensor has now, whatever sockets closed, were replaced or were          *)
(* registered after their death (handleSensorConnect and                   *)
(* handleSensorDisconnect).                                                *)
THEOREM TunnelOwnsItsSessions == TunnelSpec => []OfThisTunnel
<1>1. TunnelInv => OfThisTunnel
  BY DEF TunnelInv
<1> QED
  BY <1>1, TunnelStarts, TunnelStepKeeps, PTL DEF TunnelSpec

(* The broker's state is well-typed in every reachable state.              *)
THEOREM TunnelTyped == TunnelSpec => []TunnelTypeOK
<1>1. TunnelInv => TunnelTypeOK
  BY DEF TunnelInv
<1> QED
  BY <1>1, TunnelStarts, TunnelStepKeeps, PTL DEF TunnelSpec

(* No step takes down a tunnel whose socket is open and whose heartbeats   *)
(* come: not a second connection, not the close event of an earlier one,   *)
(* not the end of a session.                                               *)
THEOREM LiveTunnelIsLeftAlone == TunnelSpec => LiveTunnelStays
<1>1. ASSUME TunnelInv, [TunnelNext]_tunnelVars, tunnel # None, ready[tunnel] = "open", ~late
      PROVE  tunnel' = tunnel \/ stopped'
  <2>1. CASE \E w \in WebSocket : PeerCloses(w) \/ HandshakeTimeout(w)
    BY <2>1 DEF PeerCloses, HandshakeTimeout, sensorSide
  <2>2. ASSUME NEW k \in SensorWs, SensorClosed(k) PROVE tunnel' = tunnel
    BY <1>1, <2>2 DEF SensorClosed, OwnsTunnel, sensorSide
  <2>3. ASSUME NEW k \in SensorWs, handleSensorConnect(k) PROVE tunnel' = tunnel
    BY <1>1, <2>3 DEF handleSensorConnect, sensorSide
  <2>4. ASSUME NEW k \in SensorWs,
               \/ SensorAuth(k) \/ SensorAuthFails(k) \/ Heartbeat(k)
               \/ routeToUser(k) \/ SensorError(k)
        PROVE  tunnel' = tunnel
    BY <2>4 DEF SensorAuth, SensorAuthFails, Heartbeat, routeToUser, SensorError,
       sensorSide
  <2>5. ASSUME NEW u \in UserWs,
               \/ SessionLookup(u) \/ UserStep(u) \/ UserClosed(u)
               \/ UserError(u) \/ handleUserMessage(u)
        PROVE  tunnel' = tunnel
    BY <2>5 DEF SessionLookup, UserStep, MarkConnected, StartSession, MessageAllowed,
       MessageDenied, UserClosed, UserError, handleUserMessage, sensorSide
  <2>6. CASE TunnelHeartbeatTimeout
    BY <1>1, <2>6 DEF TunnelHeartbeatTimeout, BeatMissed
  <2>7. CASE \/ HeartbeatIsLate \/ IdlePasses \/ IdleTimeout \/ RowGone
             \/ sendRequest \/ handleSensorResponse \/ RequestTimeout
    BY <2>7 DEF HeartbeatIsLate, IdlePasses, IdleTimeout, RowGone, sendRequest,
       handleSensorResponse, RequestTimeout, sensorSide
  <2>8. CASE Shutdown
    BY <2>8 DEF Shutdown
  <2>9. CASE UNCHANGED tunnelVars
    BY <2>9 DEF tunnelVars, sensorSide
  <2> QED
    BY <1>1, <2>1, <2>2, <2>3, <2>4, <2>5, <2>6, <2>7, <2>8, <2>9 DEF TunnelNext,
       SensorStep
<1>2. TunnelInv /\ [TunnelNext]_tunnelVars =>
        [tunnel # None /\ ready[tunnel] = "open" /\ ~late
           => tunnel' = tunnel \/ stopped']_tunnelVars
  BY <1>1
<1> QED
  BY <1>2, TunnelStarts, TunnelStepKeeps, PTL DEF TunnelSpec, LiveTunnelStays
=============================================================================
