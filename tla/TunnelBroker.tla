---------------------------- MODULE TunnelBroker ----------------------------
(***************************************************************************)
(* The tunnels between dashboards and a sensor: websocket/tunnel-broker.ts *)
(* (the protocol the server uses, which the file calls legacy), the        *)
(* authentication of both ends in index.ts, and the session rows of        *)
(* tunnel-session-store.ts.  One sensor, whose connections are SensorWs;   *)
(* one session, whose id any of the dashboard connections UserWs may       *)
(* present; one direct request.                                            *)
(*                                                                         *)
(* A socket is open, closing (a close was asked for or received) and then  *)
(* closed, when its close event runs the listeners attached by then.  Both *)
(* handshakes await the database, and go on whatever became of the socket. *)
(***************************************************************************)
CONSTANTS SensorWs, UserWs, None

ASSUME TunnelAssumption ==
  /\ SensorWs \intersect UserWs = {}
  /\ None \notin SensorWs \union UserWs

WebSocket == SensorWs \union UserWs

VARIABLES
  ready,     \* readyState of each socket
  phase,     \* how far the handshake of each socket is
  tunnel,    \* legacyTunnels: the sensor's socket, or None
  late,      \* its last heartbeat is older than HEARTBEAT_TIMEOUT
  session,   \* legacySessions: the socket of the session, or None
  base,      \* the tunnel the session was started on
  idle,      \* its last activity is older than IDLE_TIMEOUT
  talk,      \* a user's message has reached the sensor, which may answer
  permissionCheck,   \* handleUserMessage of a socket awaits the permission
             \* check: the session it looked up
  row,       \* status of the session's row: "pending" until it is connected,
             \* disconnected, expired or deleted, which nobody tells apart
  request,   \* the promise of sendRequest
  asked,     \* the socket a pending request was sent on
  stopped

sockets == <<ready, phase>>
sensorSide == <<tunnel, late>>
userSide == <<session, base, idle, talk>>
requests == <<request, asked>>
tunnelVars == <<sockets, sensorSide, userSide, permissionCheck, row, requests, stopped>>

TunnelTypeOK ==
  /\ ready \in [WebSocket -> {"open", "closing", "closed"}]
  /\ phase \in [WebSocket -> {"new", "reading", "updated", "attached", "over"}]
  /\ tunnel \in SensorWs \union {None} /\ late \in BOOLEAN
  /\ session \in UserWs \union {None} /\ base \in SensorWs \union {None}
  /\ idle \in BOOLEAN /\ talk \in BOOLEAN
  /\ permissionCheck \in [UserWs -> UserWs \union {None}]
  /\ row \in {"pending", "used"}
  /\ request \in {"none", "pending", "settled"}
  /\ asked \in SensorWs \union {None}
  /\ stopped \in BOOLEAN

(* The row as POST /tunnel/... has created it; sockets are new until their *)
(* first message.                                                          *)
TunnelInit ==
  /\ ready = [w \in WebSocket |-> "open"] /\ phase = [w \in WebSocket |-> "new"]
  /\ tunnel = None /\ late = FALSE
  /\ session = None /\ base = None /\ idle = FALSE /\ talk = FALSE
  /\ permissionCheck = [u \in UserWs |-> None]
  /\ row = "pending"
  /\ request = "none" /\ asked = None
  /\ stopped = FALSE

-----------------------------------------------------------------------------
(* ws.close() on the open ones of some sockets.                            *)
CloseAll(rs, S) == [w \in WebSocket |-> IF w \in S /\ rs[w] = "open" THEN "closing" ELSE rs[w]]

(* One that is turned away has no listener that matters to run at its end. *)
Refuse(w) == ready' = [ready EXCEPT ![w] = "closed"]

Goes(w, here, there) == phase[w] = here /\ phase' = [phase EXCEPT ![w] = there]

(* Tunnels and sessions are looked up by sensor and session id.            *)
SessionEnds == session' = None /\ base' = None /\ idle' = FALSE /\ talk' = FALSE

endUserSession(rs) == ready' = CloseAll(rs, {session}) /\ SessionEnds

RejectPending_Forgets ==
  request' = (IF request = "pending" THEN "none" ELSE request) /\ asked' = None
RejectPending ==
  request' = (IF request = "pending" THEN "settled" ELSE request) /\ asked' = None

(* handleSensorDisconnect, but for the new value of tunnel.                *)
Disconnect_LeavesSession(rs) ==
  /\ ready' = CloseAll(rs, {tunnel}) /\ UNCHANGED userSide
  /\ RejectPending
Disconnect(rs) ==
  /\ ready' = CloseAll(rs, {tunnel, session}) /\ SessionEnds
  /\ RejectPending

-----------------------------------------------------------------------------
(* Sockets close: at the other end, or on the timeout of the handshake.    *)
(* One that closes before its first message leaves no trace.               *)
PeerCloses(w) ==
  /\ phase[w] # "new" /\ ready[w] = "open"
  /\ ready' = CloseAll(ready, {w})
  /\ UNCHANGED <<phase, sensorSide, userSide, permissionCheck, row, requests, stopped>>

HandshakeTimeout(w) ==
  /\ phase[w] \in {"reading", "updated"} /\ ready[w] = "open"
  /\ ready' = CloseAll(ready, {w})
  /\ UNCHANGED <<phase, sensorSide, userSide, permissionCheck, row, requests, stopped>>

(* The close event of a sensor's socket: its listener acts on the tunnel   *)
(* only if that is still the socket's own.                                 *)
OwnsTunnel_AnySocket(k) == tunnel # None
OwnsTunnel(k) == tunnel = k

SensorClosed(k) ==
  LET rs == [ready EXCEPT ![k] = "closed"]
  IN  /\ ready[k] = "closing"
      /\ \/ /\ phase[k] = "attached" /\ OwnsTunnel(k)
            /\ Disconnect(rs) /\ tunnel' = None /\ late' = FALSE
         \/ /\ ~ (phase[k] = "attached" /\ OwnsTunnel(k))
            /\ ready' = rs /\ UNCHANGED <<sensorSide, userSide, requests>>
      /\ UNCHANGED <<phase, permissionCheck, row, stopped>>

(* That of a dashboard's socket: the listener of the session ends it by    *)
(* its id.                                                                 *)
UserClosed(u) ==
  LET rs == [ready EXCEPT ![u] = "closed"]
  IN  /\ ready[u] = "closing"
      /\ \/ phase[u] = "attached" /\ endUserSession(rs)
         \/ phase[u] # "attached" /\ ready' = rs /\ UNCHANGED userSide
      /\ UNCHANGED <<phase, sensorSide, permissionCheck, row, requests, stopped>>

(* Its error event, which comes before the close event.                    *)
UserError(u) ==
  /\ phase[u] = "attached" /\ ready[u] # "closed"
  /\ endUserSession(CloseAll(ready, {u}))
  /\ UNCHANGED <<phase, sensorSide, permissionCheck, row, requests, stopped>>

-----------------------------------------------------------------------------
(* A sensor connects: its first message starts the query for its key.      *)
SensorAuth(k) ==
  /\ Goes(k, "new", "reading") /\ ready[k] = "open"
  /\ UNCHANGED <<ready, sensorSide, userSide, permissionCheck, row, requests, stopped>>

SensorAuthFails(k) ==
  /\ Goes(k, "reading", "over") /\ Refuse(k)
  /\ UNCHANGED <<sensorSide, userSide, permissionCheck, row, requests, stopped>>

(* An open tunnel is kept and the new socket closed; a stale one makes     *)
(* room for it.                                                            *)
handleSensorConnect(k) ==
  /\ \/ /\ tunnel # None /\ ready[tunnel] = "open"
        /\ Goes(k, "reading", "over") /\ Refuse(k)
        /\ UNCHANGED <<sensorSide, userSide, requests>>
     \/ /\ tunnel # None /\ ready[tunnel] # "open"
        /\ Goes(k, "reading", "attached") /\ Disconnect(ready)
        /\ tunnel' = k /\ late' = FALSE
     \/ /\ tunnel = None
        /\ Goes(k, "reading", "attached") /\ tunnel' = k /\ late' = FALSE
        /\ UNCHANGED <<ready, userSide, requests>>
  /\ UNCHANGED <<permissionCheck, row, stopped>>

(* Messages of a sensor's socket count for the sensor's tunnel, which may  *)
(* by now be another socket.                                               *)
Speaks(k) == phase[k] = "attached" /\ ready[k] # "closed"

Heartbeat(k) ==
  /\ Speaks(k) /\ late /\ late' = FALSE
  /\ UNCHANGED <<sockets, tunnel, userSide, permissionCheck, row, requests, stopped>>

HeartbeatIsLate ==
  /\ tunnel # None /\ ~late /\ late' = TRUE
  /\ UNCHANGED <<sockets, tunnel, userSide, permissionCheck, row, requests, stopped>>

(* startHeartbeatMonitor's interval, for the tunnel and for the session.   *)
BeatMissed_OpenOnly == late /\ ready[tunnel] = "open"
BeatMissed == late

TunnelHeartbeatTimeout ==
  /\ BeatMissed
  /\ Disconnect(ready) /\ tunnel' = None /\ late' = FALSE
  /\ UNCHANGED <<phase, permissionCheck, row, stopped>>

IdlePasses ==
  /\ session # None /\ ~idle /\ idle' = TRUE
  /\ UNCHANGED <<sockets, sensorSide, session, base, talk, permissionCheck, row, requests,
                 stopped>>

IdleTimeout ==
  /\ idle
  /\ endUserSession(ready)
  /\ UNCHANGED <<phase, sensorSide, permissionCheck, row, requests, stopped>>

-----------------------------------------------------------------------------
(* A dashboard connects: its first message names the session.  The row is  *)
(* read, which may fail, and later updated whatever it is by then; a       *)
(* failed update goes unnoticed.                                           *)
SessionLookup(u) ==
  /\ ready[u] = "open"
  /\ \/ row = "pending" /\ Goes(u, "new", "reading") /\ UNCHANGED ready
     \/ Goes(u, "new", "over") /\ Refuse(u)
  /\ UNCHANGED <<sensorSide, userSide, permissionCheck, row, requests, stopped>>

MarkConnected(u) ==
  /\ Goes(u, "reading", "updated")
  /\ row' \in {row, "used"}
  /\ UNCHANGED <<ready, sensorSide, userSide, permissionCheck, requests, stopped>>

(* The session starts if the sensor has a tunnel with the capability and   *)
(* the id is free; else the socket is closed.  A shell makes the sensor    *)
(* speak first, once and long before the session is idle.                  *)
StartSession(u) ==
  /\ \/ /\ tunnel # None /\ session = None
        /\ Goes(u, "updated", "attached") /\ UNCHANGED ready
        /\ session' = u /\ base' = tunnel /\ idle' = FALSE /\ talk' = FALSE
     \/ /\ Goes(u, "updated", "over") /\ Refuse(u)
        /\ UNCHANGED userSide
  /\ UNCHANGED <<sensorSide, permissionCheck, row, requests, stopped>>

(* handleUserMessage: the permission check is awaited, and the session is  *)
(* then found by its id once more; an invalid message goes no further.     *)
handleUserMessage(u) ==
  /\ phase[u] = "attached" /\ ready[u] # "closed" /\ session # None /\ permissionCheck[u] = None
  /\ permissionCheck' = [permissionCheck EXCEPT ![u] = session]
  /\ UNCHANGED <<sockets, sensorSide, userSide, row, requests, stopped>>

Checked(u) ==
  /\ permissionCheck[u] # None
  /\ permissionCheck' = [permissionCheck EXCEPT ![u] = None]

MessageAllowed(u) ==
  /\ Checked(u)
  /\ idle' = (idle /\ session # permissionCheck[u])
  /\ talk' \in {talk, talk \/ (session # None /\ ready[tunnel] = "open")}
  /\ UNCHANGED <<sockets, sensorSide, session, base, row, requests, stopped>>

MessageDenied(u) ==
  /\ Checked(u) /\ endUserSession(ready)
  /\ UNCHANGED <<phase, sensorSide, row, requests, stopped>>

(* Output of the sensor is activity, even if nobody is left to read it.    *)
routeToUser(k) ==
  /\ Speaks(k) /\ talk /\ idle /\ idle' = FALSE
  /\ UNCHANGED <<sockets, sensorSide, session, base, talk, permissionCheck, row, requests,
                 stopped>>

SensorError(k) ==
  /\ Speaks(k) /\ session # None /\ endUserSession(ready)
  /\ UNCHANGED <<phase, sensorSide, permissionCheck, row, requests, stopped>>

(* The row expires, is swept, or is deleted by DELETE /tunnel/session/:id. *)
RowGone ==
  /\ row = "pending" /\ row' = "used"
  /\ UNCHANGED <<sockets, sensorSide, userSide, permissionCheck, requests, stopped>>

-----------------------------------------------------------------------------
sendRequest ==
  /\ request = "none" /\ tunnel # None /\ ready[tunnel] = "open"
  /\ request' = "pending" /\ asked' = tunnel
  /\ UNCHANGED <<sockets, sensorSide, userSide, permissionCheck, row, stopped>>

(* The sensor answers on the socket it was asked on, in time or too late.  *)
handleSensorResponse ==
  /\ request = "pending" /\ Speaks(asked)
  /\ request' = "settled" /\ asked' = None
  /\ UNCHANGED <<sockets, sensorSide, userSide, permissionCheck, row, stopped>>

RequestTimeout ==
  /\ request = "pending" /\ request' = "settled" /\ asked' = None
  /\ UNCHANGED <<sockets, sensorSide, userSide, permissionCheck, row, stopped>>

(* shutdown ends the session and the tunnel, and the process ends with it. *)
Shutdown ==
  /\ stopped' = TRUE
  /\ tunnel' = None /\ late' = FALSE /\ SessionEnds
  /\ IF tunnel # None THEN RejectPending ELSE UNCHANGED requests
  /\ ready' = [w \in WebSocket |-> "closed"] /\ phase' = [w \in WebSocket |-> "over"]
  /\ permissionCheck' = [u \in UserWs |-> None]
  /\ UNCHANGED row

-----------------------------------------------------------------------------
(* Continuations of awaits, close events and timers.                       *)
SensorStep(k) == SensorAuthFails(k) \/ handleSensorConnect(k)
UserStep(u) ==
  \/ MarkConnected(u) \/ StartSession(u)
  \/ MessageAllowed(u) \/ MessageDenied(u)

TunnelNext ==
  /\ ~stopped
  /\ \/ \E w \in WebSocket : PeerCloses(w) \/ HandshakeTimeout(w)
     \/ \E k \in SensorWs : \/ SensorAuth(k) \/ SensorStep(k) \/ SensorClosed(k)
                            \/ Heartbeat(k) \/ routeToUser(k) \/ SensorError(k)
     \/ \E u \in UserWs : \/ SessionLookup(u) \/ UserStep(u) \/ UserClosed(u)
                          \/ UserError(u) \/ handleUserMessage(u)
     \/ HeartbeatIsLate \/ TunnelHeartbeatTimeout \/ IdlePasses \/ IdleTimeout \/ RowGone
     \/ sendRequest \/ handleSensorResponse \/ RequestTimeout \/ Shutdown

TunnelSpec == TunnelInit /\ [][TunnelNext]_tunnelVars

(* A closing socket closes (ws waits thirty seconds at most), and timers   *)
(* fire.                                                                   *)
Monitor == HeartbeatIsLate \/ TunnelHeartbeatTimeout
IdleMonitor == IdlePasses \/ IdleTimeout

FairTunnelSpec ==
  /\ TunnelSpec
  /\ \A k \in SensorWs : WF_tunnelVars(~stopped /\ SensorClosed(k))
  /\ \A u \in UserWs : WF_tunnelVars(~stopped /\ UserClosed(u))
  /\ WF_tunnelVars(~stopped /\ Monitor)
  /\ WF_tunnelVars(~stopped /\ IdleMonitor)
  /\ WF_tunnelVars(~stopped /\ RequestTimeout)

-----------------------------------------------------------------------------
(* Nothing outlives its tunnel: a session or a request that is alive was   *)
(* begun on the very connection the sensor has now, however sockets close, *)
(* reconnect and are replaced.                                             *)
OfThisTunnel ==
  /\ session # None => base = tunnel /\ tunnel # None
  /\ request = "pending" => asked = tunnel

(* A live tunnel stays: while its socket is open and its heartbeats come,  *)
(* neither a second connection, nor the late close of an earlier one, nor  *)
(* the end of a session takes it down.                                     *)
LiveTunnelStays ==
  [][tunnel # None /\ ready[tunnel] = "open" /\ ~late
       => tunnel' = tunnel \/ stopped']_tunnelVars

(* A caller of sendRequest always gets an answer or an error.              *)
RequestSettles == request = "pending" ~> request = "settled"

(* Sockets that died during their handshake are registered all the same,   *)
(* after their close event: the monitor removes them in the end, although  *)
(* other sockets of the sensor may count as its heartbeat.  A session is   *)
(* not removed while the sensor streams into it, as it may when a message  *)
(* from an earlier socket of the same id reaches it.                       *)
Dead ==
  \/ tunnel # None /\ ready[tunnel] = "closed"
  \/ session # None /\ ready[session] = "closed" /\ ~talk
DeadIsDropped == []<>~Dead
=============================================================================
