# TLA+ models of the Horizon security platform

The platform has a hub (`apps/signal-horizon`, TypeScript on Node.js, with
PostgreSQL, ClickHouse and Redis behind it) and sensors (`apps/synapse-pingora`,
a Rust reverse proxy with a WAF). Sensors dial the hub over WebSockets, send it
signals and receive commands. This directory models the part of the platform
that carries state across awaits, timers, sockets and restarts: the command
path from the API to the sensor with the rule deployments that use it, the life
of a sensor connection, the tunnels between dashboards and sensors, the signal
path from the sensor's queues to the database and its retry buffer, and the
firmware rollouts of the job queue.

Paths below are relative to `src/`; `api/` stands for
`apps/signal-horizon/api/src/`.

## 1. The system and its parts

### Command path (hub to sensor)

**Command sender** (`api/protocols/command-sender.ts`).
State: a Map of commands with status, attempts and createdAt; one queue of ids
per sensor; one in-flight slot per sensor; one timeout handle per id; the
registered socket of each sensor.
Operations: `sendCommand` (two limits, eviction), `registerConnection` (with
the flush of what is pending), `unregisterConnection`, `cleanupSensor`,
`handleResponse`, the timeout callback, the expiry sweep.
Everything runs on the event loop, each handler to completion; what makes it
hard is the number of paths that free or take the in-flight slot, and that an id
may be sent again while an earlier object of that id is held by a timer's
closure. It is correct when one command at most is outstanding per sensor, no
slot stays taken without a timer, no queue stands still behind a free slot,
commands leave in order, nobody is sent more often than `maxAttempts`, and
outcomes stick.

**Fleet commander** (`api/services/fleet/fleet-commander.ts`).
State: the command rows in PostgreSQL. Operations: `sendCommand` (a transaction
that looks for a duplicate and creates a row, then the command sender),
listeners on the sender's events that update rows without being awaited,
`cancelCommand`, `checkTimeouts`. Hard: updates of one row run concurrently and
take effect in any order; `markCommandFailed` reads, awaits and then writes; the
process may stop between any two of these. It is correct when an outcome is
earned, final, and always reached.

**Rule distributor** (`api/services/fleet/rule-distributor.ts`, with
`deployment-state-store.ts`).
Deployments of rules by strategy, all through the commander's `push_rules`
command. State: sync rows, rows of scheduled deployments, in-memory timers, the
map of blue/green deployments and its copy in Redis.
Operations: immediate and canary rollouts (stage by stage), rolling ones (batch
by batch, with a health check and a rollback), scheduled ones (timer, cancel,
recover), blue/green ones (stage, wait, switch, confirm, abort or retire).
Each is an async function that awaits the database, the commander and timeouts,
while the commander's events change the state it polls. Hard: cancelling what is
being executed, restarts with timers armed or in the middle of a phase, answers
that arrive in a later phase, errors of the store, partial rollback. It is
correct when a bad rollout stops early, a finished one has reached everyone,
scheduled rules go out once, nothing is switched without a quorum, and what is
recorded of a sensor is true; the merging of commands by the fleet commander is
what stands in the way of the last two.

**Rollout orchestrator** (`api/services/fleet/rollout-orchestrator.ts`):
firmware rollouts in batches, run by the worker of a job queue
(`api/jobs/rollout-worker.ts`) and started, cancelled and deleted by
`api/api/routes/fleet-releases.ts`. State: the rollout's row, a progress row per
sensor, the job in Redis with its attempts and stalls. Operations: a job marks
the rollout in progress and goes through the batches; each batch is sent in
chunks and then polled until its sensors are on the version or time is up; too
many failures end the loop; the outcome is computed from the rows. Hard: worker,
routes and the recovery at startup write the same rows without a transaction; a
process that dies, or a query that throws, has the job run again from the start
with nothing of the first attempt in memory. It is correct when a bad release
stops, no sensor is under way any more when "completed" is said, and every
rollout ends.

### Connections

**Sensor gateway** (`api/websocket/sensor-gateway.ts`).
State: the Map of connections, the auth timeout of each, the sensor row's
`connectionState`. Operations: `handleConnection`, `handleAuth` (several
awaits), close and error handlers, the heartbeat sweep, token revalidation.
A connection may authenticate repeatedly, also while an earlier `handleAuth` is
under way, and as another sensor. It registers sockets with the command sender and hands signals to the
aggregator. Hard: a socket closes, times out or is replaced during an await of
`handleAuth`; four ways of taking a connection down each clean up something
else; they work by sensor id although a sensor may have two sockets, and a socket
two sensors. It is correct when every socket registered with the command sender
is looked after (something will deregister it when it dies), dead connections
give their place up, and a connected sensor can be reached.

**Tunnel broker** (`api/websocket/tunnel-broker.ts`, `tunnel-session-store.ts`,
the handshakes in `api/index.ts`).
State: one tunnel per sensor, user sessions by id, pending requests, a row per
session. Operations: connecting of sensors and users, each behind an awaited
query; messages both ways, the user's behind an awaited permission check;
`sendRequest` with its timer; the heartbeat and idle monitor; close events;
`shutdown`. Hard: a socket may be dead when its handshake comes to register it; a
sensor reconnects before its old socket has closed; everything is found by id,
and two sockets may present the same one. It is correct when sessions and
requests die with their tunnel, a live tunnel is left alone, every request is
settled and no dead entry stays.

**Dashboard gateway**, **log streamer**: fan-out to browsers, with no state that
others rely on. Not modelled.

### Signal path (sensor to hub)

**Signal aggregator** (`api/services/aggregator/index.ts`).
State: `signalBatch`, `retryQueue`, `isFlushing`, `retryCount`, an optional
idempotency store. Operations: `queueSignal`, the batch timer, `flushBatch`
(merge, store one by one, correlate, retry or drop), `stop`. Hard: signals
arrive during a flush; a flush fails with some of its signals stored; the
failed part is merged into a queue that has filled up. It is correct when
every accepted signal is counted exactly once, the queues stay bounded and
nothing waits for ever.

**ClickHouse retry buffer** (`api/storage/clickhouse/retry-buffer.ts`,
`persistent-store.ts`).
State: the buffer, the interval, a mutex made of a chain of promises, the gate
`isProcessing`, `isFlushing`, a file. Operations: the insert methods, the
background retry with its ten-second race, `flush` and `stop` at shutdown,
`start`. Hard: a timed-out write is not cancelled and may arrive; a rejected one
may have been applied; the buffer
overflows while its oldest item is being retried; ticks, flush and stop wait for
each other; the file may hold what was written after all. It is correct when
nothing is lost without a trace and nothing is written twice without a cause.

**Sensor hub client** (`apps/synapse-pingora/src/horizon/client.rs`) with its
**circuit breaker** (`utils/circuit_breaker.rs`).
State: the channel from `report_signal`, the retry queue, pending, batch and
in-flight signals, the connection loop's attempts and cooldown, the breaker.
Operations: reports, the retry task, connecting, sending batches, handling
acknowledgements, requeueing after a disconnect, `stop`. Hard: acknowledgements
carry a count and no identity; a send fails after its signals were put in
flight; requeueing overflows; the hub refuses a message without acknowledging
it. It is correct when no signal is lost uncounted, nothing is forgotten that the
hub has not seen, order survives a reconnect, and nothing waits for ever.

**Correlator**, **broadcaster and blocklist store**, **war room and playbooks**:
what the stored signals set off. Not modelled.

### The rest

Request pipeline of the sensor (WAF, DLP, profiler, fingerprints), entity and
session stores, queries and hunting, REST routes, proxies, jobs and user
interface are listed in `PROJECT.json` with the reason why they are left out:
they are pattern matching and statistics over request contents, reads, thin
layers over libraries, or presentation.

### How the parts interact

    API route -> FleetCommander.sendCommand -> row, CommandSender.sendCommand
                       ^                              |  send        ^ ack
            updates of the row                        v              |
                       +---- events: sent, complete, failed, timeout, evicted
                                                      |
    sensor <--- WebSocket ---> SensorGateway --- registerConnection,
                                     |           cleanupSensor, handleResponse
                                     v
                               Aggregator.queueSignal -> PostgreSQL, correlator
                                     |
                                     +--> RetryBuffer -> ClickHouse

    RuleDistributor -> FleetCommander.sendCommand / broadcastCommand
          ^                     |
          +-- command-success, command-failed

    HorizonClient (sensor) -- signals --> SensorGateway
                           <-- acknowledgements, push_rules

    RolloutOrchestrator (job) -> FleetCommander.sendCommand; rows <- routes

    dashboard <-- WebSocket --> TunnelBroker <-- WebSocket --> sensor

`SensorGateway` and `FleetCommander` each compose their part with
`CommandSender` (`Q == INSTANCE CommandSender`): the gateway supplies the
sockets and answers, the commander the calls and the listeners. `RuleDistributor`
composes `RuleRollout` with `ScheduledDeployment`: they share the sensors'
command queues, the sync rows, the history a rollback reads, and the restart.
`HorizonClient` uses `CircuitBreaker` and contains the hub's side of the channel.

## 2. Modules

| module | models | state and actions |
|---|---|---|
| `CommandSender` | `command-sender.ts` | One variable per field of the class. An action is a whole handler, the `trySendNext` at its end included (`TrySendNext` is run on the state its caller has just computed). |
| `MCCommandSender` | | Three commands for one sensor: `c1` may be attempted twice and sent again, `c3` cannot be serialised. |
| `CommandSenderProofs` | | The inductive invariant and the theorems of section 5. |
| `CommandLifecycle` | the promise of `fleet-commander.ts` | Abstract: a row is created pending, moves between pending and sent, settles once, and always settles. |
| `FleetCommander` | `fleet-commander.ts` on top of the queue | Rows, and `ops`, the database operations under way. Each update is one atomic conditional update, as in the code; `markCommandFailed` is a read followed by an update. `Crash` keeps the rows and loses the rest. |
| `MCFleetCommander`, `FleetCommanderProofs` | | One sensor, one command type, so that requests compete and merge; proofs of section 5. |
| `SensorGateway` | `sensor-gateway.ts` on top of the queue | `sock` is the readyState, `auth` the await each call of `handleAuth` is at (a connection may have several, under way at once and for different sensors), `sensorId` the connection's field, `registered` the socket the queue holds, `unattended` the history of entries that went before their close event. Each await ends one action. |
| `MCSensorGateway` | | Two sockets that authenticate as one sensor, the first of which may then, or meanwhile, authenticate as another. |
| `Aggregator` | `services/aggregator/index.ts` | A queued object is an item: the signal whose fields it keeps and the set of signals merged into it. `phase` is the await a flush is at. |
| `MCAggregator` | | Four signals: three merge, two have the same content. |
| `CircuitBreaker` | `circuit_breaker.rs` | Operators on the breaker's record; `elapsed` says whether `reset_timeout` has passed. |
| `HorizonClient` | `horizon/client.rs`; `handleSignal`, `handleSignalBatch` and the message handler of `sensor-gateway.ts` | One variable per queue, `loop` for the await of `connection_loop`; `toHub` and `acks` are the wire. `stash_pending` and `requeue_inflight` are the functions of these names. |
| `HorizonClientProofs` | | Proofs of section 5. |
| `RetryBuffer` | `retry-buffer.ts`, `persistent-store.ts` | `opTail` is the queue of the mutex, `readyItems` the rest of the batch being retried, `late` the writes given up on that may still be found in the table. Each await ends one action. |
| `IngestProofs` | | Proofs of section 5 about `RetryBuffer` and `Aggregator`: the two queues in which a signal waits for a database, and the facts about sequences they share. |
| `BlueGreen` | the blue/green part of `rule-distributor.ts`, `push_rules` of the sensor | `pc` is the await of `deployBlueGreen`; `activeDeployments` and `store` are the two copies of the state; `rows` are the commander's open commands, each with the payloads sent under its id, `acked` the successes on their way to the listener; `loaded` is what the sensors serve, `merged` the history of commands that shared an id. |
| `BlueGreenProofs` | | Proofs of section 5. |
| `RuleRollout` | immediate, canary and rolling rollouts and the rollback | Sensors are their positions in `sensorIds`; `first`, `last` and `next` are the slice being sent. Rules are version numbers. |
| `ScheduledDeployment` | scheduled deployments | Row, timer, and the awaits of execution and cancellation. |
| `RuleDistributor` | both, side by side | A scheduled push is the `deployImmediate` of `RuleRollout` on all sensors. |
| `RuleDistributorProofs` | | Proofs of section 5, about the rollouts and the scheduled deployments. |
| `RolloutOrchestrator` | `rollout-orchestrator.ts`, `rollout-worker.ts`, the rollout routes of `fleet-releases.ts` | `status` and `progress` are the rows, `job`, `attempts` and `stalls` the queue's record, `pc` the await of the worker, `sends` the stage of each promise of a chunk, `told` and `ran` what happened on the sensors. The routes and the recovery are processes of their own (`canceller`, `deleter`, `recovery`). |
| `RolloutOrchestratorProofs` | | Proofs of section 5. |
| `TunnelBroker` | `tunnel-broker.ts`, `tunnel-session-store.ts`, the handshakes of `index.ts` | `ready` is each socket's readyState, `phase` the await of its handshake; `tunnel` and `session` are the maps, `base` and `asked` the connection that a session and a request were begun on; `permissionCheck` is a permission check under way. |
| `GatewayProofs` | | Proofs of section 5 about `SensorGateway` and `TunnelBroker`: the two components that keep sockets by sensor. |

`PROJECT.json` maps every definition to its source lines.

Abstractions and simplifications:

- Payloads, severities, metrics, log lines and events nobody in the model reacts
  to are left out. `createdAt` is a counter advanced by each `sendCommand`, so
  that "oldest" has the meaning it has in the code when two commands do not
  share a millisecond.
- A timeout callback that only re-arms itself (the socket is not open) is a
  stuttering step.
- The expiry sweep takes one command per step. Its iterations are independent.
- The peer answers only what it was sent, any number of times and arbitrarily
  late.
- `CommandSender.stop` is the exit of the process; it appears as `Crash` in
  `FleetCommander`. `cancelCommand` and `clear` of the sender have no caller
  outside tests.
- `sendCommandToMultiple` and `broadcastCommand` are loops over `sendCommand`.
- In `FleetCommander`, "five seconds old" (`aged`) and "past its timeoutAt" are
  independent, because the caller chooses the timeout.
- In `SensorGateway` an auth message is an `AuthCall` with its socket and the
  sensor it names; calls on one connection may overlap. One token revalidation
  runs at a time. The credential check, the registration of a new sensor and its
  token are one nondeterministic outcome.
- In `Aggregator` a rejected `create` has left no row. Idempotency keys do not
  expire within a behaviour. `queueSignal` is not called after `stop`, because
  the gateways are closed before. Storing has effects on other components
  (ClickHouse copy, impossible travel, playbook triggers) that are not awaited;
  they are not part of this module. Tenants are abstracted away: the merge does
  not look at them (section 4).
- In `SensorGateway` connections of other sensors may or may not fill the Map, so
  that the limit is met at any time (`HasRoom`).
- In `HorizonClient` the hub's handlers run concurrently, so acknowledgements may
  overtake each other. `received` is what the hub has read, which is what an
  acknowledgement says; whether the aggregator kept it is the aggregator's
  business. Heartbeats and the other hub messages change none of these queues.
- In `RetryBuffer` the five insert methods are one. A write that is rejected or
  times out may have been applied, or be applied later (the HTTP client's
  `request_timeout`, `clickhouse/client.ts:185`). A write that succeeds is in the
  table: with `wait_for_async_insert` 0, the production setting, the server has
  only taken it over; what it does then is the server's business. `now` is read when a tick
  starts and compared later under the mutex; the model compares with the later
  time, which makes at most more items ready. A process flushes a buffer once:
  `shutdown` of `index.ts` does for its own, the aggregator's `stop` for the other.
  A second signal that arrives during the shutdown would run `shutdown` again; that
  is not modelled.
- In `BlueGreen` commands are retried and arrive in any order. A row stands for a
  command until it is answered, fails or is taken over by another caller's
  `push_rules`; what the sensor loads of it after that is left out, as it could only
  make the record truer. A command goes out under an id of its own or, as in
  `fleet-commander.ts:192-238`, under that of an open row, of this deployment, of
  another or of another caller; the earlier payload may then be gone or still be on
  the wire, and its success counts for the later command, because a success is
  credited with the payload the hub has stored under the id
  (`fleet-commander.ts:119`), not with what the sensor says. Any open row of the
  sensor may be merged into: that it is still pending and less than five seconds
  old is left open. The sensor is `push_rules` of this repository: it serves the
  rules of every payload that has some, and refuses those that have none, which are
  the activation and the abort.
- In `RuleRollout` a sensor is healthy by the code's criteria (a sync row, a fresh
  heartbeat, not disconnected), none of which says that it has the rules, so
  `Poll` may find it healthy at any time once the row exists. Rules are pushed
  with at most `MaxQueued` commands outstanding per sensor.
- In `ScheduledDeployment` a restart happens with and without the recovery,
  because nothing calls `recoverScheduledDeployments` today.
- In `RolloutOrchestrator` there is one rollout. A query throws at most
  `MaxFaults` times. One server runs the worker; the recovery may be that of
  another, so it runs at any time. A poll may find any sensor on the version,
  whether it was told in this attempt or in an earlier one.
- In `TunnelBroker` there is one sensor, one session id and one request. The
  protocol is the one the server uses; the channel-based one of the same file has
  no caller. Of the row only whether it is pending is kept. A socket that closes
  before its first message, or is turned away, runs no listener that changes
  anything, so the first is left out and the second is closed at once. The prompt
  of a new shell comes long before the session could be idle and is left out; after
  a user's message the sensor may stream for ever.

## 3. Runs

Eleven runs pass and one shows a disagreement between a comment and the code.
State counts are distinct states.

| run | configuration | checks |
|---|---|---|
| `sender` | one sensor, three commands, four calls of `sendCommand`, one id sent twice, fairness; 32 k states | `TypeOK`; `WithinLimits`; `NothingStuck` (nothing pending is forgotten and no wake-up is lost); `OneInFlight` with orphan timers about; `FirstInFirstOut`; `OutcomeSticks`; `SentIsResolved` |
| `commander_rows` | two requests of one type for one sensor; 0.7 M states | `SuccessWasAcked`; `FailedWhenExhausted`; `RowOutcomeSticks` |
| `commander_lifecycle` | one request, `maxRetries` 2, one restart, fairness; 2.7 k states | `ImplementsLifecycle`: the rows implement `CommandLifecycle`, liveness included |
| `gateway` | two sockets, three auth messages, two sensors, others about, one command, fairness; 510 k states | `RegistrationIsAttended`; `PreAuthIsDropped`; `SentIsResolvedOrStranded` |
| `aggregator_queue` | four signals, queue and batch of 2, two retries, idempotency store in use, fairness; 69 k states | `AggregatorTypeOK` (with the bounds of the queues); `AcceptedIsAccounted`; `AcceptedIsSettled` |
| `hub_client` | five signals, queues and batches of 2, two faults, cooldown after 2, two attempts, fairness; 206 k states | `NoSilentLoss`; `AckedWasReceived`; `BuffersInOrder`; `SignalsSettle` |
| `retry_buffer` | three items, buffer of 2, two attempts, one flush or stop, restarts, fairness; 528 k states | `LossIsLogged`; `DuplicateHasCause`; `BufferedIsSettled` |
| `blue_green` | one deployment, two sensors, half of them suffice, one merged command, one restart, fairness; 481 k states | `TypeOK`; `SwitchNeedsQuorum`; `ActiveIsSwitched`; `StagedWasLoaded`; `DeploymentEnds` |
| `rule_distributor` | one rollout of any kind and one scheduled deployment, two sensors, batches of 1, one restart, fairness; 473 k states | `BlastRadius`; `DoneIsComplete`; `PushedOnce`; `RolloutEnds` |
| `rollout` | two sensors, as a canary and its second batch or as one batch, two attempts of the job, one stall, one throwing query, one crash, fairness; 775 k states | `HaltsOnFailures`; `CompletedIsSettled`; `RolloutEnds` |
| `tunnel` | two sockets of a sensor, two of dashboards with one session id, one request, fairness; 264 k states | `OfThisTunnel`; `LiveTunnelStays`; `RequestSettles`; `DeadIsDropped` |
| `rules_rollback` | violation | `RollbackRestores` |

Deadlock is not checked: the bounded models run out of calls to make, and a
queue with nothing to do may stop.

Every property of a passing run has a mutant in `PROJECT.json`: an operator
`X_Variant` next to `X`, the form a plausible slip would give it, under which
TLC finds the property violated.

### Bounds, and why they are enough

- `MaxSends` (calls of `sendCommand`): four calls fill a queue of two and evict,
  or send, overwrite and queue behind. Everything after the calls is unbounded:
  reconnects, answers, timeouts and sweeps may repeat and interleave freely.
- The sender has one sensor in the instance: queues, slots and timers are per
  sensor, and the two limits still meet in it. That queues do not mix for more
  sensors is part of the invariant that is proved (`QueueOwn`).
- `MaxAttempts` is 2 for one command and 1 for the others, so that both the retry
  and the final timeout happen.
- `MaxRetries` of the commander is 1 in the large run and 2 in the small ones: at 1
  the first failure read after an attempt is permanent, and one read before it is
  a retry; with 2 a row goes back to pending.
- `MaxCrashes` of the commander is 0 in the large run and 1 in the small one:
  nothing survives a restart except rows, so a second restart meets the same
  situations as the first. That outcomes are final through any number of restarts
  is proved.
- Two sockets of one sensor are the old and the new connection of a reconnect; the
  third auth message is the repeated one, during or after the first on its socket,
  for another sensor.
- Four signals: two fill the batch, the others arrive during the flush; with a
  queue of two the failed flush overflows.
- `MaxFaults` of the hub client is 2: a connection is lost with signals in flight,
  and the one that resends them is lost too, or a message is refused; two also
  trips the cooldown and exhausts the attempts. Five signals overflow every queue
  of two, the requeueing included.
- Three items overflow a retry buffer of two while one of them is being retried;
  after one flush or stop and a restart the situations repeat.
- Two sensors with a threshold of half: one may be staged, failed or late while
  the other makes the quorum. One deployment suffices for the run, as deployments
  meet only in failure events and in merged commands, both of which other callers
  cause in the model too.
- `MaxMerges` is 1: one command that shares its id with a payload on the wire is
  enough for a sensor to be recorded staged or green through another's answer, and
  for a deployment with one staged sensor to become active. The proofs are for any
  number of deployments and merges.
- Two sensors in batches of one, with one failure allowed, are the smallest
  rollout that can stop early; `rules_rollback` has three sensors and two rollouts.
- Two sensors of a firmware rollout with a threshold of one failure are the
  smallest with a batch that must not start. One crash, one fault and two
  attempts let a first attempt stop anywhere and a second one follow; the stall
  limit of one is BullMQ's default, and a second stall gives the job up.
- Two sockets on each side of a tunnel are the old and the new one of a
  reconnect, and two dashboards that present one id.

### Fairness

- `CommandSender`: armed timers fire, the 60-second sweep runs, and the close
  event of a registered socket is handled. The last one is an assumption about
  the gateway; `SensorGateway` shows where the gateway does not keep it.
  `SentIsResolved` is stated for behaviours in which connections stop coming and
  going: each reconnect may resend, and an open sensor that never answers is
  retried up to `maxAttempts`.
- `FleetCommander`: the timeout checker reaches every row whose `timeoutAt` has
  passed. Nothing is assumed of the sensor, the queue or the updates, which may
  all be lost.
- `SensorGateway`: the timers and the sweep of the queue run, and so does the
  heartbeat sweep, which is only sure to take a connection that does not answer
  pings: one that has not authenticated (its messages are refused) or whose socket
  has closed. Nothing is assumed of peers, close events or the database.
- `Aggregator`: the batch timer ticks until `stop`, and every awaited call of a
  flush returns or rejects. A database that always rejects is allowed.
- `HorizonClient`: the runtime polls both tasks, waits end, the hub reads and
  answers, and because faults are bounded a connection is kept in the end. Nothing
  makes the sensor report or stop.
- `RetryBuffer`: time passes, the interval ticks, and each awaited write ends, at
  the latest by the code's own timeout. A ClickHouse that always fails is allowed.
- `BlueGreen`, `RuleRollout`: the async function goes on after each await, at the
  latest by its own timeout (`stagingTimeout`, `switchTimeout`,
  `healthCheckTimeout`). Nothing is assumed of the sensors in `BlueGreen`; in
  `RuleRollout` they execute what they are sent, which only frees the bounded
  queues of the model.
- `RolloutOrchestrator`: the worker's promises settle and BullMQ offers the job
  (weak fairness of `Worker` and `Stalled`). The end of the monitoring is a
  deadline that the code looks at each time round the poll, so it is disabled
  during each poll and enabled between: strong fairness of `MonitorEnds`. Nothing
  is assumed of the sensors, the routes or the recovery.
- `TunnelBroker`: a closing socket closes (the `ws` library waits thirty seconds at
  most), the interval of the monitor comes round and time passes for it, and the
  timer of a request fires. Nothing is assumed of handshakes, sensors or users.

## 4. Where texts and code disagree

One has a run that TLC finds violated by what the code does.

- `rules_rollback`. "The second-to-last successful deployment (since the last one
  is current)" is taken from the commands of all sensors and tenants. When two
  sensors have taken the new rules, the rollback sends these rules again; with
  fewer than two successes it sends none, which the sensor ignores.

The models show these as well, without a run of their own:

- "Register connection with command sender for outbound commands"
  (`sensor-gateway.ts:845`): the close handler and token revalidation deregister by
  sensor id (line 468). When a sensor has reconnected before the close event of its
  old socket, that event fails the sensor's commands and unregisters the new
  socket, and the connected sensor is no longer reached.
- The same lines: `handleAuth` does not ask whether the connection is authenticated
  already. A second auth message with another name overwrites the connection's
  sensor id (line 839) and registers the socket for the second sensor as well; the
  close handler then deregisters the second only, and the first keeps a dead socket
  (the last case of `RegistrationIsAttended`).
- "Stage green deployment to all sensors (inactive until switch)"
  (`rule-distributor.ts:1131`), "Each sensor loads the rules into its green slot"
  (`site/guides/blue-green-deployments.md:31`): the sensor of this repository has no
  slots and serves the rules as soon as they are staged. It refuses the activation
  and the abort, which carry no rules. So the switch times out, the deployment is
  reported as failed, and the new rules stay, where the guide says "the green rules
  are aborted on all sensors, leaving the blue (current) rules in place" (line 37).
- A blue/green deployment can become `active` all the same: a `push_rules` that
  finds a pending one of the last five seconds is sent under its id
  (`fleet-commander.ts:192-238`), and the answer to the earlier payload is credited to
  the later. In the same way a sensor that has loaded nothing is recorded as staged.
  `StagedWasLoaded`, `SwitchNeedsQuorum` and `ActiveIsSwitched` say that this is the
  only way (`merged`).
- "Completed: All sensors successfully updated" (`site/guides/firmware-updates.md:424`,
  next to "Completed with Errors"): the code has one `completed`, for every rollout in
  which not all sensors have failed and none is under way. `CompletedIsSettled` is
  what holds: failed and cancelled sensors are among the settled.
- "We don't throw, just break to finish cleanly as "failed""
  (`rollout-orchestrator.ts:235`): when the threshold is reached in the last batch,
  `finalizeRollout` writes `completed` unless every sensor has failed.
- A rollout that the route has `cancelled` is set `in_progress` when the worker
  takes its job, and `finalizeRollout` overwrites the status too.
- "Terminate a session" (`routes/tunnel.ts:380`) deletes the row; the session in the
  broker goes on. Rows of live sessions also expire and are swept, after which they
  no longer count towards "Maximum number of active sessions".
- `cancelScheduledDeployment` promises "true if cancelled, false if not found or
  already executed". It reads the row, awaits, and then overwrites it: when the
  timer fires in between, the deployment is executed and reported as cancelled.
- `markCommandFailed` logs "Command failed, will retry" and resets the row to
  pending, but nothing hands the command to the sender again; the row waits for
  the timeout checker.
- "Pending sensors can only send signals, not receive commands", but `handleAuth`
  registers the socket with the command sender whatever the approval status.
- `storeSignal` records the idempotency key before the row is created. When the
  create fails, the retry takes the signal for its own duplicate and counts it as
  processed; it has no row (`KeyIsUsed`).
- `buildDedupeKey` has no tenant, and one aggregator batches the signals of all
  tenants: events of one are added to the row of another.
- `requeue_inflight` "preserves fresher signals by dropping the oldest first", but
  it drops from pending, which is newer, before the in-flight signals.
- After the hub has refused a message (`HubDiscards`), acknowledgements take the
  refused signals off `inflight` in place of later ones. `AckedWasReceived` is
  stated with this case, and `SignalsSettle` with the signals it leaves behind.
- The retry buffer's `flush` counts a write that fails and does not log it to the
  dead letter queue (`flushFailed` in `LossIsLogged`); the hub's shutdown calls
  `flush` and never `stop`, so the file is not written in production.

Behaviour that the models have and no run is about: two concurrent requests may
both pass the duplicate check and both create a row; a cancelled command stays in
the sender's queue and may still be delivered; a late `DISCONNECTED` may overwrite
the `CONNECTED` of a newer connection; a connection removed by the error handler
or the heartbeat sweep stays registered as a closed socket
(`SentIsResolvedOrStranded` says what is left of `SentIsResolved` then); `stop()`
during a flush resolves at once; a signal the aggregator rejects under
backpressure is acknowledged like any other; a success while the breaker is open
resets its failure count; the hub client's in-flight queue has no limit, and its
buffers are lost uncounted when its loop ends; a restart leaves blue/green
deployments in the middle of a phase that nobody continues.

## 5. Theorems

All theorems are about the specifications the runs check, for every value of the
constants that satisfies the named assumptions. Each of them is `Spec => []P` or
`Spec => [][A]_vars` from an inductive invariant; the invariant is described here,
and why the property does not do without it. Two proof modules extend two components
each, which is why those components' specifications have names of their own
(`AggregatorSpec`, `TunnelSpec`); nothing is shared between the components but the
facts about sequences.

### Command sender (`CommandSenderProofs`)

For any sets of sensors and commands (the commands finite), any attempts and
limits, and any number of calls.

`SenderTypeCorrect`, `SenderOneInFlight`, `SenderSlotHasTimer`,
`SenderTimerMatchesStatus`, `SenderAttemptsBounded` rest on `IInv`. None of them is
inductive alone. That a sent command holds the slot (`OneInFlight`) depends on who
may free a slot, which depends on the queue of a sensor holding only that sensor's
commands (`QueueOwn`); that a slot has a timer (`SlotHasTimer`) depends on a timer
being the object's own exactly while it is sent (`TimerMatchesStatus`); that
attempts are bounded depends on a pending object having made none
(`PendingUnsent`). Most handlers end in `trySendNext` on a state they have just
computed, so the core of the proof is stated over explicit arguments (`Typed`,
`Coherent`): `TrySendNextFact` says that it turns a coherent state into a coherent
one, and each handler has a lemma that its computed state is coherent.

`SenderNothingStuck`, `SenderFirstInFirstOut` and `SenderOutcomeSticks` rest on
`Lively`, on top of `IInv`: a pending command that is sent once is queued, queues
are in order of creation (`Orderly`), and an open socket with a free slot has
nothing pending in its queue (`Awake`). The order of the queue is what makes the
first send the oldest; that only a command the caller has sent again can have a
timer of an overwritten object, and is then not completed, is what keeps outcomes.

`SenderWithinLimits` is about numbers of commands: an eviction makes room for one
(`RoomForOne`), a `sendCommand` adds one, and nothing else adds any. The limit per
sensor counts the queue, and the theorem the pending commands; without re-sent ids
the second are among the first (`PendingCounted`).

The assumption used is `SenderAssumption`: every command has a sensor and at least
one attempt, limits are positive, and a command that cannot be serialised is not
sent twice.

### Fleet commander (`FleetCommanderProofs`)

For any number of requests, limits and restarts. The rows implement
`CommandLifecycle` (`RowsImplementLifecycle`, the safety part) and outcomes are
final (`RowOutcomeIsFinal`). The invariant is `RowsOfFinishedRequests`: a request
whose transaction has not committed has no row, so creating one never overwrites an
outcome; all other operations are conditional updates, which `UpdateFact` treats
once.

`SuccessIsEarned` and `FailureIsExhausted` say why a row has its outcome. The
updates are not awaited, so the invariant `Ledger` speaks of the ones under way as
well: a `markSuccess` is under way only for a command that was answered with
success (the queue emits `command-complete` nowhere else), and a final failure
only for a row that has used up its attempts, which is still so when the stale
read is acted upon because attempts only grow.

### Sensor gateway (`GatewayProofs`)

`RegistrationsAreAttended`, for any sockets, sensors and auth messages. Each of the
awaits of `handleAuth`, the close and error handlers, the sweep and the revalidation
comes between registering a socket and removing its entry. The invariant adds that
an entry of the Map has its close event still to come (`EntriesAreLive`), which is
what makes the entry worth something. The steps of the queue itself do not touch
the registration.

### Sensor hub client (`HorizonClientProofs`)

For any number of signals, faults and reconnects and any sizes.

`ClientLosesNothingSilently`: every step that does not end the loop keeps what is
in the queues or counted (`KeepsAll`). The code drops and moves signals in
`stash_pending` and `requeue_inflight`; `StashFact` and `RequeueFact` say that each
cuts its queues in two, keeps one part and counts the other. That a connection
which is not up has no batch (`LoopOwns`) is needed where the code passes an empty
one.

`ForgottenWasReceived`: acknowledgements are counts and may overtake each other, so
no single count says anything. The invariant `WireBalanced` says that the counts on
their way back add up to at most the length of a front part of `inflight` that the
hub has read or refused, and that the messages on the wire are the rest of
`inflight` in order. It makes no difference then which count comes first, and a
refused message only makes the front part longer than the counts. Sums and places
are given by witness functions (`SumIs`, `Laid`), because a recursive definition
could not be reasoned about.

`BuffersStayInOrder`: the buffers, one behind the other, keep the order of what the
channel carried (`InOrderOf`, a preorder that concatenation respects), and the
channel carried nothing twice (`EnteredOnce`: a signal is new when reported, and is
in the retry queue or has been in the channel, not both). Requeueing only drops
from the fronts of its queues (`Requeued`), which `InOrderOf` allows.

### Rule distributor (`RuleDistributorProofs`, `BlueGreenProofs`)

`PushedAtMostOnce` is about the scheduled deployments alone, for any number of
deployments and restarts. `PushedOnce` says nothing of what may still happen; the
invariant says from where a deployment can still be pushed (a row that is not there
yet or PENDING, a timer, an execution before its push) and that none of these is
left once it was: the row is EXECUTING before the first command, and neither the
cancellation nor a late update makes it PENDING again. `SchedulesImplemented` shows
that the distributor, which runs these next to rollouts and restarts, implements
that specification, and `DistributorPushesOnce` follows.

`RollingBlastRadius` and `DoneMeansComplete`, for any number of sensors, batch size,
stages and failure limit, rest on `RolloutInv`: the slice under way lies in the
fleet (`SliceFits`, where the ceilings of the percentages come in), all sensors
before it were tried (`NoGap`), and of those a rolling rollout has tried, fewer than
`MaxFailures` are unconfirmed (`FewUnconfirmed`). The counter of the code is not
bounded by `MaxFailures`, since sends that throw are counted and do not stop the
batch; the number of unconfirmed sensors is.

`BlueGreenTyped`, `StagedRecordIsTrue`, `SwitchHasQuorum` and `ActiveHasSwitched`,
for any deployments, sensors, targets, thresholds, merges and restarts. The record of
what is staged is true, but for merged commands, because answers are
(`AnswersAreTrue`: a row that shares its id with no earlier payload has its own on the
wire, so a success credited to it is one to a staging, by a sensor that has loaded
the rules), and because only a success stages a sensor, in memory and in the store,
whichever of the two a listener reads. The quorum follows (`QuorumInv`): a deployment
that has decided to switch had enough staged targets, these are among those that
have loaded the rules or shared an id (`Holding`), and that set only grows
(`StagedEnoughGrows`). For `ActiveHasSwitched` the listener is the danger: it does not
look at which command an answer is to. The invariant (`SwitchInv`) says which
commands can be open or answered at which point of the deployment (`StatusFollows`,
`WireFollows`), that the one staging command of a target is used up once the target
is recorded as staged (`StagedOnce`), and so that a late answer to the staging never
turns a staged target green: what does is credited to an activation that shared its
id (`GreenShared`, `ActiveShared`).

### Rollout orchestrator (`RolloutOrchestratorProofs`)

For any number of sensors, batch size, failure limit, faults, attempts and crashes.
`CompletedRolloutIsSettled`: the outcome is computed from rows that were read some
steps earlier, while promises of an earlier attempt may still write; the invariant
says that none is left when the outcome is computed (`SendsSettled`), and that an
outcome which is computed and not yet written is still true (`OutcomeHolds`).
`BadReleaseIsStopped`: as long as nobody cancels, the sensors of earlier batches
that have not come up are no more than the failures counted, in every attempt
although each starts from zero (`FailuresCounted`, `BatchWatched`).

### Tunnel broker (`GatewayProofs`)

For any sockets: `TunnelTyped`, `TunnelOwnsItsSessions` and the action property
`LiveTunnelIsLeftAlone`. `OfThisTunnel` allows a request to wait with no tunnel at
all, which the next connection would inherit; the invariant adds that this does not
happen (`AskedSomebody`).

### Signal aggregator (`IngestProofs`)

For any signals, deduplication and idempotency keys and any limits. `SignalsTyped`
contains the bound on the two queues together, which a failed flush must keep when
it puts its items back in front of what arrived meanwhile; that needs to know that a
flush has emptied `signalBatch` and nothing refills it before the flush ends
(`Flushing`). `SignalsAccounted`: every accepted signal is counted exactly once. A
count of one is not inductive, because a merge moves signals between items and an
overflow cuts a queue in two; the invariant (`Counted`) says instead that no two
items of a container count the same signal, that the six containers are apart from
each other, and that together they count what was accepted. One lemma per way of
handling a queue shows that this survives (`MemAppend`, `MemConcat`, `MemCut`,
`MemNext`, `KeptUnion`), and `DedupFact` that `deduplicateSignals` keeps every
signal and counts none twice: each item has the key of one that stays (the first
with its key exists, `FirstPosition`), and no two that stay share a key.

### ClickHouse retry buffer (`IngestProofs`)

For any number of insert calls, flushes, stops and restarts and any limits:
`BufferTyped`, `NoLossUnlogged` and `DuplicatesAreExcused`. That an item is written
twice only after a write that was given up on (rejected or timed out) and may have
been applied, or after a restore, follows from where items may be before that
(`WrittenOnce`): one that was written once, neither given up on nor restored, is in no
place from which it could be written again. For a step to preserve this, no queue
may hold an item twice (`Queues`), a batch may be in hand only while its retry holds
the mutex, and one flush at most may wait for the mutex (`Locked`); a new call's
item must be nowhere yet (`Begun`), and a file must fit into the buffer it is loaded
into and name no item twice (`OnFile`). `NoLossUnlogged` rests on the same
facts; the invariant says a little more than the property, namely that what is in
the file is also in memory or has gone with the process (`Accounted`).

### Only model-checked

Every invariant and action property of the runs is proved. Liveness and fairness are
out of the prover's reach (`SentIsResolved`, `SentIsResolvedOrStranded`,
`PreAuthIsDropped`, `AcceptedIsSettled`, `SignalsSettle`, `BufferedIsSettled`,
`DeploymentEnds`, `RolloutEnds`, `RequestSettles`, `DeadIsDropped`, the settling part
of `ImplementsLifecycle`) and stay with TLC, on the instances of section 3.

## 6. Plan and what is not modelled

Modules that would be worth writing: the sensor's tunnel client, the counting of
registration tokens, the broadcaster with the sensor's blocklist cache, and the correlator's
campaign creation under concurrent batches.

The repository has about 147 000 lines of implementation. A large part is user
interface and REST routes, and much of the rest is request inspection on the
sensor (WAF, DLP, profiles, fingerprints), queries, scoring and integration with
external services. They are parsing, arithmetic on request contents, rendering and
forwarding: without state that outlives a call or an interleaving to explore, a
model of them would only repeat them. The models therefore cover a small share of
all lines, and most of the state machines whose steps cross an await, a socket, a
timer or a restart on the two paths between sensor and hub. `PROJECT.json` lists
every component with its status.

## 7. Running the checks

    tlc -workers 2 -config CommandSender.cfg MCCommandSender
    tlapm CommandSenderProofs.tla

and likewise for the other configurations; `PROJECT.json` lists which module goes
with which configuration and what is expected.
