---------------------------- MODULE HorizonClient ----------------------------
(***************************************************************************)
(* The sensor's connection to the hub (synapse-pingora                     *)
(* horizon/client.rs): the queues a threat signal goes through between     *)
(* report_signal and the hub's acknowledgement, the connection loop with   *)
(* its backoff and cooldown, the retry task, and stop().  The hub's end is *)
(* modelled from its handlers (handleSignal, handleSignalBatch and the     *)
(* checks before them in sensor-gateway.ts).                               *)
(*                                                                         *)
(* Acknowledgements are positional: they carry a count, and the client     *)
(* takes that many signals off the front of its inflight queue.            *)
(***************************************************************************)
EXTENDS CircuitBreaker, Sequences, SequencesExt, FiniteSets

CONSTANTS NumSignals,      \* signal n is the n-th one reported
          MaxQueued,       \* max_queued_signals
          BatchSize,       \* signal_batch_size
          Cooldown,        \* circuit_breaker_threshold, 0 when off
          MaxAttempts,     \* max_reconnect_attempts, 0 when unlimited
          MaxFaults        \* bound on connections lost and messages refused

ASSUME ClientAssumption ==
  /\ NumSignals \in Nat
  /\ MaxQueued \in Nat \ {0} /\ BatchSize \in Nat \ {0}
  /\ Cooldown \in Nat /\ MaxAttempts \in Nat /\ MaxFaults \in Nat

Signal == 1..NumSignals

VARIABLES
  reported,    \* how many signals were reported
  chan,        \* the bounded channel from report_signal to the loop
  retryQueue,  \* signal_retry
  pending, batch, inflight,   \* the loop's buffers
  loop,        \* where the connection loop is
  attempt, failures,          \* attempt, consecutive_failures
  shutdown,    \* stop() was called
  breaker,
  toHub,       \* messages on the wire, each a sequence of signals
  acks,        \* acknowledged counts on their way back
  received,    \* signals of messages the hub has read
  discarded,   \* signals of messages the hub has refused
  settled,     \* signals an acknowledgement took off inflight
  dropped,     \* signals given up and counted in signals_dropped
  refused,     \* signals the open breaker turned away
  entered,     \* every signal the channel has carried, in order
  faults

buffers == <<pending, batch, inflight>>
queues == <<chan, retryQueue>>
control == <<loop, attempt, failures>>
wire == <<toHub, acks>>
hub == <<received, discarded>>
vars == <<reported, queues, buffers, control, shutdown, breaker, wire, hub, settled,
          dropped, refused, entered, faults>>

IsQueue(q) == q \in Seq(Signal)

Below(n, limit) == n \in Nat /\ (limit > 0 => n < limit)

(* Of the queues only inflight has no bound.                               *)
TypeOK ==
  /\ reported \in 0..NumSignals
  /\ \A q \in {chan, retryQueue, pending} : IsQueue(q) /\ Len(q) <= MaxQueued
  /\ IsQueue(batch) /\ Len(batch) < BatchSize
  /\ IsQueue(inflight) /\ IsQueue(entered)
  /\ loop \in {"head", "cooldown", "backoff", "connecting", "connected", "over"}
  /\ attempt \in Nat /\ Below(failures, Cooldown)
  /\ faults \in 0..MaxFaults
  /\ shutdown \in BOOLEAN
  /\ IsBreaker(breaker)
  /\ \A i \in 1..Len(toHub) : IsQueue(toHub[i])
  /\ acks \in Seq(Nat)
  /\ received \subseteq Signal /\ discarded \subseteq Signal
  /\ settled \subseteq Signal
  /\ dropped \subseteq Signal /\ refused \subseteq Signal

Init ==
  /\ reported = 0
  /\ chan = << >> /\ retryQueue = << >> /\ entered = << >>
  /\ pending = << >> /\ batch = << >> /\ inflight = << >>
  /\ loop = "head" /\ attempt = 0 /\ failures = 0
  /\ shutdown = FALSE
  /\ breaker = NewBreaker
  /\ toHub = << >> /\ acks = << >>
  /\ received = {} /\ discarded = {}
  /\ settled = {} /\ dropped = {} /\ refused = {}
  /\ faults = 0

Held == ToSet(chan) \union ToSet(retryQueue) \union ToSet(pending)
          \union ToSet(batch) \union ToSet(inflight)

First(q, n) == SubSeq(q, 1, n)
From(q, n) == SubSeq(q, n + 1, Len(q))
AtMost(a, b) == IF a <= b THEN a ELSE b
Excess(a, b) == IF a <= b THEN 0 ELSE a - b

-----------------------------------------------------------------------------
(* Reporting.  Closed: the loop is over and has let go of the receiver.    *)
Closed == loop = "over"

TrySend(s) ==
  /\ chan' = Append(chan, s)
  /\ entered' = Append(entered, s)

report_signal(s) ==
  \/ /\ Closed
     /\ dropped' = dropped \union {s}
     /\ UNCHANGED <<queues, entered>>
  \/ /\ ~Closed /\ Len(chan) < MaxQueued
     /\ TrySend(s)
     /\ UNCHANGED <<retryQueue, dropped>>
  \/ /\ ~Closed /\ Len(chan) >= MaxQueued /\ Len(retryQueue) >= MaxQueued
     /\ dropped' = dropped \union {s}
     /\ UNCHANGED <<queues, entered>>
  \/ /\ ~Closed /\ Len(chan) >= MaxQueued /\ Len(retryQueue) < MaxQueued
     /\ retryQueue' = Append(retryQueue, s)
     /\ UNCHANGED <<chan, entered, dropped>>

(* HorizonManager's report, which goes straight to the client.             *)
Report(s) ==
  /\ s = reported + 1 /\ reported' = s
  /\ report_signal(s)
  /\ UNCHANGED <<buffers, control, shutdown, breaker, wire, hub, settled, refused, faults>>

(* The SignalSink of the dispatcher, which asks the breaker first.         *)
SinkReport(s) ==
  /\ s = reported + 1 /\ reported' = s
  /\ breaker' = Observed(breaker)
  /\ IF allow_request(breaker)
       THEN report_signal(s) /\ UNCHANGED refused
       ELSE refused' = refused \union {s} /\ UNCHANGED <<queues, entered, dropped>>
  /\ UNCHANGED <<buffers, control, shutdown, wire, hub, settled, faults>>

(* A tick of the retry task: signals go back to the channel while it has   *)
(* room; when it is closed, one is counted as dropped and the rest go.     *)
RetryTick ==
  /\ retryQueue # << >> /\ ~shutdown
  /\ \/ /\ ~Closed
        /\ LET n == AtMost(Len(retryQueue), Excess(MaxQueued, Len(chan)))
           IN  /\ n > 0
               /\ chan' = chan \o First(retryQueue, n)
               /\ entered' = entered \o First(retryQueue, n)
               /\ retryQueue' = From(retryQueue, n)
        /\ UNCHANGED dropped
     \/ /\ Closed
        /\ dropped' = dropped \union {Head(retryQueue)}
        /\ retryQueue' = << >>
        /\ UNCHANGED <<chan, entered>>
  /\ UNCHANGED <<reported, buffers, control, shutdown, breaker, wire, hub, settled, refused, faults>>

-----------------------------------------------------------------------------
(* stash_pending: the batch joins pending; overflow drops from the front   *)
(* of pending, then of the batch.                                          *)
stash_pending(p, b) ==
  LET over == IF b = << >> THEN 0 ELSE Excess(Len(p) + Len(b), MaxQueued)
      n == AtMost(over, Len(p))
  IN  [pending |-> From(p, n) \o From(b, over - n),
       dropped |-> ToSet(First(p, n)) \union ToSet(First(b, over - n))]

requeue_inflight_Forgets(p, f) == [pending |-> p, dropped |-> {}]
requeue_inflight_Behind(p, f) ==
  LET over == Excess(Len(p) + Len(f), MaxQueued)
      n == AtMost(over, Len(p))
  IN  [pending |-> From(p, n) \o From(f, over - n),
       dropped |-> ToSet(First(p, n)) \union ToSet(First(f, over - n))]

(* requeue_inflight: what was sent but not acknowledged goes in front of   *)
(* pending; overflow drops from pending first, then from inflight.         *)
requeue_inflight(p, f) ==
  LET over == IF f = << >> THEN 0 ELSE Excess(Len(p) + Len(f), MaxQueued)
      n == AtMost(over, Len(p))
  IN  [pending |-> From(f, over - n) \o From(p, n),
       dropped |-> ToSet(First(p, n)) \union ToSet(First(f, over - n))]

Trips(fails) == Cooldown > 0 /\ fails >= Cooldown

(* The Disconnected arm of connection_loop, after connect_and_run has put  *)
(* its batch back: p, b and f are the buffers it leaves.                   *)
Disconnected(had_connection, p, b, f) ==
  LET stashed == stash_pending(p, b)
      requeued == requeue_inflight(stashed.pending, f)
      fails == IF had_connection THEN 1 ELSE failures + 1
  IN  /\ faults < MaxFaults /\ faults' = faults + 1
      /\ pending' = requeued.pending
      /\ batch' = << >> /\ inflight' = << >>
      /\ dropped' = dropped \union stashed.dropped \union requeued.dropped
      /\ attempt' = IF had_connection THEN 1 ELSE attempt + 1
      /\ failures' = IF Trips(fails) THEN 0 ELSE fails
      /\ loop' = IF Trips(fails) THEN "cooldown" ELSE "backoff"
      /\ toHub' = << >> /\ acks' = << >>

(* The top of the loop: stop() is noticed, the attempts are counted.       *)
LoopHead ==
  /\ loop = "head"
  /\ loop' = IF shutdown \/ (MaxAttempts > 0 /\ attempt >= MaxAttempts)
               THEN "over" ELSE "connecting"
  /\ UNCHANGED <<reported, queues, buffers, attempt, failures, shutdown, breaker, wire, hub,
                 settled, dropped, refused, entered, faults>>

(* The end of a wait.  The cooldown ends early when stop() is called, the  *)
(* backoff does not.                                                       *)
WaitEnds ==
  /\ loop \in {"cooldown", "backoff"}
  /\ loop' = IF loop = "cooldown" /\ shutdown THEN "over" ELSE "head"
  /\ UNCHANGED <<reported, queues, buffers, attempt, failures, shutdown, breaker, wire, hub,
                 settled, dropped, refused, entered, faults>>

(* The connection cannot be made, or the answer to auth does not come or   *)
(* is not one; the breaker hears of it, except when auth cannot be sent.   *)
ConnectFails ==
  /\ loop = "connecting"
  /\ breaker' \in {breaker, record_failure(breaker)}
  /\ Disconnected(FALSE, pending, << >>, inflight)
  /\ UNCHANGED <<reported, queues, shutdown, hub, settled, refused, entered>>

AuthFailed ==
  /\ loop = "connecting"
  /\ loop' = "over"
  /\ UNCHANGED <<reported, queues, buffers, attempt, failures, shutdown, breaker, wire, hub,
                 settled, dropped, refused, entered, faults>>

(* send_batch: the signals are inflight before they are on the wire.       *)
Sends(b) ==
  /\ inflight' = inflight \o b
  /\ toHub' = IF b = << >> THEN toHub ELSE Append(toHub, b)

(* send_batch failed: nothing is on the wire and the batch is inflight.    *)
SendFails(b) ==
  /\ breaker' = record_failure(breaker)
  /\ Disconnected(TRUE, pending, << >>, inflight \o b)

(* AuthSuccess.  The signals left from an earlier connection go first.     *)
AuthSuccess ==
  /\ loop = "connecting"
  /\ LET up == record_success(breaker)
     IN  \/ /\ breaker' = up
            /\ loop' = "connected"
            /\ Sends(pending)
            /\ pending' = << >>
            /\ UNCHANGED <<batch, attempt, failures, acks, dropped, faults>>
         \/ /\ pending # << >>
            /\ breaker' = record_failure(up)
            /\ Disconnected(TRUE, << >>, << >>, inflight \o pending)
  /\ UNCHANGED <<reported, queues, shutdown, hub, settled, refused, entered>>

(* signal_rx.recv(): the batch is sent when it is full.                    *)
Recv ==
  /\ loop = "connected" /\ chan # << >>
  /\ chan' = Tail(chan)
  /\ LET full == Append(batch, Head(chan))
     IN  IF Len(full) < BatchSize
           THEN /\ batch' = full
                /\ UNCHANGED <<pending, inflight, control, breaker, wire, dropped, faults>>
           ELSE \/ /\ Sends(full)
                   /\ batch' = << >>
                   /\ breaker' = record_success(breaker)
                   /\ UNCHANGED <<pending, control, acks, dropped, faults>>
                \/ SendFails(full)
  /\ UNCHANGED <<reported, retryQueue, shutdown, hub, settled, refused, entered>>

BatchTimer_FullOnly == loop = "connected" /\ Len(batch) >= BatchSize /\ UNCHANGED vars

BatchTimer ==
  /\ loop = "connected" /\ batch # << >>
  /\ \/ /\ Sends(batch)
        /\ batch' = << >>
        /\ breaker' = record_success(breaker)
        /\ UNCHANGED <<pending, control, acks, dropped, faults>>
     \/ SendFails(batch)
  /\ UNCHANGED <<reported, queues, shutdown, hub, settled, refused, entered>>

(* The socket closes or fails; the breaker does not hear of it.            *)
SocketClosed ==
  /\ loop = "connected"
  /\ Disconnected(TRUE, pending, batch, inflight)
  /\ UNCHANGED <<reported, queues, shutdown, breaker, hub, settled, refused, entered>>

Popped_OneMore(n) == AtMost(n + 1, Len(inflight))
Popped(n) == AtMost(n, Len(inflight))

(* SignalAck and BatchAck.  Acknowledgements of messages the hub handled   *)
(* concurrently may have overtaken each other.                             *)
Ack(i) ==
  /\ loop = "connected"
  /\ LET n == Popped(acks[i])
     IN  /\ settled' = settled \union ToSet(First(inflight, n))
         /\ inflight' = From(inflight, n)
  /\ acks' = RemoveAt(acks, i)
  /\ UNCHANGED <<reported, queues, pending, batch, control, shutdown, breaker, toHub, hub,
                 dropped, refused, entered, faults>>

stop ==
  /\ ~shutdown
  /\ shutdown' = TRUE
  /\ UNCHANGED <<reported, queues, buffers, control, breaker, wire, hub, settled, dropped,
                 refused, entered, faults>>

(* The event loop notices stop(); what the loop still holds goes with it.  *)
Shutdown ==
  /\ loop = "connected" /\ shutdown
  /\ loop' = "over"
  /\ UNCHANGED <<reported, queues, buffers, attempt, failures, shutdown, breaker, wire, hub,
                 settled, dropped, refused, entered, faults>>

ResetTimeout ==
  /\ breaker.state = "Open" /\ ~breaker.elapsed
  /\ breaker' = [breaker EXCEPT !.elapsed = TRUE]
  /\ UNCHANGED <<reported, queues, buffers, control, shutdown, wire, hub, settled, dropped,
                 refused, entered, faults>>

-----------------------------------------------------------------------------
(* The hub reads a message.  Its handler hands the signals to the          *)
(* aggregator one by one and acknowledges them whatever it answered; the   *)
(* handlers of several messages run concurrently.                          *)
HubReceives ==
  /\ toHub # << >>
  /\ received' = received \union ToSet(Head(toHub))
  /\ acks' = Append(acks, Len(Head(toHub)))
  /\ toHub' = Tail(toHub)
  /\ UNCHANGED <<reported, queues, buffers, control, shutdown, breaker, discarded, settled,
                 dropped, refused, entered, faults>>

(* A message over the rate limit, or not valid, gets an error in place of  *)
(* an acknowledgement, and the client ignores the error.                   *)
HubDiscards ==
  /\ toHub # << >>
  /\ faults < MaxFaults /\ faults' = faults + 1
  /\ discarded' = discarded \union ToSet(Head(toHub))
  /\ toHub' = Tail(toHub)
  /\ UNCHANGED <<reported, queues, buffers, control, shutdown, breaker, acks, received,
                 settled, dropped, refused, entered>>

LoopStep ==
  \/ LoopHead \/ WaitEnds \/ ConnectFails \/ AuthFailed \/ AuthSuccess
  \/ Recv \/ BatchTimer \/ SocketClosed \/ Shutdown
  \/ \E i \in DOMAIN acks : Ack(i)

Next ==
  \/ \E s \in Signal : Report(s) \/ SinkReport(s)
  \/ RetryTick \/ LoopStep \/ stop \/ ResetTimeout
  \/ HubReceives \/ HubDiscards

Spec == Init /\ [][Next]_vars

(* The runtime polls both tasks, the hub answers, and a connection is made *)
(* and kept in the end: failures are bounded by MaxFaults.                 *)
FairSpec ==
  /\ Spec
  /\ WF_vars(LoopHead) /\ WF_vars(WaitEnds) /\ WF_vars(AuthSuccess \/ AuthFailed)
  /\ WF_vars(Recv) /\ WF_vars(BatchTimer) /\ WF_vars(RetryTick) /\ WF_vars(Shutdown)
  /\ WF_vars(\E i \in DOMAIN acks : Ack(i))
  /\ WF_vars(HubReceives)

-----------------------------------------------------------------------------
(* No signal disappears unnoticed while the loop runs: one that was        *)
(* reported is in a queue, was acknowledged, was refused, or is counted in *)
(* signals_dropped - across failed sends, lost connections and requeueing. *)
NoSilentLoss ==
  ~Closed => 1..reported \subseteq Held \union settled \union dropped \union refused

(* A signal is forgotten only when the hub has read it or has refused it:  *)
(* acknowledgements count from the front of inflight, and what they take   *)
(* off must be what the hub read, however they overtake each other         *)
(* and whatever was requeued.  After a refused message the count is off,   *)
(* and its signals are forgotten in place of later ones.                   *)
AckedWasReceived == settled \subseteq received \union discarded

(* What is unacknowledged, what waits for a connection, what is batched    *)
(* and what is in the channel are, in this order, in the order in which the*)
(* channel took them: requeueing puts the oldest back in front.  That is   *)
(* not the order of reporting: report_signal parks a signal the channel has*)
(* no room for in the retry queue, and later ones may pass it there.       *)
Position(s) == CHOOSE i \in 1..Len(entered) : entered[i] = s
BuffersInOrder ==
  LET line == inflight \o pending \o batch \o chan
  IN  \A i, j \in 1..Len(line) : i < j => Position(line[i]) < Position(line[j])

(* A signal the client took is settled in the end: acknowledged, counted   *)
(* as dropped, lost with a loop that has ended, or, once the hub has       *)
(* refused a message without answering, left inflight until a reconnect.   *)
SignalsSettle ==
  \A s \in Signal :
    s \in Held ~> \/ s \in settled \union dropped \/ Closed
                  \/ s \in ToSet(inflight) /\ discarded # {}
=============================================================================
