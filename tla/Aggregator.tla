----------------------------- MODULE Aggregator -----------------------------
(***************************************************************************)
(* The signal aggregator (services/aggregator/index.ts).  Signals arrive   *)
(* from the gateway at any time; a flush merges, stores one after the      *)
(* other and hands to the correlator what was queued when it began, and    *)
(* awaits a database at every step of the way.                             *)
(*                                                                         *)
(* Each element of Signal is one call of queueSignal.  A queued object is  *)
(* an item: the signal whose fields it has kept, and the signals merged    *)
(* into it, of which eventCount is the number and severity the maximum.    *)
(***************************************************************************)
EXTENDS Integers, Sequences, FiniteSets, SequencesExt

CONSTANTS Signal,
          DedupeKey,     \* buildDedupeKey of a signal: its type and address
          IdemKey,       \* its idempotency key, scoped by tenant
          Idempotent,    \* an idempotencyStore is configured
          MaxQueueSize, BatchSize, MaxFlushRetries   \* the config

ASSUME AggregatorAssumption ==
  /\ Idempotent \in BOOLEAN
  /\ MaxQueueSize \in Nat \ {0} /\ BatchSize \in Nat \ {0} /\ MaxFlushRetries \in Nat \ {0}

VARIABLES
  signalBatch, retryQueue,  \* the two queues of items
  phase,       \* what the flush awaits; "idle" when isFlushing is false
  batch,       \* the deduplicated items of the flush
  pos,         \* how many of them are done (processedIndices)
  retryCount,
  seen,        \* keys in the idempotency store
  rows,        \* items created in PostgreSQL, in order
  skipped,     \* items the idempotency store called duplicates
  dropped,     \* items given up: max retries, or overflow of the retry queue
  accepted, rejected,   \* answers of queueSignal
  stop         \* stop(): "no", "flushing", or "done" when it has resolved

queues == <<signalBatch, retryQueue>>
outcome == <<seen, rows, skipped, dropped>>
aggregatorVars == <<queues, phase, batch, pos, retryCount, outcome, accepted, rejected, stop>>

QueuedSignal == [head : Signal, members : SUBSET Signal]
IsItems(q) == Len(q) \in Nat /\ \A i \in 1..Len(q) : q[i] \in QueuedSignal

(* The bound is on both queues together, also when a failed flush puts its *)
(* items back in front of those that arrived meanwhile.                    *)
AggregatorTypeOK ==
  /\ IsItems(signalBatch) /\ IsItems(retryQueue) /\ IsItems(batch) /\ IsItems(rows)
  /\ Len(signalBatch) + Len(retryQueue) <= MaxQueueSize
  /\ phase \in {"idle", "check", "create", "correlate"}
  /\ pos \in 0..Len(batch)
  /\ retryCount \in 0..(MaxFlushRetries - 1)
  /\ seen \subseteq {IdemKey[s] : s \in Signal}
  /\ skipped \subseteq QueuedSignal /\ dropped \subseteq QueuedSignal
  /\ accepted \subseteq Signal /\ rejected \subseteq Signal
  /\ stop \in {"no", "flushing", "done"}

AggregatorInit ==
  /\ signalBatch = << >> /\ retryQueue = << >>
  /\ phase = "idle" /\ batch = << >> /\ pos = 0
  /\ retryCount = 0
  /\ seen = {} /\ rows = << >> /\ skipped = {} /\ dropped = {}
  /\ accepted = {} /\ rejected = {}
  /\ stop = "no"

isFlushingBatch == phase # "idle"

-----------------------------------------------------------------------------
SameKey(a, b) == DedupeKey[a.head] = DedupeKey[b.head]

(* deduplicateSignals: the first item with a key absorbs the later ones.   *)
(* p lists the places of those that stay, in order.                        *)
FirstOfKey(q) == {i \in 1..Len(q) : \A j \in 1..(i - 1) : ~SameKey(q[i], q[j])}
Merged(q, a) == UNION {q[j].members : j \in {k \in 1..Len(q) : SameKey(q[k], a)}}

deduplicateSignals(q) ==
  {[n \in DOMAIN p |-> [head |-> q[p[n]].head, members |-> Merged(q, q[p[n]])]] :
     p \in {r \in SetToSeqs(FirstOfKey(q)) : \A m, n \in DOMAIN r : m < n => r[m] < r[n]}}

(* Where storeSignal begins for an item.                                   *)
StorePhase == IF Idempotent THEN "check" ELSE "create"

(* flushBatch, up to its first await: the queues sb and rq are taken.      *)
FlushBegins(sb, rq) ==
  /\ batch' \in deduplicateSignals(sb \o rq)
  /\ pos' = 0
  /\ phase' = StorePhase
  /\ signalBatch' = << >> /\ retryQueue' = << >>

-----------------------------------------------------------------------------
(* The memory bound of queueSignal.                                        *)
Full == Len(signalBatch) + Len(retryQueue) >= MaxQueueSize

(* queueSignal.  The gateways are closed before stop() is called.          *)
Reject(s) ==
  /\ Full
  /\ rejected' = rejected \cup {s}
  /\ UNCHANGED <<queues, phase, batch, pos, accepted>>

QueueDuringFlush(s) ==
  /\ ~Full /\ isFlushingBatch
  /\ retryQueue' = Append(retryQueue, [head |-> s, members |-> {s}])
  /\ accepted' = accepted \cup {s}
  /\ UNCHANGED <<signalBatch, phase, batch, pos, rejected>>

QueueInBatch(s) ==
  LET sb == Append(signalBatch, [head |-> s, members |-> {s}])
  IN  /\ ~Full /\ ~isFlushingBatch
      /\ accepted' = accepted \cup {s}
      /\ IF Len(sb) >= BatchSize
         THEN FlushBegins(sb, retryQueue)
         ELSE signalBatch' = sb /\ UNCHANGED <<retryQueue, phase, batch, pos>>
      /\ UNCHANGED rejected

queueSignal(s) ==
  /\ s \notin accepted \cup rejected /\ stop = "no"
  /\ Reject(s) \/ QueueDuringFlush(s) \/ QueueInBatch(s)
  /\ UNCHANGED <<retryCount, outcome, stop>>

Waiting_BatchOnly == signalBatch # << >>

(* flushBatch has something to do.                                         *)
Waiting == signalBatch # << >> \/ retryQueue # << >>

(* The batch timer.                                                        *)
BatchTimer ==
  /\ stop = "no" /\ ~isFlushingBatch /\ Waiting
  /\ FlushBegins(signalBatch, retryQueue)
  /\ UNCHANGED <<retryCount, outcome, accepted, rejected, stop>>

-----------------------------------------------------------------------------
(* The item storeSignal is working on.                                     *)
Current == batch[pos + 1]

Advance ==
  /\ pos' = pos + 1
  /\ phase' = IF pos + 1 < Len(batch) THEN StorePhase ELSE "correlate"
  /\ UNCHANGED <<queues, batch, retryCount, accepted, rejected, stop>>

(* idempotencyStore.checkAndAdd finds the key new, and records it ...      *)
KeyIsNew ==
  /\ phase = "check" /\ IdemKey[Current.head] \notin seen
  /\ seen' = seen \cup {IdemKey[Current.head]}
  /\ phase' = "create"
  /\ UNCHANGED <<queues, batch, pos, retryCount, rows, skipped, dropped, accepted, rejected,
                 stop>>

(* ... or finds it used: the item counts as stored, under the id of a row  *)
(* that looks the same or under a made-up one.                             *)
KeyIsUsed ==
  /\ phase = "check" /\ IdemKey[Current.head] \in seen
  /\ skipped' = skipped \cup {Current}
  /\ Advance
  /\ UNCHANGED <<seen, rows, dropped>>

(* prisma.signal.create succeeds.                                          *)
Create ==
  /\ phase = "create"
  /\ rows' = Append(rows, Current)
  /\ Advance
  /\ UNCHANGED <<seen, skipped, dropped>>

(* The flush is over, one way or the other, and with it stop().            *)
FlushEnds ==
  /\ phase' = "idle" /\ batch' = << >> /\ pos' = 0
  /\ stop' = IF stop = "flushing" THEN "done" ELSE stop
  /\ UNCHANGED <<signalBatch, accepted, rejected>>

AfterSuccess_Clears == << >>

(* What a successful flush leaves in the retry queue.                      *)
AfterSuccess == retryQueue

(* correlator.analyzeSignals succeeds; what it does with the batch belongs *)
(* to the correlator.                                                      *)
Correlate ==
  /\ phase = "correlate"
  /\ retryCount' = 0
  /\ retryQueue' = AfterSuccess
  /\ FlushEnds
  /\ UNCHANGED <<seen, rows, skipped, dropped>>

Overflow_None(combined) == 0

(* The catch block of flushBatch.  The items not yet done go in front of   *)
(* what arrived meanwhile, the oldest falling off; after maxRetries        *)
(* failures in a row they are dropped.                                     *)
Remaining == SubSeq(batch, pos + 1, Len(batch))

Overflow(combined) ==
  IF Len(combined) > MaxQueueSize THEN Len(combined) - MaxQueueSize ELSE 0

GivesUp == retryCount + 1 >= MaxFlushRetries

FlushBatchFails ==
  LET combined == Remaining \o retryQueue
      n == Overflow(combined)
  IN  /\ isFlushingBatch
      /\ IF GivesUp
         THEN /\ dropped' = dropped \cup ToSet(Remaining)
              /\ retryCount' = 0
              /\ UNCHANGED retryQueue
         ELSE /\ retryCount' = retryCount + 1
              /\ retryQueue' = SubSeq(combined, n + 1, Len(combined))
              /\ dropped' = dropped \cup ToSet(SubSeq(combined, 1, n))
      /\ FlushEnds
      /\ UNCHANGED <<seen, rows, skipped>>

(* stop(): the timer is cleared, and flushBatch awaited, which returns at  *)
(* once when a flush is under way or nothing waits.                        *)
Stop ==
  /\ stop = "no"
  /\ IF ~isFlushingBatch /\ Waiting
     THEN FlushBegins(signalBatch, retryQueue) /\ stop' = "flushing"
     ELSE stop' = "done" /\ UNCHANGED <<queues, phase, batch, pos>>
  /\ UNCHANGED <<retryCount, outcome, accepted, rejected>>

FlushBatchStep == KeyIsNew \/ KeyIsUsed \/ Create \/ Correlate \/ FlushBatchFails

AggregatorNext ==
  \/ \E s \in Signal : queueSignal(s)
  \/ BatchTimer \/ FlushBatchStep \/ Stop

AggregatorSpec == AggregatorInit /\ [][AggregatorNext]_aggregatorVars

(* The batch timer ticks, and each awaited call of a flush returns.        *)
FairAggregatorSpec ==
  AggregatorSpec /\ WF_aggregatorVars(BatchTimer) /\ WF_aggregatorVars(FlushBatchStep)

-----------------------------------------------------------------------------
(* How often a signal is counted in a sequence, or set, of items.          *)
Times(s, q) == Cardinality({i \in 1..Len(q) : s \in q[i].members})
In(s, S) == Cardinality({item \in S : s \in item.members})

(* Every accepted signal is counted exactly once: in a queue, in what is   *)
(* left of the flush, in a row, as a duplicate or as dropped.  No signal   *)
(* that arrives during a flush is wiped out by its end, none is stored     *)
(* again by a retry, and a merge neither loses nor doubles an event.       *)
AcceptedIsAccounted ==
  \A s \in accepted :
    Times(s, signalBatch) + Times(s, retryQueue) + Times(s, Remaining)
      + Times(s, rows) + In(s, skipped) + In(s, dropped) = 1

(* Until shutdown, an accepted signal ends up in a row, as a duplicate or  *)
(* dropped: no failure of the database keeps it queued for ever.           *)
Settled(s) == Times(s, rows) + In(s, skipped) + In(s, dropped) > 0
AcceptedIsSettled ==
  \A s \in Signal : s \in accepted ~> (Settled(s) \/ stop # "no")

=============================================================================
