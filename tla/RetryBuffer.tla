----------------------------- MODULE RetryBuffer -----------------------------
(***************************************************************************)
(* The ClickHouse retry buffer (storage/clickhouse/retry-buffer.ts) and    *)
(* its file (persistent-store.ts).  A write that fails is buffered and     *)
(* retried in the background; flush() and stop() drain or save the buffer  *)
(* at shutdown, and start() loads the file.  Every write awaits ClickHouse *)
(* and everything else may happen meanwhile: only the draining operations  *)
(* exclude each other, through the chain of promises opTail.               *)
(*                                                                         *)
(* A write that is rejected need not have failed: the client gives up on a *)
(* request after request_timeout, or loses the connection, and ClickHouse  *)
(* may have applied it or may still.  What ClickHouse has acknowledged     *)
(* counts as stored; in production it acknowledges an asynchronous insert  *)
(* before the rows are in the table (wait_for_async_insert 0).             *)
(*                                                                         *)
(* Item n is the n-th call of an insert method.                            *)
(***************************************************************************)
EXTENDS Integers, Sequences, SequencesExt, FiniteSets

CONSTANTS NumItems,
          MaxBufferSize, MaxRetries, RetryBatchSize,   \* the config
          MaxShutdowns     \* bound on calls of flush and stop

ASSUME RetryBufferAssumption ==
  /\ NumItems \in Nat /\ MaxShutdowns \in Nat
  /\ MaxBufferSize \in Nat \ {0} /\ MaxRetries \in Nat \ {0}
  /\ RetryBatchSize \in Nat \ {0}

Item == 1..NumItems

VARIABLES
  calls,       \* insert calls whose first write has ended
  buffer,      \* items awaiting retry, oldest first
  attempts,    \* attempts of each item
  due,         \* buffered items whose backoff has passed
  retryTimer,  \* the interval runs
  opTail,      \* who holds the mutex, then who waits for it
  isProcessing,
  readyItems,  \* what is left of the batch being retried, current item first
  flush,       \* "no", "working" (isFlushing) or "done"
  itemsToFlush,
  file,        \* the persistent store: items with the attempts they had
  late,        \* writes nobody waits for any more, which may still take effect
  stored,      \* how often each item was written: 0, 1, or 2 for more
  dlq,         \* items logged to the dead letter queue
  flushFailed, \* items whose write failed during the flush
  abandoned,   \* items with a write that timed out or was rejected, yet may count
  restored,    \* items that were loaded from the file
  gone,        \* items that died with the process
  shutdowns    \* calls of flush and stop

shutdown == <<flush, itemsToFlush, file>>
retrying == <<opTail, isProcessing, readyItems>>
history == <<abandoned, restored, gone>>
vars == <<calls, buffer, attempts, due, retryTimer, retrying, shutdown, late,
          stored, dlq, flushFailed, history, shutdowns>>

Operation == {"retry", "flush", "stop", "saving"}

TypeOK ==
  /\ calls \in 0..NumItems
  /\ buffer \in Seq(Item) /\ Len(buffer) <= MaxBufferSize /\ IsInjective(buffer)
  /\ readyItems \in Seq(Item)
  /\ itemsToFlush \in Seq(Item)
  /\ file \in Seq([item : Item, attempts : Nat])
  /\ attempts \in [Item -> Nat]
  /\ due \subseteq Item
  /\ retryTimer \in BOOLEAN /\ isProcessing \in BOOLEAN
  /\ opTail \in Seq(Operation)
  /\ flush \in {"no", "working", "done"}
  /\ stored \in [Item -> 0..2]
  /\ \A S \in {late, dlq, flushFailed, abandoned, restored, gone} : S \subseteq Item
  /\ shutdowns \in 0..MaxShutdowns

Init ==
  /\ calls = 0
  /\ buffer = << >> /\ attempts = [i \in Item |-> 0] /\ due = {}
  /\ retryTimer = TRUE
  /\ opTail = << >> /\ isProcessing = FALSE /\ readyItems = << >>
  /\ flush = "no" /\ itemsToFlush = << >> /\ file = << >>
  /\ late = {} /\ stored = [i \in Item |-> 0]
  /\ dlq = {} /\ flushFailed = {}
  /\ abandoned = {} /\ restored = {} /\ gone = {} /\ shutdowns = 0

isFlushing == flush = "working"
Holds(op) == opTail # << >> /\ Head(opTail) = op

Written(i) == [stored EXCEPT ![i] = IF @ = 2 THEN 2 ELSE @ + 1]

(* indexOf and splice.                                                     *)
Without(q, i) ==
  IF i \in ToSet(q) THEN RemoveAt(q, CHOOSE k \in DOMAIN q : q[k] = i) ELSE q

-----------------------------------------------------------------------------
(* insertSignalEvents and its four siblings, when the write has ended: a   *)
(* call changes nothing before that.                                       *)
InsertSucceeds(i) ==
  /\ i = calls + 1 /\ calls' = i
  /\ stored' = Written(i)
  /\ UNCHANGED <<buffer, attempts, due, retryTimer, retrying, shutdown, late, dlq,
                 flushFailed, history, shutdowns>>

(* During a flush a failed write goes to the dead letter queue; a full     *)
(* buffer makes room by moving its oldest item there.                      *)
bufferForRetry_Forgets(i) ==
  /\ buffer' = IF Len(buffer) >= MaxBufferSize THEN buffer ELSE Append(buffer, i)
  /\ attempts' = [attempts EXCEPT ![i] = 1]
  /\ UNCHANGED <<due, dlq>>
bufferForRetry(i) ==
  \/ /\ isFlushing
     /\ dlq' = dlq \union {i}
     /\ UNCHANGED <<buffer, attempts, due>>
  \/ /\ ~isFlushing
     /\ attempts' = [attempts EXCEPT ![i] = 1]
     /\ IF Len(buffer) >= MaxBufferSize
          THEN /\ buffer' = Append(Tail(buffer), i)
               /\ dlq' = dlq \union {Head(buffer)}
               /\ due' = due \ {Head(buffer)}
          ELSE buffer' = Append(buffer, i) /\ UNCHANGED <<dlq, due>>

(* A write the caller has given up on changed nothing, or may yet be found *)
(* in the table.                                                           *)
GivenUp(i) ==
  \/ UNCHANGED <<late, abandoned>>
  \/ late' = late \union {i} /\ abandoned' = abandoned \union {i}

InsertFails(i) ==
  /\ i = calls + 1 /\ calls' = i
  /\ bufferForRetry(i)
  /\ GivenUp(i)
  /\ UNCHANGED <<retryTimer, retrying, shutdown, stored, flushFailed, restored, gone, shutdowns>>

(* nextRetryAt of a buffered item is reached.                              *)
BackoffPasses(i) ==
  /\ i \in ToSet(buffer) \ due
  /\ due' = due \union {i}
  /\ UNCHANGED <<calls, buffer, attempts, retryTimer, retrying, shutdown, late,
                 stored, dlq, flushFailed, history, shutdowns>>

-----------------------------------------------------------------------------
(* processRetries: the gate, the mutex, the batch.                         *)
Tick ==
  /\ retryTimer /\ ~isProcessing /\ buffer # << >>
  /\ isProcessing' = TRUE
  /\ opTail' = Append(opTail, "retry")
  /\ UNCHANGED <<calls, buffer, attempts, due, retryTimer, readyItems, shutdown,
                 late, stored, dlq, flushFailed, history, shutdowns>>

(* filter and slice: where the first RetryBatchSize due items stand.       *)
Ready == {k \in DOMAIN buffer : buffer[k] \in due}
FirstReady == {k \in Ready : Cardinality({j \in Ready : j < k}) < RetryBatchSize}

RetryBegins ==
  /\ Holds("retry") /\ readyItems = << >>
  /\ IF Ready = {}
       THEN isProcessing' = FALSE /\ opTail' = Tail(opTail) /\ UNCHANGED readyItems
       ELSE /\ \E p \in SetToSeqs(FirstReady) :
                 /\ \A m, n \in DOMAIN p : m < n => p[m] < p[n]
                 /\ readyItems' = [n \in DOMAIN p |-> buffer[p[n]]]
            /\ UNCHANGED <<isProcessing, opTail>>
  /\ UNCHANGED <<calls, buffer, attempts, due, retryTimer, shutdown, late, stored,
                 dlq, flushFailed, history, shutdowns>>

(* After an item: the next one, or the end of the batch.                   *)
NextItem_StaysProcessing ==
  /\ readyItems' = Tail(readyItems)
  /\ opTail' = IF Len(readyItems) = 1 THEN Tail(opTail) ELSE opTail
  /\ UNCHANGED isProcessing
NextItem ==
  /\ readyItems' = Tail(readyItems)
  /\ IF Len(readyItems) = 1
       THEN isProcessing' = FALSE /\ opTail' = Tail(opTail)
       ELSE UNCHANGED <<isProcessing, opTail>>

RetrySucceeds ==
  /\ readyItems # << >>
  /\ LET i == Head(readyItems)
     IN  /\ stored' = Written(i)
         /\ buffer' = Without(buffer, i)
         /\ due' = due \ {i}
  /\ NextItem
  /\ UNCHANGED <<calls, attempts, retryTimer, shutdown, late, dlq, flushFailed,
                 history, shutdowns>>

Exhausted(n) == n >= MaxRetries

(* The write is rejected, or Promise.race is lost to the timer and it goes *)
(* on unattended: the catch of the loop takes both.                        *)
RetryFails ==
  /\ readyItems # << >>
  /\ LET i == Head(readyItems)
     IN  /\ attempts' = [attempts EXCEPT ![i] = @ + 1]
         /\ IF Exhausted(attempts[i] + 1)
              THEN buffer' = Without(buffer, i) /\ dlq' = dlq \union {i}
              ELSE UNCHANGED <<buffer, dlq>>
         /\ due' = due \ {i}
         /\ GivenUp(i)
  /\ NextItem
  /\ UNCHANGED <<calls, retryTimer, shutdown, stored, flushFailed, restored, gone, shutdowns>>

(* A write given up on takes effect, sooner, later or never.               *)
LateWrite(i) ==
  /\ i \in late
  /\ late' = late \ {i}
  /\ stored' = Written(i)
  /\ UNCHANGED <<calls, buffer, attempts, due, retryTimer, retrying, shutdown, dlq,
                 flushFailed, history, shutdowns>>

-----------------------------------------------------------------------------
Called == shutdowns < MaxShutdowns /\ shutdowns' = shutdowns + 1

(* flush(): the items are taken under the mutex, and written after it.     *)
(* A process calls it once, in the shutdown that one signal asks for.      *)
FlushCalled ==
  /\ Called
  /\ flush = "no" /\ "flush" \notin ToSet(opTail)
  /\ opTail' = Append(opTail, "flush")
  /\ UNCHANGED <<calls, buffer, attempts, due, retryTimer, isProcessing, readyItems,
                 shutdown, late, stored, dlq, flushFailed, history>>

FlushTakes_Unlocked ==
  /\ "flush" \in ToSet(opTail)
  /\ opTail' = Without(opTail, "flush")
  /\ retryTimer' = FALSE
  /\ itemsToFlush' = buffer
  /\ buffer' = << >> /\ due' = {}
  /\ flush' = IF buffer = << >> THEN "done" ELSE "working"
  /\ UNCHANGED <<calls, attempts, isProcessing, readyItems, file, late, stored, dlq,
                 flushFailed, history, shutdowns>>
FlushTakes ==
  /\ Holds("flush")
  /\ opTail' = Tail(opTail)
  /\ retryTimer' = FALSE
  /\ itemsToFlush' = buffer
  /\ buffer' = << >> /\ due' = {}
  /\ flush' = IF buffer = << >> THEN "done" ELSE "working"
  /\ UNCHANGED <<calls, attempts, isProcessing, readyItems, file, late, stored, dlq,
                 flushFailed, history, shutdowns>>

FlushedOne ==
  /\ isFlushing
  /\ itemsToFlush' = Tail(itemsToFlush)
  /\ flush' = IF Len(itemsToFlush) = 1 THEN "done" ELSE "working"
  /\ UNCHANGED <<calls, buffer, attempts, due, retryTimer, retrying, file, dlq, restored,
                 gone, shutdowns>>

FlushSucceeds ==
  /\ FlushedOne
  /\ stored' = Written(Head(itemsToFlush))
  /\ UNCHANGED <<flushFailed, late, abandoned>>

(* A write that is rejected is only counted.                               *)
FlushFails ==
  /\ FlushedOne
  /\ flushFailed' = flushFailed \union {Head(itemsToFlush)}
  /\ GivenUp(Head(itemsToFlush))
  /\ UNCHANGED stored

(* The timeout: what is not completed goes to the dead letter queue, the   *)
(* item being written included.                                            *)
FlushTimesOut ==
  /\ isFlushing
  /\ flush' = "done"
  /\ dlq' = dlq \union ToSet(itemsToFlush)
  /\ late' = late \union {Head(itemsToFlush)}
  /\ abandoned' = abandoned \union {Head(itemsToFlush)}
  /\ itemsToFlush' = << >>
  /\ UNCHANGED <<calls, buffer, attempts, due, retryTimer, retrying, file, stored,
                 flushFailed, restored, gone, shutdowns>>

(* stop(): the buffer is saved, as it is when save() has made the          *)
(* directory; the save may fail.                                           *)
StopCalled ==
  /\ Called
  /\ opTail' = Append(opTail, "stop")
  /\ UNCHANGED <<calls, buffer, attempts, due, retryTimer, isProcessing, readyItems,
                 shutdown, late, stored, dlq, flushFailed, history>>

StopBegins ==
  /\ Holds("stop")
  /\ retryTimer' = FALSE
  /\ opTail' = IF buffer = << >> THEN Tail(opTail) ELSE <<"saving">> \o Tail(opTail)
  /\ UNCHANGED <<calls, buffer, attempts, due, isProcessing, readyItems, shutdown,
                 late, stored, dlq, flushFailed, history, shutdowns>>

StopSaves ==
  /\ Holds("saving")
  /\ opTail' = Tail(opTail)
  /\ file' \in {file, [k \in DOMAIN buffer |->
                        [item |-> buffer[k], attempts |-> attempts[buffer[k]]]]}
  /\ UNCHANGED <<calls, buffer, attempts, due, retryTimer, isProcessing, readyItems,
                 flush, itemsToFlush, late, stored, dlq, flushFailed, history, shutdowns>>

(* The process ends in or after a shutdown, and starts again: start()      *)
(* loads the file and removes it, which may fail.  What ClickHouse has     *)
(* already received is not called back.                                    *)
InFile == {file[k].item : k \in DOMAIN file}
InMemory == ToSet(buffer) \union ToSet(itemsToFlush)

Restart ==
  /\ ~retryTimer
  /\ gone' = gone \union (InMemory \ InFile)
  /\ buffer' = [k \in DOMAIN file |-> file[k].item] /\ due' = {}
  /\ attempts' = [i \in Item |->
                    IF i \in InFile
                      THEN (CHOOSE f \in ToSet(file) : f.item = i).attempts
                      ELSE attempts[i]]
  /\ restored' = restored \union InFile
  /\ file' \in {file, << >>}
  /\ retryTimer' = TRUE
  /\ opTail' = << >> /\ isProcessing' = FALSE /\ readyItems' = << >>
  /\ flush' = "no" /\ itemsToFlush' = << >>
  /\ UNCHANGED <<calls, late, stored, dlq, flushFailed, abandoned, shutdowns>>

RetryStep == RetryBegins \/ RetrySucceeds \/ RetryFails
FlushStep == FlushTakes \/ FlushSucceeds \/ FlushFails \/ FlushTimesOut

Next ==
  \/ \E i \in Item : \/ InsertSucceeds(i) \/ InsertFails(i)
                     \/ BackoffPasses(i) \/ LateWrite(i)
  \/ Tick \/ RetryStep
  \/ FlushCalled \/ FlushStep
  \/ StopCalled \/ StopBegins \/ StopSaves
  \/ Restart

Spec == Init /\ [][Next]_vars

(* Time passes, the interval ticks, and whoever holds the mutex goes on:   *)
(* each write ends, by its timeout if not otherwise.                       *)
HolderStep == RetryStep \/ FlushTakes \/ StopBegins \/ StopSaves

FairSpec ==
  /\ Spec
  /\ WF_vars(Tick) /\ WF_vars(HolderStep)
  /\ \A i \in Item : WF_vars(BackoffPasses(i))

-----------------------------------------------------------------------------
Failed(i) == i <= calls /\ stored[i] = 0

(* No item is lost unnoticed: one whose write failed is in the buffer, in  *)
(* the flush, in the file or in the dead letter queue - unless its write   *)
(* failed in the flush, which only counts it, or the process died with it. *)
LossIsLogged ==
  \A i \in Item : Failed(i) =>
    \/ i \in ToSet(buffer) \union ToSet(itemsToFlush) \union InFile
    \/ i \in dlq \union flushFailed \union gone

(* An item is written twice only when a write the buffer had given up on,  *)
(* timed out or rejected, took effect after all, or the file brought back  *)
(* what the old process had still written: the mutex keeps retries and     *)
(* flush from writing the same item.                                       *)
DuplicateHasCause ==
  \A i \in Item : stored[i] = 2 => i \in abandoned \union restored

(* While the interval runs, every buffered item is written or given up in  *)
(* the end.                                                                *)
BufferedIsSettled ==
  \A i \in Item :
    i \in ToSet(buffer) ~> (i \notin ToSet(buffer) \/ ~retryTimer)
=============================================================================
