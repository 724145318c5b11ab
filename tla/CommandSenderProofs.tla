------------------------ MODULE CommandSenderProofs ------------------------
(***************************************************************************)
(* Proofs about CommandSender for any number of sensors, commands and      *)
(* attempts, and any limits.  The invariant is stated over explicit        *)
(* arguments, because trySendNext runs on the state its caller has just    *)
(* computed; one lemma then covers all its callers.                        *)
(***************************************************************************)
EXTENDS CommandSender, FiniteSetTheorems, TLAPS

Typed(st, at, qs, fl, tm) ==
  /\ st \in [Id -> CommandStatus]
  /\ at \in [Id -> Nat]
  /\ qs \in [Sensor -> Seq(Id)]
  /\ fl \in [Sensor -> Id \cup {NoId}]
  /\ tm \in [Id -> {"off", "own", "orphan"}]

Coherent(st, at, qs, fl, tm) ==
  /\ \A id \in Id : st[id] = "sent" => fl[SensorOf[id]] = id
  /\ \A s \in Sensor : fl[s] # NoId => SensorOf[fl[s]] = s /\ tm[fl[s]] # "off"
  /\ \A id \in Id : tm[id] = "own" <=> st[id] = "sent"
  /\ \A id \in Id : at[id] <= MaxAttempts[id]
  /\ \A s \in Sensor : \A i \in 1..Len(qs[s]) : SensorOf[qs[s][i]] = s
  /\ \A id \in Id : st[id] = "pending" => at[id] = 0

(* Splicing an entry out of a queue leaves a queue of entries it had.      *)
LEMMA WithoutFact ==
  ASSUME NEW q \in Seq(Id), NEW id
  PROVE  /\ Without(q, id) \in Seq(Id)
         /\ \A i \in 1..Len(Without(q, id)) : \E j \in 1..Len(q) : Without(q, id)[i] = q[j]
<1>1. CASE ~ \E i \in 1..Len(q) : q[i] = id
  BY <1>1 DEF Without
<1>2. CASE \E i \in 1..Len(q) : q[i] = id
  <2> DEFINE k == CHOOSE i \in 1..Len(q) : q[i] = id /\ \A j \in 1..(i-1) : q[j] # id
             n == Len(q) - 1
             r == [i \in 1..n |-> IF i < k THEN q[i] ELSE q[i+1]]
  <2>1. Without(q, id) = r
    BY <1>2 DEF Without
  <2>2. n \in Nat
    BY <1>2
  <2> HIDE DEF k
  <2>3. \A i \in 1..n : i \in 1..Len(q) /\ i+1 \in 1..Len(q) /\ r[i] \in {q[i], q[i+1]}
    BY <2>2
  <2>4. \A i \in 1..n : r[i] \in Id
    BY <2>3
  <2>5. r \in Seq(Id) /\ Len(r) = n
    BY <2>2, <2>4
  <2> QED
    BY <2>1, <2>3, <2>5
<1> QED
  BY <1>1, <1>2

(* The same for shifting a prefix out, past the end included.              *)
LEMMA SuffixFact ==
  ASSUME NEW q \in Seq(Id), NEW k \in Nat \ {0}, k <= Len(q) + 2
  PROVE  /\ Suffix(q, k) \in Seq(Id)
         /\ \A i \in 1..Len(Suffix(q, k)) : \E j \in 1..Len(q) : Suffix(q, k)[i] = q[j]
<1> DEFINE m == Len(q) - k + 1
           n == IF m < 0 THEN 0 ELSE m
           r == [i \in 1..n |-> q[i+k-1]]
<1>1. n \in Nat /\ 1..m = 1..n
  OBVIOUS
<1>2. Suffix(q, k) = r
  BY <1>1 DEF Suffix
<1>3. \A i \in 1..n : i+k-1 \in 1..Len(q) /\ r[i] = q[i+k-1] /\ r[i] \in Id
  BY <1>1
<1>4. r \in Seq(Id) /\ Len(r) = n
  BY <1>1, <1>3
<1> QED
  BY <1>2, <1>3, <1>4

(* Queues stay queues of their own sensor's commands under removeFromQueue.*)
LEMMA RemoveFact ==
  ASSUME NEW qs \in [Sensor -> Seq(Id)], NEW id,
         \A s \in Sensor : \A i \in 1..Len(qs[s]) : SensorOf[qs[s][i]] = s
  PROVE  /\ removeFromQueue(qs, id) \in [Sensor -> Seq(Id)]
         /\ \A s \in Sensor : \A i \in 1..Len(removeFromQueue(qs, id)[s]) :
               SensorOf[removeFromQueue(qs, id)[s][i]] = s
<1>1. \A s \in Sensor : removeFromQueue(qs, id)[s] \in {qs[s], Without(qs[s], id)}
  BY DEF removeFromQueue
<1>2. \A s \in Sensor : /\ Without(qs[s], id) \in Seq(Id)
                        /\ \A i \in 1..Len(Without(qs[s], id)) :
                              SensorOf[Without(qs[s], id)[i]] = s
  BY WithoutFact
<1>3. removeFromQueue(qs, id) = [s \in Sensor |-> removeFromQueue(qs, id)[s]]
  BY DEF removeFromQueue
<1> QED
  BY <1>1, <1>2, <1>3

LEMMA RemoveFactPrimed ==
  ASSUME NEW qs \in [Sensor -> Seq(Id)], NEW id,
         \A s \in Sensor : \A i \in 1..Len(qs[s]) : SensorOf[qs[s][i]] = s,
         queue' = removeFromQueue(qs, id)
  PROVE  /\ queue' \in [Sensor -> Seq(Id)]
         /\ \A s \in Sensor : \A i \in 1..Len(queue'[s]) : SensorOf[queue'[s][i]] = s
<1> DEFINE qr == removeFromQueue(qs, id)
<1>1. /\ qr \in [Sensor -> Seq(Id)]
      /\ \A s \in Sensor : \A i \in 1..Len(qr[s]) : SensorOf[qr[s][i]] = s
  BY RemoveFact
<1> HIDE DEF qr
<1>2. queue' = qr
  BY DEF qr
<1> QED
  BY <1>1, <1>2

(***************************************************************************)
(* trySendNext keeps the state its caller computed coherent.               *)
(***************************************************************************)
LEMMA TrySendNextFact ==
  ASSUME NEW s \in Sensor, NEW st, NEW at, NEW qs, NEW fl, NEW tm, NEW ev,
         Typed(st, at, qs, fl, tm), Coherent(st, at, qs, fl, tm),
         TrySendNext(s, st, at, qs, fl, tm, ev)
  PROVE  /\ Typed(status', attempts', queue', inflight', timer')
         /\ Coherent(status', attempts', queue', inflight', timer')
<1> DEFINE q == qs[s]
           pending == {id \in Id : st[id] = "pending"}
<1>t. q \in Seq(Id) /\ Len(q) \in Nat
  BY DEF Typed
<1>a. SensorOf \in [Id -> Sensor] /\ MaxAttempts \in [Id -> Nat \ {0}] /\ NoId \notin Id
  BY SenderAssumption
<1>o. \A j \in 1..Len(q) : SensorOf[q[j]] = s
  BY DEF Coherent
<1>f. ASSUME NEW m \in Nat \ {0}, m <= Len(q) + 2
      PROVE  /\ Suffix(q, m) \in Seq(Id)
             /\ \A i \in 1..Len(Suffix(q, m)) : SensorOf[Suffix(q, m)[i]] = s
  <2> HIDE DEF q
  <2>1. /\ Suffix(q, m) \in Seq(Id)
        /\ \A i \in 1..Len(Suffix(q, m)) : \E j \in 1..Len(q) : Suffix(q, m)[i] = q[j]
    BY <1>t, <1>f, SuffixFact
  <2> QED
    BY <1>o, <2>1
<1>1. CASE fl[s] # NoId
  BY <1>1 DEF TrySendNext
<1>2. CASE fl[s] = NoId /\ conn'[s] # "open"
  <2>1. PICK k \in 1..(Len(q)+1) : queue' = [qs EXCEPT ![s] = Suffix(q, k)]
    BY <1>2 DEF TrySendNext
  <2>2. status' = st /\ attempts' = at /\ inflight' = fl /\ timer' = tm
    BY <1>2 DEF TrySendNext
  <2>3. /\ Suffix(q, k) \in Seq(Id)
        /\ \A i \in 1..Len(Suffix(q, k)) : SensorOf[Suffix(q, k)[i]] = s
    <3> HIDE DEF q
    <3> QED
      BY <1>t, <1>f
  <2>4. queue' \in [Sensor -> Seq(Id)]
    BY <2>1, <2>3 DEF Typed
  <2>5. \A u \in Sensor : \A i \in 1..Len(queue'[u]) : SensorOf[queue'[u][i]] = u
    BY <2>1, <2>3 DEF Typed, Coherent
  <2> QED
    BY <2>2, <2>4, <2>5 DEF Typed, Coherent
<1>3. CASE fl[s] = NoId /\ conn'[s] = "open"
  <2> DEFINE Threw(k) == {q[i] : i \in 1..(k-1)} \cap pending
             Sent(k)  == {q[i] : i \in {k} \cap (1..Len(q))}
  <2>1. PICK k \in 1..(Len(q)+1) :
          /\ FirstIn(q, pending \ Unsendable, k)
          /\ status' = [id \in Id |-> IF id \in Threw(k) THEN "failed"
                                      ELSE IF id \in Sent(k) THEN "sent" ELSE st[id]]
          /\ attempts' = [id \in Id |-> IF id \in Threw(k) \cup Sent(k)
                                        THEN at[id] + 1 ELSE at[id]]
          /\ timer' = [id \in Id |-> IF id \in Threw(k) THEN "off"
                                     ELSE IF id \in Sent(k) THEN "own" ELSE tm[id]]
          /\ inflight' = [fl EXCEPT ![s] = IF k <= Len(q) THEN q[k] ELSE NoId]
          /\ queue' = [qs EXCEPT ![s] = Suffix(q, k+1)]
    BY <1>3 DEF TrySendNext
  <2> DEFINE threw == Threw(k)
             sent  == Sent(k)
  <2>2. /\ \A id \in threw : id \in Id /\ st[id] = "pending" /\ at[id] = 0 /\ SensorOf[id] = s
        /\ \A id \in sent : /\ id \in Id /\ st[id] = "pending" /\ at[id] = 0
                            /\ SensorOf[id] = s /\ k <= Len(q) /\ id = q[k]
        /\ k <= Len(q) => q[k] \in sent
    BY <1>t, <2>1 DEF FirstIn, Coherent
  <2>3. threw \cap sent = {}
    BY <1>t, <2>1 DEF FirstIn
  <2>4. /\ Suffix(q, k+1) \in Seq(Id)
        /\ \A i \in 1..Len(Suffix(q, k+1)) : SensorOf[Suffix(q, k+1)[i]] = s
    <3> HIDE DEF q
    <3>1. k + 1 \in Nat \ {0} /\ k + 1 <= Len(q) + 2
      BY <1>t
    <3> QED
      BY <3>1, <1>f
  <2>5. queue' \in [Sensor -> Seq(Id)]
    BY <2>1, <2>4 DEF Typed
  <2>6. \A u \in Sensor : \A i \in 1..Len(queue'[u]) : SensorOf[queue'[u][i]] = u
    BY <2>1, <2>4 DEF Typed, Coherent
  <2> HIDE DEF threw, sent
  <2>7. /\ status' \in [Id -> CommandStatus]
        /\ attempts' \in [Id -> Nat]
        /\ timer' \in [Id -> {"off", "own", "orphan"}]
    BY <2>1 DEF threw, sent, Typed, CommandStatus, Terminal
  <2>8. inflight' \in [Sensor -> Id \cup {NoId}]
    BY <1>t, <2>1 DEF Typed
  <2>s. /\ \A id \in Id : status'[id] = IF id \in threw THEN "failed"
                                        ELSE IF id \in sent THEN "sent" ELSE st[id]
        /\ \A id \in Id : attempts'[id] = IF id \in threw \cup sent THEN at[id] + 1 ELSE at[id]
        /\ \A id \in Id : timer'[id] = IF id \in threw THEN "off"
                                        ELSE IF id \in sent THEN "own" ELSE tm[id]
        /\ inflight'[s] = IF k <= Len(q) THEN q[k] ELSE NoId
        /\ \A u \in Sensor \ {s} : inflight'[u] = fl[u]
    BY <2>1 DEF threw, sent, Typed
  <2>9. \A id \in Id : status'[id] = "sent" => inflight'[SensorOf[id]] = id
    BY <1>3, <1>a, <2>2, <2>s DEF Coherent
  <2>10. \A u \in Sensor : inflight'[u] # NoId =>
           SensorOf[inflight'[u]] = u /\ timer'[inflight'[u]] # "off"
    <3> SUFFICES ASSUME NEW u \in Sensor, inflight'[u] # NoId
                 PROVE  SensorOf[inflight'[u]] = u /\ timer'[inflight'[u]] # "off"
      OBVIOUS
    <3>1. CASE u = s
      BY <3>1, <2>2, <2>3, <2>s
    <3>2. CASE u # s
      <4>1. fl[u] \in Id /\ SensorOf[fl[u]] = u /\ tm[fl[u]] # "off" /\ inflight'[u] = fl[u]
        BY <3>2, <2>s DEF Coherent, Typed
      <4>2. fl[u] \notin threw
        BY <4>1, <3>2, <2>2
      <4> QED
        BY <4>1, <4>2, <2>s
    <3> QED
      BY <3>1, <3>2
  <2>11. \A id \in Id : timer'[id] = "own" <=> status'[id] = "sent"
    BY <2>2, <2>s DEF Coherent
  <2>12. \A id \in Id : attempts'[id] <= MaxAttempts[id]
    BY <1>a, <2>2, <2>s DEF Coherent
  <2>13. \A id \in Id : status'[id] = "pending" => attempts'[id] = 0
    BY <2>2, <2>s DEF Coherent
  <2> QED
    BY <2>5, <2>6, <2>7, <2>8, <2>9, <2>10, <2>11, <2>12, <2>13 DEF Typed, Coherent
<1> QED
  BY <1>1, <1>2, <1>3 DEF TrySendNext

-----------------------------------------------------------------------------
(* The rest of IInv: what trySendNext's callers handle themselves.         *)
Others ==
  /\ createdAt \in [Id -> Nat]
  /\ clock \in Nat
  /\ orphanAttempts \in [Id -> Nat]
  /\ conn \in [Sensor -> {"none", "open", "closed"}]
  /\ delivered \subseteq Id
  /\ emitted \subseteq Event
  /\ \A id \in Id : orphanAttempts[id] <= MaxAttempts[id]

LEMMA IInvSplit ==
  /\ IInv <=> /\ Typed(status, attempts, queue, inflight, timer)
              /\ Coherent(status, attempts, queue, inflight, timer)
              /\ Others
  /\ IInv' <=> /\ Typed(status', attempts', queue', inflight', timer')
               /\ Coherent(status', attempts', queue', inflight', timer')
               /\ Others'
BY SenderAssumption DEF IInv, TypeOK, OneInFlight, SlotHasTimer, TimerMatchesStatus,
   AttemptsBounded, QueueOwn, PendingUnsent, Typed, Coherent, Others

(* What trySendNext puts on the wire and emits concerns known commands.    *)
LEMMA TrySendNextEmits ==
  ASSUME NEW s \in Sensor, NEW st, NEW at, NEW qs, NEW fl, NEW tm, NEW ev,
         qs \in [Sensor -> Seq(Id)], ev \subseteq Event, delivered \subseteq Id,
         TrySendNext(s, st, at, qs, fl, tm, ev)
  PROVE  delivered' \subseteq Id /\ emitted' \subseteq Event
<1>1. CASE fl[s] # NoId \/ conn'[s] # "open"
  BY <1>1 DEF TrySendNext
<1>2. CASE fl[s] = NoId /\ conn'[s] = "open"
  <2> DEFINE q == qs[s]
             Sent(k) == {q[i] : i \in {k} \cap (1..Len(q))}
  <2>1. PICK k \in 1..(Len(q)+1) : /\ delivered' = delivered \cup Sent(k)
                                   /\ emitted' = ev \cup Emit("sent", Sent(k))
    BY <1>2 DEF TrySendNext
  <2>2. Sent(k) \subseteq Id
    OBVIOUS
  <2> QED
    BY <2>1, <2>2 DEF Emit, Event
<1> QED
  BY <1>1, <1>2

LEMMA DropOrphansFact ==
  ASSUME NEW tm, DropOrphans(tm), Others
  PROVE  /\ orphanAttempts' \in [Id -> Nat]
         /\ \A id \in Id : orphanAttempts'[id] <= MaxAttempts[id]
BY SenderAssumption DEF DropOrphans, Others

(* The state finalizeCommand hands to trySendNext.                         *)
LEMMA FinalizeState ==
  ASSUME IInv, NEW id \in Id, NEW final \in CommandStatus \ {"sent"},
         final = "pending" => status[id] = "pending"
  PROVE  LET st == [status EXCEPT ![id] = final]
             qs == removeFromQueue(queue, id)
         IN  /\ Typed(st, attempts, qs, FreeSlot(id), clearCommandTimeout(id))
             /\ Coherent(st, attempts, qs, FreeSlot(id), clearCommandTimeout(id))
<1> DEFINE st == [status EXCEPT ![id] = final]
           qs == removeFromQueue(queue, id)
           fl == FreeSlot(id)
           tm == clearCommandTimeout(id)
<1>1. /\ Typed(status, attempts, queue, inflight, timer)
      /\ Coherent(status, attempts, queue, inflight, timer)
  BY IInvSplit
<1>3. /\ qs \in [Sensor -> Seq(Id)]
      /\ \A s \in Sensor : \A i \in 1..Len(qs[s]) : SensorOf[qs[s][i]] = s
  <2>1. /\ queue \in [Sensor -> Seq(Id)]
        /\ \A s \in Sensor : \A i \in 1..Len(queue[s]) : SensorOf[queue[s][i]] = s
    BY <1>1 DEF Typed, Coherent
  <2> QED
    BY <2>1, RemoveFact
<1>5. /\ \A x \in Id : st[x] = IF x = id THEN final ELSE status[x]
      /\ \A x \in Id : tm[x] = IF x = id THEN "off" ELSE timer[x]
      /\ \A s \in Sensor : fl[s] = IF inflight[s] = id THEN NoId ELSE inflight[s]
      /\ st \in [Id -> CommandStatus]
      /\ tm \in [Id -> {"off", "own", "orphan"}]
      /\ fl \in [Sensor -> Id \cup {NoId}]
  BY <1>1 DEF Typed, clearCommandTimeout, FreeSlot
<1> HIDE DEF st, qs, fl, tm
<1>6. Typed(st, attempts, qs, fl, tm)
  BY <1>1, <1>3, <1>5 DEF Typed
<1>7. Coherent(st, attempts, qs, fl, tm)
  <2>1. \A x \in Id : st[x] = "sent" => fl[SensorOf[x]] = x
    BY <1>1, <1>5, SenderAssumption DEF Coherent
  <2>2. \A s \in Sensor : fl[s] # NoId => SensorOf[fl[s]] = s /\ tm[fl[s]] # "off"
    BY <1>1, <1>5 DEF Coherent, Typed
  <2>3. \A x \in Id : tm[x] = "own" <=> st[x] = "sent"
    BY <1>1, <1>5 DEF Coherent
  <2>4. \A x \in Id : st[x] = "pending" => attempts[x] = 0
    BY <1>1, <1>5 DEF Coherent
  <2> QED
    BY <1>1, <1>3, <2>1, <2>2, <2>3, <2>4 DEF Coherent
<1> QED
  BY <1>6, <1>7 DEF st, qs, fl, tm

(* finalizeCommand, for every outcome its callers pass.                    *)
LEMMA FinalizeFact ==
  ASSUME IInv, NEW id \in Id, NEW final \in CommandStatus \ {"sent"}, NEW ev,
         final = "pending" => status[id] = "pending", ev \subseteq Event,
         UNCHANGED <<createdAt, clock, conn>>, FinalizeCommand(id, final, ev)
  PROVE  IInv'
<1> DEFINE st == [status EXCEPT ![id] = final]
           qs == removeFromQueue(queue, id)
           fl == FreeSlot(id)
           tm == clearCommandTimeout(id)
<1>1. Others
  BY IInvSplit
<1>2. SensorOf[id] \in Sensor
  BY SenderAssumption
<1>3. /\ Typed(st, attempts, qs, fl, tm)
      /\ Coherent(st, attempts, qs, fl, tm)
  BY FinalizeState
<1>4. TrySendNext(SensorOf[id], st, attempts, qs, fl, tm, ev) /\ DropOrphans(timer')
  BY DEF FinalizeCommand
<1> HIDE DEF st, qs, fl, tm
<1>8. /\ Typed(status', attempts', queue', inflight', timer')
      /\ Coherent(status', attempts', queue', inflight', timer')
  BY <1>2, <1>3, <1>4, TrySendNextFact
<1>9. delivered' \subseteq Id /\ emitted' \subseteq Event
  BY <1>1, <1>2, <1>3, <1>4, TrySendNextEmits DEF Others, Typed
<1>10. Others'
  BY <1>1, <1>4, <1>9, DropOrphansFact DEF Others
<1> QED
  BY <1>8, <1>10, IInvSplit

(* A retry of the command that holds its sensor's slot.                    *)
LEMMA ResendFact ==
  ASSUME IInv, NEW id \in Id, NEW qs \in [Sensor -> Seq(Id)],
         \A s \in Sensor : \A i \in 1..Len(qs[s]) : SensorOf[qs[s][i]] = s,
         inflight[SensorOf[id]] = id, MayRetry(attempts[id], id),
         conn' \in [Sensor -> {"none", "open", "closed"}],
         UNCHANGED <<createdAt, clock>>, Resend(id, qs)
  PROVE  IInv'
<1>1. /\ Typed(status, attempts, queue, inflight, timer)
      /\ Coherent(status, attempts, queue, inflight, timer)
      /\ Others
  BY IInvSplit
<1>2. /\ queue' \in [Sensor -> Seq(Id)]
      /\ \A s \in Sensor : \A i \in 1..Len(queue'[s]) : SensorOf[queue'[s][i]] = s
  BY RemoveFactPrimed DEF Resend
<1>3. /\ status' = [status EXCEPT ![id] = "sent"]
      /\ attempts' = [attempts EXCEPT ![id] = @ + 1]
      /\ timer' = [timer EXCEPT ![id] = "own"]
      /\ inflight' = inflight
      /\ delivered' = delivered \cup {id}
      /\ emitted' = {<<"sent", id>>}
      /\ DropOrphans(timer')
  BY DEF Resend
<1>4. Typed(status', attempts', queue', inflight', timer')
  BY <1>1, <1>2, <1>3 DEF Typed, CommandStatus
<1>5. Coherent(status', attempts', queue', inflight', timer')
  <2>1. \A x \in Id : status'[x] = "sent" => inflight'[SensorOf[x]] = x
    BY <1>1, <1>3 DEF Typed, Coherent
  <2>2. \A s \in Sensor : inflight'[s] # NoId =>
          SensorOf[inflight'[s]] = s /\ timer'[inflight'[s]] # "off"
    BY <1>1, <1>3 DEF Typed, Coherent
  <2>3. \A x \in Id : timer'[x] = "own" <=> status'[x] = "sent"
    BY <1>1, <1>3 DEF Typed, Coherent
  <2>4. \A x \in Id : attempts'[x] <= MaxAttempts[x]
    <3>1. /\ attempts \in [Id -> Nat] /\ \A x \in Id : attempts[x] <= MaxAttempts[x]
          /\ attempts[id] < MaxAttempts[id] /\ MaxAttempts[id] \in Nat
      BY <1>1, SenderAssumption DEF Typed, Coherent, MayRetry
    <3> QED
      BY <1>3, <3>1
  <2>5. \A x \in Id : status'[x] = "pending" => attempts'[x] = 0
    BY <1>1, <1>3 DEF Typed, Coherent
  <2> QED
    BY <1>2, <2>1, <2>2, <2>3, <2>4, <2>5 DEF Coherent
<1>6. Others'
  <2>1. /\ orphanAttempts' \in [Id -> Nat]
        /\ \A x \in Id : orphanAttempts'[x] <= MaxAttempts[x]
    BY <1>1, <1>3, DropOrphansFact
  <2>2. emitted' \subseteq Event
    BY <1>3 DEF Event
  <2> QED
    BY <1>1, <1>3, <2>1, <2>2 DEF Others
<1> QED
  BY <1>4, <1>5, <1>6, IInvSplit

LEMMA SortedPendingFact ==
  ASSUME NEW s \in Sensor, NEW q \in SortedPending(s)
  PROVE  q \in Seq(Id) /\ \A i \in 1..Len(q) : SensorOf[q[i]] = s
<1>1. Cardinality(Pending(s)) \in Nat
  BY SenderAssumption, FS_Subset, FS_CardinalityType DEF Pending
<1>2. q \in [1..Cardinality(Pending(s)) -> Pending(s)]
  BY DEF SortedPending
<1>3. q \in Seq(Pending(s)) /\ Len(q) = Cardinality(Pending(s))
  BY <1>1, <1>2
<1> QED
  BY <1>1, <1>2, <1>3 DEF Pending

LEMMA RegisterFact ==
  ASSUME IInv, NEW s \in Sensor, NEW r \in {"open", "closed"}, RegisterConnection(s, r)
  PROVE  IInv'
<1>1. /\ Typed(status, attempts, queue, inflight, timer)
      /\ Coherent(status, attempts, queue, inflight, timer)
      /\ Others
  BY IInvSplit
<1>2. conn' \in [Sensor -> {"none", "open", "closed"}] /\ UNCHANGED <<createdAt, clock>>
  BY <1>1 DEF RegisterConnection, Others
<1> DEFINE id == inflight[s]
           resend == /\ id # NoId
                     /\ status[id] \in {"sent", "pending"}
                     /\ MayRetry(attempts[id], id)
                     /\ r = "open"
           Qs(q) == [queue EXCEPT ![s] = q]
<1>3. PICK q \in SortedPending(s) :
        \/ resend /\ Resend(id, Qs(q))
        \/ /\ ~resend
           /\ TrySendNext(s, status, attempts, Qs(q), inflight, timer, {})
           /\ DropOrphans(timer')
  BY DEF RegisterConnection
<1> DEFINE qs == Qs(q)
<1>4. q \in Seq(Id) /\ \A i \in 1..Len(q) : SensorOf[q[i]] = s
  BY SortedPendingFact
<1>5. /\ qs \in [Sensor -> Seq(Id)]
      /\ \A u \in Sensor : \A i \in 1..Len(qs[u]) : SensorOf[qs[u][i]] = u
  BY <1>1, <1>4 DEF Typed, Coherent
<1> HIDE DEF qs
<1>6. CASE resend /\ Resend(id, qs)
  <2>1. id \in Id /\ inflight[SensorOf[id]] = id
    BY <1>1, <1>6 DEF Typed, Coherent
  <2> QED
    BY <1>2, <1>5, <1>6, <2>1, ResendFact
<1>7. CASE /\ TrySendNext(s, status, attempts, qs, inflight, timer, {})
           /\ DropOrphans(timer')
  <2>1. Typed(status, attempts, qs, inflight, timer)
    BY <1>1, <1>5 DEF Typed
  <2>2. Coherent(status, attempts, qs, inflight, timer)
    BY <1>1, <1>5 DEF Coherent
  <2>3. /\ Typed(status', attempts', queue', inflight', timer')
        /\ Coherent(status', attempts', queue', inflight', timer')
    BY <1>7, <2>1, <2>2, TrySendNextFact
  <2>4. delivered' \subseteq Id /\ emitted' \subseteq Event
    <3>1. {} \subseteq Event /\ delivered \subseteq Id
      BY <1>1 DEF Others
    <3> QED
      BY <1>5, <1>7, <3>1, TrySendNextEmits
  <2>5. Others'
    BY <1>1, <1>2, <1>7, <2>4, DropOrphansFact DEF Others
  <2> QED
    BY <2>3, <2>5, IInvSplit
<1> QED
  BY <1>3, <1>6, <1>7 DEF qs

(* The state sendCommand hands to trySendNext when it has evicted v and w. *)
AcceptedStatus(id, v, w) ==
  [x \in Id |-> IF x = id THEN "pending" ELSE IF x \in {v, w} THEN "none" ELSE status[x]]
AcceptedQueues(id, v, w) ==
  LET qr == removeFromQueue(removeFromQueue(queue, v), w)
  IN  [s \in Sensor |-> IF s = SensorOf[id] THEN Append(qr[s], id) ELSE qr[s]]
AcceptedTimers(id) == IF timer[id] = "own" THEN [timer EXCEPT ![id] = "orphan"] ELSE timer
AcceptedAttempts(id) == [attempts EXCEPT ![id] = 0]

LEMMA AcceptedState ==
  ASSUME IInv, NEW id \in Id, NEW v, NEW w,
         v \in Id => status[v] = "pending", w \in Id => status[w] = "pending"
  PROVE  LET st == AcceptedStatus(id, v, w)
             qs == AcceptedQueues(id, v, w)
         IN  /\ Typed(st, AcceptedAttempts(id), qs, inflight, AcceptedTimers(id))
             /\ Coherent(st, AcceptedAttempts(id), qs, inflight, AcceptedTimers(id))
<1> DEFINE s == SensorOf[id]
           st == AcceptedStatus(id, v, w)
           qr == removeFromQueue(removeFromQueue(queue, v), w)
           qs == AcceptedQueues(id, v, w)
           tm == AcceptedTimers(id)
           at == AcceptedAttempts(id)
<1>1. /\ Typed(status, attempts, queue, inflight, timer)
      /\ Coherent(status, attempts, queue, inflight, timer)
  BY IInvSplit
<1>2. s \in Sensor /\ NoId \notin Id
  BY SenderAssumption
<1>3. /\ queue \in [Sensor -> Seq(Id)]
      /\ \A u \in Sensor : \A i \in 1..Len(queue[u]) : SensorOf[queue[u][i]] = u
  BY <1>1 DEF Typed, Coherent
<1>4. /\ qr \in [Sensor -> Seq(Id)]
      /\ \A u \in Sensor : \A i \in 1..Len(qr[u]) : SensorOf[qr[u][i]] = u
  <2>1. /\ removeFromQueue(queue, v) \in [Sensor -> Seq(Id)]
        /\ \A u \in Sensor : \A i \in 1..Len(removeFromQueue(queue, v)[u]) :
              SensorOf[removeFromQueue(queue, v)[u][i]] = u
    BY <1>3, RemoveFact
  <2> QED
    BY <2>1, RemoveFact
<1> HIDE DEF qr
<1>5. qs = [x \in Sensor |-> IF x = s THEN Append(qr[x], id) ELSE qr[x]]
  BY DEF qr, AcceptedQueues
<1> HIDE DEF qs
<1>6. /\ qs \in [Sensor -> Seq(Id)]
      /\ \A u \in Sensor : \A i \in 1..Len(qs[u]) : SensorOf[qs[u][i]] = u
  BY <1>4, <1>5
<1>7. /\ \A x \in Id : st[x] = IF x = id THEN "pending"
                               ELSE IF x \in {v, w} THEN "none" ELSE status[x]
      /\ st \in [Id -> CommandStatus]
  BY <1>1 DEF Typed, CommandStatus, AcceptedStatus
<1>8. /\ \A x \in Id : at[x] = IF x = id THEN 0 ELSE attempts[x]
      /\ at \in [Id -> Nat]
  BY <1>1 DEF Typed, AcceptedAttempts
<1>9. /\ \A x \in Id : tm[x] = IF x = id /\ timer[id] = "own" THEN "orphan" ELSE timer[x]
      /\ tm \in [Id -> {"off", "own", "orphan"}]
  BY <1>1 DEF Typed, AcceptedTimers
<1> HIDE DEF st, at, tm
<1>10. Typed(st, at, qs, inflight, tm)
  BY <1>1, <1>6, <1>7, <1>8, <1>9 DEF Typed
<1>11. Coherent(st, at, qs, inflight, tm)
  <2>1. \A x \in Id : st[x] = "sent" => inflight[SensorOf[x]] = x
    BY <1>1, <1>7 DEF Coherent
  <2>2. \A u \in Sensor : inflight[u] # NoId =>
          SensorOf[inflight[u]] = u /\ tm[inflight[u]] # "off"
    BY <1>1, <1>9 DEF Coherent, Typed
  <2>3. \A x \in Id : tm[x] = "own" <=> st[x] = "sent"
    BY <1>1, <1>7, <1>9 DEF Coherent
  <2>4. \A x \in Id : at[x] <= MaxAttempts[x]
    BY <1>1, <1>8, SenderAssumption DEF Coherent
  <2>5. \A x \in Id : st[x] = "pending" => at[x] = 0
    BY <1>1, <1>7, <1>8 DEF Coherent
  <2> QED
    BY <1>6, <2>1, <2>2, <2>3, <2>4, <2>5 DEF Coherent
<1> QED
  BY <1>10, <1>11 DEF st, at, qs, tm

(* Who is evicted, and what sendCommand does when it accepts.              *)
LEMMA VictimsFact ==
  ASSUME NEW s \in Sensor, NEW v \in PerSensorVictim(s)
  PROVE  /\ v \in Id \cup {NoId} /\ (v \in Id => status[v] = "pending")
         /\ \A w \in GlobalVictim(v) :
              w \in Id \cup {NoId} /\ (w \in Id => status[w] = "pending")
<1>1. v \in Id \cup {NoId} /\ (v \in Id => status[v] = "pending")
  BY SenderAssumption DEF PerSensorVictim, Oldest, Pending
<1>2. \A w \in GlobalVictim(v) :
        w \in Id \cup {NoId} /\ (w \in Id => status[w] = "pending")
  BY SenderAssumption DEF GlobalVictim, Oldest
<1> QED
  BY <1>1, <1>2

LEMMA AcceptFact ==
  ASSUME NEW id \in Id, SendAccepted(id)
  PROVE  \E v \in PerSensorVictim(SensorOf[id]) : \E w \in GlobalVictim(v) :
           /\ TrySendNext(SensorOf[id], AcceptedStatus(id, v, w), AcceptedAttempts(id),
                          AcceptedQueues(id, v, w), inflight, AcceptedTimers(id),
                          Evicted(v) \cup Evicted(w))
           /\ createdAt' = [createdAt EXCEPT ![id] = clock + 1]
           /\ orphanAttempts' =
                [x \in Id |-> IF timer'[x] # "orphan" THEN 0
                              ELSE IF x = id /\ timer[id] = "own" THEN attempts[id]
                              ELSE orphanAttempts[x]]
BY DEF SendAccepted, AcceptedStatus, AcceptedQueues, AcceptedTimers, AcceptedAttempts

(* sendCommand: eviction, storing and queueing, then trySendNext.          *)
LEMMA SendFact ==
  ASSUME IInv, NEW id \in Id, SendCommand(id)
  PROVE  IInv'
<1> DEFINE s == SensorOf[id]
<1>1. /\ Typed(status, attempts, queue, inflight, timer)
      /\ Coherent(status, attempts, queue, inflight, timer)
      /\ Others
  BY IInvSplit
<1>2. /\ s \in Sensor /\ NoId \notin Id
      /\ clock' = clock + 1 /\ UNCHANGED conn
  BY SenderAssumption DEF SendCommand
<1>5. ASSUME NEW v \in Id \cup {NoId} PROVE Evicted(v) \subseteq Event
  BY DEF Evicted, Emit, Event
<1>6. /\ queue \in [Sensor -> Seq(Id)]
      /\ \A u \in Sensor : \A i \in 1..Len(queue[u]) : SensorOf[queue[u][i]] = u
  BY <1>1 DEF Typed, Coherent
<1>7. CASE SendDropped(id)
  <2>1. PICK v \in PerSensorVictim(s) :
          /\ status' = [x \in Id |-> IF x = v THEN "none" ELSE status[x]]
          /\ queue' = removeFromQueue(queue, v)
          /\ emitted' = Evicted(v) \cup {<<"dropped", id>>}
          /\ createdAt' = [createdAt EXCEPT ![id] = clock + 1]
          /\ UNCHANGED <<attempts, inflight, timer, orphanAttempts, delivered>>
    BY <1>7 DEF SendDropped
  <2>2. v \in Id \cup {NoId} /\ (v \in Id => status[v] = "pending")
    BY <1>2, VictimsFact
  <2>3. /\ queue' \in [Sensor -> Seq(Id)]
        /\ \A u \in Sensor : \A i \in 1..Len(queue'[u]) : SensorOf[queue'[u][i]] = u
    BY <1>6, <2>1, RemoveFactPrimed
  <2>4. Typed(status', attempts', queue', inflight', timer')
    BY <1>1, <2>1, <2>3 DEF Typed, CommandStatus
  <2>5. Coherent(status', attempts', queue', inflight', timer')
    BY <1>1, <2>1, <2>2, <2>3 DEF Coherent, Typed
  <2>6. Others'
    BY <1>1, <1>2, <1>5, <2>1, <2>2 DEF Others, Event
  <2> QED
    BY <2>4, <2>5, <2>6, IInvSplit
<1>8. CASE SendAccepted(id)
  <2> DEFINE at == AcceptedAttempts(id)
             tm == AcceptedTimers(id)
             Pushed(v, w) ==
               TrySendNext(s, AcceptedStatus(id, v, w), at, AcceptedQueues(id, v, w),
                           inflight, tm, Evicted(v) \cup Evicted(w))
  <2>0. PICK v \in PerSensorVictim(s) : \E w \in GlobalVictim(v) : Pushed(v, w)
    BY <1>8, AcceptFact
  <2>1. PICK w \in GlobalVictim(v) : Pushed(v, w)
    BY <2>0
  <2>2. /\ createdAt' = [createdAt EXCEPT ![id] = clock + 1]
        /\ orphanAttempts' = [x \in Id |-> IF timer'[x] # "orphan" THEN 0
                                           ELSE IF x = id /\ timer[id] = "own" THEN attempts[id]
                                           ELSE orphanAttempts[x]]
    BY <1>8, AcceptFact
  <2> DEFINE st == AcceptedStatus(id, v, w)
             qs == AcceptedQueues(id, v, w)
             ev == Evicted(v) \cup Evicted(w)
  <2>3. /\ v \in Id \cup {NoId} /\ (v \in Id => status[v] = "pending")
        /\ w \in Id \cup {NoId} /\ (w \in Id => status[w] = "pending")
    BY <1>2, VictimsFact
  <2>4. Typed(st, at, qs, inflight, tm) /\ Coherent(st, at, qs, inflight, tm)
    BY <2>3, AcceptedState
  <2>10. ev \subseteq Event
    BY <1>5, <2>3
  <2>11. TrySendNext(s, st, at, qs, inflight, tm, ev)
    BY <2>1
  <2> HIDE DEF st, at, tm, ev, qs
  <2>14. /\ Typed(status', attempts', queue', inflight', timer')
         /\ Coherent(status', attempts', queue', inflight', timer')
    BY <1>2, <2>4, <2>11, TrySendNextFact
  <2>15. delivered' \subseteq Id /\ emitted' \subseteq Event
    BY <1>1, <1>2, <2>4, <2>10, <2>11, TrySendNextEmits DEF Others, Typed
  <2>16. /\ orphanAttempts' \in [Id -> Nat]
         /\ \A x \in Id : orphanAttempts'[x] <= MaxAttempts[x]
    <3>1. /\ attempts[id] \in Nat /\ attempts[id] <= MaxAttempts[id]
          /\ \A x \in Id : /\ orphanAttempts[x] \in Nat
                          /\ orphanAttempts[x] <= MaxAttempts[x]
                          /\ 0 <= MaxAttempts[x]
      BY <1>1, SenderAssumption DEF Others, Typed, Coherent
    <3> QED
      BY <2>2, <3>1
  <2>17. createdAt' \in [Id -> Nat] /\ clock' \in Nat
    BY <1>1, <1>2, <2>2 DEF Others
  <2> QED
    BY <1>1, <1>2, <2>14, <2>15, <2>16, <2>17, IInvSplit DEF Others
<1> QED
  BY <1>7, <1>8 DEF SendCommand

LEMMA DisconnectFact ==
  ASSUME IInv, NEW s \in Sensor, CleanupSensor(s),
         conn' \in [Sensor -> {"none", "open", "closed"}]
  PROVE  IInv'
<1> DEFINE C == toClean(s)
<1>1. /\ Typed(status, attempts, queue, inflight, timer)
      /\ Coherent(status, attempts, queue, inflight, timer)
      /\ Others
  BY IInvSplit
<1>2. /\ C \subseteq Id
      /\ \A id \in C : SensorOf[id] = s
      /\ inflight[s] # NoId /\ status[inflight[s]] = "sent" => inflight[s] \in C
  <2>1. inflight[s] # NoId => inflight[s] \in Id /\ SensorOf[inflight[s]] = s
    BY <1>1 DEF Typed, Coherent
  <2>2. \A id \in Id : id = inflight[s] => id # NoId
    BY SenderAssumption
  <2> QED
    BY <2>1, <2>2 DEF toClean, Pending
<1> HIDE DEF C
<1>3. /\ status' = [id \in Id |-> IF id \in C THEN "none" ELSE status[id]]
      /\ timer' = [id \in Id |-> IF id \in C THEN "off" ELSE timer[id]]
      /\ queue' = [queue EXCEPT ![s] = <<>>]
      /\ inflight' = [inflight EXCEPT ![s] = NoId]
      /\ emitted' = Emit("failed", C)
      /\ DropOrphans(timer')
      /\ UNCHANGED <<attempts, createdAt, clock, delivered>>
  BY DEF CleanupSensor, C
<1>4. Typed(status', attempts', queue', inflight', timer')
  BY <1>1, <1>3 DEF Typed, CommandStatus
<1>5. Coherent(status', attempts', queue', inflight', timer')
  <2>1. \A x \in Id : status'[x] = "sent" => inflight'[SensorOf[x]] = x
    BY <1>1, <1>2, <1>3, SenderAssumption DEF Typed, Coherent
  <2>2. \A u \in Sensor : inflight'[u] # NoId =>
          SensorOf[inflight'[u]] = u /\ timer'[inflight'[u]] # "off"
    BY <1>1, <1>2, <1>3 DEF Typed, Coherent
  <2>3. \A x \in Id : timer'[x] = "own" <=> status'[x] = "sent"
    BY <1>1, <1>3 DEF Typed, Coherent
  <2>4. \A x \in Id : status'[x] = "pending" => attempts'[x] = 0
    BY <1>1, <1>3 DEF Typed, Coherent
  <2>5. \A u \in Sensor : \A i \in 1..Len(queue'[u]) : SensorOf[queue'[u][i]] = u
    BY <1>1, <1>3 DEF Typed, Coherent
  <2> QED
    BY <1>1, <1>3, <2>1, <2>2, <2>3, <2>4, <2>5 DEF Coherent
<1>6. Others'
  <2>1. /\ orphanAttempts' \in [Id -> Nat]
        /\ \A x \in Id : orphanAttempts'[x] <= MaxAttempts[x]
    BY <1>1, <1>3, DropOrphansFact
  <2>2. emitted' \subseteq Event
    BY <1>2, <1>3 DEF Event, Emit
  <2> QED
    BY <1>1, <1>3, <2>1, <2>2 DEF Others
<1> QED
  BY <1>4, <1>5, <1>6, IInvSplit

LEMMA OrphanFact ==
  ASSUME IInv, NEW id \in Id, OrphanTimerFires(id)
  PROVE  IInv'
<1> DEFINE s == SensorOf[id]
<1>1. /\ Typed(status, attempts, queue, inflight, timer)
      /\ Coherent(status, attempts, queue, inflight, timer)
      /\ Others
  BY IInvSplit
<1>2. /\ s \in Sensor /\ NoId \notin Id /\ MaxAttempts[id] \in Nat
      /\ timer[id] = "orphan" /\ status[id] # "sent"
      /\ UNCHANGED <<createdAt, clock, conn>>
  BY <1>1, SenderAssumption DEF OrphanTimerFires, Coherent
<1>3. CASE /\ MayRetry(orphanAttempts[id], id)
           /\ inflight[s] \in {id, NoId}
           /\ queue' = removeFromQueue(queue, id)
           /\ inflight' = [inflight EXCEPT ![s] = id]
           /\ orphanAttempts' = [orphanAttempts EXCEPT ![id] = @ + 1]
           /\ delivered' = delivered \cup {id}
           /\ emitted' = {<<"sent", id>>}
           /\ UNCHANGED <<status, attempts, timer>>
  <2>1. /\ queue \in [Sensor -> Seq(Id)]
        /\ \A u \in Sensor : \A i \in 1..Len(queue[u]) : SensorOf[queue[u][i]] = u
    BY <1>1 DEF Typed, Coherent
  <2>2. /\ queue' \in [Sensor -> Seq(Id)]
        /\ \A u \in Sensor : \A i \in 1..Len(queue'[u]) : SensorOf[queue'[u][i]] = u
    BY <1>3, <2>1, RemoveFactPrimed
  <2>3. Typed(status', attempts', queue', inflight', timer')
    BY <1>1, <1>3, <2>2 DEF Typed
  <2>4. \A x \in Id : status'[x] = "sent" => inflight'[SensorOf[x]] = x
    BY <1>1, <1>2, <1>3 DEF Typed, Coherent
  <2>5. \A u \in Sensor : inflight'[u] # NoId =>
          SensorOf[inflight'[u]] = u /\ timer'[inflight'[u]] # "off"
    BY <1>1, <1>2, <1>3 DEF Typed, Coherent
  <2>6. Coherent(status', attempts', queue', inflight', timer')
    BY <1>1, <1>3, <2>2, <2>4, <2>5 DEF Coherent
  <2>7. Others'
    <3>1. /\ orphanAttempts \in [Id -> Nat]
          /\ \A x \in Id : orphanAttempts[x] <= MaxAttempts[x]
          /\ orphanAttempts[id] < MaxAttempts[id]
      BY <1>1, <1>3 DEF Others, MayRetry
    <3>2. /\ orphanAttempts' \in [Id -> Nat]
          /\ \A x \in Id : orphanAttempts'[x] <= MaxAttempts[x]
      BY <1>2, <1>3, <3>1
    <3> QED
      BY <1>1, <1>2, <1>3, <3>2 DEF Others, Event
  <2> QED
    BY <2>3, <2>6, <2>7, IInvSplit
<1>4. CASE /\ inflight[s] \notin {id, NoId}
           /\ timer' = [timer EXCEPT ![id] = "off"]
           /\ orphanAttempts' = [orphanAttempts EXCEPT ![id] = 0]
           /\ emitted' = {}
           /\ UNCHANGED <<status, attempts, queue, inflight, delivered>>
  <2>1. Typed(status', attempts', queue', inflight', timer')
    BY <1>1, <1>4 DEF Typed
  <2>2. \A u \in Sensor : inflight'[u] # NoId =>
          SensorOf[inflight'[u]] = u /\ timer'[inflight'[u]] # "off"
    BY <1>1, <1>2, <1>4 DEF Typed, Coherent
  <2>3. \A x \in Id : timer'[x] = "own" <=> status'[x] = "sent"
    BY <1>1, <1>2, <1>4 DEF Typed, Coherent
  <2>4. Coherent(status', attempts', queue', inflight', timer')
    BY <1>1, <1>4, <2>2, <2>3 DEF Coherent
  <2>5. Others'
    <3>1. /\ orphanAttempts' \in [Id -> Nat]
          /\ \A x \in Id : orphanAttempts'[x] <= MaxAttempts[x]
      BY <1>1, <1>2, <1>4 DEF Others
    <3> QED
      BY <1>1, <1>2, <1>4, <3>1 DEF Others
  <2> QED
    BY <2>1, <2>4, <2>5, IInvSplit
<1>5. CASE FinalizeCommand(id, status[id], {<<"timeout", id>>})
  <2>1. status[id] \in CommandStatus \ {"sent"} /\ {<<"timeout", id>>} \subseteq Event
    BY <1>1, <1>2 DEF Typed, Event
  <2> QED
    BY <1>2, <1>5, <2>1, FinalizeFact
<1> QED
  BY <1>3, <1>4, <1>5 DEF OrphanTimerFires

LEMMA ExpireFact ==
  ASSUME IInv, NEW id \in Id, ExpireCompleted(id) \/ ExpirePending(id)
  PROVE  IInv'
<1>1. /\ Typed(status, attempts, queue, inflight, timer)
      /\ Coherent(status, attempts, queue, inflight, timer)
      /\ Others
  BY IInvSplit
<1>2. /\ status[id] # "sent"
      /\ status' = [status EXCEPT ![id] = "none"]
      /\ queue' = removeFromQueue(queue, id)
      /\ inflight' \in {inflight, FreeSlot(id)}
      /\ emitted' \in {{}, {<<"evicted", id>>}}
      /\ UNCHANGED <<attempts, createdAt, clock, timer, orphanAttempts, conn, delivered>>
  BY DEF ExpireCompleted, ExpirePending, Terminal
<1>3. /\ queue \in [Sensor -> Seq(Id)]
      /\ \A u \in Sensor : \A i \in 1..Len(queue[u]) : SensorOf[queue[u][i]] = u
  BY <1>1 DEF Typed, Coherent
<1>4. /\ queue' \in [Sensor -> Seq(Id)]
      /\ \A u \in Sensor : \A i \in 1..Len(queue'[u]) : SensorOf[queue'[u][i]] = u
  BY <1>2, <1>3, RemoveFactPrimed
<1>5. /\ inflight' \in [Sensor -> Id \cup {NoId}]
      /\ \A u \in Sensor : \/ inflight'[u] = inflight[u]
                           \/ inflight[u] = id /\ inflight'[u] = NoId
  BY <1>1, <1>2 DEF Typed, FreeSlot
<1>6. Typed(status', attempts', queue', inflight', timer')
  BY <1>1, <1>2, <1>4, <1>5 DEF Typed, CommandStatus
<1>7. Coherent(status', attempts', queue', inflight', timer')
  <2>1. \A x \in Id : status'[x] = "sent" => inflight'[SensorOf[x]] = x
    BY <1>1, <1>2, <1>5, SenderAssumption DEF Typed, Coherent
  <2>2. \A u \in Sensor : inflight'[u] # NoId =>
          SensorOf[inflight'[u]] = u /\ timer'[inflight'[u]] # "off"
    BY <1>1, <1>2, <1>5 DEF Typed, Coherent
  <2>3. \A x \in Id : timer'[x] = "own" <=> status'[x] = "sent"
    BY <1>1, <1>2 DEF Typed, Coherent
  <2>4. \A x \in Id : status'[x] = "pending" => attempts'[x] = 0
    BY <1>1, <1>2 DEF Typed, Coherent
  <2> QED
    BY <1>1, <1>2, <1>4, <2>1, <2>2, <2>3, <2>4 DEF Coherent
<1>8. Others'
  BY <1>1, <1>2 DEF Others, Event
<1> QED
  BY <1>6, <1>7, <1>8, IInvSplit

-----------------------------------------------------------------------------
(* The queue's invariant holds of an empty queue, where it starts.         *)
THEOREM InitIInv == Init => IInv
BY SenderAssumption DEF Init, IInv, TypeOK, OneInFlight, SlotHasTimer, TimerMatchesStatus,
   AttemptsBounded, QueueOwn, PendingUnsent, CommandStatus, Terminal

(* Every handler of the queue, timer callback and sweep keeps it.          *)
THEOREM NextIInv == IInv /\ [Next]_vars => IInv'
<1> SUFFICES ASSUME IInv, [Next]_vars PROVE IInv'
  OBVIOUS
<1>1. CASE UNCHANGED vars
  BY <1>1 DEF vars, IInv, TypeOK, OneInFlight, SlotHasTimer, TimerMatchesStatus,
     AttemptsBounded, QueueOwn, PendingUnsent
<1>2. ASSUME NEW id \in Id, SendCommand(id) PROVE IInv'
  BY <1>2, SendFact
<1>3. ASSUME NEW s \in Sensor, NEW r \in {"open", "closed"}, RegisterConnection(s, r)
      PROVE  IInv'
  BY <1>3, RegisterFact
<1>4. ASSUME NEW s \in Sensor, SocketCloses(s) \/ UnregisterConnection(s) PROVE IInv'
  <2>1. /\ conn' \in [Sensor -> {"none", "open", "closed"}] /\ emitted' = {}
        /\ UNCHANGED <<status, attempts, createdAt, clock, queue, inflight, timer,
                       orphanAttempts, delivered>>
    BY <1>4 DEF SocketCloses, UnregisterConnection, IInv, TypeOK
  <2> QED
    BY <2>1 DEF IInv, TypeOK, OneInFlight, SlotHasTimer, TimerMatchesStatus,
       AttemptsBounded, QueueOwn, PendingUnsent
<1>5. ASSUME NEW s \in Sensor, Disconnect(s) PROVE IInv'
  <2>1. CleanupSensor(s) /\ conn' \in [Sensor -> {"none", "open", "closed"}]
    BY <1>5 DEF Disconnect, IInv, TypeOK
  <2> QED
    BY <2>1, DisconnectFact
<1>6. ASSUME NEW id \in Id, NEW success \in BOOLEAN, HandleResponse(id, success)
      PROVE  IInv'
  <2>1. PICK final \in {"success", "failed"}, ev \in {{<<"complete", id>>}, {<<"failed", id>>}} :
          FinalizeCommand(id, final, ev)
    BY <1>6 DEF HandleResponse
  <2>2. /\ final \in CommandStatus \ {"sent"} /\ final # "pending"
        /\ ev \subseteq Event /\ UNCHANGED <<createdAt, clock, conn>>
    BY <1>6 DEF HandleResponse, CommandStatus, Terminal, Event
  <2> QED
    BY <2>1, <2>2, FinalizeFact
<1>7. ASSUME NEW id \in Id, TimerFires(id) PROVE IInv'
  <2>1. timer[id] = "own" /\ UNCHANGED <<createdAt, clock, conn>>
    BY <1>7 DEF TimerFires
  <2>2. CASE MayRetry(attempts[id], id) /\ Resend(id, queue)
    <3>1. /\ queue \in [Sensor -> Seq(Id)]
          /\ \A s \in Sensor : \A i \in 1..Len(queue[s]) : SensorOf[queue[s][i]] = s
          /\ inflight[SensorOf[id]] = id
          /\ conn' \in [Sensor -> {"none", "open", "closed"}]
      BY <2>1 DEF IInv, TypeOK, QueueOwn, OneInFlight, TimerMatchesStatus
    <3> QED
      BY <2>1, <2>2, <3>1, ResendFact
  <2>3. CASE FinalizeCommand(id, "timeout", {<<"timeout", id>>})
    <3>1. "timeout" \in CommandStatus \ {"sent"} /\ {<<"timeout", id>>} \subseteq Event
      BY DEF CommandStatus, Terminal, Event
    <3> QED
      BY <2>1, <2>3, <3>1, FinalizeFact
  <2> QED
    BY <1>7, <2>2, <2>3 DEF TimerFires
<1>8. ASSUME NEW id \in Id, OrphanTimerFires(id) PROVE IInv'
  BY <1>8, OrphanFact
<1>9. ASSUME NEW id \in Id, ExpireCompleted(id) \/ ExpirePending(id) PROVE IInv'
  BY <1>9, ExpireFact
<1>10. ASSUME NEW id \in Id, ExpireStaleSent(id) PROVE IInv'
  <2>1. "failed" \in CommandStatus \ {"sent"} /\ {<<"failed", id>>} \subseteq Event
    BY DEF CommandStatus, Terminal, Event
  <2>2. /\ UNCHANGED <<createdAt, clock, conn>>
        /\ FinalizeCommand(id, "failed", {<<"failed", id>>})
    BY <1>10 DEF ExpireStaleSent
  <2> QED
    BY <2>1, <2>2, FinalizeFact
<1> QED
  BY <1>1, <1>2, <1>3, <1>4, <1>5, <1>6, <1>7, <1>8, <1>9, <1>10 DEF Next, Timers

(* Type correctness of the command queue.                                  *)
THEOREM SenderTypeCorrect == Spec => []TypeOK
<1>1. IInv => TypeOK
  BY DEF IInv
<1> QED
  BY <1>1, InitIInv, NextIInv, PTL DEF Spec

(* At most one command is outstanding at a sensor, always.                 *)
THEOREM SenderOneInFlight == Spec => []OneInFlight
<1>1. IInv => OneInFlight
  BY DEF IInv
<1> QED
  BY <1>1, InitIInv, NextIInv, PTL DEF Spec

(* An occupied in-flight slot always has a timer that will free it.        *)
THEOREM SenderSlotHasTimer == Spec => []SlotHasTimer
<1>1. IInv => SlotHasTimer
  BY DEF IInv
<1> QED
  BY <1>1, InitIInv, NextIInv, PTL DEF Spec

(* A command's timer is armed for it exactly while it is sent.             *)
THEOREM SenderTimerMatchesStatus == Spec => []TimerMatchesStatus
<1>1. IInv => TimerMatchesStatus
  BY DEF IInv
<1> QED
  BY <1>1, InitIInv, NextIInv, PTL DEF Spec

(* No object is put on the wire more often than its maxAttempts.           *)
THEOREM SenderAttemptsBounded == Spec => []AttemptsBounded
<1>1. IInv => AttemptsBounded
  BY DEF IInv
<1> QED
  BY <1>1, InitIInv, NextIInv, PTL DEF Spec

-----------------------------------------------------------------------------
(* Delivery: nothing pending is forgotten or overtaken.  A queue is seen   *)
(* through what it holds and in which order, which is what splicing,       *)
(* shifting, appending and rebuilding it preserve.                         *)

Has(q, x) == \E i \in 1..Len(q) : q[i] = x
Follows(q, x, y) == \E i, j \in 1..Len(q) : i < j /\ q[i] = x /\ q[j] = y

(* What holds of the state trySendNext is given, and of the one it leaves: *)
(* a pending command that is sent once is queued; queues hold such         *)
(* commands in the order of their creation; only a command the caller sent *)
(* again has an orphan timer, and then it is not completed; and what is in *)
(* the Map or in a queue has a date.                                       *)
Orderly(st, qs, tm, ca) ==
  /\ \A id \in Id \ Reusable : st[id] = "pending" => Has(qs[SensorOf[id]], id)
  /\ \A s \in Sensor : \A x, y \in Id \ Reusable :
       st[x] = "pending" /\ st[y] = "pending" /\ Follows(qs[s], x, y) => ca[x] <= ca[y]
  /\ \A id \in Id : tm[id] = "orphan" => id \in Reusable /\ st[id] \in {"none", "pending"}
  /\ \A id \in Id : st[id] # "none" => ca[id] # 0
  /\ \A s \in Sensor : \A x \in Id : Has(qs[s], x) => ca[x] # 0

(* Sensor s waits for nothing: it is not the queue's turn, or nothing      *)
(* pending is queued.                                                      *)
Awake(s, st, qs, fl) ==
  fl[s] = NoId => \A x \in Id : Has(qs[s], x) => st[x] # "pending"

Lively ==
  /\ Orderly(status, queue, timer, createdAt)
  /\ \A s \in Sensor : conn[s] = "open" => Awake(s, status, queue, inflight)
  /\ \A id \in Id : createdAt[id] <= clock

(* What a step does for the action properties, and, unless it is a         *)
(* sendCommand, that it puts nothing new into the Map.                     *)
SendsInOrder ==
  \A id, older \in Id \ Reusable :
    /\ status[id] # "sent" /\ status'[id] = "sent"
    /\ SensorOf[older] = SensorOf[id] /\ status'[older] = "pending"
    => createdAt'[id] <= createdAt'[older]
KeepsOutcomes ==
  \A id \in Id : status[id] \in Terminal /\ createdAt'[id] = createdAt[id]
    => status'[id] \in {status[id], "none"}
AddsNothing ==
  \A x \in Id : /\ status'[x] # "none" => status[x] # "none"
                /\ status'[x] = "pending" => status[x] = "pending"

(* A nonempty set of positions has a first one.                            *)
LEMMA FirstPosition ==
  ASSUME NEW S \in SUBSET Nat, S # {}
  PROVE  \E k \in S : \A j \in S : k <= j
<1> DEFINE T == {1..i : i \in S}
<1>1. T \subseteq FiniteSubsetsOf(Nat)
  BY FS_Interval DEF FiniteSubsetsOf
<1>2. PICK x \in T : \A y \in T : ~(<<y, x>> \in StrictSubsetOrdering(Nat))
  <2>1. T # {}
    OBVIOUS
  <2>2. IsWellFoundedOn(StrictSubsetOrdering(Nat), FiniteSubsetsOf(Nat))
    BY FS_StrictSubsetOrderingWellFounded
  <2> HIDE DEF T
  <2> QED
    BY <1>1, <2>1, <2>2, WFMin
<1>3. PICK k \in S : x = 1..k
  OBVIOUS
<1>4. ASSUME NEW j \in S, j < k PROVE FALSE
  <2>1. /\ 1..j \in T /\ 1..j \in SUBSET Nat /\ 1..k \in SUBSET Nat
        /\ 1..j \subseteq 1..k /\ k \in 1..k /\ k \notin 1..j
    BY <1>4
  <2> QED
    BY <1>2, <1>3, <2>1 DEF StrictSubsetOrdering
<1> QED
  BY <1>4

LEMMA WithoutHolds ==
  ASSUME NEW q \in Seq(Id), NEW id
  PROVE  /\ \A x : Has(Without(q, id), x) => Has(q, x)
         /\ \A x : Has(q, x) /\ x # id => Has(Without(q, id), x)
         /\ \A x, y : Follows(Without(q, id), x, y) => Follows(q, x, y)
<1>1. CASE ~ \E i \in 1..Len(q) : q[i] = id
  BY <1>1 DEF Without
<1>2. CASE \E i \in 1..Len(q) : q[i] = id
  <2> DEFINE P(i) == q[i] = id /\ \A j \in 1..(i-1) : q[j] # id
             k == CHOOSE i \in 1..Len(q) : P(i)
             n == Len(q) - 1
             r == [i \in 1..n |-> IF i < k THEN q[i] ELSE q[i+1]]
  <2>0. \E i \in 1..Len(q) : P(i)
    <3> DEFINE S == {i \in 1..Len(q) : q[i] = id}
    <3>1. S \in SUBSET Nat /\ S # {}
      BY <1>2
    <3>2. PICK i \in S : \A j \in S : i <= j
      BY <3>1, FirstPosition
    <3>3. \A j \in 1..(i-1) : q[j] # id
      BY <3>2
    <3> QED
      BY <3>2, <3>3
  <2>1. Without(q, id) = r
    BY <1>2 DEF Without
  <2>2. k \in 1..Len(q) /\ q[k] = id
    BY <2>0
  <2> HIDE DEF k
  <2>3. n \in Nat /\ r \in Seq(Id) /\ Len(r) = n
    <3>1. n \in Nat
      BY <2>2
    <3>2. \A i \in 1..n : r[i] \in Id
      BY <3>1, <2>2
    <3> QED
      BY <3>1, <3>2
  <2>4. \A i \in 1..n : /\ i < k => i \in 1..Len(q) /\ r[i] = q[i]
                        /\ ~(i < k) => i+1 \in 1..Len(q) /\ r[i] = q[i+1]
    BY <2>3
  <2> HIDE DEF r
  <2>5. \A x : Has(r, x) => Has(q, x)
    BY <2>3, <2>4 DEF Has
  <2>6. ASSUME NEW x, Has(q, x), x # id PROVE Has(r, x)
    <3>1. PICK i \in 1..Len(q) : q[i] = x
      BY <2>6 DEF Has
    <3>2. i # k
      BY <2>2, <2>6, <3>1
    <3>3. CASE i < k
      BY <2>2, <2>3, <2>4, <3>1, <3>3 DEF Has
    <3>4. CASE i > k
      <4>1. i-1 \in 1..n /\ ~(i-1 < k) /\ (i-1)+1 = i
        BY <2>2, <2>3, <3>4
      <4> QED
        BY <2>3, <2>4, <3>1, <4>1 DEF Has
    <3> QED
      BY <2>2, <3>2, <3>3, <3>4
  <2>7. ASSUME NEW x, NEW y, Follows(r, x, y) PROVE Follows(q, x, y)
    <3>1. PICK i \in 1..n, j \in 1..n : i < j /\ r[i] = x /\ r[j] = y
      BY <2>3, <2>7 DEF Follows
    <3>2. CASE j < k
      <4>1. i < k /\ i \in 1..Len(q) /\ j \in 1..Len(q)
        BY <2>2, <2>4, <3>1, <3>2
      <4> QED
        BY <2>4, <3>1, <3>2, <4>1 DEF Follows
    <3>3. CASE ~(j < k) /\ i < k
      <4>1. i \in 1..Len(q) /\ j+1 \in 1..Len(q) /\ i < j+1
        BY <2>4, <3>1, <3>3
      <4> QED
        BY <2>4, <3>1, <3>3, <4>1 DEF Follows
    <3>4. CASE ~(j < k) /\ ~(i < k)
      <4>1. i+1 \in 1..Len(q) /\ j+1 \in 1..Len(q) /\ i+1 < j+1
        BY <2>4, <3>1, <3>4
      <4> QED
        BY <2>4, <3>1, <3>4, <4>1 DEF Follows
    <3> QED
      BY <3>2, <3>3, <3>4
  <2> QED
    BY <2>1, <2>5, <2>6, <2>7
<1> QED
  BY <1>1, <1>2

LEMMA SuffixHolds ==
  ASSUME NEW q \in Seq(Id), NEW k \in Nat \ {0}, k <= Len(q) + 2
  PROVE  /\ \A x : Has(Suffix(q, k), x) => Has(q, x)
         /\ \A x, y : Follows(Suffix(q, k), x, y) => Follows(q, x, y)
         /\ \A i \in 1..Len(q) : i >= k => Has(Suffix(q, k), q[i])
         /\ k > Len(q) => \A x : ~Has(Suffix(q, k), x)
<1> DEFINE m == Len(q) - k + 1
           n == IF m < 0 THEN 0 ELSE m
           r == [i \in 1..n |-> q[i+k-1]]
<1>1. n \in Nat /\ 1..m = 1..n
  OBVIOUS
<1>2. Suffix(q, k) = r
  BY <1>1 DEF Suffix
<1>3. \A i \in 1..n : i+k-1 \in 1..Len(q) /\ r[i] = q[i+k-1] /\ r[i] \in Id
  BY <1>1
<1>4. Len(r) = n
  BY <1>1, <1>3
<1>e. k > Len(q) => n = 0
  OBVIOUS
<1>r. \A i \in 1..Len(q) : i >= k => i-k+1 \in 1..n /\ (i-k+1)+k-1 = i
  OBVIOUS
<1> HIDE DEF n, r
<1>5. \A x : Has(r, x) => Has(q, x)
  BY <1>3, <1>4 DEF Has
<1>6. \A x, y : Follows(r, x, y) => Follows(q, x, y)
  <2> SUFFICES ASSUME NEW x, NEW y, Follows(r, x, y) PROVE Follows(q, x, y)
    OBVIOUS
  <2>1. PICK i \in 1..n, j \in 1..n : i < j /\ r[i] = x /\ r[j] = y
    BY <1>4 DEF Follows
  <2>2. i+k-1 \in 1..Len(q) /\ j+k-1 \in 1..Len(q) /\ i+k-1 < j+k-1
    BY <1>1, <1>3, <2>1
  <2> QED
    BY <1>3, <2>1, <2>2 DEF Follows
<1>7. \A i \in 1..Len(q) : i >= k => Has(r, q[i])
  BY <1>3, <1>4, <1>r DEF Has
<1>8. k > Len(q) => \A x : ~Has(r, x)
  BY <1>4, <1>e DEF Has
<1> QED
  BY <1>2, <1>5, <1>6, <1>7, <1>8

LEMMA AppendHolds ==
  ASSUME NEW q \in Seq(Id), NEW e \in Id
  PROVE  /\ \A x : Has(Append(q, e), x) <=> Has(q, x) \/ x = e
         /\ \A x, y : Follows(Append(q, e), x, y) =>
                        Follows(q, x, y) \/ (y = e /\ Has(q, x))
<1>1. /\ Len(Append(q, e)) = Len(q) + 1 /\ Append(q, e)[Len(q)+1] = e
      /\ \A i \in 1..Len(q) : Append(q, e)[i] = q[i]
  OBVIOUS
<1>2. \A i \in 1..(Len(q)+1) : i \in 1..Len(q) \/ i = Len(q)+1
  OBVIOUS
<1>3. \A x : Has(Append(q, e), x) <=> Has(q, x) \/ x = e
  BY <1>1, <1>2 DEF Has
<1>4. ASSUME NEW x, NEW y, Follows(Append(q, e), x, y)
      PROVE  Follows(q, x, y) \/ (y = e /\ Has(q, x))
  <2>1. PICK i \in 1..(Len(q)+1), j \in 1..(Len(q)+1) :
          i < j /\ Append(q, e)[i] = x /\ Append(q, e)[j] = y
    BY <1>1, <1>4 DEF Follows
  <2>2. i \in 1..Len(q)
    BY <2>1
  <2> QED
    BY <1>1, <1>2, <2>1, <2>2 DEF Follows, Has
<1> QED
  BY <1>3, <1>4

(* The queue a reconnect builds holds what is pending, oldest first.       *)
LEMMA SortedHolds ==
  ASSUME NEW s \in Sensor, NEW q \in SortedPending(s), createdAt \in [Id -> Nat]
  PROVE  /\ \A x \in Id : Has(q, x) <=> x \in Pending(s)
         /\ \A x, y : Follows(q, x, y) => createdAt[x] < createdAt[y]
<1> DEFINE P == Pending(s)
           n == Cardinality(P)
<1>1. IsFiniteSet(P) /\ n \in Nat
  BY SenderAssumption, FS_Subset, FS_CardinalityType DEF Pending
<1>2. /\ q \in [1..n -> P]
      /\ \A i, j \in 1..n : i < j => createdAt[q[i]] < createdAt[q[j]]
  BY DEF SortedPending
<1>3. Len(q) = n
  BY <1>1, <1>2
<1>4. q \in Surjection(1..n, P)
  <2>0. \A i \in 1..n : q[i] \in Id /\ createdAt[q[i]] \in Nat
    BY <1>2 DEF Pending
  <2>1. q \in Injection(1..n, P)
    <3>1. ASSUME NEW i \in 1..n, NEW j \in 1..n, q[i] = q[j] PROVE i = j
      <4>1. ~(i < j) /\ ~(j < i)
        BY <1>2, <2>0, <3>1
      <4> QED
        BY <1>1, <4>1
    <3> QED
      BY <1>2, <3>1 DEF Injection, IsInjective
  <2>2. Cardinality(1..n) = n
    BY <1>1, FS_Interval
  <2> QED
    BY <1>1, <2>1, <2>2, FS_Injection
<1>5. \A x \in P : \E i \in 1..n : q[i] = x
  BY <1>4 DEF Surjection
<1> QED
  BY <1>2, <1>3, <1>5 DEF Has, Follows

LEMMA RemoveHolds ==
  ASSUME NEW qs \in [Sensor -> Seq(Id)], NEW id, NEW s \in Sensor
  PROVE  /\ removeFromQueue(qs, id)[s] \in Seq(Id)
         /\ \A x : Has(removeFromQueue(qs, id)[s], x) => Has(qs[s], x)
         /\ \A x : Has(qs[s], x) /\ x # id => Has(removeFromQueue(qs, id)[s], x)
         /\ \A x, y : Follows(removeFromQueue(qs, id)[s], x, y) => Follows(qs[s], x, y)
<1>1. removeFromQueue(qs, id)[s] \in {qs[s], Without(qs[s], id)}
  BY DEF removeFromQueue
<1>2. CASE removeFromQueue(qs, id)[s] = qs[s]
  BY <1>2
<1>3. CASE removeFromQueue(qs, id)[s] = Without(qs[s], id)
  <2>1. qs[s] \in Seq(Id)
    OBVIOUS
  <2> QED
    BY <1>3, <2>1, WithoutFact, WithoutHolds
<1> QED
  BY <1>1, <1>2, <1>3

(* Each queue of qr holds what that of qs does, or less, in the same order;*)
(* what it lost is not pending for the Map st.                             *)
Thinned(qr, qs, st) ==
  \A s \in Sensor :
    /\ \A x \in Id : Has(qr[s], x) => Has(qs[s], x)
    /\ \A x \in Id \ Reusable : Has(qs[s], x) /\ st[x] = "pending" => Has(qr[s], x)
    /\ \A x, y \in Id : Follows(qr[s], x, y) => Follows(qs[s], x, y)

(* Statuses only leave "pending", and queues only lose what is not.        *)
LEMMA OrderlyThins ==
  ASSUME NEW st, NEW qs, NEW tm, NEW ca, NEW st2, NEW qs2, NEW tm2,
         Orderly(st, qs, tm, ca), Thinned(qs2, qs, st2),
         \A x \in Id : st2[x] = "pending" => st[x] = "pending",
         \A x \in Id : st2[x] # "none" => st[x] # "none",
         \A x \in Id : tm2[x] = "orphan" => tm[x] = "orphan" /\ st2[x] \in {st[x], "none"}
  PROVE  Orderly(st2, qs2, tm2, ca)
<1>0. SensorOf \in [Id -> Sensor]
  BY SenderAssumption
<1>1. \A id \in Id \ Reusable : st2[id] = "pending" => Has(qs2[SensorOf[id]], id)
  BY <1>0 DEF Orderly, Thinned
<1>2. \A s \in Sensor : \A x, y \in Id \ Reusable :
        st2[x] = "pending" /\ st2[y] = "pending" /\ Follows(qs2[s], x, y) => ca[x] <= ca[y]
  BY DEF Orderly, Thinned
<1>3. /\ \A id \in Id : tm2[id] = "orphan" => id \in Reusable /\ st2[id] \in {"none", "pending"}
      /\ \A id \in Id : st2[id] # "none" => ca[id] # 0
  BY DEF Orderly
<1>4. \A s \in Sensor : \A x \in Id : Has(qs2[s], x) => ca[x] # 0
  BY DEF Orderly, Thinned
<1> QED
  BY <1>1, <1>2, <1>3, <1>4 DEF Orderly

LEMMA AwakeThins ==
  ASSUME NEW s \in Sensor, NEW st, NEW qs, NEW fl, NEW st2, NEW qs2, NEW fl2,
         Awake(s, st, qs, fl), fl2[s] = fl[s],
         \A x \in Id : Has(qs2[s], x) => Has(qs[s], x),
         \A x \in Id : Has(qs[s], x) /\ st2[x] = "pending" => st[x] = "pending"
  PROVE  Awake(s, st2, qs2, fl2)
BY DEF Awake

(***************************************************************************)
(* trySendNext wakes the sensor it is called for, keeps the queues orderly,*)
(* and sends the oldest of the commands that are sent once.                *)
(***************************************************************************)
LEMMA TrySendNextWakes ==
  ASSUME NEW s \in Sensor, NEW st, NEW at, NEW qs, NEW fl, NEW tm, NEW ev, NEW ca,
         Typed(st, at, qs, fl, tm), Coherent(st, at, qs, fl, tm), Orderly(st, qs, tm, ca),
         \A u \in Sensor \ {s} : conn'[u] = "open" => Awake(u, st, qs, fl),
         TrySendNext(s, st, at, qs, fl, tm, ev)
  PROVE  /\ Orderly(status', queue', timer', ca)
         /\ \A u \in Sensor : conn'[u] = "open" => Awake(u, status', queue', inflight')
         /\ \A x \in Id : \/ status'[x] = st[x]
                          \/ st[x] = "pending" /\ status'[x] \in {"sent", "failed"}
         /\ \A x, y \in Id \ Reusable :
              /\ st[x] # "sent" /\ status'[x] = "sent"
              /\ SensorOf[y] = SensorOf[x] /\ status'[y] = "pending"
              => ca[x] <= ca[y]
<1> DEFINE q == qs[s]
           pending == {id \in Id : st[id] = "pending"}
<1>t. q \in Seq(Id) /\ Len(q) \in Nat
  BY DEF Typed
<1>a. SensorOf \in [Id -> Sensor] /\ NoId \notin Id
  BY SenderAssumption
<1>o. \A u \in Sensor : \A x \in Id : Has(qs[u], x) => SensorOf[x] = u
  BY DEF Coherent, Has
<1>f. ASSUME NEW m \in Nat \ {0}, m <= Len(q) + 2
      PROVE  /\ \A x : Has(Suffix(q, m), x) => Has(q, x)
             /\ \A x, y : Follows(Suffix(q, m), x, y) => Follows(q, x, y)
             /\ \A i \in 1..Len(q) : i >= m => Has(Suffix(q, m), q[i])
             /\ m > Len(q) => \A x : ~Has(Suffix(q, m), x)
  <2> HIDE DEF q
  <2> QED
    BY <1>t, <1>f, SuffixHolds
<1>1. CASE fl[s] # NoId
  <2>1. status' = st /\ queue' = qs /\ inflight' = fl /\ timer' = tm
    BY <1>1 DEF TrySendNext
  <2>2. Awake(s, st, qs, fl)
    BY <1>1 DEF Awake
  <2> QED
    BY <2>1, <2>2
<1>2. CASE fl[s] = NoId /\ conn'[s] # "open"
  <2>1. PICK k \in 1..(Len(q)+1) : /\ FirstIn(q, pending, k)
                                   /\ queue' = [qs EXCEPT ![s] = Suffix(q, k)]
    BY <1>2 DEF TrySendNext
  <2>2. status' = st /\ inflight' = fl /\ timer' = tm
    BY <1>2 DEF TrySendNext
  <2>3. queue'[s] = Suffix(q, k) /\ \A u \in Sensor \ {s} : queue'[u] = qs[u]
    BY <2>1 DEF Typed
  <2>4. k \in Nat \ {0} /\ k <= Len(q) + 2
    BY <1>t
  <2>5. \A x \in Id : Has(q, x) /\ st[x] = "pending" => Has(Suffix(q, k), x)
    <3> SUFFICES ASSUME NEW x \in Id, Has(q, x), st[x] = "pending" PROVE Has(Suffix(q, k), x)
      OBVIOUS
    <3>1. PICK i \in 1..Len(q) : q[i] = x
      BY DEF Has
    <3>2. i >= k
      BY <1>t, <2>1, <3>1 DEF FirstIn
    <3> QED
      BY <1>f, <2>4, <3>1, <3>2
  <2>6. Thinned(queue', qs, st)
    BY <1>f, <2>3, <2>4, <2>5 DEF Thinned
  <2>7. Orderly(status', queue', timer', ca)
    BY <2>2, <2>6, OrderlyThins
  <2>8. \A u \in Sensor : conn'[u] = "open" => Awake(u, status', queue', inflight')
    BY <1>2, <2>2, <2>3 DEF Awake
  <2> QED
    BY <2>2, <2>7, <2>8
<1>3. CASE fl[s] = NoId /\ conn'[s] = "open"
  <2> DEFINE Threw(k) == {q[i] : i \in 1..(k-1)} \cap pending
             Sent(k)  == {q[i] : i \in {k} \cap (1..Len(q))}
  <2>1. PICK k \in 1..(Len(q)+1) :
          /\ FirstIn(q, pending \ Unsendable, k)
          /\ status' = [id \in Id |-> IF id \in Threw(k) THEN "failed"
                                      ELSE IF id \in Sent(k) THEN "sent" ELSE st[id]]
          /\ timer' = [id \in Id |-> IF id \in Threw(k) THEN "off"
                                     ELSE IF id \in Sent(k) THEN "own" ELSE tm[id]]
          /\ inflight' = [fl EXCEPT ![s] = IF k <= Len(q) THEN q[k] ELSE NoId]
          /\ queue' = [qs EXCEPT ![s] = Suffix(q, k+1)]
    BY <1>3 DEF TrySendNext
  <2> DEFINE threw == Threw(k)
             sent  == Sent(k)
  <2>2. /\ \A id \in threw : id \in Id /\ st[id] = "pending"
        /\ \A id \in sent : /\ id \in Id /\ st[id] = "pending" /\ k \in 1..Len(q) /\ id = q[k]
        /\ k <= Len(q) => q[k] \in Id
        /\ \A i \in 1..Len(q) : st[q[i]] = "pending" /\ i < k => q[i] \in threw
        /\ k <= Len(q) => q[k] \in sent
    BY <1>t, <2>1 DEF FirstIn
  <2>3. queue'[s] = Suffix(q, k+1) /\ \A u \in Sensor \ {s} : queue'[u] = qs[u]
    BY <2>1 DEF Typed
  <2>4. k+1 \in Nat \ {0} /\ k+1 <= Len(q) + 2 /\ k \in Nat
    BY <1>t
  <2>i. /\ inflight'[s] = IF k <= Len(q) THEN q[k] ELSE NoId
        /\ \A u \in Sensor \ {s} : inflight'[u] = fl[u]
    BY <2>1 DEF Typed
  <2> HIDE DEF threw, sent
  <2>s. /\ \A id \in Id : status'[id] = IF id \in threw THEN "failed"
                                        ELSE IF id \in sent THEN "sent" ELSE st[id]
        /\ \A id \in Id : timer'[id] = IF id \in threw THEN "off"
                                        ELSE IF id \in sent THEN "own" ELSE tm[id]
    BY <2>1 DEF threw, sent
  <2>5. \A i \in 1..Len(q) : status'[q[i]] = "pending" => i > k /\ Has(Suffix(q, k+1), q[i])
    <3> SUFFICES ASSUME NEW i \in 1..Len(q), status'[q[i]] = "pending"
                 PROVE  i > k /\ Has(Suffix(q, k+1), q[i])
      OBVIOUS
    <3>0. q[i] \in Id
      BY <1>t
    <3>1. st[q[i]] = "pending" /\ q[i] \notin threw /\ q[i] \notin sent
      BY <2>s, <3>0
    <3>2. ~(i < k) /\ i # k
      BY <2>2, <3>1
    <3>3. i > k /\ i >= k+1
      BY <2>4, <3>2
    <3> QED
      BY <1>f, <2>4, <3>3
  <2>6. Thinned(queue', qs, status')
    <3>1. \A x \in Id : Has(q, x) /\ status'[x] = "pending" => Has(Suffix(q, k+1), x)
      BY <2>5 DEF Has
    <3> QED
      BY <1>f, <2>3, <2>4, <3>1 DEF Thinned
  <2>7. \A x \in Id : \/ status'[x] = st[x]
                      \/ st[x] = "pending" /\ status'[x] \in {"sent", "failed"}
    BY <2>2, <2>s
  <2>8. \A x \in Id : timer'[x] = "orphan" => tm[x] = "orphan" /\ status'[x] = st[x]
    BY <2>s
  <2>9. Orderly(status', queue', timer', ca)
    BY <2>6, <2>7, <2>8, OrderlyThins
  <2>10. ASSUME NEW u \in Sensor, conn'[u] = "open"
         PROVE  Awake(u, status', queue', inflight')
    <3>1. CASE u = s
      <4>1. CASE k <= Len(q)
        BY <1>a, <2>2, <2>i, <3>1, <4>1 DEF Awake
      <4>2. CASE ~(k <= Len(q))
        <5>1. k+1 > Len(q)
          BY <1>t, <2>4, <4>2
        <5> QED
          BY <1>f, <2>3, <2>4, <3>1, <5>1 DEF Awake
      <4> QED
        BY <4>1, <4>2
    <3>2. CASE u # s
      <4>1. Awake(u, st, qs, fl) /\ inflight'[u] = fl[u] /\ queue'[u] = qs[u]
        BY <2>3, <2>i, <2>10, <3>2
      <4>2. \A x \in Id : Has(qs[u], x) /\ status'[x] = "pending" => st[x] = "pending"
        BY <2>7
      <4> QED
        BY <4>1, <4>2, AwakeThins
    <3> QED
      BY <3>1, <3>2
  <2>11. ASSUME NEW x \in Id \ Reusable, NEW y \in Id \ Reusable,
                st[x] # "sent", status'[x] = "sent",
                SensorOf[y] = SensorOf[x], status'[y] = "pending"
         PROVE  ca[x] <= ca[y]
    <3>1. x \in sent /\ st[x] = "pending" /\ k \in 1..Len(q) /\ x = q[k]
      BY <2>2, <2>11, <2>s
    <3>2. st[y] = "pending"
      BY <2>7, <2>11
    <3>3. SensorOf[x] = s /\ Has(qs[s], y)
      <4>1. Has(qs[s], x)
        BY <3>1 DEF Has
      <4> QED
        BY <1>o, <2>11, <3>2, <4>1 DEF Orderly
    <3>4. PICK i \in 1..Len(q) : q[i] = y
      BY <3>3 DEF Has
    <3>5. i > k
      BY <2>5, <2>11, <3>4
    <3>6. Follows(qs[s], x, y)
      BY <3>1, <3>4, <3>5 DEF Follows
    <3> QED
      BY <3>1, <3>2, <3>6 DEF Orderly
  <2> QED
    BY <2>7, <2>9, <2>10, <2>11
<1> QED
  BY <1>1, <1>2, <1>3 DEF TrySendNext

-----------------------------------------------------------------------------
(* The handlers, one by one.  finalizeCommand completes a command that is  *)
(* not complete, or runs for an overwritten object and leaves the Map as   *)
(* it is.                                                                  *)
LEMMA FinalizeKeeps ==
  ASSUME IInv, Lively, NEW id \in Id, NEW final \in CommandStatus \ {"sent"}, NEW ev,
         status[id] \notin Terminal,
         final = "pending" => id \in Reusable /\ status[id] = "pending",
         final # "none" => status[id] # "none",
         UNCHANGED <<createdAt, clock, conn>>, FinalizeCommand(id, final, ev)
  PROVE  Lively' /\ SendsInOrder /\ KeepsOutcomes /\ AddsNothing
<1> DEFINE s == SensorOf[id]
           st == [status EXCEPT ![id] = final]
           qs == removeFromQueue(queue, id)
           fl == FreeSlot(id)
           tm == clearCommandTimeout(id)
<1>1. /\ Typed(status, attempts, queue, inflight, timer)
      /\ Coherent(status, attempts, queue, inflight, timer)
  BY IInvSplit
<1>2. s \in Sensor
  BY SenderAssumption
<1>3. /\ Typed(st, attempts, qs, fl, tm)
      /\ Coherent(st, attempts, qs, fl, tm)
  BY FinalizeState
<1>4. TrySendNext(s, st, attempts, qs, fl, tm, ev)
  BY DEF FinalizeCommand
<1>5. /\ \A x \in Id : st[x] = IF x = id THEN final ELSE status[x]
      /\ \A x \in Id : tm[x] = IF x = id THEN "off" ELSE timer[x]
      /\ \A u \in Sensor : fl[u] = IF inflight[u] = id THEN NoId ELSE inflight[u]
  BY <1>1 DEF Typed, clearCommandTimeout, FreeSlot
<1>6. \A u \in Sensor :
        /\ \A x \in Id : Has(qs[u], x) => Has(queue[u], x)
        /\ \A x \in Id : Has(queue[u], x) /\ x # id => Has(qs[u], x)
        /\ \A x, y \in Id : Follows(qs[u], x, y) => Follows(queue[u], x, y)
  BY <1>1, RemoveHolds DEF Typed
<1> HIDE DEF s, st, qs, fl, tm
<1>7. Orderly(st, qs, tm, createdAt)
  <2>1. Thinned(qs, queue, st)
    BY <1>5, <1>6 DEF Thinned
  <2>2. Orderly(status, queue, timer, createdAt)
    BY DEF Lively
  <2>3. /\ \A x \in Id : st[x] = "pending" => status[x] = "pending"
        /\ \A x \in Id : st[x] # "none" => status[x] # "none"
        /\ \A x \in Id : tm[x] = "orphan" => timer[x] = "orphan" /\ st[x] \in {status[x], "none"}
    BY <1>5
  <2> QED
    BY <2>1, <2>2, <2>3, OrderlyThins
<1>8. ASSUME NEW u \in Sensor \ {s}, conn'[u] = "open" PROVE Awake(u, st, qs, fl)
  <2>1. Awake(u, status, queue, inflight)
    BY <1>8 DEF Lively
  <2>2. fl[u] = inflight[u]
    BY <1>1, <1>5, <1>8, SenderAssumption DEF Coherent, s
  <2>3. \A x \in Id : Has(queue[u], x) /\ st[x] = "pending" => status[x] = "pending"
    BY <1>5
  <2> QED
    BY <1>6, <2>1, <2>2, <2>3, AwakeThins
<1>9. /\ Orderly(status', queue', timer', createdAt)
      /\ \A u \in Sensor : conn'[u] = "open" => Awake(u, status', queue', inflight')
      /\ \A x \in Id : \/ status'[x] = st[x]
                       \/ st[x] = "pending" /\ status'[x] \in {"sent", "failed"}
      /\ \A x, y \in Id \ Reusable :
           /\ st[x] # "sent" /\ status'[x] = "sent"
           /\ SensorOf[y] = SensorOf[x] /\ status'[y] = "pending"
           => createdAt[x] <= createdAt[y]
  BY <1>2, <1>3, <1>4, <1>7, <1>8, TrySendNextWakes
<1>10. Lively'
  BY <1>9 DEF Lively
<1>11. SendsInOrder
  BY <1>5, <1>9 DEF SendsInOrder
<1>12. KeepsOutcomes
  BY <1>5, <1>9 DEF KeepsOutcomes, Terminal
<1>13. AddsNothing
  BY <1>5, <1>9 DEF AddsNothing
<1> QED
  BY <1>10, <1>11, <1>12, <1>13

(* A retry of the command in the slot, over queues that may just have been *)
(* rebuilt.                                                                *)
LEMMA ResendKeeps ==
  ASSUME IInv, Lively, NEW id \in Id, NEW qs \in [Sensor -> Seq(Id)],
         Orderly(status, qs, timer, createdAt),
         \A u \in Sensor \ {SensorOf[id]} : conn'[u] = "open" => Awake(u, status, qs, inflight),
         inflight[SensorOf[id]] = id, status[id] \in {"sent", "pending"},
         UNCHANGED <<createdAt, clock>>, Resend(id, qs)
  PROVE  Lively' /\ SendsInOrder /\ KeepsOutcomes /\ AddsNothing
<1>1. /\ Typed(status, attempts, queue, inflight, timer)
      /\ Coherent(status, attempts, queue, inflight, timer)
  BY IInvSplit
<1>2. /\ queue' = removeFromQueue(qs, id)
      /\ status' = [status EXCEPT ![id] = "sent"]
      /\ timer' = [timer EXCEPT ![id] = "own"]
      /\ inflight' = inflight
  BY DEF Resend
<1>3. /\ \A x \in Id : status'[x] = IF x = id THEN "sent" ELSE status[x]
      /\ \A x \in Id : timer'[x] = IF x = id THEN "own" ELSE timer[x]
  BY <1>1, <1>2 DEF Typed
<1>4. \A u \in Sensor :
        /\ \A x \in Id : Has(queue'[u], x) => Has(qs[u], x)
        /\ \A x \in Id : Has(qs[u], x) /\ x # id => Has(queue'[u], x)
        /\ \A x, y \in Id : Follows(queue'[u], x, y) => Follows(qs[u], x, y)
  BY <1>2, RemoveHolds
<1>5. status[id] = "pending" => id \in Reusable
  <2>1. inflight[SensorOf[id]] # NoId /\ SensorOf[id] \in Sensor
    BY SenderAssumption
  <2>2. timer[id] \in {"own", "orphan"}
    BY <1>1, <2>1 DEF Coherent, Typed
  <2> QED
    BY <1>1, <2>2 DEF Coherent, Orderly
<1>6. AddsNothing
  BY <1>3 DEF AddsNothing
<1>7. Orderly(status', queue', timer', createdAt)
  <2>1. Thinned(queue', qs, status')
    BY <1>3, <1>4 DEF Thinned
  <2>2. \A x \in Id : timer'[x] = "orphan" =>
          timer[x] = "orphan" /\ status'[x] \in {status[x], "none"}
    BY <1>3
  <2>3. /\ \A x \in Id : status'[x] = "pending" => status[x] = "pending"
        /\ \A x \in Id : status'[x] # "none" => status[x] # "none"
    BY <1>3
  <2> QED
    BY <2>1, <2>2, <2>3, OrderlyThins
<1>8. ASSUME NEW u \in Sensor, conn'[u] = "open" PROVE Awake(u, status', queue', inflight')
  <2>1. CASE u = SensorOf[id]
    BY <1>2, <2>1, SenderAssumption DEF Awake
  <2>2. CASE u # SensorOf[id]
    <3>1. Awake(u, status, qs, inflight) /\ inflight'[u] = inflight[u]
      BY <1>2, <1>8, <2>2
    <3>2. \A x \in Id : Has(qs[u], x) /\ status'[x] = "pending" => status[x] = "pending"
      BY <1>3
    <3> QED
      BY <1>4, <3>1, <3>2, AwakeThins
  <2> QED
    BY <2>1, <2>2
<1>9. Lively'
  BY <1>7, <1>8 DEF Lively
<1>10. SendsInOrder
  BY <1>3, <1>5 DEF SendsInOrder
<1>11. KeepsOutcomes
  BY <1>3 DEF KeepsOutcomes, Terminal
<1> QED
  BY <1>6, <1>9, <1>10, <1>11

LEMMA RegisterKeeps ==
  ASSUME IInv, Lively, NEW s \in Sensor, NEW r \in {"open", "closed"},
         RegisterConnection(s, r)
  PROVE  Lively' /\ SendsInOrder /\ KeepsOutcomes /\ AddsNothing
<1>1. /\ Typed(status, attempts, queue, inflight, timer)
      /\ Coherent(status, attempts, queue, inflight, timer)
      /\ Others
  BY IInvSplit
<1>2. UNCHANGED <<createdAt, clock>> /\ \A u \in Sensor \ {s} : conn'[u] = conn[u]
  BY <1>1 DEF RegisterConnection, Others
<1> DEFINE id == inflight[s]
           resend == /\ id # NoId
                     /\ status[id] \in {"sent", "pending"}
                     /\ MayRetry(attempts[id], id)
                     /\ r = "open"
           Qs(q) == [queue EXCEPT ![s] = q]
<1>3. PICK q \in SortedPending(s) :
        \/ resend /\ Resend(id, Qs(q))
        \/ TrySendNext(s, status, attempts, Qs(q), inflight, timer, {})
  BY DEF RegisterConnection
<1> DEFINE qs == Qs(q)
<1>4. q \in Seq(Id) /\ \A i \in 1..Len(q) : SensorOf[q[i]] = s
  BY SortedPendingFact
<1>5. /\ \A x \in Id : Has(q, x) <=> x \in Pending(s)
      /\ \A x, y : Follows(q, x, y) => createdAt[x] < createdAt[y]
  BY <1>1, SortedHolds DEF Others
<1>6. /\ qs \in [Sensor -> Seq(Id)] /\ qs[s] = q
      /\ \A u \in Sensor \ {s} : qs[u] = queue[u]
      /\ \A u \in Sensor : \A i \in 1..Len(qs[u]) : SensorOf[qs[u][i]] = u
  BY <1>1, <1>4 DEF Typed, Coherent
<1> HIDE DEF qs
<1>7. Orderly(status, qs, timer, createdAt)
  <2>0. Orderly(status, queue, timer, createdAt) /\ SensorOf \in [Id -> Sensor]
    BY SenderAssumption DEF Lively
  <2>1. \A x \in Id \ Reusable : status[x] = "pending" => Has(qs[SensorOf[x]], x)
    BY <1>5, <1>6, <2>0 DEF Orderly, Pending
  <2>2. ASSUME NEW u \in Sensor, NEW x \in Id \ Reusable, NEW y \in Id \ Reusable,
               status[x] = "pending", status[y] = "pending", Follows(qs[u], x, y)
        PROVE  createdAt[x] <= createdAt[y]
    <3>1. CASE u = s
      <4>1. createdAt[x] < createdAt[y] /\ createdAt[x] \in Nat /\ createdAt[y] \in Nat
        BY <1>1, <1>5, <1>6, <2>2, <3>1 DEF Others
      <4> QED
        BY <4>1
    <3>2. CASE u # s
      BY <1>6, <2>0, <2>2, <3>2 DEF Orderly
    <3> QED
      BY <3>1, <3>2
  <2>3. \A u \in Sensor : \A x \in Id : Has(qs[u], x) => createdAt[x] # 0
    <3>1. \A x \in Id : Has(q, x) => createdAt[x] # 0
      BY <1>5, <2>0 DEF Pending, Orderly
    <3> QED
      BY <1>6, <2>0, <3>1 DEF Orderly
  <2> QED
    BY <2>0, <2>1, <2>2, <2>3 DEF Orderly
<1>8. \A u \in Sensor \ {s} : conn'[u] = "open" => Awake(u, status, qs, inflight)
  BY <1>2, <1>6 DEF Lively, Awake
<1>9. CASE resend /\ Resend(id, qs)
  <2>1. id \in Id /\ SensorOf[id] = s
    BY <1>1, <1>9 DEF Typed, Coherent
  <2>2. inflight[SensorOf[id]] = id /\ status[id] \in {"sent", "pending"}
    BY <1>9, <2>1
  <2> HIDE DEF id, resend
  <2> QED
    BY <1>2, <1>6, <1>7, <1>8, <1>9, <2>1, <2>2, ResendKeeps
<1>10. CASE TrySendNext(s, status, attempts, qs, inflight, timer, {})
  <2>1. Typed(status, attempts, qs, inflight, timer)
    BY <1>1, <1>6 DEF Typed
  <2>2. Coherent(status, attempts, qs, inflight, timer)
    BY <1>1, <1>6 DEF Coherent
  <2>3. /\ Orderly(status', queue', timer', createdAt)
        /\ \A u \in Sensor : conn'[u] = "open" => Awake(u, status', queue', inflight')
        /\ \A x \in Id : \/ status'[x] = status[x]
                         \/ status[x] = "pending" /\ status'[x] \in {"sent", "failed"}
        /\ \A x, y \in Id \ Reusable :
             /\ status[x] # "sent" /\ status'[x] = "sent"
             /\ SensorOf[y] = SensorOf[x] /\ status'[y] = "pending"
             => createdAt[x] <= createdAt[y]
    BY <1>7, <1>8, <1>10, <2>1, <2>2, TrySendNextWakes
  <2>4. Lively'
    BY <1>2, <2>3 DEF Lively
  <2>5. SendsInOrder
    BY <1>2, <2>3 DEF SendsInOrder
  <2>6. KeepsOutcomes /\ AddsNothing
    BY <2>3 DEF KeepsOutcomes, AddsNothing, Terminal
  <2> QED
    BY <2>4, <2>5, <2>6
<1> QED
  BY <1>3, <1>9, <1>10 DEF qs

(* Steps that send nothing and only take commands out.                     *)
LEMMA RemovalKeeps ==
  ASSUME IInv, Lively, AddsNothing, UNCHANGED <<createdAt, clock>>,
         Thinned(queue', queue, status'),
         \A x \in Id : status'[x] \in {status[x], "none"},
         \A x \in Id : timer'[x] = "orphan" => timer[x] = "orphan",
         \A u \in Sensor : conn'[u] = "open" =>
            \/ conn[u] = "open" /\ inflight'[u] = inflight[u]
            \/ inflight'[u] # NoId
  PROVE  Lively' /\ SendsInOrder /\ KeepsOutcomes
<1>1. Orderly(status', queue', timer', createdAt)
  <2>1. Orderly(status, queue, timer, createdAt)
    BY DEF Lively
  <2>2. /\ \A x \in Id : status'[x] = "pending" => status[x] = "pending"
        /\ \A x \in Id : status'[x] # "none" => status[x] # "none"
    BY DEF AddsNothing
  <2>3. \A x \in Id : timer'[x] = "orphan" =>
          timer[x] = "orphan" /\ status'[x] \in {status[x], "none"}
    OBVIOUS
  <2> QED
    BY <2>1, <2>2, <2>3, OrderlyThins
<1>2. ASSUME NEW u \in Sensor, conn'[u] = "open" PROVE Awake(u, status', queue', inflight')
  <2>1. CASE conn[u] = "open" /\ inflight'[u] = inflight[u]
    <3>1. Awake(u, status, queue, inflight)
      BY <2>1 DEF Lively
    <3>2. \A x \in Id : Has(queue'[u], x) => Has(queue[u], x)
      BY DEF Thinned
    <3>3. \A x \in Id : Has(queue[u], x) /\ status'[x] = "pending" => status[x] = "pending"
      BY DEF AddsNothing
    <3> QED
      BY <2>1, <3>1, <3>2, <3>3, AwakeThins
  <2>2. CASE inflight'[u] # NoId
    BY <2>2 DEF Awake
  <2> QED
    BY <1>2, <2>1, <2>2
<1>3. Lively'
  BY <1>1, <1>2 DEF Lively
<1>4. SendsInOrder
  BY DEF SendsInOrder
<1>5. KeepsOutcomes
  BY DEF KeepsOutcomes
<1> QED
  BY <1>3, <1>4, <1>5

LEMMA DisconnectKeeps ==
  ASSUME IInv, Lively, NEW s \in Sensor, Disconnect(s)
  PROVE  Lively' /\ SendsInOrder /\ KeepsOutcomes /\ AddsNothing
<1> DEFINE C == toClean(s)
<1>1. /\ Typed(status, attempts, queue, inflight, timer)
      /\ Coherent(status, attempts, queue, inflight, timer)
      /\ Others
  BY IInvSplit
<1>2. \A x \in Id : SensorOf[x] = s /\ status[x] = "pending" => x \in C
  BY DEF toClean, Pending
<1> HIDE DEF C
<1>3. /\ \A x \in Id : status'[x] = IF x \in C THEN "none" ELSE status[x]
      /\ \A x \in Id : timer'[x] = IF x \in C THEN "off" ELSE timer[x]
      /\ queue'[s] = <<>> /\ \A u \in Sensor \ {s} : queue'[u] = queue[u]
      /\ \A u \in Sensor \ {s} : inflight'[u] = inflight[u] /\ conn'[u] = conn[u]
      /\ conn'[s] = "none"
      /\ UNCHANGED <<createdAt, clock>>
  BY <1>1 DEF Disconnect, CleanupSensor, C, Typed, Others
<1>4. AddsNothing
  BY <1>3 DEF AddsNothing
<1>5. Thinned(queue', queue, status')
  <2>1. \A x : ~Has(<<>>, x)
    BY DEF Has
  <2>2. \A x, y : ~Follows(<<>>, x, y)
    BY DEF Follows
  <2>3. \A x \in Id : Has(queue[s], x) => status'[x] # "pending"
    BY <1>1, <1>2, <1>3 DEF Has, Coherent
  <2> QED
    BY <1>3, <2>1, <2>2, <2>3 DEF Thinned
<1> QED
  BY <1>3, <1>4, <1>5, RemovalKeeps

LEMMA ExpireKeeps ==
  ASSUME IInv, Lively, NEW id \in Id, ExpireCompleted(id) \/ ExpirePending(id)
  PROVE  Lively' /\ SendsInOrder /\ KeepsOutcomes /\ AddsNothing
<1>1. /\ Typed(status, attempts, queue, inflight, timer)
      /\ Coherent(status, attempts, queue, inflight, timer)
  BY IInvSplit
<1>2. /\ status' = [status EXCEPT ![id] = "none"]
      /\ queue' = removeFromQueue(queue, id)
      /\ UNCHANGED <<createdAt, clock, timer, conn>>
  BY DEF ExpireCompleted, ExpirePending
<1>3. \A u \in Sensor : inflight'[u] = inflight[u]
  <2>1. CASE ExpirePending(id)
    BY <2>1 DEF ExpirePending
  <2>2. CASE ExpireCompleted(id)
    <3>1. timer[id] = "off"
      BY <1>1, <2>2 DEF ExpireCompleted, Coherent, Lively, Orderly, Typed, Terminal
    <3>2. \A u \in Sensor : inflight[u] # id
      BY <1>1, <3>1, SenderAssumption DEF Coherent
    <3> QED
      BY <2>2, <3>2 DEF ExpireCompleted, FreeSlot
  <2> QED
    BY <2>1, <2>2
<1>4. \A x \in Id : status'[x] = IF x = id THEN "none" ELSE status[x]
  BY <1>1, <1>2 DEF Typed
<1>5. AddsNothing
  BY <1>4 DEF AddsNothing
<1>6. Thinned(queue', queue, status')
  <2>1. \A u \in Sensor :
          /\ \A x \in Id : Has(queue'[u], x) => Has(queue[u], x)
          /\ \A x \in Id : Has(queue[u], x) /\ x # id => Has(queue'[u], x)
          /\ \A x, y \in Id : Follows(queue'[u], x, y) => Follows(queue[u], x, y)
    BY <1>1, <1>2, RemoveHolds DEF Typed
  <2> QED
    BY <1>4, <2>1 DEF Thinned
<1> QED
  BY <1>2, <1>3, <1>4, <1>5, <1>6, RemovalKeeps

LEMMA OrphanKeeps ==
  ASSUME IInv, Lively, NEW id \in Id, OrphanTimerFires(id)
  PROVE  Lively' /\ SendsInOrder /\ KeepsOutcomes /\ AddsNothing
<1> DEFINE s == SensorOf[id]
<1>1. /\ Typed(status, attempts, queue, inflight, timer)
      /\ Coherent(status, attempts, queue, inflight, timer)
  BY IInvSplit
<1>2. /\ s \in Sensor /\ NoId \notin Id
      /\ id \in Reusable /\ status[id] \in {"none", "pending"}
      /\ UNCHANGED <<createdAt, clock, conn>>
  BY SenderAssumption DEF OrphanTimerFires, Lively, Orderly
<1>3. CASE /\ queue' = removeFromQueue(queue, id)
           /\ inflight' = [inflight EXCEPT ![s] = id]
           /\ UNCHANGED <<status, timer>>
  <2>1. AddsNothing
    BY <1>3 DEF AddsNothing
  <2>2. \A u \in Sensor :
          /\ \A x \in Id : Has(queue'[u], x) => Has(queue[u], x)
          /\ \A x \in Id : Has(queue[u], x) /\ x # id => Has(queue'[u], x)
          /\ \A x, y \in Id : Follows(queue'[u], x, y) => Follows(queue[u], x, y)
    BY <1>1, <1>3, RemoveHolds DEF Typed
  <2>3. Thinned(queue', queue, status')
    BY <1>2, <2>2 DEF Thinned
  <2>4. \A u \in Sensor : inflight'[u] # NoId \/ inflight'[u] = inflight[u]
    BY <1>1, <1>2, <1>3 DEF Typed
  <2> QED
    BY <1>2, <1>3, <2>1, <2>3, <2>4, RemovalKeeps
<1>4. CASE /\ timer' = [timer EXCEPT ![id] = "off"]
           /\ UNCHANGED <<status, queue, inflight>>
  <2>1. AddsNothing
    BY <1>4 DEF AddsNothing
  <2>2. Thinned(queue', queue, status')
    BY <1>4 DEF Thinned
  <2>3. \A x \in Id : timer'[x] = "orphan" => timer[x] = "orphan"
    BY <1>1, <1>4 DEF Typed
  <2> QED
    BY <1>2, <1>4, <2>1, <2>2, <2>3, RemovalKeeps
<1>5. CASE FinalizeCommand(id, status[id], {<<"timeout", id>>})
  <2>1. status[id] \in CommandStatus \ {"sent"} /\ status[id] \notin Terminal
    BY <1>2 DEF CommandStatus, Terminal
  <2> QED
    BY <1>2, <1>5, <2>1, FinalizeKeeps
<1> QED
  BY <1>3, <1>4, <1>5 DEF OrphanTimerFires

(* sendCommand: the new command is the youngest, and goes to the back.     *)
LEMMA SendKeeps ==
  ASSUME IInv, Lively, NEW id \in Id, SendCommand(id)
  PROVE  Lively' /\ SendsInOrder /\ KeepsOutcomes
<1> DEFINE s == SensorOf[id]
<1>1. /\ Typed(status, attempts, queue, inflight, timer)
      /\ Coherent(status, attempts, queue, inflight, timer)
      /\ Others
  BY IInvSplit
<1>2. /\ s \in Sensor /\ NoId \notin Id /\ clock \in Nat
      /\ clock' = clock + 1 /\ UNCHANGED conn
      /\ createdAt[id] = 0 \/ id \in Reusable
  BY <1>1, SenderAssumption DEF SendCommand, Others
<1>3. /\ createdAt' = [createdAt EXCEPT ![id] = clock + 1]
      /\ \A x \in Id : createdAt'[x] = IF x = id THEN clock + 1 ELSE createdAt[x]
  <2>1. createdAt' = [createdAt EXCEPT ![id] = clock + 1]
    BY AcceptFact DEF SendCommand, SendDropped
  <2> QED
    BY <1>1, <2>1 DEF Others
<1>4. \A x \in Id : /\ createdAt[x] \in Nat /\ createdAt[x] <= clock
                    /\ createdAt'[x] <= clock' /\ createdAt'[x] <= createdAt'[id]
  BY <1>1, <1>2, <1>3 DEF Lively, Others
<1>5. createdAt'[id] # createdAt[id] /\ createdAt'[id] # 0
  BY <1>2, <1>3, <1>4
<1>6. Orderly(status, queue, timer, createdAt)
  BY DEF Lively
<1>7. CASE SendDropped(id)
  <2>1. PICK v \in PerSensorVictim(s) :
          /\ status' = [x \in Id |-> IF x = v THEN "none" ELSE status[x]]
          /\ queue' = removeFromQueue(queue, v)
          /\ UNCHANGED <<inflight, timer>>
    BY <1>7 DEF SendDropped
  <2>2. \A x \in Id : status'[x] = IF x = v THEN "none" ELSE status[x]
    BY <2>1
  <2>3. \A u \in Sensor :
          /\ \A x \in Id : Has(queue'[u], x) => Has(queue[u], x)
          /\ \A x \in Id : Has(queue[u], x) /\ x # v => Has(queue'[u], x)
          /\ \A x, y \in Id : Follows(queue'[u], x, y) => Follows(queue[u], x, y)
    BY <1>1, <2>1, RemoveHolds DEF Typed
  <2>4. Thinned(queue', queue, status')
    BY <2>2, <2>3 DEF Thinned
  <2>5. Orderly(status', queue', timer', createdAt)
    <3>1. /\ \A x \in Id : status'[x] = "pending" => status[x] = "pending"
          /\ \A x \in Id : status'[x] # "none" => status[x] # "none"
          /\ \A x \in Id : timer'[x] = "orphan" =>
               timer[x] = "orphan" /\ status'[x] \in {status[x], "none"}
      BY <2>1, <2>2
    <3> QED
      BY <1>6, <2>4, <3>1, OrderlyThins
  <2>6. Orderly(status', queue', timer', createdAt')
    <3>1. id \in Reusable \/ status'[id] = "none"
      BY <1>2, <2>5 DEF Orderly
    <3>2. \A u \in Sensor : \A x, y \in Id \ Reusable :
            status'[x] = "pending" /\ status'[y] = "pending" /\ Follows(queue'[u], x, y)
            => createdAt'[x] <= createdAt'[y]
      BY <1>3, <2>5, <3>1 DEF Orderly
    <3>3. /\ \A x \in Id : status'[x] # "none" => createdAt'[x] # 0
          /\ \A u \in Sensor : \A x \in Id : Has(queue'[u], x) => createdAt'[x] # 0
      BY <1>3, <1>5, <2>5 DEF Orderly
    <3> QED
      BY <2>5, <3>2, <3>3 DEF Orderly
  <2>7. ASSUME NEW u \in Sensor, conn'[u] = "open" PROVE Awake(u, status', queue', inflight')
    <3>1. Awake(u, status, queue, inflight) /\ inflight'[u] = inflight[u]
      BY <1>2, <2>1, <2>7 DEF Lively
    <3>2. \A x \in Id : Has(queue[u], x) /\ status'[x] = "pending" => status[x] = "pending"
      BY <2>2
    <3> QED
      BY <2>3, <3>1, <3>2, AwakeThins
  <2>8. Lively'
    BY <1>4, <2>6, <2>7 DEF Lively
  <2>9. SendsInOrder
    BY <2>2 DEF SendsInOrder
  <2>10. KeepsOutcomes
    BY <2>2 DEF KeepsOutcomes
  <2> QED
    BY <2>8, <2>9, <2>10
<1>8. CASE SendAccepted(id)
  <2> DEFINE at == AcceptedAttempts(id)
             tm == AcceptedTimers(id)
             Pushed(v, w) ==
               TrySendNext(s, AcceptedStatus(id, v, w), at, AcceptedQueues(id, v, w),
                           inflight, tm, Evicted(v) \cup Evicted(w))
  <2>0. PICK v \in PerSensorVictim(s) : \E w \in GlobalVictim(v) : Pushed(v, w)
    BY <1>8, AcceptFact
  <2>1. PICK w \in GlobalVictim(v) : Pushed(v, w)
    BY <2>0
  <2> DEFINE st == AcceptedStatus(id, v, w)
             qr == removeFromQueue(removeFromQueue(queue, v), w)
             qs == AcceptedQueues(id, v, w)
             ev == Evicted(v) \cup Evicted(w)
  <2>2. (v \in Id => status[v] = "pending") /\ (w \in Id => status[w] = "pending")
    BY <1>2, VictimsFact
  <2>3. Typed(st, at, qs, inflight, tm) /\ Coherent(st, at, qs, inflight, tm)
    BY <2>2, AcceptedState
  <2>4. TrySendNext(s, st, at, qs, inflight, tm, ev)
    BY <2>1
  <2>5. /\ \A x \in Id : st[x] = IF x = id THEN "pending"
                                 ELSE IF x \in {v, w} THEN "none" ELSE status[x]
        /\ \A x \in Id : tm[x] = IF x = id /\ timer[id] = "own" THEN "orphan" ELSE timer[x]
    BY <1>1 DEF Typed, AcceptedStatus, AcceptedTimers
  <2>6. \A u \in Sensor :
          /\ qr[u] \in Seq(Id)
          /\ \A x \in Id : Has(qr[u], x) => Has(queue[u], x)
          /\ \A x \in Id : Has(queue[u], x) /\ x # v /\ x # w => Has(qr[u], x)
          /\ \A x, y \in Id : Follows(qr[u], x, y) => Follows(queue[u], x, y)
    <3> DEFINE q1 == removeFromQueue(queue, v)
    <3>1. q1 \in [Sensor -> Seq(Id)]
      <4>1. /\ queue \in [Sensor -> Seq(Id)]
            /\ \A u \in Sensor : \A i \in 1..Len(queue[u]) : SensorOf[queue[u][i]] = u
        BY <1>1 DEF Typed, Coherent
      <4> QED
        BY <4>1, RemoveFact
    <3>2. \A u \in Sensor :
            /\ \A x \in Id : Has(q1[u], x) => Has(queue[u], x)
            /\ \A x \in Id : Has(queue[u], x) /\ x # v => Has(q1[u], x)
            /\ \A x, y \in Id : Follows(q1[u], x, y) => Follows(queue[u], x, y)
      BY <1>1, RemoveHolds DEF Typed
    <3> HIDE DEF q1
    <3>3. qr = removeFromQueue(q1, w)
      BY DEF q1
    <3>4. \A u \in Sensor :
            /\ qr[u] \in Seq(Id)
            /\ \A x \in Id : Has(qr[u], x) => Has(q1[u], x)
            /\ \A x \in Id : Has(q1[u], x) /\ x # w => Has(qr[u], x)
            /\ \A x, y \in Id : Follows(qr[u], x, y) => Follows(q1[u], x, y)
      BY <3>1, <3>3, RemoveHolds
    <3> QED
      BY <3>2, <3>4
  <2>7. qs[s] = Append(qr[s], id) /\ \A u \in Sensor \ {s} : qs[u] = qr[u]
    BY <1>2 DEF AcceptedQueues
  <2> HIDE DEF st, at, tm, ev, qs, qr
  <2>8. /\ \A x \in Id : Has(qs[s], x) <=> Has(qr[s], x) \/ x = id
        /\ \A x, y \in Id : Follows(qs[s], x, y) =>
                              Follows(qr[s], x, y) \/ (y = id /\ Has(qr[s], x))
    BY <1>2, <2>6, <2>7, AppendHolds
  <2>9. \A u \in Sensor : \A x, y \in Id :
          Follows(qs[u], x, y) => Follows(queue[u], x, y) \/ y = id
    BY <2>6, <2>7, <2>8
  <2>10. Orderly(st, qs, tm, createdAt')
    <3>1. \A x \in Id \ Reusable : st[x] = "pending" => Has(qs[SensorOf[x]], x)
      <4> SUFFICES ASSUME NEW x \in Id \ Reusable, st[x] = "pending"
                   PROVE  Has(qs[SensorOf[x]], x)
        OBVIOUS
      <4>0. SensorOf[x] \in Sensor
        BY SenderAssumption
      <4>1. CASE x = id
        BY <2>8, <4>1
      <4>2. CASE x # id
        <5>1. x # v /\ x # w /\ status[x] = "pending"
          BY <2>5, <4>2
        <5>2. Has(queue[SensorOf[x]], x)
          BY <1>6, <5>1 DEF Orderly
        <5>3. Has(qr[SensorOf[x]], x)
          BY <2>6, <4>0, <5>1, <5>2
        <5> QED
          BY <2>7, <2>8, <4>0, <5>3
      <4> QED
        BY <4>1, <4>2
    <3>2. ASSUME NEW u \in Sensor, NEW x \in Id \ Reusable, NEW y \in Id \ Reusable,
                 st[x] = "pending", st[y] = "pending", Follows(qs[u], x, y)
          PROVE  createdAt'[x] <= createdAt'[y]
      <4>1. CASE y = id
        BY <1>4, <4>1
      <4>2. CASE y # id
        <5>1. Follows(queue[u], x, y) /\ Has(queue[u], x)
          BY <2>9, <3>2, <4>2 DEF Follows, Has
        <5>2. x # id
          BY <1>2, <1>6, <5>1 DEF Orderly
        <5>3. status[x] = "pending" /\ status[y] = "pending"
          BY <2>5, <3>2, <4>2, <5>2
        <5>4. createdAt[x] <= createdAt[y]
          BY <1>6, <5>1, <5>3 DEF Orderly
        <5> QED
          BY <1>3, <4>2, <5>2, <5>4
      <4> QED
        BY <4>1, <4>2
    <3>3. \A x \in Id : tm[x] = "orphan" => x \in Reusable /\ st[x] \in {"none", "pending"}
      <4>1. timer[id] = "own" => createdAt[id] # 0
        BY <1>1, <1>6 DEF Coherent, Orderly
      <4> QED
        BY <1>2, <1>6, <2>5, <4>1 DEF Orderly
    <3>4. \A x \in Id : st[x] # "none" => createdAt'[x] # 0
      BY <1>3, <1>5, <1>6, <2>5 DEF Orderly
    <3>5. \A u \in Sensor : \A x \in Id : Has(qs[u], x) => createdAt'[x] # 0
      <4>1. \A u \in Sensor : \A x \in Id : Has(qs[u], x) => Has(queue[u], x) \/ x = id
        BY <2>6, <2>7, <2>8
      <4> QED
        BY <1>3, <1>5, <1>6, <4>1 DEF Orderly
    <3> QED
      BY <3>1, <3>2, <3>3, <3>4, <3>5 DEF Orderly
  <2>11. ASSUME NEW u \in Sensor \ {s}, conn'[u] = "open" PROVE Awake(u, st, qs, inflight)
    <3>1. Awake(u, status, queue, inflight)
      BY <1>2, <2>11 DEF Lively
    <3>2. \A x \in Id : Has(queue[u], x) => SensorOf[x] = u
      BY <1>1 DEF Coherent, Has
    <3>3. \A x \in Id : Has(queue[u], x) /\ st[x] = "pending" => status[x] = "pending"
      BY <2>5, <2>11, <3>2
    <3>4. \A x \in Id : Has(qs[u], x) => Has(queue[u], x)
      BY <2>6, <2>7
    <3> QED
      BY <3>1, <3>3, <3>4, AwakeThins
  <2>12. /\ Orderly(status', queue', timer', createdAt')
         /\ \A u \in Sensor : conn'[u] = "open" => Awake(u, status', queue', inflight')
         /\ \A x \in Id : \/ status'[x] = st[x]
                          \/ st[x] = "pending" /\ status'[x] \in {"sent", "failed"}
         /\ \A x, y \in Id \ Reusable :
              /\ st[x] # "sent" /\ status'[x] = "sent"
              /\ SensorOf[y] = SensorOf[x] /\ status'[y] = "pending"
              => createdAt'[x] <= createdAt'[y]
    <3> DEFINE ca == createdAt'
    <3>1. Orderly(st, qs, tm, ca)
      BY <2>10
    <3> HIDE DEF ca
    <3>2. /\ Orderly(status', queue', timer', ca)
          /\ \A u \in Sensor : conn'[u] = "open" => Awake(u, status', queue', inflight')
          /\ \A x \in Id : \/ status'[x] = st[x]
                           \/ st[x] = "pending" /\ status'[x] \in {"sent", "failed"}
          /\ \A x, y \in Id \ Reusable :
               /\ st[x] # "sent" /\ status'[x] = "sent"
               /\ SensorOf[y] = SensorOf[x] /\ status'[y] = "pending"
               => ca[x] <= ca[y]
      BY <1>2, <2>3, <2>4, <2>11, <3>1, TrySendNextWakes
    <3> QED
      BY <3>2 DEF ca
  <2>13. Lively'
    BY <1>4, <2>12 DEF Lively
  <2>14. SendsInOrder
    BY <2>5, <2>12 DEF SendsInOrder
  <2>15. KeepsOutcomes
    BY <1>5, <2>2, <2>5, <2>12 DEF KeepsOutcomes, Terminal
  <2> QED
    BY <2>13, <2>14, <2>15
<1> QED
  BY <1>7, <1>8 DEF SendCommand

(* Every step but a sendCommand: nothing enters the Map.                   *)
LEMMA OtherStepsKeep ==
  ASSUME IInv, Lively, [Next]_vars, ~ \E id \in Id : SendCommand(id)
  PROVE  Lively' /\ SendsInOrder /\ KeepsOutcomes /\ AddsNothing
<1> DEFINE Goal == Lively' /\ SendsInOrder /\ KeepsOutcomes /\ AddsNothing
<1>1. CASE UNCHANGED vars
  BY <1>1 DEF vars, Lively, Orderly, Awake, Has, Follows, SendsInOrder, KeepsOutcomes,
     AddsNothing
<1>2. ASSUME NEW s \in Sensor, NEW r \in {"open", "closed"}, RegisterConnection(s, r)
      PROVE  Goal
  BY <1>2, RegisterKeeps
<1>3. ASSUME NEW s \in Sensor, SocketCloses(s) \/ UnregisterConnection(s) PROVE Goal
  <2>1. /\ \A u \in Sensor : conn'[u] = "open" => conn[u] = "open"
        /\ UNCHANGED <<status, createdAt, clock, queue, inflight, timer>>
    BY <1>3 DEF SocketCloses, UnregisterConnection, IInv, TypeOK
  <2>2. AddsNothing /\ Thinned(queue', queue, status')
    BY <2>1 DEF AddsNothing, Thinned
  <2> QED
    BY <2>1, <2>2, RemovalKeeps
<1>4. ASSUME NEW s \in Sensor, Disconnect(s) PROVE Goal
  BY <1>4, DisconnectKeeps
<1>5. ASSUME NEW id \in Id, NEW success \in BOOLEAN, HandleResponse(id, success)
      PROVE  Goal
  <2>1. PICK final \in {"success", "failed"}, ev \in {{<<"complete", id>>}, {<<"failed", id>>}} :
          FinalizeCommand(id, final, ev)
    BY <1>5 DEF HandleResponse
  <2>2. /\ final \in CommandStatus \ {"sent"} /\ final # "pending"
        /\ status[id] \notin Terminal /\ status[id] # "none"
        /\ UNCHANGED <<createdAt, clock, conn>>
    BY <1>5 DEF HandleResponse, Answerable, CommandStatus, Terminal
  <2> QED
    BY <2>1, <2>2, FinalizeKeeps
<1>6. ASSUME NEW id \in Id, TimerFires(id) PROVE Goal
  <2>1. /\ UNCHANGED <<createdAt, clock, conn>>
        /\ status[id] = "sent" /\ inflight[SensorOf[id]] = id
    BY <1>6 DEF TimerFires, IInv, TimerMatchesStatus, OneInFlight
  <2>2. CASE Resend(id, queue)
    <3>1. /\ queue \in [Sensor -> Seq(Id)]
          /\ Orderly(status, queue, timer, createdAt)
          /\ \A u \in Sensor \ {SensorOf[id]} :
               conn'[u] = "open" => Awake(u, status, queue, inflight)
      BY <2>1 DEF IInv, TypeOK, Lively
    <3> QED
      BY <2>1, <2>2, <3>1, ResendKeeps
  <2>3. CASE FinalizeCommand(id, "timeout", {<<"timeout", id>>})
    <3>1. "timeout" \in CommandStatus \ {"sent"} /\ status[id] \notin Terminal
      BY <2>1 DEF CommandStatus, Terminal
    <3> QED
      BY <2>1, <2>3, <3>1, FinalizeKeeps
  <2> QED
    BY <1>6, <2>2, <2>3 DEF TimerFires
<1>7. ASSUME NEW id \in Id, OrphanTimerFires(id) PROVE Goal
  BY <1>7, OrphanKeeps
<1>8. ASSUME NEW id \in Id, ExpireCompleted(id) \/ ExpirePending(id) PROVE Goal
  BY <1>8, ExpireKeeps
<1>9. ASSUME NEW id \in Id, ExpireStaleSent(id) PROVE Goal
  <2>1. /\ "failed" \in CommandStatus \ {"sent"}
        /\ status[id] \notin Terminal /\ status[id] # "none"
        /\ UNCHANGED <<createdAt, clock, conn>>
        /\ FinalizeCommand(id, "failed", {<<"failed", id>>})
    BY <1>9 DEF ExpireStaleSent, CommandStatus, Terminal
  <2> QED
    BY <2>1, FinalizeKeeps
<1> QED
  BY <1>1, <1>2, <1>3, <1>4, <1>5, <1>6, <1>7, <1>8, <1>9 DEF Next, Timers

LEMMA InitLively == Init => Lively
<1> SUFFICES ASSUME Init PROVE Lively
  OBVIOUS
<1>1. \A x : ~Has(<<>>, x)
  BY DEF Has
<1>2. \A s \in Sensor : queue[s] = <<>> /\ conn[s] = "none"
  BY DEF Init
<1>3. /\ \A id \in Id : status[id] = "none" /\ timer[id] = "off"
      /\ \A id \in Id : createdAt[id] <= clock
  BY DEF Init
<1> QED
  BY <1>1, <1>2, <1>3 DEF Lively, Orderly

LEMMA NextLively == IInv /\ Lively /\ [Next]_vars => Lively' /\ SendsInOrder /\ KeepsOutcomes
BY SendKeeps, OtherStepsKeep

(* Nothing pending is stuck: what is sent once is queued while it waits,   *)
(* and an open socket with a free slot has nothing left to send.           *)
THEOREM SenderNothingStuck == Spec => []NothingStuck
<1>1. ASSUME IInv, Lively PROVE NothingStuck
  <2>1. \A s \in Sensor : \A x \in QueuedIds(queue[s]) : x \in Id /\ Has(queue[s], x)
    BY <1>1 DEF IInv, TypeOK, QueuedIds, Has
  <2>2. \A s \in Sensor : \A x \in Id : Has(queue[s], x) => x \in QueuedIds(queue[s])
    BY DEF QueuedIds, Has
  <2>3. \A id \in Id \ Reusable :
          status[id] = "pending" => id \in QueuedIds(queue[SensorOf[id]])
    BY <1>1, <2>2, SenderAssumption DEF Lively, Orderly
  <2>4. \A s \in Sensor : Ready(s) /\ inflight[s] = NoId =>
          \A id \in QueuedIds(queue[s]) : status[id] # "pending"
    BY <1>1, <2>1 DEF Lively, Awake, Ready
  <2> QED
    BY <2>3, <2>4 DEF NothingStuck
<1> QED
  BY <1>1, InitIInv, NextIInv, InitLively, NextLively, PTL DEF Spec

(* A first send never overtakes an older command of the sensor that waits. *)
THEOREM SenderFirstInFirstOut == Spec => FirstInFirstOut
BY InitIInv, NextIInv, InitLively, NextLively, PTL DEF Spec, FirstInFirstOut, SendsInOrder

(* A completed command keeps its outcome until it is forgotten or reused.  *)
THEOREM SenderOutcomeSticks == Spec => OutcomeSticks
BY InitIInv, NextIInv, InitLively, NextLively, PTL DEF Spec, OutcomeSticks, KeepsOutcomes


-----------------------------------------------------------------------------
(* The limits.  sendCommand counts the entries of the queue that are       *)
(* pending, and the commands in the Map; both counts are of the state      *)
(* before the new command, with at most one victim each.                   *)

InMap(st) == {id \in Id : st[id] # "none"}
Waiting(st, s) == {id \in Id : SensorOf[id] = s /\ st[id] = "pending"}

LEMMA LimitsRestated ==
  /\ commands = InMap(status) /\ commands' = InMap(status')
  /\ \A s \in Sensor : Pending(s) = Waiting(status, s) /\ Pending(s)' = Waiting(status', s)
BY DEF commands, Pending, InMap, Waiting

LEMMA FiniteIds ==
  ASSUME NEW S \in SUBSET Id
  PROVE  /\ IsFiniteSet(S) /\ Cardinality(S) \in Nat
         /\ \A T \in SUBSET S : Cardinality(T) <= Cardinality(S)
         /\ \A x \in Id : Cardinality(S \cup {x}) <= Cardinality(S) + 1
         /\ \A x \in S : Cardinality(S \ {x}) = Cardinality(S) - 1
<1>1. IsFiniteSet(S)
  BY SenderAssumption, FS_Subset
<1>2. Cardinality(S) \in Nat
  BY <1>1, FS_CardinalityType
<1>3. \A T \in SUBSET S : Cardinality(T) <= Cardinality(S)
  BY <1>1, FS_Subset
<1>4. ASSUME NEW x \in Id PROVE Cardinality(S \cup {x}) <= Cardinality(S) + 1
  <2> DEFINE n == Cardinality(S)
             m == Cardinality(S \cup {x})
  <2>1. x \in S => S \cup {x} = S
    OBVIOUS
  <2>2. m = n \/ m = n + 1
    BY <1>1, <2>1, FS_AddElement
  <2>3. n \in Nat
    BY <1>2
  <2> HIDE DEF n, m
  <2>4. m <= n + 1
    BY <2>2, <2>3
  <2> QED
    BY <2>4 DEF n, m
<1>5. \A x \in S : Cardinality(S \ {x}) = Cardinality(S) - 1
  BY <1>1, FS_RemoveElement
<1> QED
  BY <1>1, <1>2, <1>3, <1>4, <1>5

(* What is removed for x makes room for it.                                *)
LEMMA RoomForOne ==
  ASSUME NEW S \in SUBSET Id, NEW T \in SUBSET Id, NEW x \in Id, NEW v, NEW n \in Nat,
         T \subseteq (S \ {v}) \cup {x}, Cardinality(S) <= n,
         v \in S \/ Cardinality(S) < n
  PROVE  Cardinality(T) <= n
<1> DEFINE R == S \ {v}
           U == R \cup {x}
<1>1. R \in SUBSET Id /\ U \in SUBSET Id /\ R \in SUBSET S /\ T \in SUBSET U
  OBVIOUS
<1>2. Cardinality(R) < n
  <2>1. CASE v \in S
    BY <2>1, FiniteIds
  <2>2. CASE Cardinality(S) < n
    <3>1. Cardinality(R) <= Cardinality(S) /\ Cardinality(R) \in Nat /\ Cardinality(S) \in Nat
      BY <1>1, FiniteIds
    <3> QED
      BY <2>2, <3>1
  <2> QED
    BY <2>1, <2>2
<1>3. Cardinality(R) \in Nat /\ Cardinality(U) \in Nat /\ Cardinality(T) \in Nat
  BY <1>1, FiniteIds
<1>4. Cardinality(U) <= Cardinality(R) + 1
  BY <1>1, FiniteIds
<1>5. Cardinality(T) <= Cardinality(U)
  BY <1>1, FiniteIds
<1> HIDE DEF R, U
<1> QED
  BY <1>2, <1>3, <1>4, <1>5

(* The count sendCommand uses misses nothing that is pending.              *)
LEMMA PendingCounted ==
  ASSUME IInv, Lively, Reusable = {}, NEW s \in Sensor
  PROVE  Cardinality(Pending(s)) <= PendingCount(s)
<1> DEFINE P == Pending(s)
           q == queue[s]
           I == {i \in 1..Len(q) : status[q[i]] = "pending"}
           f == [i \in I |-> q[i]]
<1>0. P \in SUBSET Id /\ Cardinality(P) \in Nat
  BY FiniteIds DEF Pending
<1>1. CASE q = <<>>
  <2>1. PendingCount(s) = Cardinality(P)
    BY <1>1 DEF PendingCount
  <2> QED
    BY <1>0, <2>1
<1>2. CASE q # <<>>
  <2>1. PendingCount(s) = Cardinality(I)
    BY <1>2 DEF PendingCount
  <2>2. q \in Seq(Id) /\ Len(q) \in Nat /\ \A i \in 1..Len(q) : q[i] \in Id /\ SensorOf[q[i]] = s
    BY DEF IInv, TypeOK, QueueOwn
  <2>3. IsFiniteSet(I)
    <3>1. IsFiniteSet(1..Len(q)) /\ I \in SUBSET (1..Len(q))
      BY <2>2, FS_Interval
    <3> QED
      BY <3>1, FS_Subset
  <2>4. f \in Surjection(I, P)
    <3>1. f \in [I -> P]
      BY <2>2 DEF Pending
    <3>2. \A x \in P : \E i \in I : f[i] = x
      <4> SUFFICES ASSUME NEW x \in P PROVE \E i \in I : f[i] = x
        OBVIOUS
      <4>1. x \in Id \ Reusable /\ status[x] = "pending" /\ SensorOf[x] = s
        BY DEF Pending
      <4>2. Has(q, x)
        BY <4>1 DEF Lively, Orderly
      <4>3. PICK i \in 1..Len(q) : q[i] = x
        BY <4>2 DEF Has
      <4>4. i \in I /\ f[i] = x
        BY <4>1, <4>3
      <4> QED
        BY <4>4
    <3> HIDE DEF f, I, P
    <3> QED
      BY <3>1, <3>2 DEF Surjection
  <2> HIDE DEF f, I, P
  <2>5. Cardinality(P) <= Cardinality(I)
    BY <2>3, <2>4, FS_Surjection
  <2> QED
    BY <2>1, <2>5 DEF P
<1> QED
  BY <1>1, <1>2

(* The limits hold of the Map st.                                          *)
Limited(st) ==
  /\ Cardinality(InMap(st)) <= MaxQueueSize
  /\ Reusable = {} => \A s \in Sensor : Cardinality(Waiting(st, s)) <= MaxPerSensorQueueSize

LEMMA FewerIsLimited ==
  ASSUME NEW st, NEW st2, Limited(st),
         \A x \in Id : /\ st2[x] # "none" => st[x] # "none"
                       /\ st2[x] = "pending" => st[x] = "pending"
  PROVE  Limited(st2)
<1>0. MaxQueueSize \in Nat /\ MaxPerSensorQueueSize \in Nat
  BY SenderAssumption
<1>1. Cardinality(InMap(st2)) <= MaxQueueSize
  <2>1. InMap(st) \in SUBSET Id /\ InMap(st2) \in SUBSET Id /\ InMap(st2) \in SUBSET InMap(st)
    BY DEF InMap
  <2>2. /\ Cardinality(InMap(st)) \in Nat /\ Cardinality(InMap(st2)) \in Nat
        /\ Cardinality(InMap(st2)) <= Cardinality(InMap(st))
    BY <2>1, FiniteIds
  <2> QED
    BY <1>0, <2>2 DEF Limited
<1>2. ASSUME Reusable = {}, NEW s \in Sensor
      PROVE  Cardinality(Waiting(st2, s)) <= MaxPerSensorQueueSize
  <2> DEFINE W == Waiting(st, s)
             V == Waiting(st2, s)
  <2>1. W \in SUBSET Id /\ V \in SUBSET Id /\ V \in SUBSET W
    BY DEF Waiting
  <2>2. Cardinality(W) <= MaxPerSensorQueueSize
    BY <1>2 DEF Limited
  <2> HIDE DEF W, V
  <2>3. Cardinality(W) \in Nat /\ Cardinality(V) \in Nat /\ Cardinality(V) <= Cardinality(W)
    BY <2>1, FiniteIds
  <2>4. Cardinality(V) <= MaxPerSensorQueueSize
    BY <1>0, <2>2, <2>3
  <2> QED
    BY <2>4 DEF V
<1> QED
  BY <1>1, <1>2 DEF Limited

(* trySendNext changes the status of pending commands only.                *)
LEMMA TrySendNextMoves ==
  ASSUME NEW s \in Sensor, NEW st, NEW at, NEW qs, NEW fl, NEW tm, NEW ev,
         Typed(st, at, qs, fl, tm), TrySendNext(s, st, at, qs, fl, tm, ev)
  PROVE  \A x \in Id : \/ status'[x] = st[x]
                       \/ st[x] = "pending" /\ status'[x] \in {"sent", "failed"}
<1>1. CASE fl[s] # NoId \/ conn'[s] # "open"
  BY <1>1 DEF TrySendNext
<1>2. CASE fl[s] = NoId /\ conn'[s] = "open"
  <2> DEFINE q == qs[s]
             pending == {id \in Id : st[id] = "pending"}
             Threw(k) == {q[i] : i \in 1..(k-1)} \cap pending
             Sent(k)  == {q[i] : i \in {k} \cap (1..Len(q))}
  <2>1. PICK k \in 1..(Len(q)+1) :
          /\ FirstIn(q, pending \ Unsendable, k)
          /\ status' = [id \in Id |-> IF id \in Threw(k) THEN "failed"
                                      ELSE IF id \in Sent(k) THEN "sent" ELSE st[id]]
    BY <1>2 DEF TrySendNext
  <2>2. /\ \A x \in Threw(k) : st[x] = "pending"
        /\ \A x \in Sent(k) : st[x] = "pending"
    BY <2>1 DEF FirstIn
  <2> HIDE DEF Threw, Sent
  <2> QED
    BY <2>1, <2>2
<1> QED
  BY <1>1, <1>2

(* sendCommand evicts before it stores, so the limits hold of what it      *)
(* hands to trySendNext.                                                   *)
LEMMA AcceptedIsLimited ==
  ASSUME IInv, Lively, Limited(status), NEW id \in Id,
         NEW v \in PerSensorVictim(SensorOf[id]), NEW w \in GlobalVictim(v)
  PROVE  Limited(AcceptedStatus(id, v, w))
<1> DEFINE s == SensorOf[id]
           st == AcceptedStatus(id, v, w)
<1>0. /\ MaxQueueSize \in Nat /\ MaxPerSensorQueueSize \in Nat
      /\ s \in Sensor /\ NoId \notin Id
  BY SenderAssumption
<1>1. \A x \in Id : st[x] = IF x = id THEN "pending"
                            ELSE IF x \in {v, w} THEN "none" ELSE status[x]
  BY DEF AcceptedStatus
<1>2. Cardinality(InMap(st)) <= MaxQueueSize
  <2> DEFINE S == InMap(status) \ {v}
             T == InMap(st)
  <2>1. S \in SUBSET Id /\ T \in SUBSET Id /\ S \in SUBSET InMap(status)
        /\ InMap(status) \in SUBSET Id
    BY DEF InMap
  <2>2. T \subseteq (S \ {w}) \cup {id}
    BY <1>1 DEF InMap
  <2>3. Cardinality(S) <= MaxQueueSize
    <3>1. /\ Cardinality(S) <= Cardinality(InMap(status))
          /\ Cardinality(S) \in Nat /\ Cardinality(InMap(status)) \in Nat
      <4> HIDE DEF S, T
      <4> QED
        BY <2>1, FiniteIds
    <3>2. Cardinality(InMap(status)) <= MaxQueueSize
      BY DEF Limited
    <3> HIDE DEF S
    <3> QED
      BY <1>0, <3>1, <3>2
  <2>4. w \in S \/ Cardinality(S) < MaxQueueSize
    <3>1. commands \ {v} = S
      BY LimitsRestated
    <3>2. CASE ~(Cardinality(commands \ {v}) >= MaxQueueSize)
      <4>1. Cardinality(S) \in Nat
        <5> HIDE DEF S, T
        <5> QED
          BY <2>1, FiniteIds
      <4>2. ~(Cardinality(S) >= MaxQueueSize)
        BY <3>1, <3>2
      <4> HIDE DEF S
      <4> QED
        BY <1>0, <4>1, <4>2
    <3>3. CASE Cardinality(commands \ {v}) >= MaxQueueSize
      <4>1. w \in Oldest({x \in Id \ {v} : status[x] = "pending"})
        BY <3>3 DEF GlobalVictim
      <4> QED
        BY <4>1 DEF Oldest, InMap
    <3> QED
      BY <3>2, <3>3
  <2> HIDE DEF S, T
  <2>5. Cardinality(T) <= MaxQueueSize
    BY <1>0, <2>1, <2>2, <2>3, <2>4, RoomForOne
  <2> QED
    BY <2>5 DEF T
<1>3. ASSUME Reusable = {}, NEW u \in Sensor
      PROVE  Cardinality(Waiting(st, u)) <= MaxPerSensorQueueSize
  <2> DEFINE W == Waiting(status, u)
             V == Waiting(st, u)
  <2>1. W \in SUBSET Id /\ V \in SUBSET Id
    BY DEF Waiting
  <2>2. Cardinality(W) <= MaxPerSensorQueueSize
    BY <1>3 DEF Limited
  <2>3. CASE u # s
    <3>1. V \in SUBSET W
      BY <1>1, <2>3 DEF Waiting
    <3> HIDE DEF W, V
    <3>2. Cardinality(W) \in Nat /\ Cardinality(V) \in Nat /\ Cardinality(V) <= Cardinality(W)
      BY <2>1, <3>1, FiniteIds
    <3>3. Cardinality(V) <= MaxPerSensorQueueSize
      BY <1>0, <2>2, <3>2
    <3> QED
      BY <3>3 DEF V
  <2>4. CASE u = s
    <3>1. V \subseteq (W \ {v}) \cup {id}
      BY <1>1, <2>4 DEF Waiting
    <3>2. W = Pending(s)
      BY <1>0, <2>4, LimitsRestated
    <3>3. v \in W \/ Cardinality(W) < MaxPerSensorQueueSize
      <4>1. CASE PendingCount(s) >= MaxPerSensorQueueSize
        BY <3>2, <4>1 DEF PerSensorVictim, Oldest
      <4>2. CASE ~(PendingCount(s) >= MaxPerSensorQueueSize)
        <5>1. Cardinality(W) <= PendingCount(s)
          BY <1>0, <1>3, <3>2, PendingCounted
        <5>2. Cardinality(W) \in Nat
          <6> HIDE DEF W
          <6> QED
            BY <2>1, FiniteIds
        <5>3. PendingCount(s) \in Nat
          <6> DEFINE I == {i \in 1..Len(queue[s]) : status[queue[s][i]] = "pending"}
          <6>1. Len(queue[s]) \in Nat
            BY <1>0 DEF IInv, TypeOK
          <6>2. IsFiniteSet(1..Len(queue[s])) /\ I \in SUBSET (1..Len(queue[s]))
            BY <6>1, FS_Interval
          <6>3. Cardinality(I) \in Nat
            BY <6>2, FS_Subset, FS_CardinalityType
          <6>4. PendingCount(s) \in {Cardinality(W), Cardinality(I)}
            BY <3>2 DEF PendingCount
          <6> HIDE DEF W, I
          <6> QED
            BY <5>2, <6>3, <6>4
        <5> HIDE DEF W
        <5> QED
          BY <1>0, <4>2, <5>1, <5>2, <5>3
      <4> QED
        BY <4>1, <4>2
    <3> HIDE DEF W, V
    <3>4. Cardinality(V) <= MaxPerSensorQueueSize
      BY <1>0, <2>1, <2>2, <3>1, <3>3, RoomForOne
    <3> QED
      BY <3>4 DEF V
  <2> QED
    BY <2>3, <2>4
<1> QED
  BY <1>2, <1>3 DEF Limited

LEMMA NextLimited ==
  ASSUME IInv, Lively, Limited(status), [Next]_vars
  PROVE  Limited(status')
<1>1. ASSUME NEW id \in Id, SendDropped(id) PROVE Limited(status')
  <2>1. PICK v \in PerSensorVictim(SensorOf[id]) :
          status' = [x \in Id |-> IF x = v THEN "none" ELSE status[x]]
    BY <1>1 DEF SendDropped
  <2>2. \A x \in Id : /\ status'[x] # "none" => status[x] # "none"
                      /\ status'[x] = "pending" => status[x] = "pending"
    BY <2>1
  <2> QED
    BY <2>2, FewerIsLimited
<1>2. ASSUME NEW id \in Id, SendAccepted(id) PROVE Limited(status')
  <2> DEFINE s == SensorOf[id]
             Pushed(v, w) ==
               TrySendNext(s, AcceptedStatus(id, v, w), AcceptedAttempts(id),
                           AcceptedQueues(id, v, w), inflight, AcceptedTimers(id),
                           Evicted(v) \cup Evicted(w))
  <2>0. PICK v \in PerSensorVictim(s) : \E w \in GlobalVictim(v) : Pushed(v, w)
    BY <1>2, AcceptFact
  <2>1. PICK w \in GlobalVictim(v) : Pushed(v, w)
    BY <2>0
  <2> DEFINE st == AcceptedStatus(id, v, w)
  <2>2. Limited(st)
    BY AcceptedIsLimited
  <2>3. s \in Sensor
    BY SenderAssumption
  <2>4. Typed(st, AcceptedAttempts(id), AcceptedQueues(id, v, w), inflight, AcceptedTimers(id))
    <3>1. (v \in Id => status[v] = "pending") /\ (w \in Id => status[w] = "pending")
      BY <2>3, VictimsFact
    <3> QED
      BY <3>1, AcceptedState
  <2>5. \A x \in Id : \/ status'[x] = st[x]
                      \/ st[x] = "pending" /\ status'[x] \in {"sent", "failed"}
    <3> HIDE DEF st
    <3> QED
      BY <2>1, <2>3, <2>4, TrySendNextMoves DEF st
  <2> HIDE DEF st
  <2>6. \A x \in Id : /\ status'[x] # "none" => st[x] # "none"
                      /\ status'[x] = "pending" => st[x] = "pending"
    BY <2>5
  <2> QED
    BY <2>2, <2>6, FewerIsLimited
<1>3. CASE ~ \E id \in Id : SendCommand(id)
  <2>1. AddsNothing
    BY <1>3, OtherStepsKeep
  <2>2. \A x \in Id : /\ status'[x] # "none" => status[x] # "none"
                      /\ status'[x] = "pending" => status[x] = "pending"
    BY <2>1 DEF AddsNothing
  <2> QED
    BY <2>2, FewerIsLimited
<1> QED
  BY <1>1, <1>2, <1>3 DEF SendCommand

(* The Map never outgrows maxQueueSize, nor a sensor's waiting commands    *)
(* maxPerSensorQueueSize when commands are sent once.                      *)
THEOREM SenderWithinLimits == Spec => []WithinLimits
<1>1. WithinLimits <=> Limited(status)
  BY LimitsRestated DEF WithinLimits, Limited
<1>2. Init => WithinLimits
  <2> SUFFICES ASSUME Init PROVE Limited(status)
    BY <1>1
  <2>1. InMap(status) = {} /\ \A s \in Sensor : Waiting(status, s) = {}
    BY DEF Init, InMap, Waiting
  <2>2. Cardinality({}) = 0
    BY FS_EmptySet
  <2>3. 0 <= MaxQueueSize /\ 0 <= MaxPerSensorQueueSize
    BY SenderAssumption
  <2> QED
    BY <2>1, <2>2, <2>3 DEF Limited
<1>3. IInv /\ Lively /\ WithinLimits /\ [Next]_vars => WithinLimits'
  <2> SUFFICES ASSUME IInv, Lively, WithinLimits, [Next]_vars PROVE WithinLimits'
    OBVIOUS
  <2>1. Limited(status')
    BY <1>1, NextLimited
  <2> QED
    BY <2>1, LimitsRestated DEF WithinLimits, Limited
<1> QED
  BY <1>2, <1>3, InitIInv, NextIInv, InitLively, NextLively, PTL DEF Spec
=============================================================================
