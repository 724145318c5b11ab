------------------------- MODULE HorizonClientProofs -------------------------
(***************************************************************************)
(* Proofs about HorizonClient for any number of signals, any queue and     *)
(* batch sizes, and any number of faults.                                  *)
(***************************************************************************)
EXTENDS HorizonClient, SequenceTheorems, TLAPS

(* Cutting a queue in two.                                                 *)
LEMMA CutFact ==
  ASSUME NEW S, NEW q \in Seq(S), NEW n \in 0..Len(q)
  PROVE  /\ First(q, n) \in Seq(S) /\ Len(First(q, n)) = n
         /\ \A i \in 1..n : First(q, n)[i] = q[i]
         /\ From(q, n) \in Seq(S) /\ Len(From(q, n)) = Len(q) - n
         /\ \A i \in 1..(Len(q) - n) : From(q, n)[i] = q[n + i]
<1>1. Len(q) \in Nat /\ \A i \in 1..Len(q) : q[i] \in S
  BY LenProperties, ElementOfSeq
<1>2. /\ First(q, n) \in Seq(S) /\ Len(First(q, n)) = n
      /\ \A i \in 1..n : First(q, n)[i] = q[i]
  <2>1. 1 \in Int /\ n \in Int /\ \A i \in 1..n : q[i] \in S
    BY <1>1
  <2>2. /\ SubSeq(q, 1, n) \in Seq(S)
        /\ Len(SubSeq(q, 1, n)) = IF 1 <= n THEN n - 1 + 1 ELSE 0
        /\ \A i \in 1..(n - 1 + 1) : SubSeq(q, 1, n)[i] = q[1 + i - 1]
    BY <2>1, SubSeqProperties
  <2>3. (IF 1 <= n THEN n - 1 + 1 ELSE 0) = n /\ n - 1 + 1 = n /\ \A i \in 1..n : 1 + i - 1 = i
    BY <1>1
  <2> QED
    BY <2>2, <2>3 DEF First
<1>3. /\ From(q, n) \in Seq(S) /\ Len(From(q, n)) = Len(q) - n
      /\ \A i \in 1..(Len(q) - n) : From(q, n)[i] = q[n + i]
  <2> DEFINE m == n + 1
             l == Len(q)
  <2>1. m \in Int /\ l \in Int /\ \A i \in m..l : q[i] \in S
    BY <1>1
  <2>2. /\ SubSeq(q, m, l) \in Seq(S)
        /\ Len(SubSeq(q, m, l)) = IF m <= l THEN l - m + 1 ELSE 0
        /\ \A i \in 1..(l - m + 1) : SubSeq(q, m, l)[i] = q[m + i - 1]
    <3> HIDE DEF m, l
    <3> QED
      BY <2>1, SubSeqProperties
  <2>3. (IF m <= l THEN l - m + 1 ELSE 0) = l - n /\ l - m + 1 = l - n
        /\ \A i \in 1..(l - n) : m + i - 1 = n + i
    BY <1>1
  <2> QED
    BY <2>2, <2>3 DEF From
<1> QED
  BY <1>2, <1>3

LEMMA SetOf ==
  ASSUME NEW S, NEW q \in Seq(S)
  PROVE  ToSet(q) = {q[i] : i \in 1..Len(q)} /\ ToSet(q) \subseteq S
BY LenProperties, ElementOfSeq DEF ToSet

LEMMA SetOfConcat ==
  ASSUME NEW S, NEW p \in Seq(S), NEW q \in Seq(S)
  PROVE  ToSet(p \o q) = ToSet(p) \union ToSet(q)
<1> DEFINE r == p \o q
<1>1. /\ r \in Seq(S) /\ Len(r) = Len(p) + Len(q)
      /\ \A i \in 1..(Len(p) + Len(q)) : r[i] = IF i <= Len(p) THEN p[i] ELSE q[i - Len(p)]
      /\ Len(p) \in Nat /\ Len(q) \in Nat
  BY ConcatProperties, LenProperties
<1>s. /\ ToSet(r) = {r[i] : i \in 1..Len(r)} /\ ToSet(p) = {p[i] : i \in 1..Len(p)}
      /\ ToSet(q) = {q[i] : i \in 1..Len(q)}
  BY <1>1, SetOf
<1> HIDE DEF r
<1>2. ASSUME NEW x \in ToSet(r) PROVE x \in ToSet(p) \union ToSet(q)
  <2>1. PICK i \in 1..Len(r) : r[i] = x
    BY <1>s
  <2>2. CASE i <= Len(p)
    <3>1. i \in 1..Len(p) /\ p[i] = x
      BY <1>1, <2>1, <2>2
    <3> QED
      BY <1>s, <3>1
  <2>3. CASE ~(i <= Len(p))
    <3>1. i - Len(p) \in 1..Len(q) /\ q[i - Len(p)] = x
      BY <1>1, <2>1, <2>3
    <3> QED
      BY <1>s, <3>1
  <2> QED
    BY <2>2, <2>3
<1>3. ASSUME NEW i \in 1..Len(p) PROVE p[i] \in ToSet(r)
  <2>1. i \in 1..Len(r) /\ r[i] = p[i]
    BY <1>1
  <2> QED
    BY <1>s, <2>1
<1>4. ASSUME NEW i \in 1..Len(q) PROVE q[i] \in ToSet(r)
  <2>1. i + Len(p) \in 1..Len(r) /\ r[i + Len(p)] = q[i]
    BY <1>1
  <2> QED
    BY <1>s, <2>1
<1> QED
  BY <1>2, <1>3, <1>4, <1>s DEF r

LEMMA SetOfCut ==
  ASSUME NEW S, NEW q \in Seq(S), NEW n \in 0..Len(q)
  PROVE  ToSet(q) = ToSet(First(q, n)) \union ToSet(From(q, n))
<1>1. /\ First(q, n) \in Seq(S) /\ Len(First(q, n)) = n
      /\ \A i \in 1..n : First(q, n)[i] = q[i]
      /\ From(q, n) \in Seq(S) /\ Len(From(q, n)) = Len(q) - n
      /\ \A i \in 1..(Len(q) - n) : From(q, n)[i] = q[n + i]
  BY CutFact
<1>2. Len(q) \in Nat
  BY LenProperties
<1>s. /\ ToSet(q) = {q[i] : i \in 1..Len(q)}
      /\ ToSet(First(q, n)) = {First(q, n)[i] : i \in 1..n}
      /\ ToSet(From(q, n)) = {From(q, n)[i] : i \in 1..(Len(q) - n)}
  BY <1>1, SetOf
<1>3. ASSUME NEW i \in 1..Len(q) PROVE q[i] \in ToSet(First(q, n)) \union ToSet(From(q, n))
  <2>1. CASE i <= n
    <3>1. i \in 1..n
      BY <2>1
    <3> QED
      BY <1>1, <1>s, <3>1
  <2>2. CASE ~(i <= n)
    <3>1. i - n \in 1..(Len(q) - n) /\ n + (i - n) = i
      BY <1>2, <2>2
    <3> QED
      BY <1>1, <1>s, <3>1
  <2> QED
    BY <2>1, <2>2
<1>4. \A i \in 1..n : i \in 1..Len(q)
  BY <1>2
<1>5. \A i \in 1..(Len(q) - n) : n + i \in 1..Len(q)
  BY <1>2
<1> QED
  BY <1>1, <1>3, <1>4, <1>5, <1>s

(* Taking the head of a queue, adding at its end.                          *)
LEMMA HeadFact ==
  ASSUME NEW S, NEW q \in Seq(S), q # << >>
  PROVE  /\ Head(q) \in S /\ Tail(q) \in Seq(S)
         /\ Len(Tail(q)) = Len(q) - 1 /\ Len(q) \in Nat \ {0} /\ Head(q) = q[1]
         /\ \A i \in 1..(Len(q) - 1) : Tail(q)[i] = q[i + 1]
         /\ ToSet(q) = {Head(q)} \union ToSet(Tail(q))
<1>1. /\ Head(q) \in S /\ Tail(q) \in Seq(S)
      /\ Len(Tail(q)) = Len(q) - 1 /\ Len(q) \in Nat \ {0} /\ Head(q) = q[1]
      /\ \A i \in 1..(Len(q) - 1) : Tail(q)[i] = q[i + 1]
  BY HeadTailProperties, EmptySeq
<1>s. /\ ToSet(q) = {q[i] : i \in 1..Len(q)}
      /\ ToSet(Tail(q)) = {Tail(q)[i] : i \in 1..(Len(q) - 1)}
  BY <1>1, SetOf
<1>2. \A i \in 1..Len(q) : i = 1 \/ (i - 1 \in 1..(Len(q) - 1) /\ (i - 1) + 1 = i)
  BY <1>1
<1>3. 1 \in 1..Len(q) /\ \A i \in 1..(Len(q) - 1) : i + 1 \in 1..Len(q)
  BY <1>1
<1>4. ASSUME NEW i \in 1..Len(q) PROVE q[i] \in {Head(q)} \union ToSet(Tail(q))
  <2>1. CASE i = 1
    BY <1>1, <2>1
  <2>2. CASE i - 1 \in 1..(Len(q) - 1) /\ (i - 1) + 1 = i
    <3>1. Tail(q)[i - 1] = q[i]
      BY <1>1, <2>2
    <3> QED
      BY <1>s, <2>2, <3>1
  <2> QED
    BY <1>2, <2>1, <2>2
<1> QED
  BY <1>1, <1>3, <1>4, <1>s

LEMMA AppendFact ==
  ASSUME NEW S, NEW q \in Seq(S), NEW x \in S
  PROVE  /\ Append(q, x) \in Seq(S) /\ Len(Append(q, x)) = Len(q) + 1
         /\ \A i \in 1..Len(q) : Append(q, x)[i] = q[i]
         /\ Append(q, x)[Len(q) + 1] = x
BY LenProperties

LEMMA SetOfAppend ==
  ASSUME NEW S, NEW q \in Seq(S), NEW x \in S
  PROVE  ToSet(Append(q, x)) = ToSet(q) \union {x}
<1>1. Append(q, x) = q \o <<x>>
  BY AppendIsConcat
<1>2. <<x>> \in Seq(S) /\ ToSet(<<x>>) = {x}
  BY DEF ToSet
<1>3. ToSet(q \o <<x>>) = ToSet(q) \union ToSet(<<x>>)
  BY <1>2, SetOfConcat
<1> QED
  BY <1>1, <1>2, <1>3

(* What a disconnection does to the buffers p (pending), b (batch) and f   *)
(* (inflight): each loses a prefix, which is counted as dropped.           *)
LEMMA StashFact ==
  ASSUME NEW p \in Seq(Signal), NEW b \in Seq(Signal)
  PROVE  \E n \in 0..Len(p), m \in 0..Len(b) :
           /\ stash_pending(p, b).pending = From(p, n) \o From(b, m)
           /\ stash_pending(p, b).dropped = ToSet(First(p, n)) \union ToSet(First(b, m))
<1> DEFINE over == IF b = << >> THEN 0 ELSE Excess(Len(p) + Len(b), MaxQueued)
           n == AtMost(over, Len(p))
<1>1. /\ stash_pending(p, b).pending = From(p, n) \o From(b, over - n)
      /\ stash_pending(p, b).dropped = ToSet(First(p, n)) \union ToSet(First(b, over - n))
  BY DEF stash_pending
<1>2. Len(p) \in Nat /\ Len(b) \in Nat /\ MaxQueued \in Nat
  BY LenProperties, ClientAssumption
<1>3. over \in 0..(Len(p) + Len(b))
  BY <1>2 DEF Excess
<1> HIDE DEF over
<1>4. n \in 0..Len(p) /\ over - n \in 0..Len(b)
  BY <1>2, <1>3 DEF AtMost
<1> QED
  BY <1>1, <1>4

LEMMA RequeueFact ==
  ASSUME NEW p \in Seq(Signal), NEW f \in Seq(Signal)
  PROVE  \E n \in 0..Len(p), m \in 0..Len(f) :
           /\ requeue_inflight(p, f).pending = From(f, m) \o From(p, n)
           /\ requeue_inflight(p, f).dropped = ToSet(First(p, n)) \union ToSet(First(f, m))
<1> DEFINE over == IF f = << >> THEN 0 ELSE Excess(Len(p) + Len(f), MaxQueued)
           n == AtMost(over, Len(p))
<1>1. /\ requeue_inflight(p, f).pending = From(f, over - n) \o From(p, n)
      /\ requeue_inflight(p, f).dropped = ToSet(First(p, n)) \union ToSet(First(f, over - n))
  BY DEF requeue_inflight
<1>2. Len(p) \in Nat /\ Len(f) \in Nat /\ MaxQueued \in Nat
  BY LenProperties, ClientAssumption
<1>3. over \in 0..(Len(p) + Len(f))
  BY <1>2 DEF Excess
<1> HIDE DEF over
<1>4. n \in 0..Len(p) /\ over - n \in 0..Len(f)
  BY <1>2, <1>3 DEF AtMost
<1> QED
  BY <1>1, <1>4

LEMMA RemoveAtFact ==
  ASSUME NEW S, NEW q \in Seq(S), NEW k \in 1..Len(q)
  PROVE  /\ RemoveAt(q, k) \in Seq(S) /\ Len(RemoveAt(q, k)) = Len(q) - 1
         /\ \A i \in 1..(Len(q) - 1) :
              RemoveAt(q, k)[i] = IF i < k THEN q[i] ELSE q[i + 1]
<1> DEFINE a == First(q, k - 1)
           b == From(q, k)
<1>1. Len(q) \in Nat /\ k - 1 \in 0..Len(q) /\ k \in 0..Len(q)
  BY LenProperties
<1>2. RemoveAt(q, k) = a \o b
  BY DEF RemoveAt, First, From
<1>3. /\ a \in Seq(S) /\ Len(a) = k - 1 /\ \A i \in 1..(k - 1) : a[i] = q[i]
      /\ b \in Seq(S) /\ Len(b) = Len(q) - k /\ \A i \in 1..(Len(q) - k) : b[i] = q[k + i]
  BY <1>1, CutFact
<1> HIDE DEF a, b
<1>4. /\ a \o b \in Seq(S) /\ Len(a \o b) = Len(a) + Len(b)
      /\ \A i \in 1..(Len(a) + Len(b)) :
           (a \o b)[i] = IF i <= Len(a) THEN a[i] ELSE b[i - Len(a)]
  BY <1>3, ConcatProperties
<1>5. Len(a) + Len(b) = Len(q) - 1
  BY <1>1, <1>3
<1>6. ASSUME NEW i \in 1..(Len(q) - 1)
      PROVE  (a \o b)[i] = IF i < k THEN q[i] ELSE q[i + 1]
  <2>1. CASE i < k
    BY <1>1, <1>3, <1>4, <1>5, <2>1
  <2>2. CASE ~(i < k)
    <3>1. /\ i - Len(a) \in 1..(Len(q) - k) /\ k + (i - Len(a)) = i + 1
          /\ ~(i <= Len(a))
      BY <1>1, <1>3, <2>2
    <3> QED
      BY <1>3, <1>4, <1>5, <2>2, <3>1
  <2> QED
    BY <2>1, <2>2
<1> QED
  BY <1>2, <1>4, <1>5, <1>6

(* q is what a disconnection makes of the buffers p, b and f: it drops     *)
(* from their fronts only.                                                 *)
Requeued(p, b, f, q) ==
  \E n \in 0..Len(p), m \in 0..Len(b) :
    /\ From(p, n) \o From(b, m) \in Seq(Signal)
    /\ \E j \in 0..Len(From(p, n) \o From(b, m)), k \in 0..Len(f) :
         q = From(f, k) \o From(From(p, n) \o From(b, m), j)

LEMMA DisconnectedFact ==
  ASSUME NEW had, NEW p \in Seq(Signal), NEW b \in Seq(Signal), NEW f \in Seq(Signal),
         Disconnected(had, p, b, f)
  PROVE  /\ pending' \in Seq(Signal)
         /\ batch' = << >> /\ inflight' = << >> /\ toHub' = << >> /\ acks' = << >>
         /\ loop' \in {"cooldown", "backoff"}
         /\ dropped \subseteq dropped'
         /\ ToSet(p) \union ToSet(b) \union ToSet(f) \subseteq ToSet(pending') \union dropped'
         /\ Requeued(p, b, f, pending')
<1> DEFINE st == stash_pending(p, b)
           rq == requeue_inflight(st.pending, f)
<1>1. /\ pending' = rq.pending
      /\ batch' = << >> /\ inflight' = << >> /\ toHub' = << >> /\ acks' = << >>
      /\ loop' \in {"cooldown", "backoff"}
      /\ dropped' = dropped \union st.dropped \union rq.dropped
  BY DEF Disconnected
<1>2. PICK n \in 0..Len(p), m \in 0..Len(b) :
        /\ st.pending = From(p, n) \o From(b, m)
        /\ st.dropped = ToSet(First(p, n)) \union ToSet(First(b, m))
  BY StashFact
<1> DEFINE s == From(p, n) \o From(b, m)
<1>3. From(p, n) \in Seq(Signal) /\ From(b, m) \in Seq(Signal)
  BY CutFact
<1>4. s \in Seq(Signal) /\ ToSet(s) = ToSet(From(p, n)) \union ToSet(From(b, m))
  BY <1>3, ConcatProperties, SetOfConcat
<1>5. st.pending = s
  BY <1>2
<1>r. rq = requeue_inflight(s, f)
  BY <1>5
<1> HIDE DEF s, st, rq
<1>q. \E j \in 0..Len(s), k \in 0..Len(f) :
        /\ requeue_inflight(s, f).pending = From(f, k) \o From(s, j)
        /\ requeue_inflight(s, f).dropped = ToSet(First(s, j)) \union ToSet(First(f, k))
  BY <1>4, RequeueFact
<1>6. PICK j \in 0..Len(s), k \in 0..Len(f) :
        /\ rq.pending = From(f, k) \o From(s, j)
        /\ rq.dropped = ToSet(First(s, j)) \union ToSet(First(f, k))
  BY <1>q, <1>r
<1>7. From(f, k) \in Seq(Signal) /\ From(s, j) \in Seq(Signal)
  BY <1>4, CutFact
<1>8. /\ pending' \in Seq(Signal)
      /\ ToSet(pending') = ToSet(From(f, k)) \union ToSet(From(s, j))
  BY <1>1, <1>6, <1>7, ConcatProperties, SetOfConcat
<1>9. /\ ToSet(p) = ToSet(First(p, n)) \union ToSet(From(p, n))
      /\ ToSet(b) = ToSet(First(b, m)) \union ToSet(From(b, m))
      /\ ToSet(f) = ToSet(First(f, k)) \union ToSet(From(f, k))
      /\ ToSet(s) = ToSet(First(s, j)) \union ToSet(From(s, j))
  BY <1>4, SetOfCut
<1>10. ToSet(p) \union ToSet(b) \union ToSet(f) \subseteq ToSet(pending') \union dropped'
  BY <1>1, <1>2, <1>4, <1>6, <1>8, <1>9
<1>11. /\ From(p, n) \o From(b, m) \in Seq(Signal)
       /\ \E jj \in 0..Len(From(p, n) \o From(b, m)), kk \in 0..Len(f) :
            pending' = From(f, kk) \o From(From(p, n) \o From(b, m), jj)
  BY <1>1, <1>4, <1>6 DEF s
<1>12. Requeued(p, b, f, pending')
  BY <1>11 DEF Requeued
<1> QED
  BY <1>1, <1>8, <1>10, <1>12

-----------------------------------------------------------------------------
ClientTyped ==
  /\ reported \in Nat
  /\ chan \in Seq(Signal) /\ retryQueue \in Seq(Signal) /\ entered \in Seq(Signal)
  /\ pending \in Seq(Signal) /\ batch \in Seq(Signal) /\ inflight \in Seq(Signal)
  /\ toHub \in Seq(Seq(Signal)) /\ acks \in Seq(Nat)

(* Only a connection that is up has a batch, and then nothing is pending.  *)
LoopOwns ==
  /\ loop \notin {"connected", "over"} => batch = << >>
  /\ loop = "connected" => pending = << >>

(* Everything a signal may be in, or counted under.                        *)
Kept == Held \union settled \union dropped \union refused

(* Where a step may leave the signals it does not lose.                    *)
KeepsAll ==
  /\ ClientTyped' /\ LoopOwns'
  /\ ~Closed' => ~Closed /\ Kept \subseteq Kept' /\ 1..reported' \subseteq 1..reported \union Kept'

LEMMA ReportKeeps ==
  ASSUME ClientTyped, LoopOwns, NEW s \in Signal, Report(s) \/ SinkReport(s)
  PROVE  KeepsAll
<1>1. /\ s = reported + 1 /\ reported' = s
      /\ UNCHANGED <<buffers, control, wire, settled>>
      /\ \/ report_signal(s) /\ refused' = refused
         \/ refused' = refused \union {s} /\ UNCHANGED <<queues, entered, dropped>>
  BY DEF Report, SinkReport
<1>2. reported' \in Nat /\ 1..reported' \subseteq 1..reported \union {s}
  BY <1>1 DEF ClientTyped
<1>3. /\ chan' \in Seq(Signal) /\ retryQueue' \in Seq(Signal) /\ entered' \in Seq(Signal)
      /\ ToSet(chan) \union ToSet(retryQueue) \union dropped \union refused \union {s} \subseteq
           ToSet(chan') \union ToSet(retryQueue') \union dropped' \union refused'
  <2>1. CASE refused' = refused \union {s} /\ UNCHANGED <<queues, entered, dropped>>
    BY <2>1 DEF queues, ClientTyped
  <2>2. CASE report_signal(s) /\ refused' = refused
    <3>1. CASE dropped' = dropped \union {s} /\ UNCHANGED <<queues, entered>>
      BY <2>2, <3>1 DEF queues, ClientTyped
    <3>2. CASE TrySend(s) /\ UNCHANGED <<retryQueue, dropped>>
      <4>0. chan \in Seq(Signal) /\ entered \in Seq(Signal)
        BY DEF ClientTyped
      <4>1. /\ Append(chan, s) \in Seq(Signal) /\ Append(entered, s) \in Seq(Signal)
            /\ ToSet(Append(chan, s)) = ToSet(chan) \union {s}
        BY <4>0, SetOfAppend
      <4>2. chan' = Append(chan, s) /\ entered' = Append(entered, s)
        BY <3>2 DEF TrySend
      <4> QED
        BY <2>2, <3>2, <4>1, <4>2 DEF ClientTyped
    <3>3. CASE retryQueue' = Append(retryQueue, s) /\ UNCHANGED <<chan, entered, dropped>>
      <4>0. retryQueue \in Seq(Signal)
        BY DEF ClientTyped
      <4>1. /\ Append(retryQueue, s) \in Seq(Signal)
            /\ ToSet(Append(retryQueue, s)) = ToSet(retryQueue) \union {s}
        BY <4>0, SetOfAppend
      <4> QED
        BY <2>2, <3>3, <4>1 DEF ClientTyped
    <3> QED
      BY <2>2, <3>1, <3>2, <3>3 DEF report_signal
  <2> QED
    BY <1>1, <2>1, <2>2
<1>4. ClientTyped' /\ LoopOwns' /\ loop' = loop
  BY <1>1, <1>2, <1>3 DEF ClientTyped, LoopOwns, buffers, control, wire
<1>5. Kept \subseteq Kept' /\ s \in Kept'
  BY <1>1, <1>3 DEF Kept, Held, buffers
<1> QED
  BY <1>2, <1>4, <1>5 DEF KeepsAll, Closed

LEMMA RetryTickKeeps ==
  ASSUME ClientTyped, LoopOwns, RetryTick
  PROVE  KeepsAll
<1>1. UNCHANGED <<reported, buffers, control, wire, settled, refused>>
  BY DEF RetryTick
<1>2. CASE Closed
  <2>1. retryQueue' = << >> /\ UNCHANGED <<chan, entered>>
    BY <1>2 DEF RetryTick
  <2>2. << >> \in Seq(Signal)
    OBVIOUS
  <2> QED
    BY <1>1, <1>2, <2>1, <2>2 DEF KeepsAll, ClientTyped, LoopOwns, Closed, buffers, control, wire
<1>3. CASE ~Closed
  <2> DEFINE n == AtMost(Len(retryQueue), Excess(MaxQueued, Len(chan)))
  <2>1. /\ chan' = chan \o First(retryQueue, n)
        /\ entered' = entered \o First(retryQueue, n)
        /\ retryQueue' = From(retryQueue, n)
        /\ dropped' = dropped
    BY <1>3 DEF RetryTick
  <2>2. n \in 0..Len(retryQueue)
    <3>1. Len(chan) \in Nat /\ Len(retryQueue) \in Nat /\ MaxQueued \in Nat
      BY LenProperties, ClientAssumption DEF ClientTyped
    <3> QED
      BY <3>1 DEF AtMost, Excess
  <2> HIDE DEF n
  <2>3. /\ First(retryQueue, n) \in Seq(Signal) /\ From(retryQueue, n) \in Seq(Signal)
        /\ ToSet(retryQueue) = ToSet(First(retryQueue, n)) \union ToSet(From(retryQueue, n))
    BY <2>2, CutFact, SetOfCut DEF ClientTyped
  <2>4. /\ chan' \in Seq(Signal) /\ entered' \in Seq(Signal)
        /\ ToSet(chan') = ToSet(chan) \union ToSet(First(retryQueue, n))
    BY <2>1, <2>3, ConcatProperties, SetOfConcat DEF ClientTyped
  <2>5. ClientTyped' /\ LoopOwns' /\ loop' = loop
    BY <1>1, <2>1, <2>3, <2>4 DEF ClientTyped, LoopOwns, buffers, control, wire
  <2>6. Kept \subseteq Kept'
    BY <1>1, <2>1, <2>3, <2>4 DEF Kept, Held, buffers
  <2> QED
    BY <1>1, <2>5, <2>6 DEF KeepsAll, Closed
<1> QED
  BY <1>2, <1>3

(* A disconnection, from the buffers p, b and f that together hold what    *)
(* the loop held.                                                          *)
LEMMA DisconnectedKeeps ==
  ASSUME ClientTyped, NEW had, NEW p \in Seq(Signal), NEW b \in Seq(Signal),
         NEW f \in Seq(Signal), Disconnected(had, p, b, f),
         loop # "over", chan' \in Seq(Signal),
         UNCHANGED <<reported, retryQueue, settled, refused, entered>>,
         ToSet(chan) \union ToSet(pending) \union ToSet(batch) \union ToSet(inflight)
           \subseteq ToSet(chan') \union ToSet(p) \union ToSet(b) \union ToSet(f)
  PROVE  KeepsAll
<1>1. /\ pending' \in Seq(Signal)
      /\ batch' = << >> /\ inflight' = << >> /\ toHub' = << >> /\ acks' = << >>
      /\ loop' \in {"cooldown", "backoff"}
      /\ dropped \subseteq dropped'
      /\ ToSet(p) \union ToSet(b) \union ToSet(f) \subseteq ToSet(pending') \union dropped'
  BY DisconnectedFact
<1>2. /\ << >> \in Seq(Signal) /\ << >> \in Seq(Seq(Signal)) /\ << >> \in Seq(Nat)
  OBVIOUS
<1>3. ClientTyped' /\ LoopOwns' /\ ~Closed
  BY <1>1, <1>2 DEF ClientTyped, LoopOwns, Closed
<1>4. Kept \subseteq Kept'
  BY <1>1 DEF Kept, Held
<1> QED
  BY <1>3, <1>4 DEF KeepsAll

(* send_batch of b out of the loop's buffers.                              *)
LEMMA SendsFact ==
  ASSUME ClientTyped, NEW b \in Seq(Signal), Sends(b)
  PROVE  /\ inflight' \in Seq(Signal) /\ ToSet(inflight') = ToSet(inflight) \union ToSet(b)
         /\ toHub' \in Seq(Seq(Signal))
<1>1. inflight \in Seq(Signal) /\ toHub \in Seq(Seq(Signal))
  BY DEF ClientTyped
<1>2. /\ inflight \o b \in Seq(Signal)
      /\ ToSet(inflight \o b) = ToSet(inflight) \union ToSet(b)
  BY <1>1, ConcatProperties, SetOfConcat
<1>3. Append(toHub, b) \in Seq(Seq(Signal))
  BY <1>1
<1> QED
  BY <1>1, <1>2, <1>3 DEF Sends

LEMMA EmptyFact == << >> \in Seq(Signal) /\ ToSet(<< >>) = {}
BY DEF ToSet

LEMMA LoopStepKeeps ==
  ASSUME ClientTyped, LoopOwns, LoopStep
  PROVE  KeepsAll
<1>t. /\ chan \in Seq(Signal) /\ pending \in Seq(Signal) /\ batch \in Seq(Signal)
      /\ inflight \in Seq(Signal) /\ acks \in Seq(Nat)
  BY DEF ClientTyped
<1>1. CASE LoopHead \/ WaitEnds \/ AuthFailed \/ Shutdown
  <2>1. /\ UNCHANGED <<reported, queues, buffers, wire, settled, dropped, refused, entered>>
        /\ loop' # "connected" /\ (loop' = "over" \/ loop \notin {"connected", "over"})
    BY <1>1 DEF LoopHead, WaitEnds, AuthFailed, Shutdown
  <2>2. ClientTyped' /\ LoopOwns'
    BY <2>1 DEF ClientTyped, LoopOwns, queues, buffers, wire
  <2>3. Kept' = Kept
    BY <2>1 DEF Kept, Held, queues, buffers
  <2> QED
    BY <2>1, <2>2, <2>3 DEF KeepsAll, Closed
<1>2. CASE ConnectFails
  <2>1. /\ Disconnected(FALSE, pending, << >>, inflight) /\ loop # "over"
        /\ UNCHANGED <<reported, chan, retryQueue, settled, refused, entered>>
        /\ batch = << >>
    BY <1>2 DEF ConnectFails, LoopOwns, queues
  <2> QED
    BY <1>t, <2>1, EmptyFact, DisconnectedKeeps
<1>3. CASE AuthSuccess
  <2>1. UNCHANGED <<reported, queues, settled, refused, entered>> /\ loop # "over" /\ batch = << >>
    BY <1>3 DEF AuthSuccess, LoopOwns
  <2>2. CASE /\ loop' = "connected" /\ Sends(pending) /\ pending' = << >>
             /\ UNCHANGED <<batch, acks, dropped>>
    <3>1. /\ inflight' \in Seq(Signal) /\ toHub' \in Seq(Seq(Signal))
          /\ ToSet(inflight') = ToSet(inflight) \union ToSet(pending)
      BY <1>t, <2>2, SendsFact
    <3>2. ClientTyped' /\ LoopOwns'
      BY <2>1, <2>2, <3>1, EmptyFact DEF ClientTyped, LoopOwns, queues
    <3>3. Kept \subseteq Kept'
      BY <2>1, <2>2, <3>1 DEF Kept, Held, queues
    <3> QED
      BY <2>1, <3>2, <3>3 DEF KeepsAll, Closed
  <2>3. CASE Disconnected(TRUE, << >>, << >>, inflight \o pending)
    <3>1. /\ inflight \o pending \in Seq(Signal)
          /\ ToSet(inflight \o pending) = ToSet(inflight) \union ToSet(pending)
      BY <1>t, ConcatProperties, SetOfConcat
    <3>2. UNCHANGED <<reported, chan, retryQueue, settled, refused, entered>>
      BY <2>1 DEF queues
    <3>3. ToSet(chan) \union ToSet(pending) \union ToSet(batch) \union ToSet(inflight)
            \subseteq ToSet(chan') \union ToSet(<< >>) \union ToSet(<< >>)
                        \union ToSet(inflight \o pending)
      BY <2>1, <3>1, <3>2, EmptyFact
    <3> QED
      BY <1>t, <2>1, <2>3, <3>1, <3>2, <3>3, EmptyFact, DisconnectedKeeps
  <2> QED
    BY <1>3, <2>2, <2>3 DEF AuthSuccess
<1>4. CASE SocketClosed
  <2>1. /\ Disconnected(TRUE, pending, batch, inflight) /\ loop # "over"
        /\ UNCHANGED <<reported, chan, retryQueue, settled, refused, entered>>
    BY <1>4 DEF SocketClosed, queues
  <2> QED
    BY <1>t, <2>1, DisconnectedKeeps
<1>5. ASSUME NEW b \in Seq(Signal), loop = "connected", chan' \in Seq(Signal),
             UNCHANGED <<reported, retryQueue, settled, refused, entered>>,
             ToSet(chan) \union ToSet(batch) \subseteq ToSet(chan') \union ToSet(b),
             \/ Sends(b) /\ batch' = << >> /\ UNCHANGED <<pending, control, acks, dropped>>
             \/ SendFails(b)
      PROVE  KeepsAll
  <2>0. pending = << >>
    BY <1>5 DEF LoopOwns
  <2>1. CASE Sends(b) /\ batch' = << >> /\ UNCHANGED <<pending, control, acks, dropped>>
    <3>1. /\ inflight' \in Seq(Signal) /\ toHub' \in Seq(Seq(Signal))
          /\ ToSet(inflight') = ToSet(inflight) \union ToSet(b)
      BY <1>5, <2>1, SendsFact
    <3>2. ClientTyped' /\ LoopOwns'
      BY <1>5, <2>0, <2>1, <3>1, EmptyFact DEF ClientTyped, LoopOwns, control
    <3>3. Kept \subseteq Kept'
      BY <1>5, <2>1, <3>1 DEF Kept, Held
    <3> QED
      BY <1>5, <3>2, <3>3 DEF KeepsAll, Closed
  <2>2. CASE SendFails(b)
    <3>1. Disconnected(TRUE, pending, << >>, inflight \o b)
      BY <2>2 DEF SendFails
    <3>2. /\ inflight \o b \in Seq(Signal)
          /\ ToSet(inflight \o b) = ToSet(inflight) \union ToSet(b)
      BY <1>5, <1>t, ConcatProperties, SetOfConcat
    <3>3. ToSet(chan) \union ToSet(pending) \union ToSet(batch) \union ToSet(inflight)
            \subseteq ToSet(chan') \union ToSet(pending) \union ToSet(<< >>)
                        \union ToSet(inflight \o b)
      BY <1>5, <3>2
    <3>4. loop # "over"
      BY <1>5
    <3> QED
      BY <1>5, <1>t, <3>1, <3>2, <3>3, <3>4, EmptyFact, DisconnectedKeeps
  <2> QED
    BY <1>5, <2>1, <2>2
<1>6. CASE BatchTimer
  <2>1. /\ loop = "connected"
        /\ UNCHANGED <<reported, chan, retryQueue, settled, refused, entered>>
        /\ \/ Sends(batch) /\ batch' = << >> /\ UNCHANGED <<pending, control, acks, dropped>>
           \/ SendFails(batch)
    BY <1>6 DEF BatchTimer, queues
  <2> QED
    BY <1>5, <1>t, <2>1
<1>7. CASE Recv
  <2> DEFINE full == Append(batch, Head(chan))
  <2>1. /\ loop = "connected" /\ chan # << >> /\ chan' = Tail(chan)
        /\ UNCHANGED <<reported, retryQueue, settled, refused, entered>>
        /\ \/ batch' = full /\ UNCHANGED <<pending, inflight, control, wire, dropped>>
           \/ Sends(full) /\ batch' = << >> /\ UNCHANGED <<pending, control, acks, dropped>>
           \/ SendFails(full)
    BY <1>7 DEF Recv
  <2>2. /\ Head(chan) \in Signal /\ Tail(chan) \in Seq(Signal)
        /\ ToSet(chan) = {Head(chan)} \union ToSet(Tail(chan))
    BY <1>t, <2>1, HeadFact
  <2>3. full \in Seq(Signal) /\ ToSet(full) = ToSet(batch) \union {Head(chan)}
    BY <1>t, <2>2, SetOfAppend
  <2> HIDE DEF full
  <2>4. CASE batch' = full /\ UNCHANGED <<pending, inflight, control, wire, dropped>>
    <3>1. ClientTyped' /\ LoopOwns'
      BY <2>1, <2>2, <2>3, <2>4 DEF ClientTyped, LoopOwns, control, wire
    <3>2. Kept \subseteq Kept'
      BY <2>1, <2>2, <2>3, <2>4 DEF Kept, Held
    <3> QED
      BY <2>1, <3>1, <3>2 DEF KeepsAll, Closed
  <2>5. CASE \/ Sends(full) /\ batch' = << >> /\ UNCHANGED <<pending, control, acks, dropped>>
             \/ SendFails(full)
    <3>1. ToSet(chan) \union ToSet(batch) \subseteq ToSet(chan') \union ToSet(full)
      BY <2>1, <2>2, <2>3
    <3> QED
      BY <1>5, <2>1, <2>2, <2>3, <2>5, <3>1
  <2> QED
    BY <2>1, <2>4, <2>5
<1>8. ASSUME NEW i \in DOMAIN acks, Ack(i) PROVE KeepsAll
  <2> DEFINE n == Popped(acks[i])
  <2>1. /\ loop = "connected"
        /\ settled' = settled \union ToSet(First(inflight, n))
        /\ inflight' = From(inflight, n)
        /\ acks' = RemoveAt(acks, i)
        /\ UNCHANGED <<reported, queues, pending, batch, control, toHub, dropped, refused, entered>>
    BY <1>8 DEF Ack
  <2>2. n \in 0..Len(inflight) /\ i \in 1..Len(acks)
    <3>1. Len(inflight) \in Nat /\ acks[i] \in Nat /\ i \in 1..Len(acks)
      BY <1>t, LenProperties, ElementOfSeq
    <3> QED
      BY <3>1 DEF Popped, AtMost
  <2> HIDE DEF n
  <2>3. /\ From(inflight, n) \in Seq(Signal)
        /\ ToSet(inflight) = ToSet(First(inflight, n)) \union ToSet(From(inflight, n))
    BY <1>t, <2>2, CutFact, SetOfCut
  <2>4. RemoveAt(acks, i) \in Seq(Nat)
    BY <1>t, <2>2, RemoveAtFact
  <2>5. ClientTyped' /\ LoopOwns'
    BY <2>1, <2>3, <2>4 DEF ClientTyped, LoopOwns, queues, control
  <2>6. Kept \subseteq Kept'
    BY <2>1, <2>3 DEF Kept, Held, queues
  <2> QED
    BY <2>1, <2>5, <2>6 DEF KeepsAll, Closed, control
<1> QED
  BY <1>1, <1>2, <1>3, <1>4, <1>6, <1>7, <1>8 DEF LoopStep

LEMMA NextKeeps ==
  ASSUME ClientTyped, LoopOwns, [Next]_vars
  PROVE  KeepsAll
<1>1. CASE \/ UNCHANGED vars \/ stop \/ ResetTimeout
  <2>1. UNCHANGED <<reported, queues, buffers, control, wire, settled, dropped, refused, entered>>
    BY <1>1 DEF stop, ResetTimeout, vars
  <2> QED
    BY <2>1 DEF KeepsAll, ClientTyped, LoopOwns, Closed, Kept, Held, queues, buffers, control, wire
<1>2. CASE HubReceives \/ HubDiscards
  <2>1. /\ UNCHANGED <<reported, queues, buffers, control, settled, dropped, refused, entered>>
        /\ toHub # << >> /\ toHub' = Tail(toHub)
        /\ acks' \in {acks, Append(acks, Len(Head(toHub)))}
    BY <1>2 DEF HubReceives, HubDiscards
  <2>2. toHub' \in Seq(Seq(Signal)) /\ acks' \in Seq(Nat)
    <3>1. toHub \in Seq(Seq(Signal)) /\ acks \in Seq(Nat)
      BY DEF ClientTyped
    <3>2. Head(toHub) \in Seq(Signal) /\ Tail(toHub) \in Seq(Seq(Signal))
      BY <2>1, <3>1, HeadTailProperties
    <3>3. Len(Head(toHub)) \in Nat
      BY <3>2, LenProperties
    <3>4. Append(acks, Len(Head(toHub))) \in Seq(Nat)
      BY <3>1, <3>3
    <3> QED
      BY <2>1, <3>1, <3>2, <3>4
  <2> QED
    BY <2>1, <2>2 DEF KeepsAll, ClientTyped, LoopOwns, Closed, Kept, Held, queues, buffers, control
<1> QED
  BY <1>1, <1>2, ReportKeeps, RetryTickKeeps, LoopStepKeeps DEF Next

(* No reported signal disappears while the loop runs without having been   *)
(* acknowledged, refused or counted as dropped.                            *)
THEOREM ClientLosesNothingSilently == Spec => []NoSilentLoss
<1> DEFINE Inv == ClientTyped /\ LoopOwns /\ NoSilentLoss
<1>1. Init => Inv
  BY EmptyFact DEF Init, ClientTyped, LoopOwns, NoSilentLoss
<1>2. Inv /\ [Next]_vars => Inv'
  <2> SUFFICES ASSUME Inv, [Next]_vars PROVE Inv'
    OBVIOUS
  <2>1. KeepsAll
    BY NextKeeps
  <2>2. NoSilentLoss'
    BY <2>1 DEF KeepsAll, NoSilentLoss, Kept
  <2> QED
    BY <2>1, <2>2 DEF KeepsAll
<1> QED
  BY <1>1, <1>2, PTL DEF Spec

-----------------------------------------------------------------------------
(* Acknowledgements carry counts, so what they take off inflight is right  *)
(* only as long as the counts add up.  The sums and the places of the      *)
(* messages in inflight are named by witnesses, because a recursive        *)
(* definition of them could not be reasoned about.                         *)

(* The counts in a add up to m.                                            *)
SumIs(a, m) ==
  \E sums \in [1..(Len(a) + 1) -> Nat] :
    /\ sums[1] = 0 /\ sums[Len(a) + 1] = m
    /\ \A i \in 1..Len(a) : sums[i + 1] = sums[i] + a[i]
    /\ \A i, j \in 1..(Len(a) + 1) : i <= j => sums[i] <= sums[j]

(* The messages t on the wire are, one after the other, what inflight f    *)
(* holds behind its first c signals.                                       *)
Laid(t, f, c) ==
  \E cut \in [1..(Len(t) + 1) -> Nat] :
    /\ cut[1] = c /\ cut[Len(t) + 1] = Len(f)
    /\ \A j \in 1..Len(t) : cut[j + 1] = cut[j] + Len(t[j])
    /\ \A i, j \in 1..(Len(t) + 1) : i <= j => cut[i] <= cut[j]
    /\ \A j \in 1..Len(t) : \A i \in 1..Len(t[j]) : f[cut[j] + i] = t[j][i]

LEMMA SumEmpty == SumIs(<< >>, 0)
<1> DEFINE z == [i \in 1..(0 + 1) |-> 0]
<1>1. Len(<< >>) = 0 /\ z \in [1..(0 + 1) -> Nat]
  OBVIOUS
<1>2. z[1] = 0 /\ z[0 + 1] = 0 /\ (\A i \in 1..0 : FALSE)
      /\ \A i, j \in 1..(0 + 1) : i <= j => z[i] <= z[j]
  OBVIOUS
<1> HIDE DEF z
<1> QED
  BY <1>1, <1>2 DEF SumIs

LEMMA LaidEmpty == Laid(<< >>, << >>, 0)
<1> DEFINE z == [i \in 1..(0 + 1) |-> 0]
<1>1. Len(<< >>) = 0 /\ z \in [1..(0 + 1) -> Nat]
  OBVIOUS
<1>2. z[1] = 0 /\ z[0 + 1] = 0 /\ (\A i \in 1..0 : FALSE)
      /\ \A i, j \in 1..(0 + 1) : i <= j => z[i] <= z[j]
  OBVIOUS
<1> HIDE DEF z
<1> QED
  BY <1>1, <1>2 DEF Laid

LEMMA SumAppend ==
  ASSUME NEW a \in Seq(Nat), NEW m \in Nat, SumIs(a, m), NEW n \in Nat
  PROVE  SumIs(Append(a, n), m + n)
<1> DEFINE l == Len(a)
           b == Append(a, n)
<1>1. PICK sums \in [1..(l + 1) -> Nat] :
        /\ sums[1] = 0 /\ sums[l + 1] = m
        /\ \A i \in 1..l : sums[i + 1] = sums[i] + a[i]
        /\ \A i, j \in 1..(l + 1) : i <= j => sums[i] <= sums[j]
  BY DEF SumIs
<1>2. /\ l \in Nat /\ Len(b) = l + 1 /\ b[l + 1] = n
      /\ \A i \in 1..l : b[i] = a[i] /\ a[i] \in Nat
  BY LenProperties, AppendFact, ElementOfSeq
<1> HIDE DEF l, b
<1> DEFINE s == [i \in 1..(l + 1 + 1) |-> IF i <= l + 1 THEN sums[i] ELSE m + n]
<1>3. s \in [1..(l + 1 + 1) -> Nat] /\ s[1] = 0 /\ s[l + 1 + 1] = m + n
  BY <1>1, <1>2
<1>4. \A i \in 1..(l + 1) : s[i] = sums[i]
  BY <1>2
<1> HIDE DEF s
<1>5. ASSUME NEW i \in 1..(l + 1) PROVE s[i + 1] = s[i] + b[i]
  <2>1. CASE i = l + 1
    BY <1>1, <1>2, <1>3, <1>4, <2>1
  <2>2. CASE i # l + 1
    <3>1. i \in 1..l /\ i + 1 \in 1..(l + 1)
      BY <1>2, <2>2
    <3> QED
      BY <1>1, <1>2, <1>4, <3>1
  <2> QED
    BY <2>1, <2>2
<1>6. ASSUME NEW i \in 1..(l + 1 + 1), NEW j \in 1..(l + 1 + 1), i <= j PROVE s[i] <= s[j]
  <2>1. CASE j <= l + 1
    <3>1. i \in 1..(l + 1) /\ j \in 1..(l + 1)
      BY <1>2, <1>6, <2>1
    <3> QED
      BY <1>1, <1>4, <1>6, <3>1
  <2>2. CASE ~(j <= l + 1) /\ i <= l + 1
    <3>1. j = l + 1 + 1 /\ i \in 1..(l + 1) /\ l + 1 \in 1..(l + 1)
      BY <1>2, <2>2
    <3>2. sums[i] <= m /\ sums[i] \in Nat
      BY <1>1, <3>1
    <3> QED
      BY <1>3, <1>4, <3>1, <3>2
  <2>3. CASE ~(i <= l + 1)
    <3>1. i = l + 1 + 1 /\ j = l + 1 + 1
      BY <1>2, <1>6, <2>3
    <3> QED
      BY <1>3, <3>1
  <2> QED
    BY <2>1, <2>2, <2>3
<1>7. SumIs(b, m + n)
  BY <1>2, <1>3, <1>5, <1>6 DEF SumIs
<1> QED
  BY <1>7 DEF b

LEMMA SumRemove ==
  ASSUME NEW a \in Seq(Nat), NEW m \in Nat, SumIs(a, m), NEW k \in 1..Len(a)
  PROVE  a[k] \in 0..m /\ SumIs(RemoveAt(a, k), m - a[k])
<1> DEFINE l == Len(a)
           b == RemoveAt(a, k)
           n == a[k]
<1>1. PICK sums \in [1..(l + 1) -> Nat] :
        /\ sums[1] = 0 /\ sums[l + 1] = m
        /\ \A i \in 1..l : sums[i + 1] = sums[i] + a[i]
        /\ \A i, j \in 1..(l + 1) : i <= j => sums[i] <= sums[j]
  BY DEF SumIs
<1>2. /\ l \in Nat /\ k \in 1..l /\ n \in Nat /\ Len(b) = l - 1
      /\ \A i \in 1..l : a[i] \in Nat
      /\ \A i \in 1..(l - 1) : b[i] = IF i < k THEN a[i] ELSE a[i + 1]
  BY LenProperties, ElementOfSeq, RemoveAtFact
<1>3. sums[k + 1] = sums[k] + n
  BY <1>1, <1>2
<1> HIDE DEF l, b, n
<1>4. /\ \A i \in 1..(l + 1) : sums[i] \in Nat
      /\ \A i \in 1..(l + 1) : i > k => n <= sums[i]
      /\ n <= m
  <2>1. \A i \in 1..(l + 1) : sums[i] \in Nat
    BY <1>1
  <2>2. ASSUME NEW i \in 1..(l + 1), i > k PROVE n <= sums[i]
    <3>1. k + 1 \in 1..(l + 1) /\ k + 1 <= i /\ k \in 1..(l + 1)
      BY <1>2, <2>2
    <3>2. sums[k + 1] <= sums[i] /\ sums[k] \in Nat /\ sums[i] \in Nat
      BY <1>1, <3>1
    <3> QED
      BY <1>2, <1>3, <3>2
  <2>3. l + 1 \in 1..(l + 1) /\ l + 1 > k
    BY <1>2
  <2> QED
    BY <1>1, <2>1, <2>2, <2>3
<1> DEFINE s == [i \in 1..(l - 1 + 1) |-> IF i <= k THEN sums[i] ELSE sums[i + 1] - n]
<1>5. \A i \in 1..(l - 1 + 1) :
        /\ i \in 1..(l + 1) /\ i + 1 \in 1..(l + 1) /\ s[i] \in Nat
        /\ i <= k => s[i] = sums[i]
        /\ i > k => s[i] = sums[i + 1] - n
        /\ i >= k => s[i] = sums[i + 1] - n
  <2>1. \A i \in 1..(l - 1 + 1) : i \in 1..(l + 1) /\ i + 1 \in 1..(l + 1)
    BY <1>2
  <2>2. ASSUME NEW i \in 1..(l - 1 + 1)
        PROVE  /\ s[i] \in Nat /\ (i <= k => s[i] = sums[i])
               /\ i > k => s[i] = sums[i + 1] - n
               /\ i >= k => s[i] = sums[i + 1] - n
    <3>1. CASE i > k
      BY <1>2, <1>4, <2>1, <3>1
    <3>2. CASE i = k
      BY <1>2, <1>3, <1>4, <2>1, <3>2
    <3>3. CASE i < k
      BY <1>2, <1>4, <2>1, <3>3
    <3> QED
      BY <1>2, <3>1, <3>2, <3>3
  <2> QED
    BY <2>1, <2>2
<1>6. s \in [1..(l - 1 + 1) -> Nat]
  BY <1>5
<1> HIDE DEF s
<1>7. s[1] = 0 /\ s[l - 1 + 1] = m - n
  <2>1. 1 \in 1..(l - 1 + 1) /\ 1 <= k /\ l - 1 + 1 = l /\ l \in 1..(l - 1 + 1) /\ l >= k
    BY <1>2
  <2> QED
    BY <1>1, <1>5, <2>1
<1>8. ASSUME NEW i \in 1..(l - 1) PROVE s[i + 1] = s[i] + b[i]
  <2>0. /\ i \in 1..l /\ i + 1 \in 1..l /\ i \in 1..(l - 1 + 1) /\ i + 1 \in 1..(l - 1 + 1)
        /\ i \in 1..(l + 1) /\ i + 1 \in 1..(l + 1) /\ i + 1 + 1 \in 1..(l + 1)
    BY <1>2
  <2>1. /\ i \in 1..l /\ i + 1 \in 1..l /\ i \in 1..(l - 1 + 1) /\ i + 1 \in 1..(l - 1 + 1)
        /\ sums[i] \in Nat /\ sums[i + 1] \in Nat /\ sums[i + 1 + 1] \in Nat
        /\ a[i] \in Nat /\ a[i + 1] \in Nat
    BY <1>2, <1>4, <2>0
  <2>2. CASE i < k
    <3>1. s[i] = sums[i] /\ s[i + 1] = sums[i + 1] /\ b[i] = a[i]
      BY <1>2, <1>5, <2>1, <2>2
    <3> QED
      BY <1>1, <2>1, <3>1
  <2>3. CASE ~(i < k)
    <3>1. s[i] = sums[i + 1] - n /\ s[i + 1] = sums[i + 1 + 1] - n /\ b[i] = a[i + 1]
      BY <1>2, <1>5, <2>1, <2>3
    <3>2. sums[i + 1 + 1] = sums[i + 1] + a[i + 1]
      BY <1>1, <2>1
    <3> DEFINE x == sums[i + 1]
               y == sums[i + 1 + 1]
               z == a[i + 1]
    <3>3. /\ n \in Nat /\ x \in Nat /\ y \in Nat /\ z \in Nat
          /\ y = x + z /\ s[i] = x - n /\ s[i + 1] = y - n /\ b[i] = z
      BY <1>2, <2>1, <3>1, <3>2
    <3> HIDE DEF x, y, z
    <3> QED
      BY <3>3
  <2> QED
    BY <2>2, <2>3
<1>9. ASSUME NEW i \in 1..(l - 1 + 1), NEW j \in 1..(l - 1 + 1), i <= j PROVE s[i] <= s[j]
  <2>0. /\ i \in 1..(l + 1) /\ j \in 1..(l + 1) /\ i + 1 \in 1..(l + 1) /\ j + 1 \in 1..(l + 1)
        /\ i + 1 <= j + 1 /\ k \in 1..(l + 1) /\ k + 1 \in 1..(l + 1) /\ k \in Nat
    BY <1>2, <1>9
  <2>1. /\ sums[i] \in Nat /\ sums[j] \in Nat /\ sums[i + 1] \in Nat /\ sums[j + 1] \in Nat
        /\ sums[i] <= sums[j] /\ sums[i + 1] <= sums[j + 1] /\ n \in Nat
    BY <1>1, <1>2, <1>4, <1>9, <2>0
  <2>2. CASE j <= k
    <3>1. i <= k
      BY <1>9, <2>0, <2>2
    <3>2. s[i] = sums[i] /\ s[j] = sums[j]
      BY <1>5, <2>2, <3>1
    <3> QED
      BY <2>1, <3>2
  <2>3. CASE i >= k
    <3>1. j >= k
      BY <1>9, <2>0, <2>3
    <3>2. s[i] = sums[i + 1] - n /\ s[j] = sums[j + 1] - n
      BY <1>5, <2>3, <3>1
    <3> QED
      BY <2>1, <3>2
  <2>4. CASE i < k /\ j > k
    <3>0. i <= k /\ k + 1 <= j + 1
      BY <2>0, <2>4
    <3>1. s[i] = sums[i] /\ s[j] = sums[j + 1] - n
      BY <1>5, <2>4, <3>0
    <3>2. sums[i] <= sums[k] /\ sums[k + 1] <= sums[j + 1] /\ sums[k] \in Nat
      BY <1>1, <1>4, <2>0, <3>0
    <3> DEFINE w == sums[i]
               x == sums[k]
               y == sums[k + 1]
               z == sums[j + 1]
    <3>3. /\ w \in Nat /\ x \in Nat /\ z \in Nat /\ n \in Nat
          /\ w <= x /\ y <= z /\ y = x + n /\ s[i] = w /\ s[j] = z - n
      BY <1>3, <2>1, <3>1, <3>2
    <3> HIDE DEF w, x, y, z
    <3> QED
      BY <3>3
  <2> QED
    BY <2>0, <2>2, <2>3, <2>4
<1>10. SumIs(b, m - n)
  BY <1>2, <1>6, <1>7, <1>8, <1>9 DEF SumIs
<1> QED
  BY <1>2, <1>4, <1>10 DEF b, n

LEMMA LaidAppend ==
  ASSUME NEW t \in Seq(Seq(Signal)), NEW f \in Seq(Signal), NEW c \in Nat, Laid(t, f, c),
         NEW b \in Seq(Signal)
  PROVE  Laid(Append(t, b), f \o b, c)
<1> DEFINE l == Len(t)
           u == Append(t, b)
           g == f \o b
<1>1. PICK cut \in [1..(l + 1) -> Nat] :
        /\ cut[1] = c /\ cut[l + 1] = Len(f)
        /\ \A j \in 1..l : cut[j + 1] = cut[j] + Len(t[j])
        /\ \A i, j \in 1..(l + 1) : i <= j => cut[i] <= cut[j]
        /\ \A j \in 1..l : \A i \in 1..Len(t[j]) : f[cut[j] + i] = t[j][i]
  BY DEF Laid
<1>2. /\ l \in Nat /\ Len(u) = l + 1 /\ u[l + 1] = b
      /\ \A i \in 1..l : u[i] = t[i] /\ t[i] \in Seq(Signal)
  BY LenProperties, AppendFact, ElementOfSeq
<1>3. /\ Len(f) \in Nat /\ Len(b) \in Nat /\ Len(g) = Len(f) + Len(b)
      /\ \A i \in 1..(Len(f) + Len(b)) : g[i] = IF i <= Len(f) THEN f[i] ELSE b[i - Len(f)]
      /\ \A j \in 1..l : Len(t[j]) \in Nat
  BY <1>2, LenProperties, ConcatProperties
<1> HIDE DEF l, u, g
<1> DEFINE s == [i \in 1..(l + 1 + 1) |-> IF i <= l + 1 THEN cut[i] ELSE Len(f) + Len(b)]
<1>4. s \in [1..(l + 1 + 1) -> Nat] /\ s[1] = c /\ s[l + 1 + 1] = Len(f) + Len(b)
  BY <1>1, <1>2, <1>3
<1>5. \A i \in 1..(l + 1) : s[i] = cut[i] /\ cut[i] \in Nat /\ cut[i] <= Len(f)
  <2>1. l + 1 \in 1..(l + 1) /\ \A i \in 1..(l + 1) : i <= l + 1 /\ i \in 1..(l + 1 + 1)
    BY <1>2
  <2> QED
    BY <1>1, <2>1
<1> HIDE DEF s
<1>6. ASSUME NEW j \in 1..(l + 1) PROVE s[j + 1] = s[j] + Len(u[j])
  <2>1. CASE j = l + 1
    BY <1>1, <1>2, <1>4, <1>5, <2>1
  <2>2. CASE j # l + 1
    <3>1. j \in 1..l /\ j + 1 \in 1..(l + 1)
      BY <1>2, <2>2
    <3> QED
      BY <1>1, <1>2, <1>5, <3>1
  <2> QED
    BY <2>1, <2>2
<1>7. ASSUME NEW i \in 1..(l + 1 + 1), NEW j \in 1..(l + 1 + 1), i <= j PROVE s[i] <= s[j]
  <2>1. CASE j <= l + 1
    <3>1. i \in 1..(l + 1) /\ j \in 1..(l + 1)
      BY <1>2, <1>7, <2>1
    <3> QED
      BY <1>1, <1>5, <1>7, <3>1
  <2>2. CASE ~(j <= l + 1) /\ i <= l + 1
    <3>1. j = l + 1 + 1 /\ i \in 1..(l + 1)
      BY <1>2, <2>2
    <3>2. s[i] \in Nat /\ s[i] <= Len(f)
      BY <1>5, <3>1
    <3> QED
      BY <1>3, <1>4, <3>1, <3>2
  <2>3. CASE ~(i <= l + 1)
    <3>1. i = l + 1 + 1 /\ j = l + 1 + 1
      BY <1>2, <1>7, <2>3
    <3> QED
      BY <1>3, <1>4, <3>1
  <2> QED
    BY <2>1, <2>2, <2>3
<1>8. ASSUME NEW j \in 1..(l + 1), NEW i \in 1..Len(u[j]) PROVE g[s[j] + i] = u[j][i]
  <2>1. CASE j = l + 1
    <3>1. /\ u[j] = b /\ s[j] = Len(f) /\ i \in 1..Len(b)
          /\ Len(f) + i \in 1..(Len(f) + Len(b)) /\ ~(Len(f) + i <= Len(f))
          /\ (Len(f) + i) - Len(f) = i
      BY <1>1, <1>2, <1>3, <1>5, <1>8, <2>1
    <3> QED
      BY <1>3, <3>1
  <2>2. CASE j # l + 1
    <3>1. j \in 1..l /\ j + 1 \in 1..(l + 1)
      BY <1>2, <2>2
    <3> DEFINE x == cut[j]
               y == cut[j + 1]
               v == t[j]
               k == Len(v)
    <3>2. u[j] = v /\ k \in Nat
      BY <1>2, <1>3, <3>1
    <3>3. i \in 1..k
      BY <1>8, <3>2
    <3>4. s[j] = x /\ x \in Nat /\ y <= Len(f)
      BY <1>5, <3>1
    <3>5. y = x + k
      BY <1>1, <3>1
    <3>6. f[x + i] = v[i]
      BY <1>1, <3>1, <3>3
    <3> HIDE DEF x, y, v, k
    <3>7. x + i \in 1..(Len(f) + Len(b)) /\ x + i <= Len(f)
      BY <1>3, <3>2, <3>3, <3>4, <3>5
    <3>8. g[x + i] = f[x + i]
      BY <1>3, <3>7
    <3> QED
      BY <3>2, <3>4, <3>6, <3>8
  <2> QED
    BY <2>1, <2>2
<1> DEFINE m == Len(u)
<1>9. /\ s \in [1..(m + 1) -> Nat] /\ s[1] = c /\ s[m + 1] = Len(g)
      /\ \A j \in 1..m : s[j + 1] = s[j] + Len(u[j])
      /\ \A i, j \in 1..(m + 1) : i <= j => s[i] <= s[j]
  BY <1>2, <1>3, <1>4, <1>6, <1>7
<1>10. \A j \in 1..m : \A i \in 1..Len(u[j]) : g[s[j] + i] = u[j][i]
  BY <1>2, <1>8
<1>11. Laid(u, g, c)
  BY <1>9, <1>10, Zenon DEF Laid
<1> QED
  BY <1>11 DEF u, g

LEMMA LaidTail ==
  ASSUME NEW t \in Seq(Seq(Signal)), NEW f \in Seq(Signal), NEW c \in Nat, Laid(t, f, c),
         t # << >>
  PROVE  /\ Len(Head(t)) \in Nat
         /\ c + Len(Head(t)) <= Len(f)
         /\ \A i \in 1..Len(Head(t)) : f[c + i] = Head(t)[i]
         /\ Laid(Tail(t), f, c + Len(Head(t)))
<1> DEFINE l == Len(t)
           h == Head(t)
           u == Tail(t)
<1>1. PICK cut \in [1..(l + 1) -> Nat] :
        /\ cut[1] = c /\ cut[l + 1] = Len(f)
        /\ \A j \in 1..l : cut[j + 1] = cut[j] + Len(t[j])
        /\ \A i, j \in 1..(l + 1) : i <= j => cut[i] <= cut[j]
        /\ \A j \in 1..l : \A i \in 1..Len(t[j]) : f[cut[j] + i] = t[j][i]
  BY DEF Laid
<1>2. /\ l \in Nat \ {0} /\ Len(u) = l - 1 /\ h = t[1] /\ h \in Seq(Signal)
      /\ \A i \in 1..(l - 1) : u[i] = t[i + 1]
  BY HeadFact
<1>3. Len(h) \in Nat /\ Len(f) \in Nat
  BY <1>2, LenProperties
<1> HIDE DEF l, h, u
<1>4. cut[1 + 1] = c + Len(h) /\ cut[1 + 1] <= Len(f)
  <2>1. 1 \in 1..l /\ 1 + 1 \in 1..(l + 1) /\ l + 1 \in 1..(l + 1) /\ 1 + 1 <= l + 1
    BY <1>2
  <2> QED
    BY <1>1, <1>2, <2>1
<1>5. \A i \in 1..Len(h) : f[c + i] = h[i]
  <2>1. 1 \in 1..l
    BY <1>2
  <2> QED
    BY <1>1, <1>2, <2>1
<1> DEFINE s == [j \in 1..(l - 1 + 1) |-> cut[j + 1]]
<1>6. \A j \in 1..(l - 1 + 1) : j + 1 \in 1..(l + 1) /\ s[j] = cut[j + 1] /\ s[j] \in Nat
  BY <1>2
<1>7. s \in [1..(l - 1 + 1) -> Nat]
  BY <1>6
<1> HIDE DEF s
<1>8. s[1] = c + Len(h) /\ s[l - 1 + 1] = Len(f)
  <2>1. 1 \in 1..(l - 1 + 1) /\ l \in 1..(l - 1 + 1) /\ l - 1 + 1 = l
    BY <1>2
  <2> QED
    BY <1>1, <1>4, <1>6, <2>1
<1>9. ASSUME NEW j \in 1..(l - 1)
      PROVE  s[j + 1] = s[j] + Len(u[j]) /\ \A i \in 1..Len(u[j]) : f[s[j] + i] = u[j][i]
  <2>1. j \in 1..(l - 1 + 1) /\ j + 1 \in 1..(l - 1 + 1) /\ j + 1 \in 1..l
    BY <1>2
  <2>2. s[j] = cut[j + 1] /\ s[j + 1] = cut[j + 1 + 1] /\ u[j] = t[j + 1]
    BY <1>2, <1>6, <2>1
  <2> QED
    BY <1>1, <2>1, <2>2
<1>10. ASSUME NEW i \in 1..(l - 1 + 1), NEW j \in 1..(l - 1 + 1), i <= j PROVE s[i] <= s[j]
  <2>1. i + 1 \in 1..(l + 1) /\ j + 1 \in 1..(l + 1) /\ i + 1 <= j + 1
    BY <1>2, <1>10
  <2>2. s[i] = cut[i + 1] /\ s[j] = cut[j + 1]
    BY <1>6
  <2> QED
    BY <1>1, <2>1, <2>2
<1> DEFINE m == Len(u)
<1>11. /\ s \in [1..(m + 1) -> Nat] /\ s[1] = c + Len(h) /\ s[m + 1] = Len(f)
       /\ \A j \in 1..m : s[j + 1] = s[j] + Len(u[j])
       /\ \A i, j \in 1..(m + 1) : i <= j => s[i] <= s[j]
  BY <1>2, <1>7, <1>8, <1>9, <1>10
<1>12. \A j \in 1..m : \A i \in 1..Len(u[j]) : f[s[j] + i] = u[j][i]
  BY <1>2, <1>9
<1>13. Laid(u, f, c + Len(h))
  BY <1>11, <1>12, Zenon DEF Laid
<1> QED
  BY <1>3, <1>4, <1>5, <1>13 DEF h, u

LEMMA LaidFrom ==
  ASSUME NEW t \in Seq(Seq(Signal)), NEW f \in Seq(Signal), NEW c \in Nat, Laid(t, f, c),
         NEW n \in 0..c
  PROVE  c <= Len(f) /\ Laid(t, From(f, n), c - n)
<1> DEFINE l == Len(t)
           g == From(f, n)
<1>1. PICK cut \in [1..(l + 1) -> Nat] :
        /\ cut[1] = c /\ cut[l + 1] = Len(f)
        /\ \A j \in 1..l : cut[j + 1] = cut[j] + Len(t[j])
        /\ \A i, j \in 1..(l + 1) : i <= j => cut[i] <= cut[j]
        /\ \A j \in 1..l : \A i \in 1..Len(t[j]) : f[cut[j] + i] = t[j][i]
  BY DEF Laid
<1>2. l \in Nat /\ Len(f) \in Nat /\ \A j \in 1..l : Len(t[j]) \in Nat
  BY LenProperties, ElementOfSeq
<1>3. /\ c <= Len(f)
      /\ \A j \in 1..(l + 1) : cut[j] \in Nat /\ c <= cut[j] /\ cut[j] <= Len(f)
  <2>1. 1 \in 1..(l + 1) /\ l + 1 \in 1..(l + 1) /\ \A j \in 1..(l + 1) : 1 <= j /\ j <= l + 1
    BY <1>2
  <2> QED
    BY <1>1, <2>1
<1>4. n \in 0..Len(f)
  BY <1>2, <1>3
<1>5. Len(g) = Len(f) - n /\ \A i \in 1..(Len(f) - n) : g[i] = f[n + i]
  BY <1>4, CutFact
<1> HIDE DEF l, g
<1> DEFINE s == [j \in 1..(l + 1) |-> cut[j] - n]
<1>6. \A j \in 1..(l + 1) : s[j] = cut[j] - n /\ s[j] \in Nat
  BY <1>3
<1>7. s \in [1..(l + 1) -> Nat]
  BY <1>6
<1> HIDE DEF s
<1>8. s[1] = c - n /\ s[l + 1] = Len(f) - n
  <2>1. 1 \in 1..(l + 1) /\ l + 1 \in 1..(l + 1)
    BY <1>2
  <2> QED
    BY <1>1, <1>6, <2>1
<1>9. ASSUME NEW j \in 1..l
      PROVE  s[j + 1] = s[j] + Len(t[j]) /\ \A i \in 1..Len(t[j]) : g[s[j] + i] = t[j][i]
  <2> DEFINE x == cut[j]
             y == cut[j + 1]
             k == Len(t[j])
  <2>1. j \in 1..(l + 1) /\ j + 1 \in 1..(l + 1)
    BY <1>2
  <2>2. /\ x \in Nat /\ c <= x /\ y \in Nat /\ y <= Len(f) /\ y = x + k /\ k \in Nat
        /\ s[j] = x - n /\ s[j + 1] = y - n
        /\ \A i \in 1..k : f[x + i] = t[j][i]
    BY <1>1, <1>2, <1>3, <1>6, <2>1
  <2> HIDE DEF x, y, k
  <2>3. s[j + 1] = s[j] + k
    BY <2>2
  <2>4. ASSUME NEW i \in 1..k PROVE g[s[j] + i] = t[j][i]
    <3> DEFINE z == s[j]
               w == Len(f)
    <3>1. z = x - n /\ x \in Nat /\ y = x + k /\ y <= w /\ w \in Nat /\ c <= x
      BY <1>2, <2>2
    <3> HIDE DEF z, w
    <3>2. z + i \in 1..(w - n) /\ n + (z + i) = x + i
      BY <2>2, <3>1
    <3>3. g[z + i] = f[x + i]
      BY <1>5, <3>2 DEF w
    <3> QED
      BY <2>2, <3>3 DEF z
  <2> QED
    BY <2>3, <2>4 DEF k
<1>10. ASSUME NEW i \in 1..(l + 1), NEW j \in 1..(l + 1), i <= j PROVE s[i] <= s[j]
  <2>1. cut[i] <= cut[j] /\ cut[i] \in Nat /\ cut[j] \in Nat
        /\ s[i] = cut[i] - n /\ s[j] = cut[j] - n
    BY <1>1, <1>3, <1>6, <1>10
  <2> QED
    BY <2>1
<1>11. Laid(t, g, c - n)
  BY <1>5, <1>7, <1>8, <1>9, <1>10 DEF Laid, l
<1> QED
  BY <1>3, <1>11 DEF g

-----------------------------------------------------------------------------
(* The counts on their way back add up to no more than what the hub has    *)
(* read or refused at the front of inflight; the messages on the wire are  *)
(* the rest of inflight.                                                   *)
Balanced(t, f, a, done) ==
  \E m, c \in Nat :
    /\ m <= c /\ SumIs(a, m) /\ Laid(t, f, c)
    /\ \A i \in 1..c : f[i] \in done

LEMMA BalancedSend ==
  ASSUME NEW t \in Seq(Seq(Signal)), NEW f \in Seq(Signal), NEW a, NEW done,
         Balanced(t, f, a, done), NEW b \in Seq(Signal)
  PROVE  Balanced(IF b = << >> THEN t ELSE Append(t, b), f \o b, a, done)
<1>1. PICK m \in Nat, c \in Nat :
        /\ m <= c /\ SumIs(a, m) /\ Laid(t, f, c)
        /\ \A i \in 1..c : f[i] \in done
  BY DEF Balanced
<1>2. CASE b = << >>
  <2>1. f \o b = f
    BY <1>2, ConcatEmptySeq
  <2> QED
    BY <1>2, <2>1
<1>3. CASE b # << >>
  <2>1. Laid(Append(t, b), f \o b, c)
    BY <1>1, LaidAppend
  <2>2. c <= Len(f)
    <3>1. 0 \in 0..c
      OBVIOUS
    <3> QED
      BY <1>1, <3>1, LaidFrom
  <2>3. \A i \in 1..c : (f \o b)[i] = f[i]
    <3>1. /\ Len(f) \in Nat /\ Len(b) \in Nat
          /\ \A i \in 1..(Len(f) + Len(b)) :
               (f \o b)[i] = IF i <= Len(f) THEN f[i] ELSE b[i - Len(f)]
      BY LenProperties, ConcatProperties
    <3>2. \A i \in 1..c : i \in 1..(Len(f) + Len(b)) /\ i <= Len(f)
      BY <2>2, <3>1
    <3> QED
      BY <3>1, <3>2
  <2>4. Balanced(Append(t, b), f \o b, a, done)
    BY <1>1, <2>1, <2>3, Zenon DEF Balanced
  <2> QED
    BY <1>3, <2>4
<1> QED
  BY <1>2, <1>3

(* The hub takes a message off the wire, and answers it with a count or    *)
(* not at all.                                                             *)
LEMMA BalancedRead ==
  ASSUME NEW t \in Seq(Seq(Signal)), NEW f \in Seq(Signal), NEW a \in Seq(Nat), NEW done,
         Balanced(t, f, a, done), t # << >>
  PROVE  /\ Balanced(Tail(t), f, Append(a, Len(Head(t))), done \union ToSet(Head(t)))
         /\ Balanced(Tail(t), f, a, done \union ToSet(Head(t)))
<1> DEFINE h == Head(t)
           n == Len(h)
           all == done \union ToSet(h)
<1>1. PICK m \in Nat, c \in Nat :
        /\ m <= c /\ SumIs(a, m) /\ Laid(t, f, c)
        /\ \A i \in 1..c : f[i] \in done
  BY DEF Balanced
<1>2. /\ n \in Nat /\ \A i \in 1..n : f[c + i] = h[i]
      /\ Laid(Tail(t), f, c + n)
  BY <1>1, LaidTail
<1>3. h \in Seq(Signal)
  BY HeadFact
<1>4. \A i \in 1..n : h[i] \in all
  BY <1>3, SetOf
<1>5. SumIs(Append(a, n), m + n)
  BY <1>1, <1>2, SumAppend
<1> HIDE DEF h, n, all
<1>6. /\ m + n \in Nat /\ c + n \in Nat /\ m + n <= c + n /\ m <= c + n
  BY <1>1, <1>2
<1>7. ASSUME NEW i \in 1..(c + n) PROVE f[i] \in all
  <2>1. CASE i <= c
    <3>1. i \in 1..c
      BY <1>2, <2>1
    <3> QED
      BY <1>1, <3>1 DEF all
  <2>2. CASE ~(i <= c)
    <3>1. i - c \in 1..n /\ c + (i - c) = i
      BY <1>2, <2>2
    <3>2. f[c + (i - c)] = h[i - c] /\ h[i - c] \in all
      BY <1>2, <1>4, <3>1
    <3> QED
      BY <3>1, <3>2
  <2> QED
    BY <2>1, <2>2
<1>8. Balanced(Tail(t), f, Append(a, n), all)
  BY <1>2, <1>5, <1>6, <1>7, Zenon DEF Balanced
<1>9. Balanced(Tail(t), f, a, all)
  BY <1>1, <1>2, <1>6, <1>7, Zenon DEF Balanced
<1> QED
  BY <1>8, <1>9 DEF h, n, all

(* A count arrives, in whatever order: what it takes off the front of      *)
(* inflight was read or refused.                                           *)
LEMMA BalancedAck ==
  ASSUME NEW t \in Seq(Seq(Signal)), NEW f \in Seq(Signal), NEW a \in Seq(Nat), NEW done,
         Balanced(t, f, a, done), NEW k \in 1..Len(a)
  PROVE  /\ a[k] \in 0..Len(f) /\ ToSet(First(f, a[k])) \subseteq done
         /\ Balanced(t, From(f, a[k]), RemoveAt(a, k), done)
<1> DEFINE n == a[k]
<1>1. PICK m \in Nat, c \in Nat :
        /\ m <= c /\ SumIs(a, m) /\ Laid(t, f, c)
        /\ \A i \in 1..c : f[i] \in done
  BY DEF Balanced
<1>2. n \in 0..m /\ SumIs(RemoveAt(a, k), m - n)
  BY <1>1, SumRemove
<1> HIDE DEF n
<1>3. n \in 0..c
  BY <1>1, <1>2
<1>4. c <= Len(f) /\ Laid(t, From(f, n), c - n)
  BY <1>1, <1>3, LaidFrom
<1>5. Len(f) \in Nat /\ n \in 0..Len(f)
  <2>1. Len(f) \in Nat
    BY LenProperties
  <2> QED
    BY <1>3, <1>4, <2>1
<1>6. /\ First(f, n) \in Seq(Signal) /\ Len(First(f, n)) = n
      /\ \A i \in 1..n : First(f, n)[i] = f[i]
      /\ \A i \in 1..(Len(f) - n) : From(f, n)[i] = f[n + i]
  BY <1>5, CutFact
<1>7. ToSet(First(f, n)) \subseteq done
  <2>1. ToSet(First(f, n)) = {First(f, n)[i] : i \in 1..n}
    BY <1>6, SetOf
  <2>2. \A i \in 1..n : i \in 1..c
    BY <1>3
  <2> QED
    BY <1>1, <1>6, <2>1, <2>2
<1>8. m - n \in Nat /\ c - n \in Nat /\ m - n <= c - n
  BY <1>1, <1>2
<1>9. \A i \in 1..(c - n) : From(f, n)[i] \in done
  <2>1. \A i \in 1..(c - n) : i \in 1..(Len(f) - n) /\ n + i \in 1..c
    BY <1>3, <1>4, <1>5
  <2> QED
    BY <1>1, <1>6, <2>1
<1>10. Balanced(t, From(f, n), RemoveAt(a, k), done)
  BY <1>2, <1>4, <1>8, <1>9, Zenon DEF Balanced
<1> QED
  BY <1>5, <1>7, <1>10 DEF n

LEMMA BalancedEmpty == ASSUME NEW done PROVE Balanced(<< >>, << >>, << >>, done)
<1>1. 0 \in Nat /\ 0 <= 0 /\ \A i \in 1..0 : FALSE
  OBVIOUS
<1> QED
  BY <1>1, SumEmpty, LaidEmpty DEF Balanced

-----------------------------------------------------------------------------
WireBalanced == Balanced(toHub, inflight, acks, received \union discarded)

LEMMA NextBalances ==
  ASSUME ClientTyped, LoopOwns, WireBalanced, AckedWasReceived, [Next]_vars
  PROVE  WireBalanced' /\ AckedWasReceived'
<1>t. /\ chan \in Seq(Signal) /\ pending \in Seq(Signal) /\ batch \in Seq(Signal)
      /\ inflight \in Seq(Signal) /\ toHub \in Seq(Seq(Signal)) /\ acks \in Seq(Nat)
  BY DEF ClientTyped
<1>u. CASE UNCHANGED <<wire, inflight, hub, settled>>
  BY <1>u DEF WireBalanced, AckedWasReceived, wire, hub
<1>s. ASSUME NEW b \in Seq(Signal), Sends(b), UNCHANGED <<acks, hub, settled>>
      PROVE  WireBalanced' /\ AckedWasReceived'
  <2>1. Balanced(IF b = << >> THEN toHub ELSE Append(toHub, b), inflight \o b, acks,
                 received \union discarded)
    BY <1>t, BalancedSend DEF WireBalanced
  <2> QED
    BY <1>s, <2>1 DEF WireBalanced, AckedWasReceived, Sends, hub
<1>d. ASSUME NEW had, NEW p, NEW b, NEW f, Disconnected(had, p, b, f), UNCHANGED <<hub, settled>>
      PROVE  WireBalanced' /\ AckedWasReceived'
  <2>1. inflight' = << >> /\ toHub' = << >> /\ acks' = << >>
    BY <1>d DEF Disconnected
  <2> QED
    BY <1>d, <2>1, BalancedEmpty DEF WireBalanced, AckedWasReceived, hub
<1>1. CASE \E s \in Signal : Report(s) \/ SinkReport(s)
  BY <1>1, <1>u DEF Report, SinkReport, buffers
<1>2. CASE RetryTick
  BY <1>2, <1>u DEF RetryTick, buffers
<1>3. CASE LoopStep
  <2>1. CASE LoopHead \/ WaitEnds \/ AuthFailed \/ Shutdown
    BY <2>1, <1>u DEF LoopHead, WaitEnds, AuthFailed, Shutdown, buffers
  <2>2. CASE ConnectFails
    BY <2>2, <1>d DEF ConnectFails
  <2>3. CASE AuthSuccess
    BY <2>3, <1>t, <1>d, <1>s DEF AuthSuccess
  <2>4. CASE SocketClosed
    BY <2>4, <1>d DEF SocketClosed
  <2>5. CASE BatchTimer
    BY <2>5, <1>t, <1>d, <1>s DEF BatchTimer, SendFails
  <2>6. CASE Recv
    <3> DEFINE full == Append(batch, Head(chan))
    <3>1. /\ chan # << >> /\ UNCHANGED <<hub, settled>>
          /\ \/ UNCHANGED <<inflight, wire>>
             \/ Sends(full) /\ UNCHANGED acks
             \/ SendFails(full)
      BY <2>6 DEF Recv
    <3>2. full \in Seq(Signal)
      <4>1. Head(chan) \in Signal
        BY <1>t, <3>1, HeadFact
      <4> QED
        BY <1>t, <4>1
    <3> HIDE DEF full
    <3> QED
      BY <3>1, <3>2, <1>u, <1>s, <1>d DEF SendFails
  <2>7. ASSUME NEW i \in DOMAIN acks, Ack(i) PROVE WireBalanced' /\ AckedWasReceived'
    <3>1. i \in 1..Len(acks)
      BY <1>t, LenProperties
    <3>2. /\ acks[i] \in 0..Len(inflight)
          /\ ToSet(First(inflight, acks[i])) \subseteq received \union discarded
          /\ Balanced(toHub, From(inflight, acks[i]), RemoveAt(acks, i), received \union discarded)
      BY <1>t, <3>1, BalancedAck DEF WireBalanced
    <3>3. Popped(acks[i]) = acks[i]
      <4>1. Len(inflight) \in Nat
        BY <1>t, LenProperties
      <4> QED
        BY <3>2, <4>1 DEF Popped, AtMost
    <3>4. /\ settled' = settled \union ToSet(First(inflight, acks[i]))
          /\ inflight' = From(inflight, acks[i])
          /\ acks' = RemoveAt(acks, i)
          /\ UNCHANGED <<toHub, hub>>
      BY <2>7, <3>3 DEF Ack
    <3> QED
      BY <3>2, <3>4 DEF WireBalanced, AckedWasReceived, hub
  <2> QED
    BY <1>3, <2>1, <2>2, <2>3, <2>4, <2>5, <2>6, <2>7 DEF LoopStep
<1>4. CASE stop \/ ResetTimeout \/ UNCHANGED vars
  BY <1>4, <1>u DEF stop, ResetTimeout, vars, buffers
<1>5. CASE HubReceives
  <2>1. Balanced(Tail(toHub), inflight, Append(acks, Len(Head(toHub))),
                 (received \union discarded) \union ToSet(Head(toHub)))
    BY <1>t, <1>5, BalancedRead DEF WireBalanced, HubReceives
  <2>2. received' \union discarded' = (received \union discarded) \union ToSet(Head(toHub))
    BY <1>5 DEF HubReceives
  <2>3. /\ toHub' = Tail(toHub) /\ acks' = Append(acks, Len(Head(toHub)))
        /\ UNCHANGED <<inflight, settled>>
    BY <1>5 DEF HubReceives, buffers
  <2> QED
    BY <2>1, <2>2, <2>3 DEF WireBalanced, AckedWasReceived
<1>6. CASE HubDiscards
  <2>1. Balanced(Tail(toHub), inflight, acks,
                 (received \union discarded) \union ToSet(Head(toHub)))
    BY <1>t, <1>6, BalancedRead DEF WireBalanced, HubDiscards
  <2>2. received' \union discarded' = (received \union discarded) \union ToSet(Head(toHub))
    BY <1>6 DEF HubDiscards
  <2>3. toHub' = Tail(toHub) /\ UNCHANGED <<inflight, acks, settled>>
    BY <1>6 DEF HubDiscards, buffers
  <2> QED
    BY <2>1, <2>2, <2>3 DEF WireBalanced, AckedWasReceived
<1> QED
  BY <1>1, <1>2, <1>3, <1>4, <1>5, <1>6 DEF Next

(* An acknowledgement makes the client forget only signals the hub has     *)
(* read or refused, however acknowledgements overtake each other and       *)
(* however often the connection is lost in between.                        *)
THEOREM ForgottenWasReceived == Spec => []AckedWasReceived
<1> DEFINE Inv == ClientTyped /\ LoopOwns /\ WireBalanced /\ AckedWasReceived
<1>1. Init => Inv
  BY EmptyFact, BalancedEmpty DEF Init, ClientTyped, LoopOwns, WireBalanced, AckedWasReceived
<1>2. Inv /\ [Next]_vars => Inv'
  BY NextKeeps, NextBalances DEF KeepsAll
<1> QED
  BY <1>1, <1>2, PTL DEF Spec

-----------------------------------------------------------------------------
(* The order of the buffers.  q keeps the order of r and has nothing else: *)
(* every element of q has a place in r, and the places go up.              *)
InOrderOf(q, r) ==
  \E place \in [1..Len(q) -> 1..Len(r)] :
    /\ \A i \in 1..Len(q) : q[i] = r[place[i]]
    /\ \A i, j \in 1..Len(q) : i < j => place[i] < place[j]

(* No element comes twice.                                                 *)
Once(q) == \A i, j \in 1..Len(q) : q[i] = q[j] => i = j

LEMMA OrderReflexive ==
  ASSUME NEW q \in Seq(Signal)
  PROVE  InOrderOf(q, q)
<1> DEFINE l == Len(q)
           place == [i \in 1..l |-> i]
<1>1. /\ place \in [1..l -> 1..l] /\ \A i \in 1..l : q[i] = q[place[i]]
      /\ \A i, j \in 1..l : i < j => place[i] < place[j]
  BY LenProperties
<1> HIDE DEF place
<1> QED
  BY <1>1, Zenon DEF InOrderOf, l

LEMMA OrderTransitive ==
  ASSUME NEW q \in Seq(Signal), NEW r \in Seq(Signal), NEW s \in Seq(Signal),
         InOrderOf(q, r), InOrderOf(r, s)
  PROVE  InOrderOf(q, s)
<1>1. PICK x \in [1..Len(q) -> 1..Len(r)] :
        /\ \A i \in 1..Len(q) : q[i] = r[x[i]]
        /\ \A i, j \in 1..Len(q) : i < j => x[i] < x[j]
  BY DEF InOrderOf
<1>2. PICK y \in [1..Len(r) -> 1..Len(s)] :
        /\ \A i \in 1..Len(r) : r[i] = s[y[i]]
        /\ \A i, j \in 1..Len(r) : i < j => y[i] < y[j]
  BY DEF InOrderOf
<1> DEFINE place == [i \in 1..Len(q) |-> y[x[i]]]
<1>3. \A i \in 1..Len(q) : x[i] \in 1..Len(r) /\ place[i] = y[x[i]] /\ place[i] \in 1..Len(s)
  BY <1>1, <1>2
<1>4. place \in [1..Len(q) -> 1..Len(s)]
  BY <1>3
<1> HIDE DEF place
<1>5. /\ \A i \in 1..Len(q) : q[i] = s[place[i]]
      /\ \A i, j \in 1..Len(q) : i < j => place[i] < place[j]
  BY <1>1, <1>2, <1>3
<1> QED
  BY <1>4, <1>5, Zenon DEF InOrderOf

LEMMA OrderConcat ==
  ASSUME NEW p \in Seq(Signal), NEW q \in Seq(Signal), NEW r \in Seq(Signal),
         NEW s \in Seq(Signal), InOrderOf(p, r), InOrderOf(q, s)
  PROVE  InOrderOf(p \o q, r \o s)
<1> DEFINE a == Len(p)
           b == Len(q)
           c == Len(r)
           d == Len(s)
           u == p \o q
           v == r \o s
<1>1. PICK x \in [1..a -> 1..c] :
        /\ \A i \in 1..a : p[i] = r[x[i]]
        /\ \A i, j \in 1..a : i < j => x[i] < x[j]
  BY DEF InOrderOf
<1>2. PICK y \in [1..b -> 1..d] :
        /\ \A i \in 1..b : q[i] = s[y[i]]
        /\ \A i, j \in 1..b : i < j => y[i] < y[j]
  BY DEF InOrderOf
<1>3. /\ a \in Nat /\ b \in Nat /\ c \in Nat /\ d \in Nat
      /\ Len(u) = a + b /\ Len(v) = c + d
      /\ \A i \in 1..(a + b) : u[i] = IF i <= a THEN p[i] ELSE q[i - a]
      /\ \A i \in 1..(c + d) : v[i] = IF i <= c THEN r[i] ELSE s[i - c]
  BY LenProperties, ConcatProperties
<1> HIDE DEF a, b, c, d, u, v
<1> DEFINE place == [i \in 1..(a + b) |-> IF i <= a THEN x[i] ELSE c + y[i - a]]
<1>4. \A i \in 1..(a + b) :
        /\ i <= a => i \in 1..a /\ place[i] = x[i] /\ place[i] \in 1..c
        /\ ~(i <= a) => i - a \in 1..b /\ place[i] = c + y[i - a] /\ y[i - a] \in 1..d
  <2> SUFFICES ASSUME NEW i \in 1..(a + b)
               PROVE  /\ i <= a => i \in 1..a /\ place[i] = x[i] /\ place[i] \in 1..c
                      /\ ~(i <= a) => i - a \in 1..b /\ place[i] = c + y[i - a] /\ y[i - a] \in 1..d
    OBVIOUS
  <2>1. CASE i <= a
    BY <1>1, <1>3, <2>1
  <2>2. CASE ~(i <= a)
    <3>1. i - a \in 1..b
      BY <1>3, <2>2
    <3> QED
      BY <1>2, <1>3, <2>2, <3>1
  <2> QED
    BY <2>1, <2>2
<1>5. place \in [1..(a + b) -> 1..(c + d)]
  <2>1. ASSUME NEW i \in 1..(a + b) PROVE place[i] \in 1..(c + d)
    <3> HIDE DEF place
    <3>1. CASE i <= a
      BY <1>3, <1>4, <3>1
    <3>2. CASE ~(i <= a)
      <4> DEFINE z == y[i - a]
      <4>1. place[i] = c + z /\ z \in 1..d
        BY <1>4, <3>2
      <4> HIDE DEF z
      <4> QED
        BY <1>3, <4>1
    <3> QED
      BY <3>1, <3>2
  <2> QED
    BY <2>1
<1> HIDE DEF place
<1>6. ASSUME NEW i \in 1..(a + b) PROVE u[i] = v[place[i]]
  <2>1. CASE i <= a
    <3>1. i \in 1..a /\ place[i] = x[i] /\ x[i] \in 1..c
      BY <1>4, <2>1
    <3>2. u[i] = r[x[i]]
      BY <1>1, <1>3, <2>1, <3>1
    <3>3. x[i] \in 1..(c + d) /\ x[i] <= c
      BY <1>3, <3>1
    <3> QED
      BY <1>3, <3>1, <3>2, <3>3
  <2>2. CASE ~(i <= a)
    <3> DEFINE z == y[i - a]
    <3>1. i - a \in 1..b /\ place[i] = c + z /\ z \in 1..d
      BY <1>4, <2>2
    <3>2. u[i] = s[z]
      BY <1>2, <1>3, <2>2, <3>1
    <3> HIDE DEF z
    <3>3. c + z \in 1..(c + d) /\ ~(c + z <= c) /\ (c + z) - c = z
      BY <1>3, <3>1
    <3>4. v[c + z] = s[z]
      BY <1>3, <3>3
    <3> QED
      BY <3>1, <3>2, <3>4
  <2> QED
    BY <2>1, <2>2
<1>7. ASSUME NEW i \in 1..(a + b), NEW j \in 1..(a + b), i < j PROVE place[i] < place[j]
  <2>1. CASE j <= a
    <3>1. i <= a
      BY <1>3, <1>7, <2>1
    <3> QED
      BY <1>1, <1>4, <1>7, <2>1, <3>1
  <2>2. CASE ~(j <= a) /\ i <= a
    <3> DEFINE z == y[j - a]
               w == place[i]
    <3>1. w \in 1..c /\ place[j] = c + z /\ z \in 1..d
      BY <1>4, <2>2
    <3> HIDE DEF z, w
    <3>2. w < c + z
      BY <1>3, <3>1
    <3> QED
      BY <3>1, <3>2 DEF w
  <2>3. CASE ~(j <= a) /\ ~(i <= a)
    <3> DEFINE z == y[j - a]
               w == y[i - a]
    <3>1. /\ i - a \in 1..b /\ place[i] = c + w /\ w \in 1..d
          /\ j - a \in 1..b /\ place[j] = c + z /\ z \in 1..d
      BY <1>4, <2>3
    <3>2. i - a < j - a
      BY <1>3, <1>7
    <3>3. w < z
      BY <1>2, <3>1, <3>2
    <3> HIDE DEF z, w
    <3>4. c + w < c + z
      BY <1>3, <3>1, <3>3
    <3> QED
      BY <3>1, <3>4
  <2>4. ~(i <= a) => ~(j <= a)
    BY <1>3, <1>7
  <2> QED
    BY <2>1, <2>2, <2>3, <2>4
<1>8. InOrderOf(u, v)
  <2> DEFINE m == Len(u)
             n == Len(v)
  <2>1. /\ place \in [1..m -> 1..n] /\ \A i \in 1..m : u[i] = v[place[i]]
        /\ \A i, j \in 1..m : i < j => place[i] < place[j]
    BY <1>3, <1>5, <1>6, <1>7
  <2> QED
    BY <2>1, Zenon DEF InOrderOf
<1> QED
  BY <1>8 DEF u, v

LEMMA OrderFrom ==
  ASSUME NEW q \in Seq(Signal), NEW n \in 0..Len(q)
  PROVE  InOrderOf(From(q, n), q)
<1> DEFINE l == Len(q)
           u == From(q, n)
           m == Len(u)
<1>1. l \in Nat /\ m = l - n /\ \A i \in 1..(l - n) : u[i] = q[n + i]
  BY LenProperties, CutFact
<1>2. n \in 0..l
  OBVIOUS
<1> HIDE DEF l, u, m
<1> DEFINE place == [i \in 1..m |-> n + i]
<1>3. /\ place \in [1..m -> 1..l] /\ \A i \in 1..m : u[i] = q[place[i]]
      /\ \A i, j \in 1..m : i < j => place[i] < place[j]
  BY <1>1, <1>2
<1> HIDE DEF place
<1> QED
  BY <1>3, Zenon DEF InOrderOf, l, u, m

LEMMA OnceConcat ==
  ASSUME NEW p \in Seq(Signal), NEW q \in Seq(Signal)
  PROVE  Once(p \o q) <=> Once(p) /\ Once(q) /\ ToSet(p) \intersect ToSet(q) = {}
<1> DEFINE a == Len(p)
           b == Len(q)
           u == p \o q
<1>1. /\ a \in Nat /\ b \in Nat /\ Len(u) = a + b
      /\ \A i \in 1..(a + b) : u[i] = IF i <= a THEN p[i] ELSE q[i - a]
  BY LenProperties, ConcatProperties
<1>2. /\ ToSet(p) = {p[i] : i \in 1..a} /\ ToSet(q) = {q[i] : i \in 1..b}
  BY SetOf
<1>3. /\ \A i \in 1..a : i \in 1..(a + b) /\ u[i] = p[i]
      /\ \A i \in 1..b : a + i \in 1..(a + b) /\ u[a + i] = q[i]
  <2>1. \A i \in 1..b : a + i \in 1..(a + b) /\ ~(a + i <= a) /\ (a + i) - a = i
    BY <1>1
  <2>2. \A i \in 1..a : i \in 1..(a + b) /\ i <= a
    BY <1>1
  <2> HIDE DEF a, b, u
  <2> QED
    BY <1>1, <2>1, <2>2
<1> HIDE DEF a, b, u
<1>4. ASSUME \A i, j \in 1..(a + b) : u[i] = u[j] => i = j
      PROVE  /\ \A i, j \in 1..a : p[i] = p[j] => i = j
             /\ \A i, j \in 1..b : q[i] = q[j] => i = j
             /\ \A i \in 1..a, j \in 1..b : p[i] # q[j]
  <2>1. \A i, j \in 1..a : p[i] = p[j] => i = j
    BY <1>3, <1>4
  <2>2. ASSUME NEW i \in 1..b, NEW j \in 1..b, q[i] = q[j] PROVE i = j
    <3>1. a + i = a + j
      BY <1>3, <1>4, <2>2
    <3> QED
      BY <1>1, <3>1
  <2>3. ASSUME NEW i \in 1..a, NEW j \in 1..b, p[i] = q[j] PROVE FALSE
    <3>1. i = a + j
      BY <1>3, <1>4, <2>3
    <3> QED
      BY <1>1, <3>1
  <2> QED
    BY <2>1, <2>2, <2>3
<1>5. ASSUME \A i, j \in 1..a : p[i] = p[j] => i = j,
             \A i, j \in 1..b : q[i] = q[j] => i = j,
             \A i \in 1..a, j \in 1..b : p[i] # q[j],
             NEW i \in 1..(a + b), NEW j \in 1..(a + b), u[i] = u[j]
      PROVE  i = j
  <2>1. ASSUME NEW k \in 1..(a + b)
        PROVE  \/ k \in 1..a /\ u[k] = p[k]
               \/ k - a \in 1..b /\ u[k] = q[k - a]
    BY <1>1
  <2>2. CASE (i \in 1..a /\ u[i] = p[i]) /\ (j \in 1..a /\ u[j] = p[j])
    BY <1>5, <2>2
  <2>3. CASE (i - a \in 1..b /\ u[i] = q[i - a]) /\ (j - a \in 1..b /\ u[j] = q[j - a])
    <3>1. i - a = j - a
      BY <1>5, <2>3
    <3> QED
      BY <1>1, <3>1
  <2>4. CASE (i \in 1..a /\ u[i] = p[i]) /\ (j - a \in 1..b /\ u[j] = q[j - a])
    BY <1>5, <2>4
  <2>5. CASE (i - a \in 1..b /\ u[i] = q[i - a]) /\ (j \in 1..a /\ u[j] = p[j])
    BY <1>5, <2>5
  <2> QED
    BY <2>1, <2>2, <2>3, <2>4, <2>5
<1>6. Once(u) <=> \A i, j \in 1..(a + b) : u[i] = u[j] => i = j
  BY <1>1 DEF Once
<1>7. /\ Once(p) <=> \A i, j \in 1..a : p[i] = p[j] => i = j
      /\ Once(q) <=> \A i, j \in 1..b : q[i] = q[j] => i = j
  BY DEF Once, a, b
<1>8. (ToSet(p) \intersect ToSet(q) = {}) <=> \A i \in 1..a, j \in 1..b : p[i] # q[j]
  BY <1>2
<1>9. Once(u) <=> Once(p) /\ Once(q) /\ ToSet(p) \intersect ToSet(q) = {}
  <2>1. Once(u) => Once(p) /\ Once(q) /\ ToSet(p) \intersect ToSet(q) = {}
    BY <1>4, <1>6, <1>7, <1>8
  <2>2. Once(p) /\ Once(q) /\ ToSet(p) \intersect ToSet(q) = {} => Once(u)
    BY <1>5, <1>6, <1>7, <1>8
  <2> QED
    BY <2>1, <2>2
<1> QED
  BY <1>9 DEF u

LEMMA Regroup ==
  ASSUME NEW a \in Seq(Signal), NEW b \in Seq(Signal), NEW c \in Seq(Signal)
  PROVE  a \o b \o c \in Seq(Signal) /\ a \o b \o c = a \o (b \o c)
<1>1. a \o b \in Seq(Signal)
  BY ConcatProperties
<1>2. (a \o b) \o c \in Seq(Signal)
  BY <1>1, ConcatProperties
<1>3. (a \o b) \o c = a \o (b \o c)
  BY ConcatAssociative
<1> QED
  BY <1>2, <1>3

(* What stash_pending and requeue_inflight make of the buffers is in the   *)
(* order the buffers were in, whatever they drop.                          *)
LEMMA RequeuedInOrder ==
  ASSUME NEW p \in Seq(Signal), NEW b \in Seq(Signal), NEW f \in Seq(Signal),
         NEW had, Disconnected(had, p, b, f)
  PROVE  InOrderOf(pending', f \o p \o b)
<1>0. Requeued(p, b, f, pending')
  BY DisconnectedFact
<1>1. PICK n \in 0..Len(p), m \in 0..Len(b) :
        /\ From(p, n) \o From(b, m) \in Seq(Signal)
        /\ \E j \in 0..Len(From(p, n) \o From(b, m)), k \in 0..Len(f) :
             pending' = From(f, k) \o From(From(p, n) \o From(b, m), j)
  BY <1>0 DEF Requeued
<1> DEFINE s == From(p, n) \o From(b, m)
<1>2. PICK j \in 0..Len(s), k \in 0..Len(f) : pending' = From(f, k) \o From(s, j)
  BY <1>1
<1>3. From(p, n) \in Seq(Signal) /\ From(b, m) \in Seq(Signal) /\ From(f, k) \in Seq(Signal)
  BY CutFact
<1>4. s \in Seq(Signal) /\ p \o b \in Seq(Signal)
  BY <1>1, ConcatProperties
<1>5. InOrderOf(From(p, n), p) /\ InOrderOf(From(b, m), b) /\ InOrderOf(From(f, k), f)
  BY OrderFrom
<1>6. InOrderOf(s, p \o b)
  BY <1>3, <1>5, OrderConcat
<1> HIDE DEF s
<1>7. From(s, j) \in Seq(Signal) /\ InOrderOf(From(s, j), s)
  BY <1>4, CutFact, OrderFrom
<1>8. InOrderOf(From(s, j), p \o b)
  BY <1>4, <1>6, <1>7, OrderTransitive
<1>9. InOrderOf(From(f, k) \o From(s, j), f \o (p \o b))
  BY <1>3, <1>4, <1>5, <1>7, <1>8, OrderConcat
<1>10. f \o p \o b = f \o (p \o b)
  BY Regroup
<1> QED
  BY <1>2, <1>9, <1>10

-----------------------------------------------------------------------------
(* The buffers one behind the other, as BuffersInOrder has them.           *)
Line == inflight \o pending \o batch \o chan

(* The buffers keep the order the channel carried the signals in, and it   *)
(* carried each at most once: a signal is new when it is reported, and     *)
(* waits in the retry queue or has been through the channel, not both.     *)
LineInOrder == InOrderOf(Line, entered)
EnteredOnce ==
  /\ Once(entered) /\ Once(retryQueue)
  /\ ToSet(entered) \intersect ToSet(retryQueue) = {}
  /\ ToSet(entered) \union ToSet(retryQueue) \subseteq 1..reported

LEMMA TypedLine ==
  ASSUME ClientTyped
  PROVE  Line \in Seq(Signal)
BY ConcatProperties DEF ClientTyped, Line

(* A signal at the end of the channel, or of the retry queue.              *)
LEMMA OrderAppend ==
  ASSUME ClientTyped, LineInOrder, NEW q \in Seq(Signal),
         chan' = chan \o q, entered' = entered \o q, UNCHANGED <<inflight, pending, batch>>
  PROVE  LineInOrder'
<1> DEFINE u == inflight \o pending \o batch
<1>1. chan \in Seq(Signal) /\ entered \in Seq(Signal) /\ u \in Seq(Signal)
  BY ConcatProperties DEF ClientTyped
<1>2. Line' = u \o (chan \o q) /\ Line = u \o chan
  BY DEF Line
<1> HIDE DEF u
<1>3. u \o (chan \o q) = (u \o chan) \o q
  BY <1>1, Regroup
<1>4. u \o chan \in Seq(Signal) /\ InOrderOf(q, q)
  BY <1>1, ConcatProperties, OrderReflexive
<1>5. InOrderOf((u \o chan) \o q, entered \o q)
  BY <1>1, <1>2, <1>4, OrderConcat DEF LineInOrder
<1> QED
  BY <1>2, <1>3, <1>5 DEF LineInOrder

LEMMA OnceAppend ==
  ASSUME NEW q \in Seq(Signal), Once(q), NEW s \in Signal, s \notin ToSet(q)
  PROVE  Once(Append(q, s)) /\ ToSet(Append(q, s)) = ToSet(q) \union {s}
<1>1. Append(q, s) = q \o <<s>>
  BY AppendIsConcat
<1>2. <<s>> \in Seq(Signal) /\ ToSet(<<s>>) = {s} /\ Once(<<s>>)
  BY DEF ToSet, Once
<1>3. ToSet(q) \intersect {s} = {}
  OBVIOUS
<1>4. Once(q \o <<s>>)
  BY <1>2, <1>3, OnceConcat
<1> QED
  BY <1>1, <1>4, SetOfAppend

LEMMA ReportInOrder ==
  ASSUME ClientTyped, LineInOrder, EnteredOnce, NEW s \in Signal, Report(s) \/ SinkReport(s)
  PROVE  LineInOrder' /\ EnteredOnce'
<1>t. chan \in Seq(Signal) /\ entered \in Seq(Signal) /\ retryQueue \in Seq(Signal)
  BY DEF ClientTyped
<1>1. /\ s = reported + 1 /\ reported' = s /\ UNCHANGED <<inflight, pending, batch>>
      /\ \/ UNCHANGED <<chan, retryQueue, entered>>
         \/ TrySend(s) /\ UNCHANGED retryQueue
         \/ retryQueue' = Append(retryQueue, s) /\ UNCHANGED <<chan, entered>>
  BY DEF Report, SinkReport, report_signal, buffers, queues
<1>2. s \notin 1..reported /\ s \in 1..reported' /\ 1..reported \subseteq 1..reported'
  BY <1>1 DEF ClientTyped
<1>3. s \notin ToSet(entered) /\ s \notin ToSet(retryQueue)
  BY <1>2 DEF EnteredOnce
<1>4. CASE UNCHANGED <<chan, retryQueue, entered>>
  BY <1>1, <1>2, <1>4 DEF LineInOrder, Line, EnteredOnce
<1>5. CASE TrySend(s) /\ UNCHANGED retryQueue
  <2>1. /\ chan' = chan \o <<s>> /\ entered' = entered \o <<s>> /\ <<s>> \in Seq(Signal)
        /\ entered' = Append(entered, s)
    BY <1>t, <1>5, AppendIsConcat DEF TrySend
  <2>2. LineInOrder'
    BY <1>1, <2>1, OrderAppend
  <2>3. Once(entered') /\ ToSet(entered') = ToSet(entered) \union {s}
    <3>1. Once(entered)
      BY DEF EnteredOnce
    <3>2. Once(Append(entered, s)) /\ ToSet(Append(entered, s)) = ToSet(entered) \union {s}
      BY <1>t, <1>3, <3>1, OnceAppend
    <3> QED
      BY <2>1, <3>2
  <2> QED
    BY <1>2, <1>3, <1>5, <2>2, <2>3 DEF EnteredOnce
<1>6. CASE retryQueue' = Append(retryQueue, s) /\ UNCHANGED <<chan, entered>>
  <2>1. Once(retryQueue') /\ ToSet(retryQueue') = ToSet(retryQueue) \union {s}
    BY <1>t, <1>3, <1>6, OnceAppend DEF EnteredOnce
  <2>2. LineInOrder'
    BY <1>1, <1>6 DEF LineInOrder, Line
  <2> QED
    BY <1>2, <1>3, <1>6, <2>1, <2>2 DEF EnteredOnce
<1> QED
  BY <1>1, <1>4, <1>5, <1>6

LEMMA RetryTickInOrder ==
  ASSUME ClientTyped, LineInOrder, EnteredOnce, RetryTick
  PROVE  LineInOrder' /\ EnteredOnce'
<1>t. /\ chan \in Seq(Signal) /\ entered \in Seq(Signal) /\ retryQueue \in Seq(Signal)
      /\ UNCHANGED <<reported, inflight, pending, batch>>
  BY DEF ClientTyped, RetryTick, buffers
<1>1. CASE Closed
  <2>1. retryQueue' = << >> /\ UNCHANGED <<chan, entered>>
    BY <1>1 DEF RetryTick
  <2>2. ToSet(<< >>) = {} /\ Once(<< >>)
    BY DEF ToSet, Once
  <2> QED
    BY <1>t, <2>1, <2>2 DEF LineInOrder, Line, EnteredOnce
<1>2. CASE ~Closed
  <2> DEFINE n == AtMost(Len(retryQueue), Excess(MaxQueued, Len(chan)))
             x == First(retryQueue, n)
             y == From(retryQueue, n)
  <2>1. chan' = chan \o x /\ entered' = entered \o x /\ retryQueue' = y
    BY <1>2 DEF RetryTick
  <2>2. n \in 0..Len(retryQueue)
    <3>1. Len(chan) \in Nat /\ Len(retryQueue) \in Nat /\ MaxQueued \in Nat
      BY <1>t, LenProperties, ClientAssumption
    <3> QED
      BY <3>1 DEF AtMost, Excess
  <2> HIDE DEF n
  <2>3. /\ x \in Seq(Signal) /\ y \in Seq(Signal)
        /\ ToSet(retryQueue) = ToSet(x) \union ToSet(y)
    BY <1>t, <2>2, CutFact, SetOfCut
  <2>4. retryQueue = x \o y
    <3> DEFINE l == Len(retryQueue)
    <3>1. l \in Nat /\ SubSeq(retryQueue, 1, l) = retryQueue
      BY <1>t, LenProperties, SubSeqFull
    <3>2. 1 \in 1..(l + 1) /\ n \in (1 - 1)..l /\ l \in n..l
      BY <2>2, <3>1
    <3>3. SubSeq(retryQueue, 1, n) \o SubSeq(retryQueue, n + 1, l) = SubSeq(retryQueue, 1, l)
      BY <1>t, <3>2, ConcatAdjacentSubSeq
    <3> QED
      BY <3>1, <3>3 DEF First, From
  <2> HIDE DEF x, y
  <2>5. Once(x) /\ Once(y) /\ ToSet(x) \intersect ToSet(y) = {}
    BY <2>3, <2>4, OnceConcat DEF EnteredOnce
  <2>6. ToSet(entered \o x) = ToSet(entered) \union ToSet(x)
    BY <1>t, <2>3, SetOfConcat
  <2>7. ToSet(entered) \intersect ToSet(x) = {}
    BY <2>3 DEF EnteredOnce
  <2>8. Once(entered \o x)
    BY <1>t, <2>3, <2>5, <2>7, OnceConcat DEF EnteredOnce
  <2>9. LineInOrder'
    BY <1>t, <2>1, <2>3, OrderAppend
  <2> QED
    BY <1>t, <2>1, <2>3, <2>5, <2>6, <2>8, <2>9 DEF EnteredOnce
<1> QED
  BY <1>1, <1>2

(* Concatenation by a name of its own: what follows needs only that it is  *)
(* associative.                                                            *)
Joined(p, q) == p \o q

LEMMA JoinedFact ==
  ASSUME NEW a \in Seq(Signal), NEW b \in Seq(Signal), NEW c \in Seq(Signal)
  PROVE  Joined(a, b) \in Seq(Signal) /\ Joined(Joined(a, b), c) = Joined(a, Joined(b, c))
BY Regroup, ConcatProperties DEF Joined

LEMMA RegroupEnd ==
  ASSUME NEW f \in Seq(Signal), NEW b \in Seq(Signal), NEW c \in Seq(Signal),
         NEW p \in Seq(Signal), NEW d \in Seq(Signal), Joined(b, c) = Joined(p, d)
  PROVE  Joined(Joined(f, b), c) = Joined(Joined(f, p), d)
BY JoinedFact

LEMMA RegroupFront ==
  ASSUME NEW f \in Seq(Signal), NEW p \in Seq(Signal), NEW b \in Seq(Signal), NEW c \in Seq(Signal)
  PROVE  Joined(Joined(Joined(f, p), b), c) = Joined(f, Joined(Joined(p, b), c))
BY JoinedFact

LEMMA AppendRegroup ==
  ASSUME NEW b \in Seq(Signal), NEW s \in Signal, NEW c \in Seq(Signal)
  PROVE  Append(b, s) \in Seq(Signal) /\ Append(b, s) \o c = b \o (<<s>> \o c)
<1>1. Append(b, s) = b \o <<s>> /\ <<s>> \in Seq(Signal)
  BY AppendIsConcat
<1>2. b \o <<s>> \o c = b \o (<<s>> \o c)
  BY <1>1, Regroup
<1> QED
  BY <1>1, <1>2, AppendProperties

LEMMA LoopStepInOrder ==
  ASSUME ClientTyped, LoopOwns, LineInOrder, LoopStep
  PROVE  LineInOrder'
<1>t. /\ chan \in Seq(Signal) /\ pending \in Seq(Signal) /\ batch \in Seq(Signal)
      /\ inflight \in Seq(Signal) /\ acks \in Seq(Nat) /\ entered \in Seq(Signal)
      /\ Line \in Seq(Signal)
  BY TypedLine DEF ClientTyped
<1>u. ASSUME Line' = Line, UNCHANGED entered PROVE LineInOrder'
  BY <1>u DEF LineInOrder
<1>d. ASSUME NEW had, NEW p \in Seq(Signal), NEW b \in Seq(Signal), NEW f \in Seq(Signal),
             Disconnected(had, p, b, f), chan' \in Seq(Signal), UNCHANGED entered,
             f \o p \o b \o chan' = Line
      PROVE  LineInOrder'
  <2>1. InOrderOf(pending', f \o p \o b)
    BY <1>d, RequeuedInOrder
  <2>2. pending' \in Seq(Signal) /\ batch' = << >> /\ inflight' = << >>
    BY <1>d, DisconnectedFact
  <2>3. InOrderOf(chan', chan') /\ f \o p \o b \in Seq(Signal)
    BY <1>d, OrderReflexive, Regroup
  <2>4. InOrderOf(pending' \o chan', f \o p \o b \o chan')
    BY <1>d, <2>1, <2>2, <2>3, OrderConcat
  <2>5. << >> \o pending' = pending' /\ pending' \o << >> = pending'
    BY <2>2, ConcatEmptySeq
  <2>6. Line' = pending' \o chan'
    BY <2>2, <2>5 DEF Line
  <2>7. pending' \o chan' \in Seq(Signal)
    BY <1>d, <2>2, ConcatProperties
  <2>8. InOrderOf(pending' \o chan', entered)
    BY <1>d, <1>t, <2>4, <2>7, OrderTransitive DEF LineInOrder
  <2> QED
    BY <1>d, <2>6, <2>8 DEF LineInOrder
<1>e. ASSUME NEW a \in Seq(Signal), NEW b \in Seq(Signal)
      PROVE  a \o << >> = a /\ << >> \o a = a /\ a \o b \in Seq(Signal)
  BY ConcatEmptySeq, ConcatProperties
<1>1. CASE LoopHead \/ WaitEnds \/ AuthFailed \/ Shutdown
  <2>1. UNCHANGED <<chan, inflight, pending, batch, entered>>
    BY <1>1 DEF LoopHead, WaitEnds, AuthFailed, Shutdown, queues, buffers
  <2> QED
    BY <2>1 DEF LineInOrder, Line
<1>2. CASE ConnectFails
  <2>1. /\ Disconnected(FALSE, pending, << >>, inflight) /\ batch = << >>
        /\ UNCHANGED <<chan, entered>>
    BY <1>2 DEF ConnectFails, LoopOwns, queues
  <2>2. inflight \o pending \o << >> \o chan' = Line
    BY <2>1 DEF Line
  <2> QED
    BY <1>t, <1>d, <2>1, <2>2, EmptyFact
<1>3. CASE AuthSuccess
  <2>1. batch = << >> /\ UNCHANGED <<chan, entered>>
    BY <1>3 DEF AuthSuccess, LoopOwns, queues
  <2>2. inflight \o pending \in Seq(Signal) /\ inflight \o pending \o << >> = inflight \o pending
    BY <1>t, <1>e
  <2>3. CASE Sends(pending) /\ pending' = << >> /\ UNCHANGED batch
    <3>1. inflight' = inflight \o pending
      BY <2>3 DEF Sends
    <3>2. Line' = Line
      BY <2>1, <2>2, <2>3, <3>1 DEF Line
    <3> QED
      BY <1>u, <2>1, <3>2
  <2>4. CASE Disconnected(TRUE, << >>, << >>, inflight \o pending)
    <3>1. inflight \o pending \o << >> \o << >> \o chan' = Line
      BY <2>1, <2>2 DEF Line
    <3> QED
      BY <1>t, <1>d, <2>1, <2>2, <2>4, <3>1, EmptyFact
  <2> QED
    BY <1>3, <2>3, <2>4 DEF AuthSuccess
<1>4. CASE SocketClosed
  <2>1. Disconnected(TRUE, pending, batch, inflight) /\ UNCHANGED <<chan, entered>>
    BY <1>4 DEF SocketClosed, queues
  <2>2. inflight \o pending \o batch \o chan' = Line
    BY <2>1 DEF Line
  <2> QED
    BY <1>t, <1>d, <2>1, <2>2
<1>5. ASSUME NEW b \in Seq(Signal), loop = "connected", chan' \in Seq(Signal), UNCHANGED entered,
             b \o chan' = batch \o chan,
             \/ Sends(b) /\ batch' = << >> /\ UNCHANGED pending
             \/ SendFails(b)
      PROVE  LineInOrder'
  <2>1. pending = << >> /\ inflight \o pending = inflight
    BY <1>5, <1>t, <1>e DEF LoopOwns
  <2>3. inflight \o b \o chan' = inflight \o batch \o chan
    <3>1. Joined(b, chan') = Joined(batch, chan)
      BY <1>5 DEF Joined
    <3>2. Joined(Joined(inflight, b), chan') = Joined(Joined(inflight, batch), chan)
      BY <1>5, <1>t, <3>1, RegroupEnd
    <3> QED
      BY <3>2 DEF Joined
  <2>4. inflight \o b \o chan' = Line
    BY <2>1, <2>3 DEF Line
  <2>5. /\ inflight \o b \in Seq(Signal)
        /\ inflight \o b \o << >> = inflight \o b
    BY <1>5, <1>t, <1>e
  <2>6. CASE Sends(b) /\ batch' = << >> /\ UNCHANGED pending
    <3>1. inflight' = inflight \o b
      BY <2>6 DEF Sends
    <3>2. Line' = inflight \o b \o chan'
      BY <2>1, <2>5, <2>6, <3>1 DEF Line
    <3> QED
      BY <1>5, <1>u, <2>4, <3>2
  <2>7. CASE SendFails(b)
    <3>1. Disconnected(TRUE, pending, << >>, inflight \o b)
      BY <2>7 DEF SendFails
    <3>2. (inflight \o b) \o pending \o << >> \o chan' = Line
      BY <2>1, <2>4, <2>5
    <3> QED
      BY <1>5, <1>d, <1>t, <2>5, <3>1, <3>2, EmptyFact
  <2> QED
    BY <1>5, <2>6, <2>7
<1>6. CASE BatchTimer
  <2>1. /\ loop = "connected" /\ UNCHANGED <<chan, entered>>
        /\ \/ Sends(batch) /\ batch' = << >> /\ UNCHANGED pending
           \/ SendFails(batch)
    BY <1>6 DEF BatchTimer, queues
  <2> QED
    BY <1>5, <1>t, <2>1
<1>7. CASE Recv
  <2> DEFINE full == Append(batch, Head(chan))
  <2>1. /\ loop = "connected" /\ chan # << >> /\ chan' = Tail(chan) /\ UNCHANGED entered
        /\ \/ batch' = full /\ UNCHANGED <<pending, inflight>>
           \/ Sends(full) /\ batch' = << >> /\ UNCHANGED pending
           \/ SendFails(full)
    BY <1>7 DEF Recv
  <2>2. Head(chan) \in Signal /\ chan' \in Seq(Signal)
    BY <1>t, <2>1, HeadFact
  <2>3. full \in Seq(Signal) /\ full \o chan' = batch \o (<<Head(chan)>> \o chan')
    BY <1>t, <2>2, AppendRegroup
  <2>4. <<Head(chan)>> \o Tail(chan) = chan
    <3> DEFINE h == Head(chan)
               r == Tail(chan)
               w == <<h>> \o r
    <3>1. /\ Len(chan) \in Nat \ {0} /\ Len(r) = Len(chan) - 1 /\ h = chan[1] /\ r \in Seq(Signal)
          /\ \A i \in 1..(Len(chan) - 1) : r[i] = chan[i + 1]
      BY <1>t, <2>1, HeadFact
    <3>2. <<h>> \in Seq(Signal) /\ Len(<<h>>) = 1 /\ <<h>>[1] = h
      BY <2>2
    <3> HIDE DEF h, r
    <3>3. /\ w \in Seq(Signal) /\ Len(w) = 1 + (Len(chan) - 1)
          /\ \A i \in 1..(1 + (Len(chan) - 1)) : w[i] = IF i <= 1 THEN <<h>>[i] ELSE r[i - 1]
      BY <3>1, <3>2, ConcatProperties
    <3> HIDE DEF w
    <3>4. Len(w) = Len(chan)
      BY <3>1, <3>3
    <3>5. ASSUME NEW i \in 1..Len(w) PROVE w[i] = chan[i]
      <4>1. CASE i = 1
        BY <3>1, <3>2, <3>3, <4>1
      <4>2. CASE i # 1
        <5>1. i - 1 \in 1..(Len(chan) - 1) /\ (i - 1) + 1 = i /\ ~(i <= 1)
              /\ i \in 1..(1 + (Len(chan) - 1))
          BY <3>1, <3>4, <4>2
        <5>2. w[i] = r[i - 1]
          BY <3>3, <5>1
        <5> QED
          BY <3>1, <5>1, <5>2
      <4> QED
        BY <4>1, <4>2
    <3>6. w = chan
      BY <1>t, <3>3, <3>4, <3>5, SeqEqual
    <3> QED
      BY <3>6 DEF w, h, r
  <2>5. full \o chan' = batch \o chan
    BY <2>1, <2>3, <2>4
  <2> HIDE DEF full
  <2>6. CASE batch' = full /\ UNCHANGED <<pending, inflight>>
    <3>1. inflight \o pending \in Seq(Signal)
      BY <1>t, <1>e
    <3>2. inflight \o pending \o full \o chan' = inflight \o pending \o batch \o chan
      <4> DEFINE f == inflight \o pending
      <4>1. Joined(full, chan') = Joined(batch, chan)
        BY <2>5 DEF Joined
      <4> HIDE DEF f
      <4>2. f \in Seq(Signal)
        BY <3>1 DEF f
      <4>3. Joined(Joined(f, full), chan') = Joined(Joined(f, batch), chan)
        BY <1>t, <2>2, <2>3, <4>1, <4>2, RegroupEnd
      <4> QED
        BY <4>3 DEF Joined, f
    <3>3. Line' = Line
      BY <2>6, <3>2 DEF Line
    <3> QED
      BY <1>u, <2>1, <3>3
  <2>7. CASE \/ Sends(full) /\ batch' = << >> /\ UNCHANGED pending
             \/ SendFails(full)
    BY <1>5, <2>1, <2>2, <2>3, <2>5, <2>7
  <2> QED
    BY <2>1, <2>6, <2>7
<1>8. ASSUME NEW i \in DOMAIN acks, Ack(i) PROVE LineInOrder'
  <2> DEFINE n == Popped(acks[i])
             r == pending \o batch \o chan
             g == From(inflight, n)
  <2>1. inflight' = g /\ UNCHANGED <<chan, pending, batch, entered>>
    BY <1>8 DEF Ack, queues
  <2>2. n \in 0..Len(inflight)
    <3>1. Len(inflight) \in Nat /\ acks[i] \in Nat
      BY <1>t, LenProperties, ElementOfSeq
    <3> QED
      BY <3>1 DEF Popped, AtMost
  <2> HIDE DEF n
  <2>3. g \in Seq(Signal) /\ InOrderOf(g, inflight)
    BY <1>t, <2>2, CutFact, OrderFrom
  <2>4. r \in Seq(Signal) /\ InOrderOf(r, r)
    BY <1>t, Regroup, OrderReflexive
  <2> HIDE DEF g
  <2>5. ASSUME NEW f \in Seq(Signal) PROVE f \o pending \o batch \o chan = f \o r
    <3>1. Joined(Joined(Joined(f, pending), batch), chan) = Joined(f, Joined(Joined(pending, batch), chan))
      BY <1>t, RegroupFront
    <3> QED
      BY <3>1 DEF Joined, r
  <2> HIDE DEF r
  <2>6. InOrderOf(g \o r, inflight \o r)
    BY <1>t, <2>3, <2>4, OrderConcat
  <2>7. Line = inflight \o r
    BY <1>t, <2>5 DEF Line
  <2>8. Line' = g \o r
    BY <2>1, <2>3, <2>5 DEF Line
  <2>9. g \o r \in Seq(Signal)
    BY <2>3, <2>4, <1>e
  <2>10. InOrderOf(g \o r, entered)
    BY <1>t, <2>6, <2>7, <2>9, OrderTransitive DEF LineInOrder
  <2> QED
    BY <2>1, <2>8, <2>10 DEF LineInOrder
<1> QED
  BY <1>1, <1>2, <1>3, <1>4, <1>6, <1>7, <1>8 DEF LoopStep

LEMMA LoopStepEntersNothing ==
  ASSUME LoopStep
  PROVE  UNCHANGED <<reported, retryQueue, entered>>
BY DEF LoopStep, LoopHead, WaitEnds, ConnectFails, AuthFailed, AuthSuccess, Recv, BatchTimer,
       SocketClosed, Shutdown, Ack, queues

LEMMA NextInOrder ==
  ASSUME ClientTyped, LoopOwns, LineInOrder, EnteredOnce, [Next]_vars
  PROVE  LineInOrder' /\ EnteredOnce'
<1>1. CASE stop \/ ResetTimeout \/ HubReceives \/ HubDiscards \/ UNCHANGED vars
  <2>1. UNCHANGED <<reported, chan, retryQueue, inflight, pending, batch, entered>>
    BY <1>1 DEF stop, ResetTimeout, HubReceives, HubDiscards, vars, queues, buffers
  <2> QED
    BY <2>1 DEF LineInOrder, Line, EnteredOnce
<1>2. CASE LoopStep
  BY <1>2, LoopStepInOrder, LoopStepEntersNothing DEF EnteredOnce
<1> QED
  BY <1>1, <1>2, ReportInOrder, RetryTickInOrder DEF Next

(* In a channel that carried each signal once, a signal has one position,  *)
(* and the positions along the line go up.                                 *)
LEMMA OrderedPositions ==
  ASSUME ClientTyped, LineInOrder, EnteredOnce
  PROVE  BuffersInOrder
<1>1. PICK place \in [1..Len(Line) -> 1..Len(entered)] :
        /\ \A i \in 1..Len(Line) : Line[i] = entered[place[i]]
        /\ \A i, j \in 1..Len(Line) : i < j => place[i] < place[j]
  BY DEF LineInOrder, InOrderOf
<1>2. ASSUME NEW i \in 1..Len(Line) PROVE Position(Line[i]) = place[i]
  <2>1. place[i] \in 1..Len(entered) /\ entered[place[i]] = Line[i]
    BY <1>1
  <2>2. Position(Line[i]) \in 1..Len(entered) /\ entered[Position(Line[i])] = Line[i]
    BY <2>1 DEF Position
  <2> QED
    BY <2>1, <2>2 DEF EnteredOnce, Once
<1>3. \A i, j \in 1..Len(Line) : i < j => Position(Line[i]) < Position(Line[j])
  BY <1>1, <1>2
<1> QED
  BY <1>3 DEF BuffersInOrder, Line

(* What is unacknowledged, pending, batched and in the channel stays in the*)
(* order in which the channel took it, through every failed send and every *)
(* requeueing; report_signal's retry queue is before the channel and may   *)
(* let later signals pass.                                                 *)
THEOREM BuffersStayInOrder == Spec => []BuffersInOrder
<1> DEFINE Inv == ClientTyped /\ LoopOwns /\ LineInOrder /\ EnteredOnce
<1>1. Init => Inv
  <2> SUFFICES ASSUME Init PROVE Inv
    OBVIOUS
  <2>1. ClientTyped /\ LoopOwns
    BY EmptyFact DEF Init, ClientTyped, LoopOwns
  <2>2. Line = << >> /\ entered = << >> /\ retryQueue = << >>
    BY EmptyFact, ConcatEmptySeq DEF Init, Line
  <2>3. LineInOrder
    BY <2>2, EmptyFact, OrderReflexive DEF LineInOrder
  <2>4. EnteredOnce
    BY <2>2 DEF EnteredOnce, Once, ToSet
  <2> QED
    BY <2>1, <2>3, <2>4
<1>2. Inv /\ [Next]_vars => Inv'
  BY NextKeeps, NextInOrder DEF KeepsAll
<1>3. Inv => BuffersInOrder
  BY OrderedPositions
<1> QED
  BY <1>1, <1>2, <1>3, PTL DEF Spec
=============================================================================
