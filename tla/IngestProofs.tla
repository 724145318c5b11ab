---------------------------- MODULE IngestProofs ----------------------------
(***************************************************************************)
(* Proofs about the two places where a signal waits for a database: the    *)
(* aggregator, which stores it in PostgreSQL (Aggregator), and the         *)
(* retry buffer of the ClickHouse writes (RetryBuffer).  Both are queues   *)
(* that a background drain empties item by item while everything else goes *)
(* on, and both are asked the same question: is every item accounted for,  *)
(* once, in every state?  The facts about sequences that the two arguments *)
(* share come first.                                                       *)
(***************************************************************************)
EXTENDS RetryBuffer, Aggregator, FiniteSetTheorems, SequenceTheorems, TLAPS

First(q, n) == SubSeq(q, 1, n)
From(q, n) == SubSeq(q, n + 1, Len(q))

(* The two parts of a queue cut after its n-th element.                    *)
LEMMA CutFact ==
  ASSUME NEW S, NEW q \in Seq(S), NEW n \in 0..Len(q)
  PROVE  /\ First(q, n) \in Seq(S) /\ Len(First(q, n)) = n
         /\ \A i \in 1..n : First(q, n)[i] = q[i]
         /\ From(q, n) \in Seq(S) /\ Len(From(q, n)) = Len(q) - n
         /\ \A i \in 1..(Len(q) - n) : From(q, n)[i] = q[n + i]
<1>1. Len(q) \in Nat /\ \A i \in 1..Len(q) : q[i] \in S
  BY LenProperties, ElementOfSeq
<1>2. /\ First(q, n) \in Seq(S) /\ Len(First(q, n)) = n
      /\ \A i \in 1..n : First(q, n)[i] = q[i]
  <2>1. 1 \in Int /\ n \in Int /\ \A i \in 1..n : q[i] \in S
    BY <1>1
  <2>2. /\ SubSeq(q, 1, n) \in Seq(S)
        /\ Len(SubSeq(q, 1, n)) = IF 1 <= n THEN n - 1 + 1 ELSE 0
        /\ \A i \in 1..(n - 1 + 1) : SubSeq(q, 1, n)[i] = q[1 + i - 1]
    BY <2>1, SubSeqProperties
  <2>3. (IF 1 <= n THEN n - 1 + 1 ELSE 0) = n /\ n - 1 + 1 = n /\ \A i \in 1..n : 1 + i - 1 = i
    BY <1>1
  <2> QED
    BY <2>2, <2>3 DEF First
<1>3. /\ From(q, n) \in Seq(S) /\ Len(From(q, n)) = Len(q) - n
      /\ \A i \in 1..(Len(q) - n) : From(q, n)[i] = q[n + i]
  <2> DEFINE m == n + 1
             l == Len(q)
  <2>1. m \in Int /\ l \in Int /\ \A i \in m..l : q[i] \in S
    BY <1>1
  <2>2. /\ SubSeq(q, m, l) \in Seq(S)
        /\ Len(SubSeq(q, m, l)) = IF m <= l THEN l - m + 1 ELSE 0
        /\ \A i \in 1..(l - m + 1) : SubSeq(q, m, l)[i] = q[m + i - 1]
    <3> HIDE DEF m, l
    <3> QED
      BY <2>1, SubSeqProperties
  <2>3. (IF m <= l THEN l - m + 1 ELSE 0) = l - n /\ l - m + 1 = l - n
        /\ \A i \in 1..(l - n) : m + i - 1 = n + i
    BY <1>1
  <2> QED
    BY <2>2, <2>3 DEF From
<1> QED
  BY <1>2, <1>3

(* The elements of a queue, by their places.                               *)
LEMMA SetOf ==
  ASSUME NEW S, NEW q \in Seq(S)
  PROVE  ToSet(q) = {q[i] : i \in 1..Len(q)} /\ ToSet(q) \subseteq S
BY LenProperties, ElementOfSeq DEF ToSet

(* Joining two queues adds no element and loses none.                      *)
LEMMA SetOfConcat ==
  ASSUME NEW S, NEW p \in Seq(S), NEW q \in Seq(S)
  PROVE  ToSet(p \o q) = ToSet(p) \union ToSet(q)
<1> DEFINE r == p \o q
<1>1. /\ r \in Seq(S) /\ Len(r) = Len(p) + Len(q)
      /\ \A i \in 1..(Len(p) + Len(q)) : r[i] = IF i <= Len(p) THEN p[i] ELSE q[i - Len(p)]
      /\ Len(p) \in Nat /\ Len(q) \in Nat
  BY ConcatProperties, LenProperties
<1>s. /\ ToSet(r) = {r[i] : i \in 1..Len(r)} /\ ToSet(p) = {p[i] : i \in 1..Len(p)}
      /\ ToSet(q) = {q[i] : i \in 1..Len(q)}
  BY <1>1, SetOf
<1> HIDE DEF r
<1>2. ASSUME NEW x \in ToSet(r) PROVE x \in ToSet(p) \union ToSet(q)
  <2>1. PICK i \in 1..Len(r) : r[i] = x
    BY <1>s
  <2>2. CASE i <= Len(p)
    <3>1. i \in 1..Len(p) /\ p[i] = x
      BY <1>1, <2>1, <2>2
    <3> QED
      BY <1>s, <3>1
  <2>3. CASE ~(i <= Len(p))
    <3>1. i - Len(p) \in 1..Len(q) /\ q[i - Len(p)] = x
      BY <1>1, <2>1, <2>3
    <3> QED
      BY <1>s, <3>1
  <2> QED
    BY <2>2, <2>3
<1>3. ASSUME NEW i \in 1..Len(p) PROVE p[i] \in ToSet(r)
  <2>1. i \in 1..Len(r) /\ r[i] = p[i]
    BY <1>1
  <2> QED
    BY <1>s, <2>1
<1>4. ASSUME NEW i \in 1..Len(q) PROVE q[i] \in ToSet(r)
  <2> DEFINE k == i + Len(p)
  <2>1. k \in 1..Len(r) /\ ~(k <= Len(p)) /\ k - Len(p) = i
    BY <1>1
  <2> HIDE DEF k
  <2>2. r[k] = q[i]
    BY <1>1, <2>1
  <2> QED
    BY <1>s, <2>1, <2>2
<1> QED
  BY <1>2, <1>3, <1>4, <1>s DEF r

(* The head of a nonempty queue, and what is left without it.              *)
LEMMA HeadFact ==
  ASSUME NEW S, NEW q \in Seq(S), q # << >>
  PROVE  /\ Head(q) \in S /\ Tail(q) \in Seq(S)
         /\ Len(Tail(q)) = Len(q) - 1 /\ Len(q) \in Nat \ {0} /\ Head(q) = q[1]
         /\ \A i \in 1..(Len(q) - 1) : Tail(q)[i] = q[i + 1]
         /\ ToSet(q) = {Head(q)} \union ToSet(Tail(q))
<1>1. /\ Head(q) \in S /\ Tail(q) \in Seq(S)
      /\ Len(Tail(q)) = Len(q) - 1 /\ Len(q) \in Nat \ {0} /\ Head(q) = q[1]
      /\ \A i \in 1..(Len(q) - 1) : Tail(q)[i] = q[i + 1]
  BY HeadTailProperties, EmptySeq
<1>s. /\ ToSet(q) = {q[i] : i \in 1..Len(q)}
      /\ ToSet(Tail(q)) = {Tail(q)[i] : i \in 1..(Len(q) - 1)}
  BY <1>1, SetOf
<1>2. \A i \in 1..Len(q) : i = 1 \/ (i - 1 \in 1..(Len(q) - 1) /\ (i - 1) + 1 = i)
  BY <1>1
<1>3. 1 \in 1..Len(q) /\ \A i \in 1..(Len(q) - 1) : i + 1 \in 1..Len(q)
  BY <1>1
<1>4. ASSUME NEW i \in 1..Len(q) PROVE q[i] \in {Head(q)} \union ToSet(Tail(q))
  <2>1. CASE i = 1
    BY <1>1, <2>1
  <2>2. CASE i - 1 \in 1..(Len(q) - 1) /\ (i - 1) + 1 = i
    <3>1. Tail(q)[i - 1] = q[i]
      BY <1>1, <2>2
    <3> QED
      BY <1>s, <2>2, <3>1
  <2> QED
    BY <1>2, <2>1, <2>2
<1> QED
  BY <1>1, <1>3, <1>4, <1>s

(* A queue with one more element at its end.                               *)
LEMMA AppendFact ==
  ASSUME NEW S, NEW q \in Seq(S), NEW x \in S
  PROVE  /\ Append(q, x) \in Seq(S) /\ Len(Append(q, x)) = Len(q) + 1
         /\ \A i \in 1..Len(q) : Append(q, x)[i] = q[i]
         /\ Append(q, x)[Len(q) + 1] = x
BY LenProperties

(* What it then holds.                                                     *)
LEMMA SetOfAppend ==
  ASSUME NEW S, NEW q \in Seq(S), NEW x \in S
  PROVE  ToSet(Append(q, x)) = ToSet(q) \union {x}
<1>1. Append(q, x) = q \o <<x>>
  BY AppendIsConcat
<1>2. <<x>> \in Seq(S) /\ ToSet(<<x>>) = {x}
  BY DEF ToSet
<1>3. ToSet(q \o <<x>>) = ToSet(q) \union ToSet(<<x>>)
  BY <1>2, SetOfConcat
<1> QED
  BY <1>1, <1>2, <1>3

(* A queue without its k-th element: the later ones move up.               *)
LEMMA RemoveAtFact ==
  ASSUME NEW S, NEW q \in Seq(S), NEW k \in 1..Len(q)
  PROVE  /\ RemoveAt(q, k) \in Seq(S) /\ Len(RemoveAt(q, k)) = Len(q) - 1
         /\ \A i \in 1..(Len(q) - 1) :
              RemoveAt(q, k)[i] = IF i < k THEN q[i] ELSE q[i + 1]
<1> DEFINE a == First(q, k - 1)
           b == From(q, k)
<1>1. Len(q) \in Nat /\ k - 1 \in 0..Len(q) /\ k \in 0..Len(q)
  BY LenProperties
<1>2. RemoveAt(q, k) = a \o b
  BY DEF RemoveAt, First, From
<1>3. /\ a \in Seq(S) /\ Len(a) = k - 1 /\ \A i \in 1..(k - 1) : a[i] = q[i]
      /\ b \in Seq(S) /\ Len(b) = Len(q) - k /\ \A i \in 1..(Len(q) - k) : b[i] = q[k + i]
  BY <1>1, CutFact
<1> HIDE DEF a, b
<1>4. /\ a \o b \in Seq(S) /\ Len(a \o b) = Len(a) + Len(b)
      /\ \A i \in 1..(Len(a) + Len(b)) :
           (a \o b)[i] = IF i <= Len(a) THEN a[i] ELSE b[i - Len(a)]
  BY <1>3, ConcatProperties
<1>5. Len(a) + Len(b) = Len(q) - 1
  BY <1>1, <1>3
<1>6. ASSUME NEW i \in 1..(Len(q) - 1)
      PROVE  (a \o b)[i] = IF i < k THEN q[i] ELSE q[i + 1]
  <2>1. CASE i < k
    BY <1>1, <1>3, <1>4, <1>5, <2>1
  <2>2. CASE ~(i < k)
    <3>1. /\ i - Len(a) \in 1..(Len(q) - k) /\ k + (i - Len(a)) = i + 1
          /\ ~(i <= Len(a))
      BY <1>1, <1>3, <2>2
    <3> QED
      BY <1>3, <1>4, <1>5, <2>2, <3>1
  <2> QED
    BY <2>1, <2>2
<1> QED
  BY <1>2, <1>4, <1>5, <1>6

(* A queue holds an element at one place at most.                          *)
Single(q) == \A i, j \in 1..Len(q) : q[i] = q[j] => i = j

(* The library says the same of a function.                                *)
LEMMA SingleFact ==
  ASSUME NEW S, NEW q \in Seq(S)
  PROVE  IsInjective(q) <=> Single(q)
<1>1. DOMAIN q = 1..Len(q)
  BY LenProperties
<1> QED
  BY <1>1 DEF IsInjective, Single

(* Taking the head of such a queue takes all there is of it.               *)
LEMMA SingleTail ==
  ASSUME NEW S, NEW q \in Seq(S), q # << >>, Single(q)
  PROVE  Single(Tail(q)) /\ Head(q) \notin ToSet(Tail(q))
<1>1. /\ Tail(q) \in Seq(S)
      /\ Len(Tail(q)) = Len(q) - 1 /\ Len(q) \in Nat \ {0} /\ Head(q) = q[1]
      /\ \A i \in 1..(Len(q) - 1) : Tail(q)[i] = q[i + 1]
  BY HeadFact
<1>2. \A i, j \in 1..(Len(q) - 1) : Tail(q)[i] = Tail(q)[j] => i = j
  <2> SUFFICES ASSUME NEW i \in 1..(Len(q) - 1), NEW j \in 1..(Len(q) - 1),
                      Tail(q)[i] = Tail(q)[j]
               PROVE  i = j
    OBVIOUS
  <2>1. q[i + 1] = q[j + 1] /\ i + 1 \in 1..Len(q) /\ j + 1 \in 1..Len(q)
    BY <1>1
  <2>2. i + 1 = j + 1
    BY <2>1 DEF Single
  <2> QED
    BY <2>2
<1>3. ASSUME Head(q) \in ToSet(Tail(q)) PROVE FALSE
  <2>1. ToSet(Tail(q)) = {Tail(q)[i] : i \in 1..Len(Tail(q))}
    BY <1>1, SetOf
  <2>2. PICK i \in 1..(Len(q) - 1) : Tail(q)[i] = Head(q)
    BY <1>1, <1>3, <2>1
  <2>3. q[i + 1] = q[1] /\ i + 1 \in 1..Len(q) /\ 1 \in 1..Len(q)
    BY <1>1, <2>2
  <2>4. i + 1 = 1
    BY <2>3 DEF Single
  <2> QED
    BY <2>4
<1> QED
  BY <1>1, <1>2, <1>3 DEF Single

(* Appending what is not yet there.                                        *)
LEMMA SingleAppend ==
  ASSUME NEW S, NEW q \in Seq(S), NEW x \in S, Single(q), x \notin ToSet(q)
  PROVE  Single(Append(q, x))
<1>1. /\ Append(q, x) \in Seq(S) /\ Len(Append(q, x)) = Len(q) + 1
      /\ \A i \in 1..Len(q) : Append(q, x)[i] = q[i]
      /\ Append(q, x)[Len(q) + 1] = x
  BY AppendFact
<1>2. Len(q) \in Nat /\ \A i \in 1..Len(q) : q[i] # x
  BY LenProperties, SetOf
<1>3. \A i \in 1..(Len(q) + 1) : i \in 1..Len(q) \/ i = Len(q) + 1
  BY <1>2
<1> QED
  BY <1>1, <1>2, <1>3 DEF Single

(* Removing the one place of an element.                                   *)
LEMMA RemoveSingle ==
  ASSUME NEW S, NEW q \in Seq(S), NEW k \in 1..Len(q), Single(q)
  PROVE  /\ RemoveAt(q, k) \in Seq(S) /\ Len(RemoveAt(q, k)) <= Len(q)
         /\ Single(RemoveAt(q, k))
         /\ ToSet(RemoveAt(q, k)) = ToSet(q) \ {q[k]}
<1> DEFINE r == RemoveAt(q, k)
<1>1. /\ r \in Seq(S) /\ Len(r) = Len(q) - 1
      /\ \A i \in 1..(Len(q) - 1) : r[i] = IF i < k THEN q[i] ELSE q[i + 1]
  BY RemoveAtFact
<1>2. Len(q) \in Nat \ {0}
  BY LenProperties
<1>s. ToSet(q) = {q[i] : i \in 1..Len(q)} /\ ToSet(r) = {r[i] : i \in 1..(Len(q) - 1)}
  BY <1>1, SetOf
<1> HIDE DEF r
<1> DEFINE at(i) == IF i < k THEN i ELSE i + 1
<1>3. \A i \in 1..(Len(q) - 1) : at(i) \in 1..Len(q) /\ at(i) # k /\ r[i] = q[at(i)]
  BY <1>1, <1>2
<1>4. \A i, j \in 1..(Len(q) - 1) : at(i) = at(j) => i = j
  BY <1>2
<1>5. \A j \in 1..Len(q) : j # k => \E i \in 1..(Len(q) - 1) : at(i) = j
  <2> SUFFICES ASSUME NEW j \in 1..Len(q), j # k
               PROVE  \E i \in 1..(Len(q) - 1) : at(i) = j
    OBVIOUS
  <2>1. CASE j < k
    <3>1. j \in 1..(Len(q) - 1) /\ at(j) = j
      BY <1>2, <2>1
    <3> QED
      BY <3>1
  <2>2. CASE ~(j < k)
    <3>1. j - 1 \in 1..(Len(q) - 1) /\ at(j - 1) = j
      BY <1>2, <2>2
    <3> QED
      BY <3>1
  <2> QED
    BY <2>1, <2>2
<1> HIDE DEF at
<1>6. Single(r)
  BY <1>1, <1>3, <1>4 DEF Single
<1>7. ToSet(r) = ToSet(q) \ {q[k]}
  <2>1. ASSUME NEW i \in 1..(Len(q) - 1) PROVE r[i] \in ToSet(q) \ {q[k]}
    BY <1>3, <1>s DEF Single
  <2>2. ASSUME NEW j \in 1..Len(q), q[j] # q[k] PROVE q[j] \in ToSet(r)
    BY <2>2, <1>3, <1>5, <1>s
  <2> QED
    BY <2>1, <2>2, <1>s
<1>8. Len(r) <= Len(q)
  BY <1>1, <1>2
<1> QED
  BY <1>1, <1>6, <1>7, <1>8 DEF r

(* A function on 1..n is a sequence.                                       *)
LEMMA FunctionIsSeq ==
  ASSUME NEW S, NEW n \in Nat, NEW f \in [1..n -> S]
  PROVE  f \in Seq(S) /\ Len(f) = n
<1>1. f \in Seq(S)
  BY SeqDef
<1>2. DOMAIN f = 1..n
  OBVIOUS
<1>3. Len(f) \in Nat /\ DOMAIN f = 1..Len(f)
  BY <1>1, LenProperties
<1>4. 1..n = 1..Len(f)
  BY <1>2, <1>3
<1>5. Len(f) = n
  <2>1. n \in 1..n \/ n = 0
    OBVIOUS
  <2>2. Len(f) \in 1..Len(f) \/ Len(f) = 0
    BY <1>3
  <2>3. n <= Len(f)
    BY <1>3, <1>4, <2>1
  <2>4. Len(f) <= n
    BY <1>3, <1>4, <2>2
  <2> QED
    BY <1>3, <2>3, <2>4
<1> QED
  BY <1>1, <1>5

-----------------------------------------------------------------------------
(* The retry buffer: for any number of insert calls and any configuration. *)
(* The types of everything but the queues.                                 *)
Basics ==
  /\ calls \in 0..NumItems
  /\ attempts \in [Item -> Nat]
  /\ due \subseteq Item
  /\ retryTimer \in BOOLEAN /\ isProcessing \in BOOLEAN
  /\ flush \in {"no", "working", "done"}
  /\ stored \in [Item -> 0..2]
  /\ late \subseteq Item /\ dlq \subseteq Item /\ flushFailed \subseteq Item
  /\ abandoned \subseteq Item /\ restored \subseteq Item /\ gone \subseteq Item
  /\ shutdowns \in 0..MaxShutdowns

(* No queue holds an item twice, and during a flush there is nothing but   *)
(* what it has taken.                                                      *)
Queues ==
  /\ buffer \in Seq(Item) /\ Len(buffer) <= MaxBufferSize /\ Single(buffer)
  /\ readyItems \in Seq(Item) /\ Single(readyItems)
  /\ itemsToFlush \in Seq(Item) /\ Single(itemsToFlush)
  /\ isFlushing => buffer = << >> /\ readyItems = << >> /\ itemsToFlush # << >>
  /\ ~isFlushing => itemsToFlush = << >>

(* A batch is retried under the mutex, and one flush at most waits for it. *)
OneFlush(q) == \A j, k \in 1..Len(q) : q[j] = "flush" /\ q[k] = "flush" => j = k
NoFlush(q) == \A k \in 1..Len(q) : q[k] # "flush"

Locked ==
  /\ opTail \in Seq(Operation)
  /\ readyItems # << >> => Holds("retry")
  /\ OneFlush(opTail)
  /\ flush # "no" => NoFlush(opTail)

(* The file holds what fits into a buffer.                                 *)
OnFile ==
  /\ file \in Seq([item : Item, attempts : Nat]) /\ Len(file) <= MaxBufferSize
  /\ \A j, k \in 1..Len(file) : file[j].item = file[k].item => j = k

(* LossIsLogged without the file: what was saved is still in the buffer or *)
(* gone with the process.                                                  *)
Accounted ==
  \A i \in Item : Failed(i) =>
    i \in ToSet(buffer) \union ToSet(itemsToFlush) \union dlq \union flushFailed \union gone

Writable(i) == i \in ToSet(buffer) \union ToSet(readyItems) \union ToSet(itemsToFlush)

(* An item is nowhere before its call.                                     *)
Begun ==
  \A i \in Item : Writable(i) \/ i \in InFile \/ i \in late \/ stored[i] > 0 => i <= calls

(* An item written once, and neither given up on nor restored, is nowhere  *)
(* from where it could be written again.                                   *)
WrittenOnce ==
  \A i \in Item : i \notin abandoned \union restored =>
    /\ i \notin late
    /\ stored[i] < 2
    /\ stored[i] = 1 => ~Writable(i)

(* DuplicateHasCause speaks of the end of a story: WrittenOnce says where  *)
(* an item may be before that, Locked and Queues that no two operations    *)
(* have it in hand, Begun that a new call's item is nowhere yet.           *)
IInv == /\ Basics /\ Queues /\ Locked /\ OnFile
        /\ Accounted /\ Begun /\ WrittenOnce

-----------------------------------------------------------------------------
(* The empty queue holds nothing, and nothing twice.                       *)
LEMMA EmptyFact ==
  ASSUME NEW S
  PROVE  << >> \in Seq(S) /\ Len(<< >>) = 0 /\ Single(<< >>) /\ ToSet(<< >>) = {}
<1>1. << >> \in Seq(S) /\ Len(<< >>) = 0
  BY EmptySeq
<1>2. 1..0 = {}
  OBVIOUS
<1>3. Single(<< >>)
  BY <1>1, <1>2 DEF Single
<1>4. ToSet(<< >>) = {<< >>[i] : i \in 1..Len(<< >>)}
  BY <1>1, SetOf
<1>5. ToSet(<< >>) = {}
  BY <1>1, <1>2, <1>4
<1> QED
  BY <1>1, <1>3, <1>5

(* The process starts with nothing buffered, saved or written.             *)
LEMMA InitIInv == Init => IInv
<1> SUFFICES ASSUME Init PROVE IInv
  OBVIOUS
<1>1. /\ << >> \in Seq(Item) /\ Len(<< >>) = 0 /\ Single(<< >>) /\ ToSet(<< >>) = {}
      /\ << >> \in Seq(Operation) /\ << >> \in Seq([item : Item, attempts : Nat])
      /\ 1..0 = {} /\ DOMAIN << >> = {}
  <2>1. /\ << >> \in Seq(Item) /\ Len(<< >>) = 0 /\ Single(<< >>) /\ ToSet(<< >>) = {}
    BY EmptyFact
  <2>2. << >> \in Seq(Operation) /\ << >> \in Seq([item : Item, attempts : Nat])
    BY EmptySeq
  <2> QED
    BY <2>1, <2>2
<1>2. Basics
  <2>1. calls \in 0..NumItems /\ shutdowns \in 0..MaxShutdowns
    BY RetryBufferAssumption DEF Init
  <2>2. attempts \in [Item -> Nat] /\ stored \in [Item -> 0..2]
    BY DEF Init
  <2> QED
    BY <2>1, <2>2 DEF Init, Basics
<1>3. Queues
  BY <1>1, RetryBufferAssumption DEF Init, Queues, isFlushing
<1>4. Locked /\ OnFile
  BY <1>1, RetryBufferAssumption DEF Init, Locked, OnFile, OneFlush, NoFlush
<1>5. Accounted /\ Begun /\ WrittenOnce
  BY <1>1 DEF Init, Accounted, Failed, Begun, WrittenOnce, Writable, InFile, Item
<1> QED
  BY <1>2, <1>3, <1>4, <1>5 DEF IInv

(* indexOf and splice take out the one occurrence.                         *)
LEMMA WithoutFact ==
  ASSUME NEW S, NEW q \in Seq(S), Single(q), NEW x
  PROVE  /\ Without(q, x) \in Seq(S) /\ Len(Without(q, x)) <= Len(q)
         /\ Single(Without(q, x)) /\ ToSet(Without(q, x)) = ToSet(q) \ {x}
<1>1. CASE x \notin ToSet(q)
  <2>1. Without(q, x) = q /\ Len(q) \in Nat
    BY <1>1, LenProperties DEF Without
  <2> QED
    BY <1>1, <2>1
<1>2. CASE x \in ToSet(q)
  <2> DEFINE k == CHOOSE j \in DOMAIN q : q[j] = x
  <2>1. DOMAIN q = 1..Len(q) /\ ToSet(q) = {q[i] : i \in 1..Len(q)}
    BY LenProperties, SetOf
  <2>2. \E j \in DOMAIN q : q[j] = x
    BY <1>2, <2>1
  <2>3. k \in 1..Len(q) /\ q[k] = x
    BY <2>1, <2>2
  <2>4. Without(q, x) = RemoveAt(q, k)
    BY <1>2 DEF Without
  <2> HIDE DEF k
  <2> QED
    BY <2>3, <2>4, RemoveSingle
<1> QED
  BY <1>1, <1>2

(* The batch: distinct items of the buffer.                                *)
Picked(r, q, p) == r = [n \in DOMAIN p |-> q[p[n]]]

(* A batch picked from a buffer without repetitions has none either.       *)
LEMMA BatchFact ==
  ASSUME NEW q \in Seq(Item), Single(q), NEW P \in SUBSET (DOMAIN q),
         NEW p \in SetToSeqs(P), NEW r, Picked(r, q, p)
  PROVE  r \in Seq(Item) /\ Single(r) /\ ToSet(r) \subseteq ToSet(q)
<1> DEFINE c == Cardinality(P)
<1>1. DOMAIN q = 1..Len(q) /\ Len(q) \in Nat
  BY LenProperties
<1>2. c \in Nat
  <2>1. IsFiniteSet(1..Len(q))
    BY <1>1, FS_Interval
  <2>2. IsFiniteSet(P)
    BY <1>1, <2>1, FS_Subset
  <2> QED
    BY <2>2, FS_CardinalityType
<1>3. p \in [1..c -> P] /\ \A i, j \in 1..c : i # j => p[i] # p[j]
  BY DEF SetToSeqs
<1> HIDE DEF c
<1>4. \A n \in 1..c : p[n] \in 1..Len(q)
  BY <1>1, <1>3
<1>5. r = [n \in 1..c |-> q[p[n]]]
  BY <1>3 DEF Picked
<1>6. \A n \in 1..c : q[p[n]] \in Item
  BY <1>4, ElementOfSeq
<1>7. r \in [1..c -> Item]
  BY <1>5, <1>6
<1>8. r \in Seq(Item) /\ Len(r) = c
  BY <1>2, <1>7, FunctionIsSeq
<1>9. \A n \in 1..c : r[n] = q[p[n]]
  BY <1>5
<1>10. Single(r)
  BY <1>3, <1>4, <1>8, <1>9 DEF Single
<1>11. ToSet(r) = {r[i] : i \in 1..c} /\ ToSet(q) = {q[i] : i \in 1..Len(q)}
  <2>1. ToSet(r) = {r[i] : i \in 1..Len(r)}
    BY <1>8, SetOf
  <2>2. ToSet(q) = {q[i] : i \in 1..Len(q)}
    BY SetOf
  <2> QED
    BY <1>8, <2>1, <2>2
<1> QED
  BY <1>4, <1>8, <1>9, <1>10, <1>11

(* The mutex is handed on, asked for, and kept while stop() saves.         *)
LEMMA HandedOn ==
  ASSUME NEW q \in Seq(Operation), q # << >>
  PROVE  /\ Tail(q) \in Seq(Operation)
         /\ OneFlush(q) => OneFlush(Tail(q))
         /\ NoFlush(q) => NoFlush(Tail(q))
         /\ OneFlush(q) /\ Head(q) = "flush" => NoFlush(Tail(q))
<1>1. /\ Tail(q) \in Seq(Operation)
      /\ Len(Tail(q)) = Len(q) - 1 /\ Len(q) \in Nat \ {0} /\ Head(q) = q[1]
      /\ \A i \in 1..(Len(q) - 1) : Tail(q)[i] = q[i + 1]
  BY HeadFact
<1>2. /\ 1 \in 1..Len(q) /\ \A i \in 1..(Len(q) - 1) : i + 1 \in 1..Len(q) /\ i + 1 # 1
      /\ \A i, j \in 1..(Len(q) - 1) : i + 1 = j + 1 => i = j
  BY <1>1
<1>3. OneFlush(q) => OneFlush(Tail(q))
  BY <1>1, <1>2 DEF OneFlush
<1>4. NoFlush(q) => NoFlush(Tail(q))
  BY <1>1, <1>2 DEF NoFlush
<1>5. OneFlush(q) /\ Head(q) = "flush" => NoFlush(Tail(q))
  BY <1>1, <1>2 DEF OneFlush, NoFlush
<1> QED
  BY <1>1, <1>3, <1>4, <1>5

(* One more operation at the end of the chain of promises; flush() only if *)
(* no other is there.                                                      *)
LEMMA AskedFor ==
  ASSUME NEW q \in Seq(Operation), NEW op \in Operation
  PROVE  /\ Append(q, op) \in Seq(Operation) /\ Append(q, op) # << >>
         /\ q # << >> => Head(Append(q, op)) = Head(q)
         /\ op # "flush" /\ OneFlush(q) => OneFlush(Append(q, op))
         /\ op # "flush" /\ NoFlush(q) => NoFlush(Append(q, op))
         /\ NoFlush(q) => OneFlush(Append(q, op))
<1> DEFINE r == Append(q, op)
<1>1. /\ r \in Seq(Operation) /\ Len(r) = Len(q) + 1
      /\ \A i \in 1..Len(q) : r[i] = q[i]
      /\ r[Len(q) + 1] = op
  BY AppendFact
<1>2. Len(q) \in Nat
  BY LenProperties
<1> HIDE DEF r
<1>3. \A i \in 1..(Len(q) + 1) : i \in 1..Len(q) \/ i = Len(q) + 1
  BY <1>2
<1>4. r # << >>
  BY <1>1, <1>2, EmptyFact
<1>5. q # << >> => Head(r) = Head(q)
  <2>1. Head(r) = r[1]
    BY <1>1, <1>4, HeadFact
  <2>2. ASSUME q # << >> PROVE Head(q) = q[1] /\ 1 \in 1..Len(q)
    <3>1. Head(q) = q[1] /\ Len(q) \in Nat \ {0}
      BY <2>2, HeadFact
    <3> QED
      BY <3>1
  <2> QED
    BY <1>1, <2>1, <2>2
<1>6. op # "flush" /\ OneFlush(q) => OneFlush(r)
  BY <1>1, <1>3 DEF OneFlush
<1>7. op # "flush" /\ NoFlush(q) => NoFlush(r)
  BY <1>1, <1>3 DEF NoFlush
<1>8. NoFlush(q) => OneFlush(r)
  BY <1>1, <1>3 DEF NoFlush, OneFlush
<1> QED
  BY <1>1, <1>4, <1>5, <1>6, <1>7, <1>8 DEF r

(* stop() still holds the mutex while it saves.                            *)
LEMMA KeptFor ==
  ASSUME NEW q \in Seq(Operation), NEW op \in Operation, op # "flush"
  PROVE  /\ <<op>> \o q \in Seq(Operation)
         /\ OneFlush(q) => OneFlush(<<op>> \o q)
         /\ NoFlush(q) => NoFlush(<<op>> \o q)
<1> DEFINE r == <<op>> \o q
<1>1. <<op>> \in Seq(Operation) /\ Len(<<op>>) = 1 /\ <<op>>[1] = op
  OBVIOUS
<1>2. /\ r \in Seq(Operation) /\ Len(r) = 1 + Len(q)
      /\ \A i \in 1..(1 + Len(q)) : r[i] = IF i <= 1 THEN <<op>>[i] ELSE q[i - 1]
  BY <1>1, ConcatProperties
<1>3. Len(q) \in Nat
  BY LenProperties
<1> HIDE DEF r
<1>4. \A i \in 1..(1 + Len(q)) :
        (i = 1 /\ r[i] = op) \/ (i - 1 \in 1..Len(q) /\ r[i] = q[i - 1])
  <2> SUFFICES ASSUME NEW i \in 1..(1 + Len(q))
               PROVE  (i = 1 /\ r[i] = op) \/ (i - 1 \in 1..Len(q) /\ r[i] = q[i - 1])
    OBVIOUS
  <2>1. CASE i = 1
    BY <1>1, <1>2, <2>1
  <2>2. CASE i # 1
    <3>1. ~(i <= 1) /\ i - 1 \in 1..Len(q)
      BY <1>3, <2>2
    <3> QED
      BY <1>2, <3>1
  <2> QED
    BY <2>1, <2>2
<1>5. OneFlush(q) => OneFlush(r)
  <2> SUFFICES ASSUME OneFlush(q), NEW j \in 1..(1 + Len(q)), NEW k \in 1..(1 + Len(q)),
                      r[j] = "flush", r[k] = "flush"
               PROVE  j = k
    BY <1>2 DEF OneFlush
  <2>1. /\ j - 1 \in 1..Len(q) /\ q[j - 1] = "flush"
        /\ k - 1 \in 1..Len(q) /\ q[k - 1] = "flush"
    BY <1>4
  <2>2. j - 1 = k - 1
    BY <2>1 DEF OneFlush
  <2> QED
    BY <2>2
<1>6. NoFlush(q) => NoFlush(r)
  BY <1>2, <1>4 DEF NoFlush
<1> QED
  BY <1>2, <1>5, <1>6 DEF r

(* One more write of an item, counted up to two.                           *)
LEMMA WrittenFact ==
  ASSUME Basics, NEW i \in Item
  PROVE  /\ Written(i) \in [Item -> 0..2]
         /\ Written(i)[i] \in 1..2 /\ (stored[i] = 0 => Written(i)[i] = 1)
         /\ \A j \in Item : j # i => Written(i)[j] = stored[j]
BY DEF Basics, Written

(* A write of an item: it may be an item's second only if it is excused.   *)
LEMMA WriteFact ==
  ASSUME IInv, NEW i \in Item, stored' = Written(i), UNCHANGED <<calls, abandoned, restored>>,
         late' \subseteq late,
         i <= calls,
         \A j \in Item : Writable(j)' => Writable(j),
         InFile' = InFile,
         \/ i \in abandoned \union restored
         \/ stored[i] = 0 /\ ~Writable(i)'
  PROVE  Begun' /\ WrittenOnce'
<1>1. /\ stored \in [Item -> 0..2] /\ stored' \in [Item -> 0..2]
      /\ stored'[i] \in 1..2 /\ (stored[i] = 0 => stored'[i] = 1)
      /\ \A j \in Item : j # i => stored'[j] = stored[j]
  BY WrittenFact DEF IInv, Basics
<1>2. Begun'
  BY <1>1 DEF IInv, Begun
<1>3. WrittenOnce'
  BY <1>1 DEF IInv, WrittenOnce
<1> QED
  BY <1>2, <1>3

(* A new insert is written at once: its first write.                       *)
LEMMA InsertSucceedsKeeps ==
  ASSUME IInv, NEW i \in Item, InsertSucceeds(i) PROVE IInv'
<1>1. /\ i = calls + 1 /\ calls' = i /\ stored' = Written(i)
      /\ UNCHANGED <<buffer, attempts, due, retryTimer, opTail, isProcessing, readyItems,
                     flush, itemsToFlush, file, late, dlq, flushFailed, abandoned, restored,
                     gone, shutdowns>>
  BY DEF InsertSucceeds, retrying, shutdown, history
<1>2. /\ stored' \in [Item -> 0..2]
      /\ stored'[i] \in 1..2 /\ (stored[i] = 0 => stored'[i] = 1)
      /\ \A j \in Item : j # i => stored'[j] = stored[j]
  BY <1>1, WrittenFact DEF IInv
<1>3. calls \in Nat /\ Item \subseteq Nat /\ calls' \in 0..NumItems
  BY <1>1, RetryBufferAssumption DEF IInv, Basics, Item
<1>4. Basics'
  BY <1>1, <1>2, <1>3 DEF IInv, Basics
<1>5. Queues' /\ Locked' /\ OnFile'
  BY <1>1 DEF IInv, Queues, Locked, OnFile, isFlushing, Holds
<1>6. /\ \A j \in Item : j <= calls' => j <= calls \/ j = i
      /\ \A j \in Item : j <= calls => j <= calls'
      /\ ~(i <= calls)
  BY <1>1, <1>3
<1>7. \A j \in Item : (Writable(j)' <=> Writable(j)) /\ (j \in InFile' <=> j \in InFile)
  BY <1>1 DEF Writable, InFile
<1>8. stored[i] = 0 /\ ~Writable(i) /\ i \notin late
  BY <1>6 DEF IInv, Begun, Basics
<1>9. Accounted'
  BY <1>1, <1>2, <1>6 DEF IInv, Accounted, Failed
<1>10. Begun'
  BY <1>1, <1>2, <1>6, <1>7 DEF IInv, Begun
<1>11. WrittenOnce'
  BY <1>1, <1>2, <1>7, <1>8 DEF IInv, WrittenOnce
<1> QED
  BY <1>4, <1>5, <1>9, <1>10, <1>11 DEF IInv

(* bufferForRetry: the item is the newest of the buffer, or in the dead    *)
(* letter queue, and so is what had to make room.                          *)
LEMMA BufferedFact ==
  ASSUME IInv, NEW i \in Item, bufferForRetry(i), i \notin ToSet(buffer)
  PROVE  /\ buffer' \in Seq(Item) /\ Len(buffer') <= MaxBufferSize /\ Single(buffer')
         /\ isFlushing => buffer' = buffer
         /\ attempts' \in [Item -> Nat] /\ due' \subseteq Item
         /\ dlq \subseteq dlq' /\ dlq' \subseteq Item
         /\ ToSet(buffer') \subseteq ToSet(buffer) \union {i}
         /\ ToSet(buffer) \union {i} \subseteq ToSet(buffer') \union dlq'
<1>0. /\ buffer \in Seq(Item) /\ Len(buffer) <= MaxBufferSize /\ Single(buffer)
      /\ attempts \in [Item -> Nat] /\ due \subseteq Item /\ dlq \subseteq Item
      /\ Len(buffer) \in Nat
  BY LenProperties DEF IInv, Queues, Basics
<1>1. CASE isFlushing
  <2>1. dlq' = dlq \union {i} /\ UNCHANGED <<buffer, attempts, due>>
    BY <1>1 DEF bufferForRetry
  <2> QED
    BY <1>0, <2>1
<1>2. CASE ~isFlushing /\ Len(buffer) >= MaxBufferSize
  <2>1. /\ attempts' = [attempts EXCEPT ![i] = 1] /\ buffer' = Append(Tail(buffer), i)
        /\ dlq' = dlq \union {Head(buffer)} /\ due' = due \ {Head(buffer)}
    BY <1>2 DEF bufferForRetry
  <2>2. buffer # << >>
    BY <1>0, <1>2, EmptyFact, RetryBufferAssumption
  <2>3. /\ Head(buffer) \in Item /\ Tail(buffer) \in Seq(Item)
        /\ Len(Tail(buffer)) = Len(buffer) - 1
        /\ ToSet(buffer) = {Head(buffer)} \union ToSet(Tail(buffer))
    BY <1>0, <2>2, HeadFact
  <2>4. Single(Tail(buffer)) /\ i \notin ToSet(Tail(buffer))
    BY <1>0, <2>2, <2>3, SingleTail
  <2>5. /\ buffer' \in Seq(Item) /\ Len(buffer') = Len(Tail(buffer)) + 1
    BY <2>1, <2>3, AppendFact
  <2>6. Single(buffer')
    BY <2>1, <2>3, <2>4, SingleAppend
  <2>a. \A q \in Seq(Item) : ToSet(Append(q, i)) = ToSet(q) \union {i}
    BY SetOfAppend
  <2>7. ToSet(buffer') = ToSet(Tail(buffer)) \union {i}
    BY <2>1, <2>3, <2>a
  <2>8. Len(buffer') <= MaxBufferSize
    BY <1>0, <2>3, <2>5
  <2>9. attempts' \in [Item -> Nat]
    BY <1>0, <2>1
  <2> QED
    BY <1>0, <1>2, <2>1, <2>3, <2>5, <2>6, <2>7, <2>8, <2>9
<1>3. CASE ~isFlushing /\ ~(Len(buffer) >= MaxBufferSize)
  <2>1. /\ attempts' = [attempts EXCEPT ![i] = 1] /\ buffer' = Append(buffer, i)
        /\ UNCHANGED <<dlq, due>>
    BY <1>3 DEF bufferForRetry
  <2>2. /\ buffer' \in Seq(Item) /\ Len(buffer') = Len(buffer) + 1
    BY <1>0, <2>1, AppendFact
  <2>3. Single(buffer')
    BY <1>0, <2>1, SingleAppend
  <2>4. ToSet(buffer') = ToSet(buffer) \union {i}
    BY <1>0, <2>1, SetOfAppend
  <2>5. Len(buffer') <= MaxBufferSize
    BY <1>0, <1>3, <2>2, RetryBufferAssumption
  <2>6. attempts' \in [Item -> Nat]
    BY <1>0, <2>1
  <2> QED
    BY <1>0, <1>3, <2>1, <2>2, <2>3, <2>4, <2>5, <2>6
<1> QED
  BY <1>1, <1>2, <1>3

(* A new insert is buffered instead, or logged during a flush.             *)
LEMMA InsertFailsKeeps ==
  ASSUME IInv, NEW i \in Item, InsertFails(i) PROVE IInv'
<1>1. /\ i = calls + 1 /\ calls' = i /\ bufferForRetry(i) /\ GivenUp(i)
      /\ UNCHANGED <<retryTimer, opTail, isProcessing, readyItems, flush, itemsToFlush, file,
                     stored, flushFailed, restored, gone, shutdowns>>
  BY DEF InsertFails, retrying, shutdown
<1>2. calls \in Nat /\ Item \subseteq Nat /\ calls' \in 0..NumItems
  BY <1>1, RetryBufferAssumption DEF IInv, Basics, Item
<1>3. /\ \A j \in Item : j <= calls' => j <= calls \/ j = i
      /\ \A j \in Item : j <= calls => j <= calls'
      /\ ~(i <= calls) /\ i <= calls'
  BY <1>1, <1>2
<1>4. stored[i] = 0 /\ ~Writable(i) /\ i \notin late
  BY <1>3 DEF IInv, Begun, Basics
<1>5. /\ buffer' \in Seq(Item) /\ Len(buffer') <= MaxBufferSize /\ Single(buffer')
      /\ isFlushing => buffer' = buffer
      /\ attempts' \in [Item -> Nat] /\ due' \subseteq Item
      /\ dlq \subseteq dlq' /\ dlq' \subseteq Item
      /\ ToSet(buffer') \subseteq ToSet(buffer) \union {i}
      /\ ToSet(buffer) \union {i} \subseteq ToSet(buffer') \union dlq'
  BY <1>1, <1>4, BufferedFact DEF Writable
<1>6. Basics'
  BY <1>1, <1>2, <1>5 DEF IInv, Basics, GivenUp
<1>7. Queues' /\ Locked' /\ OnFile'
  BY <1>1, <1>5 DEF IInv, Queues, Locked, OnFile, isFlushing, Holds
<1>8. Accounted'
  BY <1>1, <1>3, <1>5 DEF IInv, Accounted, Failed
<1>9. \A j \in Item : (Writable(j)' => Writable(j) \/ j = i) /\ (j \in InFile' <=> j \in InFile)
  BY <1>1, <1>5 DEF Writable, InFile
<1>10. Begun'
  BY <1>1, <1>3, <1>9 DEF IInv, Begun, GivenUp
<1>11. WrittenOnce'
  BY <1>1, <1>4, <1>9 DEF IInv, WrittenOnce, GivenUp
<1> QED
  BY <1>6, <1>7, <1>8, <1>10, <1>11 DEF IInv

(* Time passes for a buffered item.                                        *)
LEMMA BackoffPassesKeeps ==
  ASSUME IInv, NEW i \in Item, BackoffPasses(i) PROVE IInv'
<1>1. /\ due' = due \union {i}
      /\ UNCHANGED <<calls, buffer, attempts, retryTimer, opTail, isProcessing, readyItems, flush,
                     itemsToFlush, file, late, stored, dlq, flushFailed, abandoned, restored,
                     gone, shutdowns>>
  BY DEF BackoffPasses, retrying, shutdown, history
<1>2. Basics'
  BY <1>1 DEF IInv, Basics
<1>3. Queues' /\ Locked' /\ OnFile'
  BY <1>1 DEF IInv, Queues, Locked, OnFile, isFlushing, Holds
<1>4. Accounted' /\ Begun' /\ WrittenOnce'
  BY <1>1 DEF IInv, Accounted, Failed, Begun, WrittenOnce, Writable, InFile
<1> QED
  BY <1>2, <1>3, <1>4 DEF IInv

(* A write that was given up on takes effect after all.                    *)
LEMMA LateWriteKeeps ==
  ASSUME IInv, NEW i \in Item, LateWrite(i) PROVE IInv'
<1>1. /\ i \in late /\ late' = late \ {i} /\ stored' = Written(i)
      /\ UNCHANGED <<calls, buffer, attempts, due, retryTimer, opTail, isProcessing, readyItems,
                     flush, itemsToFlush, file, dlq, flushFailed, abandoned, restored, gone,
                     shutdowns>>
  BY DEF LateWrite, retrying, shutdown, history
<1>2. /\ Written(i) \in [Item -> 0..2] /\ Written(i)[i] \in 1..2
      /\ \A j \in Item : j # i => Written(i)[j] = stored[j]
  BY WrittenFact DEF IInv
<1>3. Basics'
  BY <1>1, <1>2 DEF IInv, Basics
<1>4. Queues' /\ Locked' /\ OnFile'
  BY <1>1 DEF IInv, Queues, Locked, OnFile, isFlushing, Holds
<1>5. \A j \in Item : stored'[j] = 0 => stored[j] = 0
  BY <1>1, <1>2
<1>6. Accounted'
  BY <1>1, <1>5 DEF IInv, Accounted, Failed
<1>7. /\ i \in abandoned \union restored /\ i <= calls
      /\ \A j \in Item : Writable(j)' <=> Writable(j)
      /\ InFile' = InFile
  BY <1>1 DEF IInv, Begun, WrittenOnce, Writable, InFile
<1>8. Begun' /\ WrittenOnce'
  BY <1>1, <1>7, WriteFact
<1> QED
  BY <1>3, <1>4, <1>6, <1>8 DEF IInv

-----------------------------------------------------------------------------
(* Steps that leave the items alone.                                       *)
LEMMA SameItems ==
  ASSUME IInv, UNCHANGED <<calls, buffer, itemsToFlush, file, late, stored, dlq,
                           flushFailed, abandoned, restored, gone>>,
         \A i \in Item : Writable(i)' => Writable(i)
  PROVE  OnFile' /\ Accounted' /\ Begun' /\ WrittenOnce'
<1>1. OnFile' /\ InFile' = InFile
  BY DEF IInv, OnFile, InFile
<1>2. Accounted'
  BY DEF IInv, Accounted, Failed
<1>3. Begun'
  BY <1>1 DEF IInv, Begun
<1>4. WrittenOnce'
  BY DEF IInv, WrittenOnce
<1> QED
  BY <1>1, <1>2, <1>3, <1>4

(* Who holds the mutex, and that no batch is in hand but the retry's.      *)
LEMMA HolderFact ==
  ASSUME IInv, NEW op, Holds(op)
  PROVE  /\ opTail \in Seq(Operation) /\ opTail # << >> /\ Head(opTail) = op
         /\ op # "retry" => readyItems = << >>
BY DEF IInv, Locked, Holds

(* The timer asks for the mutex, unless a retry is under way.              *)
LEMMA TickKeeps == ASSUME IInv, Tick PROVE IInv'
<1>1. /\ isProcessing' = TRUE /\ opTail' = Append(opTail, "retry")
      /\ UNCHANGED <<calls, buffer, attempts, due, retryTimer, readyItems, flush, itemsToFlush,
                     file, late, stored, dlq, flushFailed, abandoned, restored, gone, shutdowns>>
  BY DEF Tick, shutdown, history
<1>2. Basics'
  BY <1>1 DEF IInv, Basics
<1>3. Queues'
  BY <1>1 DEF IInv, Queues, isFlushing
<1>4. opTail \in Seq(Operation) /\ "retry" \in Operation
  BY DEF IInv, Locked, Operation
<1>5. /\ opTail' \in Seq(Operation) /\ opTail' # << >>
      /\ opTail # << >> => Head(opTail') = Head(opTail)
      /\ OneFlush(opTail) => OneFlush(opTail')
      /\ NoFlush(opTail) => NoFlush(opTail')
  BY <1>1, <1>4, AskedFor
<1>6. Locked'
  BY <1>1, <1>5 DEF IInv, Locked, Holds
<1>7. \A i \in Item : Writable(i)' => Writable(i)
  BY <1>1 DEF Writable
<1> QED
  BY <1>1, <1>2, <1>3, <1>6, <1>7, SameItems DEF IInv

(* The retry takes a batch: the items stay in the buffer meanwhile.        *)
LEMMA RetryBeginsKeeps == ASSUME IInv, RetryBegins PROVE IInv'
<1>1. /\ Holds("retry") /\ readyItems = << >>
      /\ UNCHANGED <<calls, buffer, attempts, due, retryTimer, flush, itemsToFlush, file, late,
                     stored, dlq, flushFailed, abandoned, restored, gone, shutdowns>>
  BY DEF RetryBegins, shutdown, history
<1>2. opTail \in Seq(Operation) /\ opTail # << >> /\ Head(opTail) = "retry"
  BY <1>1, HolderFact
<1>3. CASE Ready = {}
  <2>1. isProcessing' = FALSE /\ opTail' = Tail(opTail) /\ readyItems' = readyItems
    BY <1>3 DEF RetryBegins
  <2>2. Basics'
    BY <1>1, <2>1 DEF IInv, Basics
  <2>3. Queues'
    BY <1>1, <2>1 DEF IInv, Queues, isFlushing
  <2>4. Locked'
    BY <1>1, <1>2, <2>1, HandedOn DEF IInv, Locked, Holds
  <2>5. \A i \in Item : Writable(i)' => Writable(i)
    BY <1>1, <2>1 DEF Writable
  <2> QED
    BY <1>1, <2>2, <2>3, <2>4, <2>5, SameItems DEF IInv
<1>4. CASE Ready # {}
  <2>1. UNCHANGED <<isProcessing, opTail>>
    BY <1>4 DEF RetryBegins
  <2>2. PICK p \in SetToSeqs(FirstReady) : readyItems' = [n \in DOMAIN p |-> buffer[p[n]]]
    BY <1>4 DEF RetryBegins
  <2>3. /\ buffer \in Seq(Item) /\ Single(buffer) /\ FirstReady \in SUBSET (DOMAIN buffer)
        /\ Picked(readyItems', buffer, p)
    BY <2>2 DEF IInv, Queues, FirstReady, Ready, Picked
  <2>4. /\ readyItems' \in Seq(Item) /\ Single(readyItems')
        /\ ToSet(readyItems') \subseteq ToSet(buffer)
    BY <2>3, BatchFact
  <2>5. ~isFlushing
    <3>1. SUFFICES ASSUME isFlushing PROVE FALSE
      OBVIOUS
    <3>2. buffer = << >> /\ DOMAIN << >> = {}
      BY <3>1 DEF IInv, Queues
    <3> QED
      BY <1>4, <3>2 DEF Ready
  <2>6. Basics'
    BY <1>1, <2>1 DEF IInv, Basics
  <2>7. Queues'
    BY <1>1, <2>4, <2>5 DEF IInv, Queues, isFlushing
  <2>8. Locked'
    BY <1>1, <2>1 DEF IInv, Locked, Holds
  <2>9. \A i \in Item : Writable(i)' => Writable(i)
    BY <1>1, <2>4 DEF Writable
  <2> QED
    BY <1>1, <2>6, <2>7, <2>8, <2>9, SameItems DEF IInv
<1> QED
  BY <1>3, <1>4

(* After an item, the rest of the batch is still retried under the mutex.  *)
LEMMA NextItemFact ==
  ASSUME IInv, readyItems # << >>, NextItem
  PROVE  /\ readyItems' \in Seq(Item) /\ Single(readyItems')
         /\ Head(readyItems) \in Item
         /\ ToSet(readyItems) = {Head(readyItems)} \union ToSet(readyItems')
         /\ Head(readyItems) \notin ToSet(readyItems')
         /\ isProcessing' \in BOOLEAN /\ ~isFlushing
         /\ flush' = flush => Locked'
<1>0. /\ readyItems \in Seq(Item) /\ Single(readyItems) /\ Holds("retry")
      /\ isProcessing \in BOOLEAN /\ ~isFlushing /\ Locked
  BY DEF IInv, Queues, Locked, Basics
<1>1. opTail \in Seq(Operation) /\ opTail # << >> /\ Head(opTail) = "retry"
  BY <1>0, HolderFact
<1>2. readyItems' = Tail(readyItems)
  BY DEF NextItem
<1>3. /\ Head(readyItems) \in Item /\ Tail(readyItems) \in Seq(Item)
      /\ Len(Tail(readyItems)) = Len(readyItems) - 1 /\ Len(readyItems) \in Nat \ {0}
      /\ ToSet(readyItems) = {Head(readyItems)} \union ToSet(Tail(readyItems))
  BY <1>0, HeadFact
<1>4. Single(Tail(readyItems)) /\ Head(readyItems) \notin ToSet(Tail(readyItems))
  BY <1>0, SingleTail
<1>5. isProcessing' \in BOOLEAN /\ (flush' = flush => Locked')
  <2>1. CASE Len(readyItems) = 1
    <3>1. isProcessing' = FALSE /\ opTail' = Tail(opTail)
      BY <2>1 DEF NextItem
    <3>2. readyItems' = << >>
      BY <1>2, <1>3, <2>1, EmptySeq
    <3> QED
      BY <1>0, <1>1, <3>1, <3>2, HandedOn DEF Locked
  <2>2. CASE Len(readyItems) # 1
    <3>1. UNCHANGED <<isProcessing, opTail>>
      BY <2>2 DEF NextItem
    <3> QED
      BY <1>0, <3>1 DEF Locked, Holds
  <2> QED
    BY <2>1, <2>2
<1> QED
  BY <1>0, <1>2, <1>3, <1>4, <1>5

(* A retried item is written and leaves the buffer.                        *)
LEMMA RetrySucceedsKeeps ==
  ASSUME IInv, RetrySucceeds, NEW i, i = Head(readyItems) PROVE IInv'
<1>1. /\ readyItems # << >> /\ stored' = Written(i) /\ buffer' = Without(buffer, i)
      /\ due' = due \ {i} /\ NextItem
      /\ UNCHANGED <<calls, attempts, retryTimer, flush, itemsToFlush, file, late, dlq,
                     flushFailed, abandoned, restored, gone, shutdowns>>
  BY DEF RetrySucceeds, shutdown, history
<1>2. /\ readyItems' \in Seq(Item) /\ Single(readyItems') /\ i \in Item
      /\ ToSet(readyItems) = {i} \union ToSet(readyItems') /\ i \notin ToSet(readyItems')
      /\ isProcessing' \in BOOLEAN /\ ~isFlushing /\ Locked'
  BY <1>1, NextItemFact
<1>3. buffer \in Seq(Item) /\ Single(buffer) /\ Len(buffer) <= MaxBufferSize /\ itemsToFlush = << >>
  BY <1>2 DEF IInv, Queues
<1>4. /\ buffer' \in Seq(Item) /\ Len(buffer') <= Len(buffer) /\ Single(buffer')
      /\ ToSet(buffer') = ToSet(buffer) \ {i}
  BY <1>1, <1>3, WithoutFact
<1>5. Len(buffer') <= MaxBufferSize
  <2>1. Len(buffer) \in Nat /\ Len(buffer') \in Nat /\ MaxBufferSize \in Nat
    BY <1>3, <1>4, LenProperties, RetryBufferAssumption
  <2> QED
    BY <1>3, <1>4, <2>1
<1>6. /\ stored' \in [Item -> 0..2] /\ stored'[i] \in 1..2
      /\ \A j \in Item : j # i => stored'[j] = stored[j]
  BY <1>1, <1>2, WrittenFact DEF IInv
<1>7. Basics'
  BY <1>1, <1>2, <1>6 DEF IInv, Basics
<1>8. Queues'
  BY <1>1, <1>2, <1>3, <1>4, <1>5 DEF IInv, Queues, isFlushing
<1>9. OnFile' /\ InFile' = InFile
  BY <1>1 DEF IInv, OnFile, InFile
<1>10. Accounted'
  BY <1>1, <1>2, <1>4, <1>6 DEF IInv, Accounted, Failed
<1>11. Begun' /\ WrittenOnce'
  <2>0. ToSet(itemsToFlush) = {}
    BY <1>3, EmptyFact
  <2>1. Writable(i) /\ ~Writable(i)' /\ \A j \in Item : Writable(j)' => Writable(j)
    BY <1>1, <1>2, <1>4, <2>0 DEF Writable
  <2>2. i <= calls /\ (i \in abandoned \union restored \/ stored[i] = 0)
    BY <1>2, <2>1 DEF IInv, Begun, WrittenOnce, Basics
  <2> QED
    BY <1>1, <1>2, <1>9, <2>1, <2>2, WriteFact
<1> QED
  BY <1>2, <1>7, <1>8, <1>9, <1>10, <1>11 DEF IInv

(* A retried item fails: it stays for another attempt, or is logged.       *)
LEMMA RetryFailsKeeps ==
  ASSUME IInv, RetryFails, NEW i, i = Head(readyItems) PROVE IInv'
<1>1. /\ readyItems # << >>
      /\ attempts' = [attempts EXCEPT ![i] = @ + 1] /\ due' = due \ {i} /\ NextItem
      /\ \/ late' = late /\ abandoned' = abandoned
         \/ late' = late \union {i} /\ abandoned' = abandoned \union {i}
      /\ UNCHANGED <<calls, retryTimer, flush, itemsToFlush, file, stored, flushFailed,
                     restored, gone, shutdowns>>
  BY DEF RetryFails, GivenUp, shutdown
<1>2. /\ readyItems' \in Seq(Item) /\ Single(readyItems') /\ i \in Item
      /\ ToSet(readyItems) = {i} \union ToSet(readyItems') /\ i \notin ToSet(readyItems')
      /\ isProcessing' \in BOOLEAN /\ ~isFlushing /\ Locked'
  BY <1>1, NextItemFact
<1>3. buffer \in Seq(Item) /\ Single(buffer) /\ Len(buffer) <= MaxBufferSize /\ itemsToFlush = << >>
  BY <1>2 DEF IInv, Queues
<1>4. /\ buffer' \in Seq(Item) /\ Len(buffer') <= MaxBufferSize /\ Single(buffer')
      /\ ToSet(buffer') \subseteq ToSet(buffer)
      /\ ToSet(buffer) \subseteq ToSet(buffer') \union dlq'
      /\ dlq \subseteq dlq' /\ dlq' \subseteq Item
  <2>1. CASE UNCHANGED <<buffer, dlq>>
    BY <1>3, <2>1 DEF IInv, Basics
  <2>2. CASE buffer' = Without(buffer, i) /\ dlq' = dlq \union {i}
    <3>1. /\ buffer' \in Seq(Item) /\ Len(buffer') <= Len(buffer) /\ Single(buffer')
          /\ ToSet(buffer') = ToSet(buffer) \ {i}
      BY <1>3, <2>2, WithoutFact
    <3>2. Len(buffer') <= MaxBufferSize
      <4>1. Len(buffer) \in Nat /\ Len(buffer') \in Nat /\ MaxBufferSize \in Nat
        BY <1>3, <3>1, LenProperties, RetryBufferAssumption
      <4> QED
        BY <1>3, <3>1, <4>1
    <3> QED
      BY <1>2, <2>2, <3>1, <3>2 DEF IInv, Basics
  <2> QED
    BY <2>1, <2>2 DEF RetryFails
<1>5. attempts' \in [Item -> Nat]
  BY <1>1, <1>2 DEF IInv, Basics
<1>6. Basics'
  BY <1>1, <1>2, <1>4, <1>5 DEF IInv, Basics
<1>7. Queues'
  BY <1>1, <1>2, <1>3, <1>4 DEF IInv, Queues, isFlushing
<1>8. OnFile' /\ InFile' = InFile
  BY <1>1 DEF IInv, OnFile, InFile
<1>9. Accounted'
  BY <1>1, <1>4 DEF IInv, Accounted, Failed
<1>10. Writable(i) /\ \A j \in Item : Writable(j)' => Writable(j)
  BY <1>1, <1>2, <1>4 DEF Writable
<1>11. Begun'
  BY <1>1, <1>2, <1>8, <1>10 DEF IInv, Begun
<1>12. WrittenOnce'
  BY <1>1, <1>10 DEF IInv, WrittenOnce
<1> QED
  BY <1>2, <1>6, <1>7, <1>8, <1>9, <1>11, <1>12 DEF IInv

-----------------------------------------------------------------------------
(* flush() and stop() ask for the mutex.                                   *)
LEMMA CalledKeeps ==
  ASSUME IInv, NEW op \in Operation, Called, opTail' = Append(opTail, op),
         op = "flush" => flush = "no" /\ "flush" \notin ToSet(opTail),
         UNCHANGED <<calls, buffer, attempts, due, retryTimer, isProcessing, readyItems,
                     shutdown, late, stored, dlq, flushFailed, history>>
  PROVE  IInv'
<1>1. UNCHANGED <<calls, buffer, attempts, due, retryTimer, isProcessing, readyItems, flush,
                  itemsToFlush, file, late, stored, dlq, flushFailed, abandoned, restored, gone>>
  BY DEF shutdown, history
<1>2. shutdowns' \in 0..MaxShutdowns
  BY RetryBufferAssumption DEF IInv, Basics, Called
<1>3. Basics'
  BY <1>1, <1>2 DEF IInv, Basics
<1>4. Queues'
  BY <1>1 DEF IInv, Queues, isFlushing
<1>5. opTail \in Seq(Operation)
  BY DEF IInv, Locked
<1>6. /\ opTail' \in Seq(Operation) /\ opTail' # << >>
      /\ opTail # << >> => Head(opTail') = Head(opTail)
      /\ op # "flush" /\ OneFlush(opTail) => OneFlush(opTail')
      /\ op # "flush" /\ NoFlush(opTail) => NoFlush(opTail')
      /\ NoFlush(opTail) => OneFlush(opTail')
  BY <1>5, AskedFor
<1>7. op = "flush" => NoFlush(opTail)
  BY <1>5, SetOf DEF NoFlush
<1>8. Locked'
  BY <1>1, <1>6, <1>7 DEF IInv, Locked, Holds
<1>9. \A i \in Item : Writable(i)' => Writable(i)
  BY <1>1 DEF Writable
<1> QED
  BY <1>1, <1>3, <1>4, <1>8, <1>9, SameItems DEF IInv

(* What the flush takes was nobody else's: no batch is being retried, and  *)
(* no other flush is under way.                                            *)
LEMMA FlushTakesKeeps == ASSUME IInv, FlushTakes PROVE IInv'
<1>1. /\ Holds("flush") /\ opTail' = Tail(opTail) /\ retryTimer' = FALSE
      /\ itemsToFlush' = buffer /\ buffer' = << >> /\ due' = {}
      /\ flush' = IF buffer = << >> THEN "done" ELSE "working"
      /\ UNCHANGED <<calls, attempts, isProcessing, readyItems, file, late, stored, dlq,
                     flushFailed, abandoned, restored, gone, shutdowns>>
  BY DEF FlushTakes, history
<1>2. /\ opTail \in Seq(Operation) /\ opTail # << >> /\ Head(opTail) = "flush"
      /\ readyItems = << >>
  BY <1>1, HolderFact
<1>3. Head(opTail) = opTail[1] /\ 1 \in 1..Len(opTail)
  <2>1. Head(opTail) = opTail[1] /\ Len(opTail) \in Nat \ {0}
    BY <1>2, HeadFact
  <2> QED
    BY <2>1
<1>4. flush = "no" /\ itemsToFlush = << >>
  BY <1>2, <1>3 DEF IInv, Locked, NoFlush, Queues, isFlushing
<1>5. /\ << >> \in Seq(Item) /\ Len(<< >>) = 0 /\ Single(<< >>) /\ ToSet(<< >>) = {}
  BY EmptyFact
<1>6. Basics'
  BY <1>1 DEF IInv, Basics
<1>7. Queues'
  BY <1>1, <1>2, <1>5, RetryBufferAssumption DEF IInv, Queues, isFlushing
<1>8. Locked'
  BY <1>1, <1>2, HandedOn DEF IInv, Locked
<1>9. OnFile' /\ InFile' = InFile
  BY <1>1 DEF IInv, OnFile, InFile
<1>10. ToSet(buffer') = {} /\ ToSet(itemsToFlush) = {} /\ ToSet(itemsToFlush') = ToSet(buffer)
  BY <1>1, <1>4, <1>5
<1>11. Accounted'
  BY <1>1, <1>10 DEF IInv, Accounted, Failed
<1>12. \A j \in Item : Writable(j)' => Writable(j)
  BY <1>1, <1>10 DEF Writable
<1>13. Begun'
  BY <1>1, <1>9, <1>12 DEF IInv, Begun
<1>14. WrittenOnce'
  BY <1>1, <1>12 DEF IInv, WrittenOnce
<1> QED
  BY <1>6, <1>7, <1>8, <1>9, <1>11, <1>13, <1>14 DEF IInv

(* What the flush in progress has in its hand, and that nobody else has    *)
(* it.                                                                     *)
LEMMA FlushingFact ==
  ASSUME IInv, isFlushing
  PROVE  /\ buffer = << >> /\ readyItems = << >> /\ itemsToFlush # << >>
         /\ ToSet(buffer) = {} /\ ToSet(readyItems) = {}
         /\ NoFlush(opTail)
         /\ Head(itemsToFlush) \in Item /\ Tail(itemsToFlush) \in Seq(Item)
         /\ Single(Tail(itemsToFlush)) /\ Head(itemsToFlush) \notin ToSet(Tail(itemsToFlush))
         /\ ToSet(itemsToFlush) = {Head(itemsToFlush)} \union ToSet(Tail(itemsToFlush))
         /\ Len(itemsToFlush) = 1 <=> Tail(itemsToFlush) = << >>
<1>1. /\ buffer = << >> /\ readyItems = << >> /\ itemsToFlush # << >> /\ NoFlush(opTail)
      /\ itemsToFlush \in Seq(Item) /\ Single(itemsToFlush)
  BY DEF IInv, Queues, Locked, isFlushing
<1>2. /\ Head(itemsToFlush) \in Item /\ Tail(itemsToFlush) \in Seq(Item)
      /\ ToSet(itemsToFlush) = {Head(itemsToFlush)} \union ToSet(Tail(itemsToFlush))
      /\ Len(Tail(itemsToFlush)) = Len(itemsToFlush) - 1 /\ Len(itemsToFlush) \in Nat \ {0}
  BY <1>1, HeadFact
<1>3. Single(Tail(itemsToFlush)) /\ Head(itemsToFlush) \notin ToSet(Tail(itemsToFlush))
  BY <1>1, SingleTail
<1>4. ToSet(<< >>) = {} /\ Len(<< >>) = 0
  BY EmptyFact
<1>5. Len(itemsToFlush) = 1 <=> Tail(itemsToFlush) = << >>
  <2>1. Tail(itemsToFlush) # << >> => Len(Tail(itemsToFlush)) \in Nat \ {0}
    BY <1>2, EmptySeq
  <2>2. Tail(itemsToFlush) = << >> => Len(Tail(itemsToFlush)) = 0
    BY <1>4
  <2> DEFINE n == Len(itemsToFlush)
             m == Len(Tail(itemsToFlush))
  <2>3. m = n - 1 /\ n \in Nat \ {0}
    BY <1>2
  <2> HIDE DEF n, m
  <2>4. n = 1 <=> m = 0
    BY <2>3
  <2> QED
    BY <2>1, <2>2, <2>4 DEF n, m
<1> QED
  BY <1>1, <1>2, <1>3, <1>4, <1>5

(* The flush is done with one item, and goes on or ends.                   *)
LEMMA FlushedOneFact ==
  ASSUME IInv, FlushedOne, stored' \in [Item -> 0..2], flushFailed' \subseteq Item,
         late' \subseteq Item, abandoned' \subseteq Item
  PROVE  /\ Basics' /\ Queues' /\ Locked' /\ OnFile' /\ InFile' = InFile
         /\ ToSet(itemsToFlush') = ToSet(itemsToFlush) \ {Head(itemsToFlush)}
         /\ \A j \in Item : Writable(j) <=> j \in ToSet(itemsToFlush)
         /\ \A j \in Item : Writable(j)' <=> j \in ToSet(itemsToFlush')
<1>1. /\ isFlushing /\ itemsToFlush' = Tail(itemsToFlush)
      /\ flush' = IF Len(itemsToFlush) = 1 THEN "done" ELSE "working"
      /\ UNCHANGED <<calls, buffer, attempts, due, retryTimer, opTail, isProcessing, readyItems,
                     file, dlq, restored, gone, shutdowns>>
  BY DEF FlushedOne, retrying
<1>2. /\ buffer = << >> /\ readyItems = << >>
      /\ ToSet(buffer) = {} /\ ToSet(readyItems) = {} /\ NoFlush(opTail)
      /\ Tail(itemsToFlush) \in Seq(Item)
      /\ Single(Tail(itemsToFlush)) /\ Head(itemsToFlush) \notin ToSet(Tail(itemsToFlush))
      /\ ToSet(itemsToFlush) = {Head(itemsToFlush)} \union ToSet(Tail(itemsToFlush))
      /\ Len(itemsToFlush) = 1 <=> Tail(itemsToFlush) = << >>
  BY <1>1, FlushingFact
<1>3. Basics'
  BY <1>1 DEF IInv, Basics
<1>4. Queues'
  BY <1>1, <1>2 DEF IInv, Queues, isFlushing
<1>5. Locked' /\ OnFile' /\ InFile' = InFile
  BY <1>1, <1>2 DEF IInv, Locked, OnFile, InFile
<1>6. ToSet(itemsToFlush') = ToSet(itemsToFlush) \ {Head(itemsToFlush)}
  BY <1>1, <1>2
<1>7. /\ \A j \in Item : Writable(j) <=> j \in ToSet(itemsToFlush)
      /\ \A j \in Item : Writable(j)' <=> j \in ToSet(itemsToFlush')
  BY <1>1, <1>2 DEF Writable
<1> QED
  BY <1>3, <1>4, <1>5, <1>6, <1>7

(* The flush writes an item.                                               *)
LEMMA FlushSucceedsKeeps ==
  ASSUME IInv, FlushSucceeds, NEW i, i = Head(itemsToFlush) PROVE IInv'
<1>1. /\ FlushedOne /\ isFlushing /\ stored' = Written(i)
      /\ UNCHANGED <<calls, buffer, late, dlq, flushFailed, abandoned, restored, gone>>
  BY DEF FlushSucceeds, FlushedOne
<1>2. i \in Item /\ i \in ToSet(itemsToFlush)
  BY <1>1, FlushingFact
<1>3. /\ stored' \in [Item -> 0..2] /\ stored'[i] \in 1..2
      /\ \A j \in Item : j # i => stored'[j] = stored[j]
  BY <1>1, <1>2, WrittenFact DEF IInv
<1>4. /\ Basics' /\ Queues' /\ Locked' /\ OnFile' /\ InFile' = InFile
      /\ ToSet(itemsToFlush') = ToSet(itemsToFlush) \ {i}
      /\ \A j \in Item : Writable(j) <=> j \in ToSet(itemsToFlush)
      /\ \A j \in Item : Writable(j)' <=> j \in ToSet(itemsToFlush')
  <2>1. flushFailed' \subseteq Item /\ late' \subseteq Item /\ abandoned' \subseteq Item
    BY <1>1 DEF IInv, Basics
  <2> QED
    BY <1>1, <1>3, <2>1, FlushedOneFact
<1>5. Accounted'
  BY <1>1, <1>3, <1>4 DEF IInv, Accounted, Failed
<1>6. Writable(i) /\ ~Writable(i)' /\ \A j \in Item : Writable(j)' => Writable(j)
  BY <1>2, <1>4
<1>7. i <= calls /\ (i \in abandoned \union restored \/ stored[i] = 0)
  BY <1>2, <1>6 DEF IInv, Begun, WrittenOnce, Basics
<1>8. Begun' /\ WrittenOnce'
  BY <1>1, <1>2, <1>4, <1>6, <1>7, WriteFact
<1> QED
  BY <1>4, <1>5, <1>8 DEF IInv

(* A write of the flush fails: the item is only counted.                   *)
LEMMA FlushFailsKeeps ==
  ASSUME IInv, FlushFails, NEW i, i = Head(itemsToFlush) PROVE IInv'
<1>1. /\ FlushedOne /\ isFlushing /\ flushFailed' = flushFailed \union {i}
      /\ \/ late' = late /\ abandoned' = abandoned
         \/ late' = late \union {i} /\ abandoned' = abandoned \union {i}
      /\ UNCHANGED <<calls, buffer, stored, dlq, restored, gone>>
  BY DEF FlushFails, FlushedOne, GivenUp
<1>2. i \in Item /\ i \in ToSet(itemsToFlush)
  BY <1>1, FlushingFact
<1>3. /\ Basics' /\ Queues' /\ Locked' /\ OnFile' /\ InFile' = InFile
      /\ ToSet(itemsToFlush') = ToSet(itemsToFlush) \ {i}
      /\ \A j \in Item : Writable(j) <=> j \in ToSet(itemsToFlush)
      /\ \A j \in Item : Writable(j)' <=> j \in ToSet(itemsToFlush')
  <2>1. /\ flushFailed' \subseteq Item /\ stored' \in [Item -> 0..2]
        /\ late' \subseteq Item /\ abandoned' \subseteq Item
    BY <1>1, <1>2 DEF IInv, Basics
  <2> QED
    BY <1>1, <2>1, FlushedOneFact
<1>4. Accounted'
  BY <1>1, <1>3 DEF IInv, Accounted, Failed
<1>5. Begun'
  BY <1>1, <1>2, <1>3 DEF IInv, Begun
<1>6. WrittenOnce'
  BY <1>1, <1>3 DEF IInv, WrittenOnce
<1> QED
  BY <1>3, <1>4, <1>5, <1>6 DEF IInv

(* The flush gives up: what is left, the item being written included, is   *)
(* logged.                                                                 *)
LEMMA FlushTimesOutKeeps == ASSUME IInv, FlushTimesOut PROVE IInv'
<1>1. /\ isFlushing /\ flush' = "done" /\ dlq' = dlq \union ToSet(itemsToFlush)
      /\ late' = late \union {Head(itemsToFlush)}
      /\ abandoned' = abandoned \union {Head(itemsToFlush)} /\ itemsToFlush' = << >>
      /\ UNCHANGED <<calls, buffer, attempts, due, retryTimer, opTail, isProcessing, readyItems,
                     file, stored, flushFailed, restored, gone, shutdowns>>
  BY DEF FlushTimesOut, retrying
<1>2. /\ buffer = << >> /\ readyItems = << >> /\ NoFlush(opTail)
      /\ Head(itemsToFlush) \in Item /\ Tail(itemsToFlush) \in Seq(Item)
      /\ ToSet(itemsToFlush) = {Head(itemsToFlush)} \union ToSet(Tail(itemsToFlush))
  BY <1>1, FlushingFact
<1>3. /\ << >> \in Seq(Item) /\ Len(<< >>) = 0 /\ Single(<< >>) /\ ToSet(<< >>) = {}
  BY EmptyFact
<1>4. ToSet(itemsToFlush) \subseteq Item
  <2>1. itemsToFlush \in Seq(Item)
    BY DEF IInv, Queues
  <2> QED
    BY <2>1, SetOf
<1>5. Basics'
  BY <1>1, <1>2, <1>4 DEF IInv, Basics
<1>6. Queues'
  BY <1>1, <1>3 DEF IInv, Queues, isFlushing
<1>7. Locked' /\ OnFile' /\ InFile' = InFile
  BY <1>1, <1>2 DEF IInv, Locked, OnFile, InFile
<1>8. Accounted'
  BY <1>1 DEF IInv, Accounted, Failed
<1>9. \A j \in Item : Writable(j)' => Writable(j)
  BY <1>1, <1>3 DEF Writable
<1>10. Begun'
  <2>1. Writable(Head(itemsToFlush))
    BY <1>2 DEF Writable
  <2> QED
    BY <1>1, <1>2, <1>7, <1>9, <2>1 DEF IInv, Begun
<1>11. WrittenOnce'
  BY <1>1, <1>9 DEF IInv, WrittenOnce
<1> QED
  BY <1>5, <1>6, <1>7, <1>8, <1>10, <1>11 DEF IInv

-----------------------------------------------------------------------------
(* stop() has the mutex: the timer is off, and nothing else runs.          *)
LEMMA StopBeginsKeeps == ASSUME IInv, StopBegins PROVE IInv'
<1>1. /\ Holds("stop") /\ retryTimer' = FALSE
      /\ opTail' = IF buffer = << >> THEN Tail(opTail) ELSE <<"saving">> \o Tail(opTail)
      /\ UNCHANGED <<calls, buffer, attempts, due, isProcessing, readyItems, flush, itemsToFlush,
                     file, late, stored, dlq, flushFailed, abandoned, restored, gone, shutdowns>>
  BY DEF StopBegins, shutdown, history
<1>2. opTail \in Seq(Operation) /\ opTail # << >> /\ readyItems = << >>
  BY <1>1, HolderFact
<1>3. /\ Tail(opTail) \in Seq(Operation)
      /\ OneFlush(opTail) => OneFlush(Tail(opTail))
      /\ NoFlush(opTail) => NoFlush(Tail(opTail))
  BY <1>2, HandedOn
<1>4. /\ <<"saving">> \o Tail(opTail) \in Seq(Operation)
      /\ OneFlush(Tail(opTail)) => OneFlush(<<"saving">> \o Tail(opTail))
      /\ NoFlush(Tail(opTail)) => NoFlush(<<"saving">> \o Tail(opTail))
  <2>1. \A q \in Seq(Operation) :
          /\ <<"saving">> \o q \in Seq(Operation)
          /\ OneFlush(q) => OneFlush(<<"saving">> \o q)
          /\ NoFlush(q) => NoFlush(<<"saving">> \o q)
    <3>1. "saving" \in Operation /\ "saving" # "flush"
      BY DEF Operation
    <3> QED
      BY <3>1, KeptFor
  <2> QED
    BY <1>3, <2>1
<1>5. Locked'
  <2>1. opTail' \in {Tail(opTail), <<"saving">> \o Tail(opTail)}
    BY <1>1
  <2>2. /\ opTail' \in Seq(Operation)
        /\ OneFlush(opTail) => OneFlush(opTail')
        /\ NoFlush(opTail) => NoFlush(opTail')
    BY <1>3, <1>4, <2>1
  <2> QED
    BY <1>1, <1>2, <2>2 DEF IInv, Locked
<1>6. Basics'
  BY <1>1 DEF IInv, Basics
<1>7. Queues'
  BY <1>1 DEF IInv, Queues, isFlushing
<1>8. \A i \in Item : Writable(i)' => Writable(i)
  BY <1>1 DEF Writable
<1> QED
  BY <1>1, <1>5, <1>6, <1>7, <1>8, SameItems DEF IInv

(* What save() writes, or leaves of the old file, fits into a buffer.      *)
LEMMA SavedFact ==
  ASSUME Basics, Queues
  PROVE  LET saved == [k \in DOMAIN buffer |->
                        [item |-> buffer[k], attempts |-> attempts[buffer[k]]]]
         IN  /\ saved \in Seq([item : Item, attempts : Nat]) /\ Len(saved) <= MaxBufferSize
             /\ DOMAIN saved = 1..Len(saved)
             /\ \A j, k \in 1..Len(saved) : saved[j].item = saved[k].item => j = k
             /\ \A k \in 1..Len(saved) : saved[k].item \in ToSet(buffer)
<1> DEFINE saved == [k \in DOMAIN buffer |->
                      [item |-> buffer[k], attempts |-> attempts[buffer[k]]]]
           n == Len(buffer)
<1>1. n \in Nat /\ DOMAIN buffer = 1..n /\ n <= MaxBufferSize
  BY LenProperties DEF Queues
<1>2. \A k \in 1..n : buffer[k] \in Item /\ buffer[k] \in ToSet(buffer)
  BY SetOf DEF Queues
<1>3. attempts \in [Item -> Nat] /\ \A j, k \in 1..n : buffer[j] = buffer[k] => j = k
  BY DEF Basics, Queues, Single
<1> HIDE DEF n
<1>4. /\ saved \in [1..n -> [item : Item, attempts : Nat]]
      /\ \A k \in 1..n : saved[k].item = buffer[k]
  BY <1>1, <1>2, <1>3
<1> HIDE DEF saved
<1>5. saved \in Seq([item : Item, attempts : Nat]) /\ Len(saved) = n
  BY <1>1, <1>4, FunctionIsSeq
<1> QED
  BY <1>1, <1>2, <1>3, <1>4, <1>5 DEF saved

(* stop() saves the buffer, or cannot.                                     *)
LEMMA StopSavesKeeps == ASSUME IInv, StopSaves PROVE IInv'
<1> DEFINE saved == [k \in DOMAIN buffer |->
                      [item |-> buffer[k], attempts |-> attempts[buffer[k]]]]
<1>1. /\ Holds("saving") /\ opTail' = Tail(opTail) /\ file' \in {file, saved}
      /\ UNCHANGED <<calls, buffer, attempts, due, retryTimer, isProcessing, readyItems, flush,
                     itemsToFlush, late, stored, dlq, flushFailed, abandoned, restored, gone,
                     shutdowns>>
  BY DEF StopSaves, history
<1>2. /\ saved \in Seq([item : Item, attempts : Nat]) /\ Len(saved) <= MaxBufferSize
      /\ DOMAIN saved = 1..Len(saved)
      /\ \A j, k \in 1..Len(saved) : saved[j].item = saved[k].item => j = k
      /\ \A k \in 1..Len(saved) : saved[k].item \in ToSet(buffer)
  BY SavedFact DEF IInv
<1> HIDE DEF saved
<1>3. OnFile'
  BY <1>1, <1>2 DEF IInv, OnFile
<1>4. \A i \in Item : i \in InFile' => i \in InFile \/ i \in ToSet(buffer)
  BY <1>1, <1>2 DEF InFile
<1>5. opTail \in Seq(Operation) /\ opTail # << >> /\ readyItems = << >>
  BY <1>1, HolderFact
<1>6. Locked'
  BY <1>1, <1>5, HandedOn DEF IInv, Locked
<1>7. Basics'
  BY <1>1 DEF IInv, Basics
<1>8. Queues'
  BY <1>1 DEF IInv, Queues, isFlushing
<1>9. Accounted'
  BY <1>1 DEF IInv, Accounted, Failed
<1>10. /\ \A i \in Item : Writable(i)' <=> Writable(i)
       /\ \A i \in Item : i \in ToSet(buffer) => Writable(i)
  BY <1>1 DEF Writable
<1>11. Begun'
  BY <1>1, <1>4, <1>10 DEF IInv, Begun
<1>12. WrittenOnce'
  BY <1>1, <1>10 DEF IInv, WrittenOnce
<1> QED
  BY <1>3, <1>6, <1>7, <1>8, <1>9, <1>11, <1>12 DEF IInv

(* start(): the file becomes the buffer.                                   *)
LEMMA LoadedFact ==
  ASSUME OnFile, NEW q, q = [k \in DOMAIN file |-> file[k].item]
  PROVE  /\ q \in Seq(Item) /\ Len(q) <= MaxBufferSize /\ Single(q) /\ ToSet(q) = InFile
         /\ \A f \in ToSet(file) : f \in [item : Item, attempts : Nat]
         /\ \A i \in InFile : \E f \in ToSet(file) : f.item = i
<1> DEFINE n == Len(file)
<1>1. n \in Nat /\ DOMAIN file = 1..n /\ n <= MaxBufferSize
  BY LenProperties DEF OnFile
<1>2. \A k \in 1..n : file[k] \in [item : Item, attempts : Nat]
  BY ElementOfSeq DEF OnFile
<1>3. \A j, k \in 1..n : file[j].item = file[k].item => j = k
  BY DEF OnFile
<1>4. ToSet(file) = {file[k] : k \in 1..n}
  BY SetOf DEF OnFile
<1> HIDE DEF n
<1>5. /\ q \in [1..n -> Item] /\ \A k \in 1..n : q[k] = file[k].item
  BY <1>1, <1>2
<1>6. q \in Seq(Item) /\ Len(q) = n
  BY <1>1, <1>5, FunctionIsSeq
<1>7. Single(q)
  BY <1>3, <1>5, <1>6 DEF Single
<1>8. ToSet(q) = {q[k] : k \in 1..n}
  BY <1>6, SetOf
<1>9. InFile = {file[k].item : k \in 1..n}
  BY <1>1 DEF InFile
<1>10. ToSet(q) = InFile
  BY <1>5, <1>8, <1>9
<1>11. \A i \in InFile : \E f \in ToSet(file) : f.item = i
  BY <1>4, <1>9
<1>12. \A f \in ToSet(file) : f \in [item : Item, attempts : Nat]
  BY <1>2, <1>4
<1> QED
  BY <1>1, <1>6, <1>7, <1>10, <1>11, <1>12

(* A new process: what was not on file is gone with the old one.           *)
LEMMA RestartKeeps == ASSUME IInv, Restart PROVE IInv'
<1>1. /\ gone' = gone \union (InMemory \ InFile)
      /\ buffer' = [k \in DOMAIN file |-> file[k].item] /\ due' = {}
      /\ restored' = restored \union InFile /\ file' \in {file, << >>}
      /\ retryTimer' = TRUE
      /\ opTail' = << >> /\ isProcessing' = FALSE /\ readyItems' = << >>
      /\ flush' = "no" /\ itemsToFlush' = << >>
      /\ UNCHANGED <<calls, late, stored, dlq, flushFailed, abandoned, shutdowns>>
  BY DEF Restart
<1>2. attempts' = [i \in Item |->
                    IF i \in InFile
                      THEN (CHOOSE f \in ToSet(file) : f.item = i).attempts
                      ELSE attempts[i]]
  BY DEF Restart
<1>3. /\ buffer' \in Seq(Item) /\ Len(buffer') <= MaxBufferSize /\ Single(buffer')
      /\ ToSet(buffer') = InFile
      /\ \A f \in ToSet(file) : f \in [item : Item, attempts : Nat]
      /\ \A i \in InFile : \E f \in ToSet(file) : f.item = i
  BY <1>1, LoadedFact DEF IInv
<1>4. attempts' \in [Item -> Nat]
  <2>1. ASSUME NEW i \in InFile PROVE (CHOOSE f \in ToSet(file) : f.item = i).attempts \in Nat
    <3>1. (CHOOSE f \in ToSet(file) : f.item = i) \in ToSet(file)
      BY <1>3
    <3> QED
      BY <1>3, <3>1
  <2>2. attempts \in [Item -> Nat]
    BY DEF IInv, Basics
  <2> QED
    BY <1>2, <2>1, <2>2
<1>5. /\ << >> \in Seq(Item) /\ Len(<< >>) = 0 /\ Single(<< >>) /\ ToSet(<< >>) = {}
  BY EmptyFact
<1>6. << >> \in Seq(Operation) /\ << >> \in Seq([item : Item, attempts : Nat]) /\ 1..0 = {}
  BY EmptySeq
<1>7. InMemory = ToSet(buffer) \union ToSet(itemsToFlush) /\ InMemory \subseteq Item
  BY SetOf DEF InMemory, IInv, Queues
<1>8. InFile \subseteq Item
  BY <1>3, SetOf
<1>9. Basics'
  BY <1>1, <1>4, <1>7, <1>8 DEF IInv, Basics
<1>10. Queues'
  BY <1>1, <1>3, <1>5 DEF Queues, isFlushing
<1>11. Locked'
  BY <1>1, <1>5, <1>6 DEF Locked, OneFlush, NoFlush
<1>12. OnFile'
  <2>1. CASE file' = file
    BY <2>1 DEF IInv, OnFile
  <2>2. CASE file' = << >>
    BY <1>5, <1>6, <2>2, RetryBufferAssumption DEF OnFile
  <2> QED
    BY <1>1, <2>1, <2>2
<1>13. \A i \in Item : i \in InFile' => i \in InFile
  <2>1. DOMAIN << >> = {}
    OBVIOUS
  <2> QED
    BY <1>1, <2>1 DEF InFile
<1>14. Accounted'
  BY <1>1, <1>3, <1>7 DEF IInv, Accounted, Failed
<1>15. \A i \in Item : Writable(i)' => i \in InFile
  BY <1>1, <1>3, <1>5 DEF Writable
<1>16. Begun'
  BY <1>1, <1>13, <1>15 DEF IInv, Begun
<1>17. WrittenOnce'
  BY <1>1, <1>15 DEF IInv, WrittenOnce
<1> QED
  BY <1>9, <1>10, <1>11, <1>12, <1>14, <1>16, <1>17 DEF IInv

(* Every step of the buffer preserves the invariant.                       *)
LEMMA NextIInv == IInv /\ [Next]_vars => IInv'
<1> SUFFICES ASSUME IInv, [Next]_vars PROVE IInv'
  OBVIOUS
<1>1. CASE UNCHANGED vars
  <2>1. UNCHANGED <<calls, buffer, attempts, due, retryTimer, opTail, isProcessing, readyItems,
                    flush, itemsToFlush, file, late, stored, dlq, flushFailed, abandoned,
                    restored, gone, shutdowns>>
    BY <1>1 DEF vars, retrying, shutdown, history
  <2>2. Basics'
    BY <2>1 DEF IInv, Basics
  <2>3. Queues' /\ Locked'
    BY <2>1 DEF IInv, Queues, Locked, isFlushing, Holds
  <2>4. \A i \in Item : Writable(i)' => Writable(i)
    BY <2>1 DEF Writable
  <2> QED
    BY <2>1, <2>2, <2>3, <2>4, SameItems DEF IInv
<1>2. ASSUME NEW i \in Item,
             InsertSucceeds(i) \/ InsertFails(i) \/ BackoffPasses(i) \/ LateWrite(i)
      PROVE  IInv'
  BY <1>2, InsertSucceedsKeeps, InsertFailsKeeps, BackoffPassesKeeps, LateWriteKeeps
<1>3. CASE Tick
  BY <1>3, TickKeeps
<1>4. CASE RetryStep
  BY <1>4, RetryBeginsKeeps, RetrySucceedsKeeps, RetryFailsKeeps DEF RetryStep
<1>5. CASE FlushCalled \/ StopCalled
  <2>1. "flush" \in Operation /\ "stop" \in Operation /\ "stop" # "flush"
    BY DEF Operation
  <2>2. CASE FlushCalled
    BY <2>1, <2>2, CalledKeeps DEF FlushCalled
  <2>3. CASE StopCalled
    BY <2>1, <2>3, CalledKeeps DEF StopCalled
  <2> QED
    BY <1>5, <2>2, <2>3
<1>6. CASE FlushStep
  BY <1>6, FlushTakesKeeps, FlushSucceedsKeeps, FlushFailsKeeps, FlushTimesOutKeeps DEF FlushStep
<1>7. CASE StopBegins \/ StopSaves
  BY <1>7, StopBeginsKeeps, StopSavesKeeps
<1>8. CASE Restart
  BY <1>8, RestartKeeps
<1> QED
  BY <1>1, <1>2, <1>3, <1>4, <1>5, <1>6, <1>7, <1>8 DEF Next

(* The retry buffer never exceeds maxBufferSize and holds no item twice,   *)
(* and the rest of its state has its type, in every reachable state        *)
(* (bufferForRetry, flush, start).                                         *)
THEOREM BufferTyped == Spec => []TypeOK
<1>1. IInv => TypeOK
  <2> SUFFICES ASSUME IInv PROVE TypeOK
    OBVIOUS
  <2>1. IsInjective(buffer)
    BY SingleFact DEF IInv, Queues
  <2> QED
    BY <2>1 DEF IInv, Basics, Queues, Locked, OnFile, TypeOK
<1> QED
  BY <1>1, InitIInv, NextIInv, PTL DEF Spec

(* No item is lost unnoticed: one whose writes have failed is in the       *)
(* buffer, in the flush, in the file or in the dead letter queue, unless   *)
(* its write failed in the flush, which only counts it, or the process     *)
(* died with it. Neither a full buffer nor the retry limit nor a flush     *)
(* that times out loses one without a trace (bufferForRetry,               *)
(* processRetries, flush, stop).                                           *)
THEOREM NoLossUnlogged == Spec => []LossIsLogged
<1>1. IInv => LossIsLogged
  BY DEF IInv, Accounted, LossIsLogged
<1> QED
  BY <1>1, InitIInv, NextIInv, PTL DEF Spec

(* An item is written twice only when a write that had timed out or had    *)
(* been rejected took effect after all, or the file brought it back after a*)
(* restart: retries and flush never write the same item side by side (the  *)
(* chain of promises opTail).                                              *)
THEOREM DuplicatesAreExcused == Spec => []DuplicateHasCause
<1>1. IInv => DuplicateHasCause
  BY DEF IInv, WrittenOnce, DuplicateHasCause
<1> QED
  BY <1>1, InitIInv, NextIInv, PTL DEF Spec

-----------------------------------------------------------------------------
(* The aggregator, for any signals, keys and settings.                     *)

(* The signals counted in a queue, or in a set, of items, and that none is *)
(* counted in two of them.                                                 *)
Mem(q) == UNION {q[i].members : i \in 1..Len(q)}
Disj(q) == \A i, j \in 1..Len(q) : i # j => q[i].members \cap q[j].members = {}
Kept(S) == UNION {x.members : x \in S}
Alone(S) == \A x, y \in S : x # y => x.members \cap y.members = {}

(* The types, with the queues as sequences.                                *)
SignalBasics ==
  /\ signalBatch \in Seq(QueuedSignal) /\ retryQueue \in Seq(QueuedSignal)
  /\ batch \in Seq(QueuedSignal) /\ rows \in Seq(QueuedSignal)
  /\ Len(signalBatch) + Len(retryQueue) <= MaxQueueSize
  /\ phase \in {"idle", "check", "create", "correlate"}
  /\ pos \in 0..Len(batch)
  /\ retryCount \in 0..(MaxFlushRetries - 1)
  /\ seen \subseteq {IdemKey[s] : s \in Signal}
  /\ skipped \subseteq QueuedSignal /\ dropped \subseteq QueuedSignal
  /\ accepted \subseteq Signal /\ rejected \subseteq Signal
  /\ stop \in {"no", "flushing", "done"}

(* Where the flush stands: it has taken all that was queued in             *)
(* signalBatch, and nothing of its items is left when it ends.             *)
Flushing ==
  /\ phase \in {"check", "create"} => pos < Len(batch)
  /\ phase \in {"idle", "correlate"} => pos = Len(batch)
  /\ isFlushingBatch => signalBatch = << >>

(* No two items anywhere count the same signal, and together they count    *)
(* every accepted one.                                                     *)
Apart(a, b, c, d, e, f) ==
  /\ a \cap b = {} /\ a \cap c = {} /\ a \cap d = {} /\ a \cap e = {} /\ a \cap f = {}
  /\ b \cap c = {} /\ b \cap d = {} /\ b \cap e = {} /\ b \cap f = {}
  /\ c \cap d = {} /\ c \cap e = {} /\ c \cap f = {}
  /\ d \cap e = {} /\ d \cap f = {}
  /\ e \cap f = {}

Counted ==
  /\ Disj(signalBatch) /\ Disj(retryQueue) /\ Disj(Remaining) /\ Disj(rows)
  /\ Alone(skipped) /\ Alone(dropped)
  /\ Apart(Mem(signalBatch), Mem(retryQueue), Mem(Remaining), Mem(rows),
           Kept(skipped), Kept(dropped))
  /\ accepted = Mem(signalBatch) \cup Mem(retryQueue) \cup Mem(Remaining) \cup Mem(rows)
                  \cup Kept(skipped) \cup Kept(dropped)

SignalInv == SignalBasics /\ Flushing /\ Counted

-----------------------------------------------------------------------------
(* Empty queues and sets count nothing.                                    *)
LEMMA NothingFact == Mem(<< >>) = {} /\ Disj(<< >>) /\ Kept({}) = {} /\ Alone({})
<1>1. Len(<< >>) = 0 /\ 1..0 = {}
  BY EmptySeq
<1>2. Mem(<< >>) = {} /\ Disj(<< >>)
  BY <1>1 DEF Mem, Disj
<1>3. Kept({}) = {} /\ Alone({})
  BY DEF Kept, Alone
<1> QED
  BY <1>2, <1>3

(* An item joins a queue.                                                  *)
LEMMA MemAppend ==
  ASSUME NEW q \in Seq(QueuedSignal), NEW x \in QueuedSignal
  PROVE  /\ Mem(Append(q, x)) = Mem(q) \cup x.members
         /\ Disj(q) /\ x.members \cap Mem(q) = {} => Disj(Append(q, x))
<1> DEFINE r == Append(q, x)
           n == Len(q)
<1>1. Len(r) = n + 1 /\ (\A i \in 1..n : r[i] = q[i]) /\ r[n + 1] = x
  BY AppendFact
<1>2. n \in Nat
  BY LenProperties
<1>3. Mem(q) = UNION {q[i].members : i \in 1..n} /\ Mem(r) = UNION {r[i].members : i \in 1..(n + 1)}
  BY <1>1 DEF Mem
<1>4. Disj(q) <=> \A i, j \in 1..n : i # j => q[i].members \cap q[j].members = {}
  BY DEF Disj
<1>5. Disj(r) <=> \A i, j \in 1..(n + 1) : i # j => r[i].members \cap r[j].members = {}
  BY <1>1 DEF Disj
<1> HIDE DEF r, n
<1>6. (\A i \in 1..(n + 1) : i \in 1..n \/ i = n + 1) /\ (\A i \in 1..n : i \in 1..(n + 1))
      /\ n + 1 \in 1..(n + 1)
  BY <1>2
<1>7. Mem(r) = Mem(q) \cup x.members
  <2>1. ASSUME NEW s \in Mem(r) PROVE s \in Mem(q) \cup x.members
    BY <1>1, <1>3, <1>6
  <2>2. ASSUME NEW s \in Mem(q) PROVE s \in Mem(r)
    BY <1>1, <1>3, <1>6
  <2>3. ASSUME NEW s \in x.members PROVE s \in Mem(r)
    BY <1>1, <1>3, <1>6
  <2> QED
    BY <2>1, <2>2, <2>3
<1>8. ASSUME Disj(q), x.members \cap Mem(q) = {} PROVE Disj(r)
  <2>1. \A i \in 1..n : x.members \cap q[i].members = {} /\ q[i].members \cap x.members = {}
    BY <1>3, <1>8
  <2> QED
    BY <1>1, <1>4, <1>5, <1>6, <1>8, <2>1
<1> QED
  BY <1>7, <1>8 DEF r

(* Two queues become one.                                                  *)
LEMMA MemConcat ==
  ASSUME NEW p \in Seq(QueuedSignal), NEW q \in Seq(QueuedSignal)
  PROVE  /\ Mem(p \o q) = Mem(p) \cup Mem(q)
         /\ Disj(p) /\ Disj(q) /\ Mem(p) \cap Mem(q) = {} => Disj(p \o q)
<1> DEFINE r == p \o q
           n == Len(p)
           m == Len(q)
<1>1. /\ Len(r) = n + m /\ n \in Nat /\ m \in Nat
      /\ \A i \in 1..(n + m) : r[i] = IF i <= n THEN p[i] ELSE q[i - n]
  BY ConcatProperties, LenProperties
<1>2. /\ Mem(p) = UNION {p[i].members : i \in 1..n} /\ Mem(q) = UNION {q[i].members : i \in 1..m}
      /\ Mem(r) = UNION {r[i].members : i \in 1..(n + m)}
  BY <1>1 DEF Mem
<1>3. /\ Disj(p) <=> \A i, j \in 1..n : i # j => p[i].members \cap p[j].members = {}
      /\ Disj(q) <=> \A i, j \in 1..m : i # j => q[i].members \cap q[j].members = {}
      /\ Disj(r) <=> \A i, j \in 1..(n + m) : i # j => r[i].members \cap r[j].members = {}
  BY <1>1 DEF Disj
<1> HIDE DEF r, n, m
<1>4. \A i \in 1..(n + m) : (i \in 1..n /\ r[i] = p[i]) \/ (i - n \in 1..m /\ r[i] = q[i - n])
  <2> SUFFICES ASSUME NEW i \in 1..(n + m)
               PROVE  (i \in 1..n /\ r[i] = p[i]) \/ (i - n \in 1..m /\ r[i] = q[i - n])
    OBVIOUS
  <2>1. CASE i <= n
    BY <1>1, <2>1
  <2>2. CASE ~(i <= n)
    <3>1. i - n \in 1..m
      BY <1>1, <2>2
    <3> QED
      BY <1>1, <2>2, <3>1
  <2> QED
    BY <2>1, <2>2
<1>5. /\ \A i \in 1..n : i \in 1..(n + m) /\ r[i] = p[i]
      /\ \A i \in 1..m : i + n \in 1..(n + m) /\ r[i + n] = q[i]
  <2>1. \A i \in 1..n : i \in 1..(n + m) /\ r[i] = p[i]
    BY <1>1
  <2>2. \A i \in 1..m : i + n \in 1..(n + m) /\ ~(i + n <= n) /\ (i + n) - n = i
    BY <1>1
  <2> QED
    BY <1>1, <2>1, <2>2
<1>6. Mem(r) = Mem(p) \cup Mem(q)
  <2>1. ASSUME NEW s \in Mem(r) PROVE s \in Mem(p) \cup Mem(q)
    BY <1>2, <1>4
  <2>2. ASSUME NEW s \in Mem(p) PROVE s \in Mem(r)
    BY <1>2, <1>5
  <2>3. ASSUME NEW s \in Mem(q) PROVE s \in Mem(r)
    BY <1>2, <1>5
  <2> QED
    BY <2>1, <2>2, <2>3
<1>7. ASSUME Disj(p), Disj(q), Mem(p) \cap Mem(q) = {} PROVE Disj(r)
  <2> SUFFICES ASSUME NEW i \in 1..(n + m), NEW j \in 1..(n + m), i # j
               PROVE  r[i].members \cap r[j].members = {}
    BY <1>3
  <2>1. \A a \in 1..n, b \in 1..m : /\ p[a].members \cap q[b].members = {}
                                    /\ q[b].members \cap p[a].members = {}
    <3> SUFFICES ASSUME NEW a \in 1..n, NEW b \in 1..m, NEW s,
                        s \in p[a].members, s \in q[b].members
                 PROVE  FALSE
      OBVIOUS
    <3>1. s \in Mem(p) /\ s \in Mem(q)
      BY <1>2
    <3> QED
      BY <1>7, <3>1
  <2>2. i - n # j - n
    BY <1>1
  <2> QED
    BY <1>3, <1>4, <1>7, <2>1, <2>2
<1> QED
  BY <1>6, <1>7 DEF r

(* A queue is cut in two.                                                  *)
LEMMA MemCut ==
  ASSUME NEW q \in Seq(QueuedSignal), NEW n \in 0..Len(q)
  PROVE  /\ Mem(q) = Mem(First(q, n)) \cup Mem(From(q, n))
         /\ Disj(q) => /\ Disj(First(q, n)) /\ Disj(From(q, n))
                       /\ Mem(First(q, n)) \cap Mem(From(q, n)) = {}
<1> DEFINE a == First(q, n)
           b == From(q, n)
           l == Len(q)
<1>1. /\ Len(a) = n /\ (\A i \in 1..n : a[i] = q[i])
      /\ Len(b) = l - n /\ (\A i \in 1..(l - n) : b[i] = q[n + i])
      /\ l \in Nat /\ n \in 0..l
  BY CutFact, LenProperties
<1>2. /\ Mem(a) = UNION {a[i].members : i \in 1..n}
      /\ Mem(b) = UNION {b[i].members : i \in 1..(l - n)}
      /\ Mem(q) = UNION {q[i].members : i \in 1..l}
  BY <1>1 DEF Mem
<1>3. /\ Disj(a) <=> \A i, j \in 1..n : i # j => a[i].members \cap a[j].members = {}
      /\ Disj(b) <=> \A i, j \in 1..(l - n) : i # j => b[i].members \cap b[j].members = {}
      /\ Disj(q) <=> \A i, j \in 1..l : i # j => q[i].members \cap q[j].members = {}
  BY <1>1 DEF Disj
<1> HIDE DEF a, b, l
<1>4. /\ \A i \in 1..n : i \in 1..l
      /\ \A i \in 1..(l - n) : n + i \in 1..l
      /\ \A i \in 1..l : i \in 1..n \/ (i - n \in 1..(l - n) /\ n + (i - n) = i)
      /\ \A i \in 1..n, j \in 1..(l - n) : i # n + j
      /\ \A i, j \in 1..(l - n) : i # j => n + i # n + j
  BY <1>1
<1>5. Mem(q) = Mem(a) \cup Mem(b)
  <2>1. ASSUME NEW i \in 1..l, NEW s \in q[i].members PROVE s \in Mem(a) \cup Mem(b)
    <3>1. CASE i \in 1..n
      BY <1>1, <1>2, <2>1, <3>1
    <3>2. CASE i - n \in 1..(l - n) /\ n + (i - n) = i
      <4>1. b[i - n] = q[i]
        BY <1>1, <3>2
      <4> QED
        BY <1>2, <2>1, <3>2, <4>1
    <3> QED
      BY <1>4, <3>1, <3>2
  <2>2. ASSUME NEW s \in Mem(a) PROVE s \in Mem(q)
    BY <1>1, <1>2, <1>4
  <2>3. ASSUME NEW s \in Mem(b) PROVE s \in Mem(q)
    BY <1>1, <1>2, <1>4
  <2>4. ASSUME NEW s \in Mem(q) PROVE s \in Mem(a) \cup Mem(b)
    BY <1>2, <2>1
  <2> QED
    BY <2>2, <2>3, <2>4
<1>6. ASSUME Disj(q) PROVE Disj(a) /\ Disj(b) /\ Mem(a) \cap Mem(b) = {}
  <2>1. Disj(a)
    <3> SUFFICES ASSUME NEW i \in 1..n, NEW j \in 1..n, i # j
                 PROVE  a[i].members \cap a[j].members = {}
      BY <1>3
    <3>1. a[i] = q[i] /\ a[j] = q[j] /\ i \in 1..l /\ j \in 1..l
      BY <1>1, <1>4
    <3> QED
      BY <1>3, <1>6, <3>1
  <2>2. Disj(b)
    <3> SUFFICES ASSUME NEW i \in 1..(l - n), NEW j \in 1..(l - n), i # j
                 PROVE  b[i].members \cap b[j].members = {}
      BY <1>3
    <3>1. /\ b[i] = q[n + i] /\ b[j] = q[n + j] /\ n + i \in 1..l /\ n + j \in 1..l
          /\ n + i # n + j
      BY <1>1, <1>4
    <3> QED
      BY <1>3, <1>6, <3>1
  <2>3. \A i \in 1..n, j \in 1..(l - n) : a[i].members \cap b[j].members = {}
    <3> SUFFICES ASSUME NEW i \in 1..n, NEW j \in 1..(l - n)
                 PROVE  a[i].members \cap b[j].members = {}
      OBVIOUS
    <3>1. a[i] = q[i] /\ b[j] = q[n + j] /\ i \in 1..l /\ n + j \in 1..l /\ i # n + j
      BY <1>1, <1>4
    <3> QED
      BY <1>3, <1>6, <3>1
  <2> QED
    BY <1>2, <2>1, <2>2, <2>3
<1> QED
  BY <1>5, <1>6 DEF a, b

(* The item at the front of what is left.                                  *)
LEMMA MemNext ==
  ASSUME NEW q \in Seq(QueuedSignal), NEW n \in 0..Len(q), n < Len(q)
  PROVE  /\ q[n + 1] \in QueuedSignal /\ n + 1 \in 0..Len(q)
         /\ Mem(From(q, n)) = q[n + 1].members \cup Mem(From(q, n + 1))
         /\ Disj(From(q, n)) => /\ q[n + 1].members \cap Mem(From(q, n + 1)) = {}
                                /\ Disj(From(q, n + 1))
<1> DEFINE a == From(q, n)
           b == From(q, n + 1)
           l == Len(q)
<1>0. l \in Nat /\ n \in 0..l /\ n + 1 \in 0..l /\ n + 1 \in 1..l /\ n < l
  BY LenProperties
<1>1. /\ Len(a) = l - n /\ (\A i \in 1..(l - n) : a[i] = q[n + i])
      /\ Len(b) = l - (n + 1) /\ (\A i \in 1..(l - (n + 1)) : b[i] = q[(n + 1) + i])
      /\ q[n + 1] \in QueuedSignal
  BY <1>0, CutFact, ElementOfSeq
<1>2. /\ Mem(a) = UNION {a[i].members : i \in 1..(l - n)}
      /\ Mem(b) = UNION {b[i].members : i \in 1..(l - (n + 1))}
  BY <1>1 DEF Mem
<1>3. /\ Disj(a) <=> \A i, j \in 1..(l - n) : i # j => a[i].members \cap a[j].members = {}
      /\ Disj(b) <=> \A i, j \in 1..(l - (n + 1)) :
                        i # j => b[i].members \cap b[j].members = {}
  BY <1>1 DEF Disj
<1> HIDE DEF a, b, l
<1>4. 1 \in 1..(l - n) /\ a[1] = q[n + 1]
  BY <1>0, <1>1
<1>5. \A i \in 1..(l - (n + 1)) : i + 1 \in 1..(l - n) /\ i + 1 # 1 /\ b[i] = a[i + 1]
  <2> SUFFICES ASSUME NEW i \in 1..(l - (n + 1))
               PROVE  i + 1 \in 1..(l - n) /\ i + 1 # 1 /\ b[i] = a[i + 1]
    OBVIOUS
  <2>1. i + 1 \in 1..(l - n) /\ i + 1 # 1 /\ (n + 1) + i = n + (i + 1)
    BY <1>0
  <2> QED
    BY <1>1, <2>1
<1>6. \A i \in 1..(l - n) : i = 1 \/ (i - 1 \in 1..(l - (n + 1)) /\ a[i] = b[i - 1])
  <2> SUFFICES ASSUME NEW i \in 1..(l - n), i # 1
               PROVE  i - 1 \in 1..(l - (n + 1)) /\ a[i] = b[i - 1]
    OBVIOUS
  <2>1. i - 1 \in 1..(l - (n + 1)) /\ (i - 1) + 1 = i
    BY <1>0
  <2> QED
    BY <1>5, <2>1
<1>7. Mem(a) = q[n + 1].members \cup Mem(b)
  <2>1. ASSUME NEW s \in Mem(a) PROVE s \in q[n + 1].members \cup Mem(b)
    BY <1>2, <1>4, <1>6
  <2>2. ASSUME NEW s \in q[n + 1].members PROVE s \in Mem(a)
    BY <1>2, <1>4
  <2>3. ASSUME NEW s \in Mem(b) PROVE s \in Mem(a)
    BY <1>2, <1>5
  <2> QED
    BY <2>1, <2>2, <2>3
<1>8. ASSUME Disj(a) PROVE q[n + 1].members \cap Mem(b) = {} /\ Disj(b)
  <2>1. \A i \in 1..(l - (n + 1)) : q[n + 1].members \cap b[i].members = {}
    <3> SUFFICES ASSUME NEW i \in 1..(l - (n + 1))
                 PROVE  q[n + 1].members \cap b[i].members = {}
      OBVIOUS
    <3>1. i + 1 \in 1..(l - n) /\ 1 # i + 1 /\ b[i] = a[i + 1]
      BY <1>5
    <3> QED
      BY <1>3, <1>4, <1>8, <3>1
  <2>2. Disj(b)
    <3> SUFFICES ASSUME NEW i \in 1..(l - (n + 1)), NEW j \in 1..(l - (n + 1)), i # j
                 PROVE  b[i].members \cap b[j].members = {}
      BY <1>3
    <3>1. /\ i + 1 \in 1..(l - n) /\ b[i] = a[i + 1]
          /\ j + 1 \in 1..(l - n) /\ b[j] = a[j + 1]
      BY <1>5
    <3>2. i + 1 # j + 1
      BY <1>0
    <3> QED
      BY <1>3, <1>8, <3>1, <3>2
  <2> QED
    BY <1>2, <2>1, <2>2
<1> QED
  BY <1>0, <1>1, <1>7, <1>8 DEF a, b, l

(* Items moved from a queue into a set of items.                           *)
LEMMA KeptFact ==
  ASSUME NEW q \in Seq(QueuedSignal)
  PROVE  Kept(ToSet(q)) = Mem(q) /\ (Disj(q) => Alone(ToSet(q)))
<1>1. ToSet(q) = {q[i] : i \in 1..Len(q)}
  BY SetOf
<1>2. Kept(ToSet(q)) = Mem(q)
  BY <1>1 DEF Kept, Mem
<1>3. ASSUME Disj(q) PROVE Alone(ToSet(q))
  <2> SUFFICES ASSUME NEW i \in 1..Len(q), NEW j \in 1..Len(q), q[i] # q[j]
               PROVE  q[i].members \cap q[j].members = {}
    BY <1>1 DEF Alone
  <2> QED
    BY <1>3 DEF Disj
<1> QED
  BY <1>2, <1>3

(* Two sets of items become one.                                           *)
LEMMA KeptUnion ==
  ASSUME NEW S, NEW T
  PROVE  /\ Kept(S \cup T) = Kept(S) \cup Kept(T)
         /\ Alone(S) /\ Alone(T) /\ Kept(S) \cap Kept(T) = {} => Alone(S \cup T)
<1>1. Kept(S \cup T) = Kept(S) \cup Kept(T)
  BY DEF Kept
<1>2. ASSUME Alone(S), Alone(T), Kept(S) \cap Kept(T) = {} PROVE Alone(S \cup T)
  <2>1. \A x \in S, y \in T : x.members \cap y.members = {} /\ y.members \cap x.members = {}
    <3> SUFFICES ASSUME NEW x \in S, NEW y \in T, NEW s, s \in x.members, s \in y.members
                 PROVE  FALSE
      OBVIOUS
    <3>1. s \in Kept(S) /\ s \in Kept(T)
      BY DEF Kept
    <3> QED
      BY <1>2, <3>1
  <2>2. /\ \A x, y \in S : x # y => x.members \cap y.members = {}
        /\ \A x, y \in T : x # y => x.members \cap y.members = {}
    BY <1>2 DEF Alone
  <2> QED
    BY <2>1, <2>2 DEF Alone
<1> QED
  BY <1>1, <1>2

(* An item joins a set.                                                    *)
LEMMA KeptAdd ==
  ASSUME NEW S, NEW x
  PROVE  /\ Kept(S \cup {x}) = Kept(S) \cup x.members
         /\ Alone(S) /\ Kept(S) \cap x.members = {} => Alone(S \cup {x})
<1>1. Kept({x}) = x.members /\ Alone({x})
  BY DEF Kept, Alone
<1> QED
  BY <1>1, KeptUnion

-----------------------------------------------------------------------------
(* A nonempty set of positions has a first one.                            *)
LEMMA FirstPosition ==
  ASSUME NEW S \in SUBSET Nat, S # {}
  PROVE  \E k \in S : \A j \in S : k <= j
<1> DEFINE T == {1..i : i \in S}
<1>1. T \subseteq FiniteSubsetsOf(Nat)
  BY FS_Interval DEF FiniteSubsetsOf
<1>2. PICK x \in T : \A y \in T : ~(<<y, x>> \in StrictSubsetOrdering(Nat))
  <2>1. T # {}
    OBVIOUS
  <2>2. IsWellFoundedOn(StrictSubsetOrdering(Nat), FiniteSubsetsOf(Nat))
    BY FS_StrictSubsetOrderingWellFounded
  <2> HIDE DEF T
  <2> QED
    BY <1>1, <2>1, <2>2, WFMin
<1>3. PICK k \in S : x = 1..k
  OBVIOUS
<1>4. ASSUME NEW j \in S, j < k PROVE FALSE
  <2>1. /\ 1..j \in T /\ 1..j \in SUBSET Nat /\ 1..k \in SUBSET Nat
        /\ 1..j \subseteq 1..k /\ k \in 1..k /\ k \notin 1..j
    BY <1>4
  <2> QED
    BY <1>2, <1>3, <2>1 DEF StrictSubsetOrdering
<1> QED
  BY <1>4

(* Every item of a queue has the key of an item that deduplication keeps.  *)
LEMMA KeyIsKept ==
  ASSUME NEW q \in Seq(QueuedSignal), NEW k \in 1..Len(q)
  PROVE  \E i \in FirstOfKey(q) : SameKey(q[k], q[i])
<1> DEFINE S == {j \in 1..Len(q) : SameKey(q[j], q[k])}
<1>1. S \in SUBSET Nat /\ k \in S
  BY LenProperties DEF SameKey
<1>2. PICK i \in S : \A j \in S : i <= j
  BY <1>1, FirstPosition
<1>3. ASSUME NEW j \in 1..(i - 1), SameKey(q[i], q[j]) PROVE FALSE
  <2>1. j \in 1..Len(q) /\ ~(i <= j)
    BY LenProperties
  <2>2. SameKey(q[j], q[k])
    BY <1>3 DEF SameKey
  <2> QED
    BY <1>2, <2>1, <2>2
<1>4. i \in FirstOfKey(q)
  BY <1>3 DEF FirstOfKey
<1> QED
  BY <1>4 DEF SameKey

(* ... and no two that it keeps have the same.                             *)
LEMMA KeptOnce ==
  ASSUME NEW q \in Seq(QueuedSignal), NEW i \in FirstOfKey(q), NEW j \in FirstOfKey(q), i # j
  PROVE  ~SameKey(q[i], q[j])
<1>1. /\ i \in 1..Len(q) /\ (\A k \in 1..(i - 1) : ~SameKey(q[i], q[k]))
      /\ j \in 1..Len(q) /\ (\A k \in 1..(j - 1) : ~SameKey(q[j], q[k]))
  BY DEF FirstOfKey
<1>2. CASE i < j
  <2>1. i \in 1..(j - 1)
    BY <1>1, <1>2, LenProperties
  <2> QED
    BY <1>1, <2>1 DEF SameKey
<1>3. CASE j < i
  <2>1. j \in 1..(i - 1)
    BY <1>1, <1>3, LenProperties
  <2> QED
    BY <1>1, <2>1
<1> QED
  BY <1>1, <1>2, <1>3, LenProperties

(* A sequence of all the elements of a finite set.                         *)
LEMMA ListFact ==
  ASSUME NEW S, IsFiniteSet(S), NEW p \in SetToSeqs(S)
  PROVE  /\ Cardinality(S) \in Nat /\ p \in [1..Cardinality(S) -> S]
         /\ \A i, j \in 1..Cardinality(S) : i # j => p[i] # p[j]
         /\ \A x \in S : \E i \in 1..Cardinality(S) : p[i] = x
<1> DEFINE c == Cardinality(S)
<1>1. c \in Nat
  BY FS_CardinalityType
<1>2. p \in [1..c -> S] /\ \A i, j \in 1..c : i # j => p[i] # p[j]
  BY DEF SetToSeqs
<1> HIDE DEF c
<1>3. p \in Injection(1..c, S)
  BY <1>2 DEF Injection, IsInjective
<1>4. Cardinality(1..c) = c
  BY <1>1, FS_Interval
<1>5. p \in Surjection(1..c, S)
  BY <1>3, <1>4, FS_Injection DEF c
<1> QED
  BY <1>1, <1>2, <1>5 DEF Surjection, c

Deduped(d, q, p) ==
  d = [n \in DOMAIN p |-> [head |-> q[p[n]].head, members |-> Merged(q, q[p[n]])]]

(* deduplicateSignals keeps every signal counted, and counts none twice.   *)
LEMMA DedupFact ==
  ASSUME NEW q \in Seq(QueuedSignal), q # << >>, NEW d \in deduplicateSignals(q)
  PROVE  /\ d \in Seq(QueuedSignal) /\ Len(d) \in Nat \ {0}
         /\ Mem(d) = Mem(q) /\ (Disj(q) => Disj(d))
<1> DEFINE F == FirstOfKey(q)
           c == Cardinality(F)
<1>1. Len(q) \in Nat \ {0} /\ (\A i \in 1..Len(q) : q[i] \in QueuedSignal) /\ F \subseteq 1..Len(q)
  BY LenProperties, ElementOfSeq, EmptySeq DEF FirstOfKey
<1>2. PICK p \in SetToSeqs(F) : Deduped(d, q, p)
  BY DEF deduplicateSignals, Deduped
<1>3. IsFiniteSet(F)
  <2>1. IsFiniteSet(1..Len(q))
    BY <1>1, FS_Interval
  <2> QED
    BY <1>1, <2>1, FS_Subset
<1>4. /\ c \in Nat /\ p \in [1..c -> F]
      /\ \A i, j \in 1..c : i # j => p[i] # p[j]
      /\ \A x \in F : \E i \in 1..c : p[i] = x
  BY <1>2, <1>3, ListFact
<1> HIDE DEF c
<1>5. c # 0
  <2>1. 1 \in 1..Len(q)
    BY <1>1
  <2>2. PICK i \in F : SameKey(q[1], q[i])
    BY <2>1, KeyIsKept
  <2> QED
    BY <1>4, <2>2
<1>6. d = [n \in 1..c |-> [head |-> q[p[n]].head, members |-> Merged(q, q[p[n]])]]
  BY <1>2, <1>4 DEF Deduped
<1>7. \A n \in 1..c : d[n].members = Merged(q, q[p[n]]) /\ d[n] \in QueuedSignal
  <2> SUFFICES ASSUME NEW n \in 1..c
               PROVE  d[n].members = Merged(q, q[p[n]]) /\ d[n] \in QueuedSignal
    OBVIOUS
  <2>1. p[n] \in 1..Len(q)
    BY <1>1, <1>4
  <2>2. d[n] = [head |-> q[p[n]].head, members |-> Merged(q, q[p[n]])]
    BY <1>6
  <2>3. q[p[n]].head \in Signal /\ Merged(q, q[p[n]]) \in SUBSET Signal
    BY <1>1, <2>1 DEF Merged, QueuedSignal
  <2> QED
    BY <2>2, <2>3 DEF QueuedSignal
<1>8. d \in Seq(QueuedSignal) /\ Len(d) = c
  <2>1. d \in [1..c -> QueuedSignal]
    BY <1>6, <1>7
  <2> QED
    BY <1>4, <2>1, FunctionIsSeq
<1>9. \A a, s : s \in Merged(q, a) <=>
                  \E k \in 1..Len(q) : SameKey(q[k], a) /\ s \in q[k].members
  BY DEF Merged
<1>10. /\ \A s : s \in Mem(q) <=> \E k \in 1..Len(q) : s \in q[k].members
       /\ \A s : s \in Mem(d) <=> \E k \in 1..c : s \in d[k].members
  BY <1>8 DEF Mem
<1>11. ASSUME NEW s \in Mem(q) PROVE s \in Mem(d)
  <2>1. PICK k \in 1..Len(q) : s \in q[k].members
    BY <1>10
  <2>2. PICK i \in F : SameKey(q[k], q[i])
    BY KeyIsKept
  <2>3. PICK n \in 1..c : p[n] = i
    BY <1>4
  <2>4. s \in Merged(q, q[i])
    BY <1>9, <2>1, <2>2
  <2> QED
    BY <1>7, <1>10, <2>3, <2>4
<1>12. ASSUME NEW s \in Mem(d) PROVE s \in Mem(q)
  BY <1>7, <1>9, <1>10
<1>13. ASSUME Disj(q) PROVE Disj(d)
  <2> SUFFICES ASSUME NEW m \in 1..c, NEW n \in 1..c, m # n, NEW s,
                      s \in d[m].members, s \in d[n].members
               PROVE  FALSE
    BY <1>8 DEF Disj
  <2>1. PICK k \in 1..Len(q) : SameKey(q[k], q[p[m]]) /\ s \in q[k].members
    BY <1>7, <1>9
  <2>2. PICK j \in 1..Len(q) : SameKey(q[j], q[p[n]]) /\ s \in q[j].members
    BY <1>7, <1>9
  <2>3. k = j
    <3>1. q[k].members \cap q[j].members # {}
      BY <2>1, <2>2
    <3> QED
      BY <1>13, <3>1 DEF Disj
  <2>4. SameKey(q[p[m]], q[p[n]])
    BY <2>1, <2>2, <2>3 DEF SameKey
  <2>5. p[m] \in F /\ p[n] \in F /\ p[m] # p[n]
    BY <1>4
  <2> QED
    BY <2>4, <2>5, KeptOnce
<1> QED
  BY <1>4, <1>5, <1>8, <1>11, <1>12, <1>13

-----------------------------------------------------------------------------
(* How often a signal is counted, by whether it is counted at all.         *)
LEMMA TimesFact ==
  ASSUME NEW q \in Seq(QueuedSignal), Disj(q), NEW s
  PROVE  Times(s, q) = IF s \in Mem(q) THEN 1 ELSE 0
<1> DEFINE T == {i \in 1..Len(q) : s \in q[i].members}
<1>1. Times(s, q) = Cardinality(T)
  BY DEF Times
<1>2. CASE s \in Mem(q)
  <2>1. PICK i \in 1..Len(q) : s \in q[i].members
    BY <1>2 DEF Mem
  <2>2. ASSUME NEW j \in T PROVE j = i
    BY <2>1 DEF Disj
  <2>3. T = {i}
    BY <2>1, <2>2
  <2> QED
    BY <1>1, <1>2, <2>3, FS_Singleton
<1>3. CASE s \notin Mem(q)
  <2>1. T = {}
    BY <1>3 DEF Mem
  <2> QED
    BY <1>1, <1>3, <2>1, FS_EmptySet
<1> QED
  BY <1>2, <1>3

(* The same of a set of items.                                             *)
LEMMA InFact ==
  ASSUME NEW S, Alone(S), NEW s
  PROVE  In(s, S) = IF s \in Kept(S) THEN 1 ELSE 0
<1> DEFINE T == {x \in S : s \in x.members}
<1>1. In(s, S) = Cardinality(T)
  BY DEF In
<1>2. CASE s \in Kept(S)
  <2>1. PICK x \in S : s \in x.members
    BY <1>2 DEF Kept
  <2>2. ASSUME NEW y \in T PROVE y = x
    BY <2>1 DEF Alone
  <2>3. T = {x}
    BY <2>1, <2>2
  <2> QED
    BY <1>1, <1>2, <2>3, FS_Singleton
<1>3. CASE s \notin Kept(S)
  <2>1. T = {}
    BY <1>3 DEF Kept
  <2> QED
    BY <1>1, <1>3, <2>1, FS_EmptySet
<1> QED
  BY <1>2, <1>3

(* What is left of the flush.                                              *)
LEMMA LeftFact ==
  ASSUME SignalBasics
  PROVE  /\ Remaining = From(batch, pos) /\ Remaining \in Seq(QueuedSignal)
         /\ pos = Len(batch) => Remaining = << >>
<1>1. batch \in Seq(QueuedSignal) /\ pos \in 0..Len(batch) /\ Len(batch) \in Nat
  BY LenProperties DEF SignalBasics
<1>2. Remaining = From(batch, pos)
  BY DEF Remaining, From
<1>3. From(batch, pos) \in Seq(QueuedSignal) /\ Len(From(batch, pos)) = Len(batch) - pos
  BY <1>1, CutFact
<1> QED
  BY <1>1, <1>2, <1>3, EmptySeq

(* Counted by disjoint containers, each accepted signal is counted once.   *)
LEMMA AccountedFact ==
  ASSUME SignalInv PROVE AcceptedIsAccounted
<1> SUFFICES ASSUME NEW s \in accepted
             PROVE  Times(s, signalBatch) + Times(s, retryQueue)
                      + Times(s, Remaining)
                      + Times(s, rows) + In(s, skipped) + In(s, dropped) = 1
  BY DEF AcceptedIsAccounted
<1> DEFINE a == Mem(signalBatch)
           b == Mem(retryQueue)
           c == Mem(Remaining)
           d == Mem(rows)
           e == Kept(skipped)
           f == Kept(dropped)
<1>1. /\ Times(s, signalBatch) = IF s \in a THEN 1 ELSE 0
      /\ Times(s, retryQueue) = IF s \in b THEN 1 ELSE 0
      /\ Times(s, Remaining) = IF s \in c THEN 1 ELSE 0
      /\ Times(s, rows) = IF s \in d THEN 1 ELSE 0
  BY TimesFact, LeftFact DEF SignalInv, SignalBasics, Counted
<1>2. /\ In(s, skipped) = IF s \in e THEN 1 ELSE 0
      /\ In(s, dropped) = IF s \in f THEN 1 ELSE 0
  BY InFact DEF SignalInv, Counted
<1>3. Apart(a, b, c, d, e, f) /\ s \in a \cup b \cup c \cup d \cup e \cup f
  BY DEF SignalInv, Counted
<1> HIDE DEF a, b, c, d, e, f
<1>4. CASE s \in a
  <2>1. s \notin b /\ s \notin c /\ s \notin d /\ s \notin e /\ s \notin f
    BY <1>3, <1>4 DEF Apart
  <2> QED
    BY <1>1, <1>2, <1>4, <2>1
<1>5. CASE s \in b
  <2>1. s \notin a /\ s \notin c /\ s \notin d /\ s \notin e /\ s \notin f
    BY <1>3, <1>5 DEF Apart
  <2> QED
    BY <1>1, <1>2, <1>5, <2>1
<1>6. CASE s \in c
  <2>1. s \notin a /\ s \notin b /\ s \notin d /\ s \notin e /\ s \notin f
    BY <1>3, <1>6 DEF Apart
  <2> QED
    BY <1>1, <1>2, <1>6, <2>1
<1>7. CASE s \in d
  <2>1. s \notin a /\ s \notin b /\ s \notin c /\ s \notin e /\ s \notin f
    BY <1>3, <1>7 DEF Apart
  <2> QED
    BY <1>1, <1>2, <1>7, <2>1
<1>8. CASE s \in e
  <2>1. s \notin a /\ s \notin b /\ s \notin c /\ s \notin d /\ s \notin f
    BY <1>3, <1>8 DEF Apart
  <2> QED
    BY <1>1, <1>2, <1>8, <2>1
<1>9. CASE s \in f
  <2>1. s \notin a /\ s \notin b /\ s \notin c /\ s \notin d /\ s \notin e
    BY <1>3, <1>9 DEF Apart
  <2> QED
    BY <1>1, <1>2, <1>9, <2>1
<1> QED
  BY <1>3, <1>4, <1>5, <1>6, <1>7, <1>8, <1>9

(* The invariant includes the types.                                       *)
LEMMA TypedFact ==
  ASSUME SignalInv PROVE AggregatorTypeOK
<1>1. ASSUME NEW q \in Seq(QueuedSignal) PROVE IsItems(q)
  BY LenProperties, ElementOfSeq DEF IsItems
<1> QED
  BY <1>1 DEF SignalInv, SignalBasics, AggregatorTypeOK

-----------------------------------------------------------------------------
(* Nothing is queued or counted at first.                                  *)
LEMMA SignalsInit ==
  ASSUME AggregatorInit PROVE SignalInv
<1>1. << >> \in Seq(QueuedSignal) /\ Len(<< >>) = 0
  BY EmptySeq
<1>2. SignalBasics
  BY <1>1, AggregatorAssumption DEF AggregatorInit, SignalBasics
<1>3. Flushing
  BY <1>1 DEF AggregatorInit, Flushing, isFlushingBatch
<1>4. Remaining = << >>
  BY <1>1, <1>2, LeftFact DEF AggregatorInit
<1>5. Counted
  BY <1>4, NothingFact DEF AggregatorInit, Counted, Apart
<1> QED
  BY <1>2, <1>3, <1>5 DEF SignalInv

(* A step of anybody else.                                                 *)
LEMMA SignalsUnmoved ==
  ASSUME SignalInv, UNCHANGED aggregatorVars PROVE SignalInv'
<1>1. Remaining' = Remaining
  BY DEF aggregatorVars, Remaining
<1>2. SignalBasics'
  BY DEF SignalInv, SignalBasics, aggregatorVars, queues, outcome
<1>3. Flushing'
  BY DEF SignalInv, Flushing, isFlushingBatch, aggregatorVars, queues
<1>4. Counted'
  BY <1>1 DEF SignalInv, Counted, aggregatorVars, queues, outcome
<1> QED
  BY <1>2, <1>3, <1>4 DEF SignalInv

(* A flush begins: it takes over what the queues counted.                  *)
LEMMA TakenFact ==
  ASSUME NEW sb \in Seq(QueuedSignal), NEW rq \in Seq(QueuedSignal),
         sb # << >> \/ rq # << >>,
         Disj(sb), Disj(rq), Mem(sb) \cap Mem(rq) = {}, FlushBegins(sb, rq)
  PROVE  /\ batch' \in Seq(QueuedSignal) /\ pos' \in 0..Len(batch') /\ pos' < Len(batch')
         /\ Disj(Remaining') /\ Mem(Remaining') = Mem(sb) \cup Mem(rq)
<1> DEFINE q == sb \o rq
<1>1. q \in Seq(QueuedSignal) /\ Len(q) = Len(sb) + Len(rq)
  BY ConcatProperties
<1>2. q # << >>
  <2>1. /\ Len(sb) \in Nat /\ Len(rq) \in Nat /\ Len(<< >>) = 0
        /\ sb # << >> => Len(sb) # 0
        /\ rq # << >> => Len(rq) # 0
    BY LenProperties, EmptySeq
  <2>2. Len(q) # 0
    BY <1>1, <2>1
  <2> QED
    BY <2>1, <2>2
<1>3. Mem(q) = Mem(sb) \cup Mem(rq) /\ Disj(q)
  BY MemConcat
<1>4. batch' \in deduplicateSignals(q) /\ pos' = 0
  BY DEF FlushBegins
<1> HIDE DEF q
<1>5. /\ batch' \in Seq(QueuedSignal) /\ Len(batch') \in Nat \ {0}
      /\ Mem(batch') = Mem(q) /\ Disj(batch')
  BY <1>1, <1>2, <1>3, <1>4, DedupFact
<1>6. Remaining' = From(batch', 0)
  BY <1>4, <1>5 DEF Remaining, From
<1>7. First(batch', 0) = << >> /\ 0 \in 0..Len(batch')
  <2>1. 0 \in 0..Len(batch')
    BY <1>5
  <2>2. First(batch', 0) \in Seq(QueuedSignal) /\ Len(First(batch', 0)) = 0
    BY <1>5, <2>1, CutFact
  <2> QED
    BY <2>1, <2>2, EmptySeq
<1>8. Mem(batch') = Mem(From(batch', 0)) /\ Disj(From(batch', 0))
  <2>1. /\ Mem(batch') = Mem(First(batch', 0)) \cup Mem(From(batch', 0))
        /\ Disj(batch') => Disj(From(batch', 0))
    BY <1>5, <1>7, MemCut
  <2> QED
    BY <1>5, <1>7, <2>1, NothingFact
<1> QED
  BY <1>3, <1>4, <1>5, <1>6, <1>8

(* What a flush leaves behind in the queues when it begins.                *)
LEMMA BegunKeeps ==
  ASSUME SignalInv, NEW sb \in Seq(QueuedSignal), NEW rq \in Seq(QueuedSignal),
         sb # << >> \/ rq # << >>,
         Disj(sb), Disj(rq),
         Apart(Mem(sb), Mem(rq), {}, Mem(rows), Kept(skipped), Kept(dropped)),
         accepted' = Mem(sb) \cup Mem(rq) \cup Mem(rows) \cup Kept(skipped) \cup Kept(dropped),
         accepted' \subseteq Signal, rejected' \subseteq Signal,
         stop' \in {"no", "flushing", "done"},
         FlushBegins(sb, rq), UNCHANGED <<retryCount, outcome>>
  PROVE  SignalInv'
<1>1. /\ batch' \in Seq(QueuedSignal) /\ pos' \in 0..Len(batch') /\ pos' < Len(batch')
      /\ Disj(Remaining') /\ Mem(Remaining') = Mem(sb) \cup Mem(rq)
  BY TakenFact DEF Apart
<1>2. /\ phase' = StorePhase /\ phase' \in {"check", "create"}
      /\ signalBatch' = << >> /\ retryQueue' = << >>
  BY DEF FlushBegins, StorePhase
<1>3. << >> \in Seq(QueuedSignal) /\ Len(<< >>) = 0
  BY EmptySeq
<1>4. SignalBasics'
  BY <1>1, <1>2, <1>3, AggregatorAssumption DEF SignalInv, SignalBasics, outcome
<1>5. Flushing'
  BY <1>1, <1>2 DEF Flushing, isFlushingBatch
<1>6. Counted'
  BY <1>1, <1>2, NothingFact DEF SignalInv, Counted, outcome, Apart
<1> QED
  BY <1>4, <1>5, <1>6 DEF SignalInv

(* No flush is under way: nothing is left of one.                          *)
LEMMA IdleFact ==
  ASSUME SignalInv, ~isFlushingBatch
  PROVE  Remaining = << >> /\ Mem(Remaining) = {}
BY LeftFact, NothingFact DEF SignalInv, Flushing, isFlushingBatch

(* The item queueSignal makes of a signal.                                 *)
LEMMA NewItem ==
  ASSUME NEW s \in Signal, NEW x, x = [head |-> s, members |-> {s}]
  PROVE  x \in QueuedSignal /\ x.members = {s}
BY DEF QueuedSignal

-----------------------------------------------------------------------------
(* queueSignal, in its three outcomes.                                     *)
LEMMA QueueKeeps ==
  ASSUME SignalInv, NEW s \in Signal, queueSignal(s) PROVE SignalInv'
<1>0. /\ s \notin accepted /\ stop = "no"
      /\ retryCount' = retryCount /\ seen' = seen /\ rows' = rows /\ skipped' = skipped
      /\ dropped' = dropped /\ stop' = stop
  BY DEF queueSignal, outcome
<1> DEFINE x == [head |-> s, members |-> {s}]
<1>x. x \in QueuedSignal /\ x.members = {s}
  BY NewItem
<1>n. /\ Len(signalBatch) \in Nat /\ Len(retryQueue) \in Nat
      /\ signalBatch \in Seq(QueuedSignal) /\ retryQueue \in Seq(QueuedSignal)
  BY LenProperties DEF SignalInv, SignalBasics
<1> HIDE DEF x
<1>1. CASE Reject(s)
  <2>1. /\ rejected' = rejected \cup {s} /\ accepted' = accepted /\ phase' = phase
        /\ signalBatch' = signalBatch /\ retryQueue' = retryQueue /\ batch' = batch /\ pos' = pos
    BY <1>1 DEF Reject, queues
  <2>2. Remaining' = Remaining
    BY <2>1 DEF Remaining
  <2>3. SignalBasics'
    BY <1>0, <2>1 DEF SignalInv, SignalBasics
  <2>4. Flushing'
    BY <2>1 DEF SignalInv, Flushing, isFlushingBatch
  <2>5. Counted'
    BY <1>0, <2>1, <2>2 DEF SignalInv, Counted
  <2> QED
    BY <2>3, <2>4, <2>5 DEF SignalInv
<1>2. CASE QueueDuringFlush(s)
  <2>1. /\ rejected' = rejected /\ accepted' = accepted \cup {s} /\ phase' = phase
        /\ signalBatch' = signalBatch /\ batch' = batch /\ pos' = pos
        /\ retryQueue' = Append(retryQueue, x) /\ ~Full
    BY <1>2 DEF QueueDuringFlush, x
  <2>2. Remaining' = Remaining
    BY <2>1 DEF Remaining
  <2>3. /\ retryQueue' \in Seq(QueuedSignal) /\ Len(retryQueue') = Len(retryQueue) + 1
        /\ Mem(retryQueue') = Mem(retryQueue) \cup {s}
    BY <1>x, <1>n, <2>1, AppendFact, MemAppend
  <2>4. Disj(retryQueue')
    <3>1. Disj(retryQueue) /\ x.members \cap Mem(retryQueue) = {}
      BY <1>0, <1>x DEF SignalInv, Counted
    <3> QED
      BY <1>x, <1>n, <2>1, <3>1, MemAppend
  <2>5. Len(signalBatch') + Len(retryQueue') <= MaxQueueSize
    BY <1>n, <2>1, <2>3, AggregatorAssumption DEF Full
  <2>6. SignalBasics'
    BY <1>0, <2>1, <2>3, <2>5 DEF SignalInv, SignalBasics
  <2>7. Flushing'
    BY <2>1 DEF SignalInv, Flushing, isFlushingBatch
  <2>8. Counted'
    <3>1. /\ Disj(signalBatch') /\ Disj(retryQueue') /\ Disj(Remaining') /\ Disj(rows')
          /\ Alone(skipped') /\ Alone(dropped')
      BY <1>0, <2>1, <2>2, <2>4 DEF SignalInv, Counted
    <3>2. Apart(Mem(signalBatch'), Mem(retryQueue'), Mem(Remaining'), Mem(rows'),
                Kept(skipped'), Kept(dropped'))
      BY <1>0, <2>1, <2>2, <2>3 DEF SignalInv, Counted, Apart
    <3>3. accepted' = Mem(signalBatch') \cup Mem(retryQueue') \cup Mem(Remaining')
                        \cup Mem(rows') \cup Kept(skipped') \cup Kept(dropped')
      BY <1>0, <2>1, <2>2, <2>3 DEF SignalInv, Counted
    <3> QED
      BY <3>1, <3>2, <3>3 DEF Counted
  <2> QED
    BY <2>6, <2>7, <2>8 DEF SignalInv
<1>3. CASE QueueInBatch(s)
  <2> DEFINE sb == Append(signalBatch, x)
  <2>1. /\ rejected' = rejected /\ accepted' = accepted \cup {s} /\ ~Full /\ ~isFlushingBatch
        /\ IF Len(sb) >= BatchSize
           THEN FlushBegins(sb, retryQueue)
           ELSE signalBatch' = sb /\ UNCHANGED <<retryQueue, phase, batch, pos>>
    BY <1>3 DEF QueueInBatch, x
  <2>2. /\ sb \in Seq(QueuedSignal) /\ Len(sb) = Len(signalBatch) + 1
        /\ Mem(sb) = Mem(signalBatch) \cup {s}
    BY <1>x, <1>n, AppendFact, MemAppend
  <2>3. Disj(sb)
    <3>1. Disj(signalBatch) /\ x.members \cap Mem(signalBatch) = {}
      BY <1>0, <1>x DEF SignalInv, Counted
    <3> QED
      BY <1>x, <1>n, <3>1, MemAppend
  <2> HIDE DEF sb
  <2>4. Mem(Remaining) = {}
    BY <2>1, IdleFact
  <2>5. /\ Apart(Mem(sb), Mem(retryQueue), {}, Mem(rows), Kept(skipped), Kept(dropped))
        /\ accepted' = Mem(sb) \cup Mem(retryQueue) \cup Mem(rows)
                         \cup Kept(skipped) \cup Kept(dropped)
    BY <1>0, <2>1, <2>2, <2>4 DEF SignalInv, Counted, Apart
  <2>6. accepted' \subseteq Signal /\ rejected' \subseteq Signal
    BY <2>1 DEF SignalInv, SignalBasics
  <2>7. CASE Len(sb) >= BatchSize
    <3>1. sb # << >>
      BY <1>n, <2>2, EmptySeq
    <3>2. stop' \in {"no", "flushing", "done"} /\ UNCHANGED <<retryCount, outcome>>
      BY <1>0 DEF outcome
    <3>3. FlushBegins(sb, retryQueue) /\ Disj(retryQueue)
      BY <2>1, <2>7 DEF SignalInv, Counted
    <3> QED
      BY <1>n, <2>2, <2>3, <2>5, <2>6, <3>1, <3>2, <3>3, BegunKeeps
  <2>8. CASE ~(Len(sb) >= BatchSize)
    <3>1. /\ signalBatch' = sb /\ retryQueue' = retryQueue /\ phase' = phase /\ batch' = batch
          /\ pos' = pos
      BY <2>1, <2>8
    <3>2. Remaining' = Remaining
      BY <3>1 DEF Remaining
    <3>3. Len(signalBatch') + Len(retryQueue') <= MaxQueueSize
      BY <1>n, <2>1, <2>2, <3>1, AggregatorAssumption DEF Full
    <3>4. SignalBasics'
      BY <1>0, <2>2, <2>6, <3>1, <3>3 DEF SignalInv, SignalBasics
    <3>5. Flushing'
      BY <2>1, <3>1 DEF SignalInv, Flushing, isFlushingBatch
    <3>6. Counted'
      BY <1>0, <2>3, <2>4, <2>5, <3>1, <3>2 DEF SignalInv, Counted
    <3> QED
      BY <3>4, <3>5, <3>6 DEF SignalInv
  <2> QED
    BY <2>7, <2>8
<1> QED
  BY <1>1, <1>2, <1>3 DEF queueSignal

(* The timer and stop() begin a flush of the queues as they are.           *)
LEMMA FlushKeeps ==
  ASSUME SignalInv, ~isFlushingBatch, Waiting,
         FlushBegins(signalBatch, retryQueue),
         stop' \in {"no", "flushing", "done"},
         UNCHANGED <<retryCount, outcome, accepted, rejected>>
  PROVE  SignalInv'
<1>1. Mem(Remaining) = {}
  BY IdleFact
<1>2. /\ Apart(Mem(signalBatch), Mem(retryQueue), {}, Mem(rows), Kept(skipped), Kept(dropped))
      /\ accepted' = Mem(signalBatch) \cup Mem(retryQueue) \cup Mem(rows)
                       \cup Kept(skipped) \cup Kept(dropped)
  BY <1>1 DEF SignalInv, Counted
<1>3. /\ signalBatch \in Seq(QueuedSignal) /\ retryQueue \in Seq(QueuedSignal)
      /\ signalBatch # << >> \/ retryQueue # << >>
      /\ Disj(signalBatch) /\ Disj(retryQueue)
      /\ accepted' \subseteq Signal /\ rejected' \subseteq Signal
      /\ UNCHANGED <<retryCount, outcome>>
  BY DEF SignalInv, SignalBasics, Counted, Waiting
<1> QED
  BY <1>2, <1>3, BegunKeeps

(* stop() with something to flush, and without.                            *)
LEMMA StopKeeps ==
  ASSUME SignalInv, Stop PROVE SignalInv'
<1>1. CASE ~isFlushingBatch /\ Waiting
  <2>1. /\ FlushBegins(signalBatch, retryQueue) /\ stop' \in {"no", "flushing", "done"}
        /\ UNCHANGED <<retryCount, outcome, accepted, rejected>>
    BY <1>1 DEF Stop
  <2> QED
    BY <1>1, <2>1, FlushKeeps
<1>2. CASE ~(~isFlushingBatch /\ Waiting)
  <2>1. /\ stop' = "done" /\ signalBatch' = signalBatch /\ retryQueue' = retryQueue
        /\ phase' = phase /\ batch' = batch /\ pos' = pos /\ retryCount' = retryCount
        /\ seen' = seen /\ rows' = rows /\ skipped' = skipped /\ dropped' = dropped
        /\ accepted' = accepted /\ rejected' = rejected
    BY <1>2 DEF Stop, queues, outcome
  <2>2. Remaining' = Remaining
    BY <2>1 DEF Remaining
  <2>3. SignalBasics'
    BY <2>1 DEF SignalInv, SignalBasics
  <2>4. Flushing'
    BY <2>1 DEF SignalInv, Flushing, isFlushingBatch
  <2>5. Counted'
    BY <2>1, <2>2 DEF SignalInv, Counted
  <2> QED
    BY <2>3, <2>4, <2>5 DEF SignalInv
<1> QED
  BY <1>1, <1>2

(* The idempotency store records a key; the item is still to be created.   *)
LEMMA KeyIsNewKeeps ==
  ASSUME SignalInv, KeyIsNew PROVE SignalInv'
<1>1. /\ phase = "check" /\ phase' = "create" /\ seen' = seen \cup {IdemKey[Current.head]}
      /\ signalBatch' = signalBatch /\ retryQueue' = retryQueue
      /\ batch' = batch /\ pos' = pos /\ retryCount' = retryCount
      /\ rows' = rows /\ skipped' = skipped /\ dropped' = dropped
      /\ accepted' = accepted /\ rejected' = rejected /\ stop' = stop
  BY DEF KeyIsNew, queues
<1>2. Remaining' = Remaining
  BY <1>1 DEF Remaining
<1>3. Current.head \in Signal
  <2>1. batch \in Seq(QueuedSignal) /\ pos \in 0..Len(batch) /\ pos < Len(batch)
    BY <1>1 DEF SignalInv, SignalBasics, Flushing
  <2>2. Current \in QueuedSignal
    BY <2>1, MemNext DEF Current
  <2> QED
    BY <2>2 DEF QueuedSignal
<1>4. SignalBasics'
  BY <1>1, <1>3 DEF SignalInv, SignalBasics
<1>5. Flushing'
  BY <1>1 DEF SignalInv, Flushing, isFlushingBatch
<1>6. Counted'
  BY <1>1, <1>2 DEF SignalInv, Counted
<1> QED
  BY <1>4, <1>5, <1>6 DEF SignalInv

(* One item of the flush is done.                                          *)
LEMMA AdvanceFact ==
  ASSUME SignalInv, Advance, phase \in {"check", "create"}
  PROVE  /\ Current \in QueuedSignal /\ pos' \in 0..Len(batch') /\ Flushing'
         /\ phase' \in {"idle", "check", "create", "correlate"}
         /\ Mem(Remaining) = Current.members \cup Mem(Remaining')
         /\ Current.members \cap Mem(Remaining') = {} /\ Disj(Remaining')
<1>1. batch \in Seq(QueuedSignal) /\ pos \in 0..Len(batch) /\ pos < Len(batch) /\ Len(batch) \in Nat
  BY LenProperties DEF SignalInv, SignalBasics, Flushing
<1>2. /\ pos' = pos + 1 /\ batch' = batch
      /\ phase' = IF pos + 1 < Len(batch) THEN StorePhase ELSE "correlate"
      /\ signalBatch' = signalBatch
  BY DEF Advance, queues
<1>3. Remaining = From(batch, pos) /\ Remaining' = From(batch, pos + 1)
  BY <1>2 DEF Remaining, From
<1>4. Disj(Remaining) /\ signalBatch = << >>
  BY DEF SignalInv, Counted, Flushing, isFlushingBatch
<1>5. /\ Current \in QueuedSignal /\ pos + 1 \in 0..Len(batch)
      /\ Mem(Remaining) = Current.members \cup Mem(Remaining')
      /\ Current.members \cap Mem(Remaining') = {} /\ Disj(Remaining')
  BY <1>1, <1>3, <1>4, MemNext DEF Current
<1>6. StorePhase \in {"check", "create"}
  BY DEF StorePhase
<1>7. Flushing'
  <2>1. CASE pos + 1 < Len(batch)
    BY <1>2, <1>4, <1>6, <2>1 DEF Flushing
  <2>2. CASE ~(pos + 1 < Len(batch))
    <3>1. pos + 1 = Len(batch)
      BY <1>1, <2>2
    <3> QED
      BY <1>2, <1>4, <2>2, <3>1 DEF Flushing
  <2> QED
    BY <2>1, <2>2
<1> QED
  BY <1>2, <1>5, <1>6, <1>7

(* A duplicate: the item moves from the flush to what was skipped.         *)
LEMMA KeyIsUsedKeeps ==
  ASSUME SignalInv, KeyIsUsed PROVE SignalInv'
<1>1. /\ Advance /\ phase \in {"check", "create"} /\ skipped' = skipped \cup {Current}
      /\ seen' = seen /\ rows' = rows /\ dropped' = dropped
      /\ signalBatch' = signalBatch /\ retryQueue' = retryQueue
      /\ batch' = batch /\ retryCount' = retryCount
      /\ accepted' = accepted /\ rejected' = rejected /\ stop' = stop
  BY DEF KeyIsUsed, Advance, queues
<1>2. /\ Current \in QueuedSignal /\ pos' \in 0..Len(batch') /\ Flushing'
      /\ phase' \in {"idle", "check", "create", "correlate"}
      /\ Mem(Remaining) = Current.members \cup Mem(Remaining')
      /\ Current.members \cap Mem(Remaining') = {} /\ Disj(Remaining')
  BY <1>1, AdvanceFact
<1>3. SignalBasics'
  BY <1>1, <1>2 DEF SignalInv, SignalBasics
<1>4. Kept(skipped) \cap Current.members = {} /\ Alone(skipped)
  BY <1>2 DEF SignalInv, Counted, Apart
<1>5. Kept(skipped') = Kept(skipped) \cup Current.members /\ Alone(skipped')
  BY <1>1, <1>4, KeptAdd
<1>6. Counted'
  <2>1. /\ Disj(signalBatch') /\ Disj(retryQueue') /\ Disj(Remaining') /\ Disj(rows')
        /\ Alone(skipped') /\ Alone(dropped')
    BY <1>1, <1>2, <1>5 DEF SignalInv, Counted
  <2>2. Apart(Mem(signalBatch'), Mem(retryQueue'), Mem(Remaining'), Mem(rows'),
              Kept(skipped'), Kept(dropped'))
    BY <1>1, <1>2, <1>5 DEF SignalInv, Counted, Apart
  <2>3. accepted' = Mem(signalBatch') \cup Mem(retryQueue') \cup Mem(Remaining')
                      \cup Mem(rows') \cup Kept(skipped') \cup Kept(dropped')
    BY <1>1, <1>2, <1>5 DEF SignalInv, Counted
  <2> QED
    BY <2>1, <2>2, <2>3 DEF Counted
<1> QED
  BY <1>2, <1>3, <1>6 DEF SignalInv

(* A row: the item moves from the flush to what is stored.                 *)
LEMMA CreateKeeps ==
  ASSUME SignalInv, Create PROVE SignalInv'
<1>1. /\ Advance /\ phase \in {"check", "create"} /\ rows' = Append(rows, Current)
      /\ seen' = seen /\ skipped' = skipped /\ dropped' = dropped
      /\ signalBatch' = signalBatch /\ retryQueue' = retryQueue
      /\ batch' = batch /\ retryCount' = retryCount
      /\ accepted' = accepted /\ rejected' = rejected /\ stop' = stop
  BY DEF Create, Advance, queues
<1>2. /\ Current \in QueuedSignal /\ pos' \in 0..Len(batch') /\ Flushing'
      /\ phase' \in {"idle", "check", "create", "correlate"}
      /\ Mem(Remaining) = Current.members \cup Mem(Remaining')
      /\ Current.members \cap Mem(Remaining') = {} /\ Disj(Remaining')
  BY <1>1, AdvanceFact
<1>3. rows \in Seq(QueuedSignal) /\ Disj(rows) /\ Current.members \cap Mem(rows) = {}
  BY <1>2 DEF SignalInv, SignalBasics, Counted, Apart
<1>4. rows' \in Seq(QueuedSignal)
  BY <1>1, <1>2, <1>3, AppendFact
<1>5. Mem(rows') = Mem(rows) \cup Current.members /\ Disj(rows')
  BY <1>1, <1>2, <1>3, MemAppend
<1>6. SignalBasics'
  BY <1>1, <1>2, <1>4 DEF SignalInv, SignalBasics
<1>7. Counted'
  <2>1. /\ Disj(signalBatch') /\ Disj(retryQueue') /\ Disj(Remaining') /\ Disj(rows')
        /\ Alone(skipped') /\ Alone(dropped')
    BY <1>1, <1>2, <1>5 DEF SignalInv, Counted
  <2>2. Apart(Mem(signalBatch'), Mem(retryQueue'), Mem(Remaining'), Mem(rows'),
              Kept(skipped'), Kept(dropped'))
    BY <1>1, <1>2, <1>5 DEF SignalInv, Counted, Apart
  <2>3. accepted' = Mem(signalBatch') \cup Mem(retryQueue') \cup Mem(Remaining')
                      \cup Mem(rows') \cup Kept(skipped') \cup Kept(dropped')
    BY <1>1, <1>2, <1>5 DEF SignalInv, Counted
  <2> QED
    BY <2>1, <2>2, <2>3 DEF Counted
<1> QED
  BY <1>2, <1>6, <1>7 DEF SignalInv

(* The flush is over: nothing is left of it.                               *)
LEMMA EndFact ==
  ASSUME SignalInv, FlushEnds
  PROVE  /\ batch' = << >> /\ batch' \in Seq(QueuedSignal) /\ pos' \in 0..Len(batch') /\ Flushing'
         /\ phase' \in {"idle", "check", "create", "correlate"}
         /\ stop' \in {"no", "flushing", "done"}
         /\ Remaining' = << >>
<1>1. batch' = << >> /\ pos' = 0 /\ phase' = "idle"
  BY DEF FlushEnds
<1>2. << >> \in Seq(QueuedSignal) /\ Len(<< >>) = 0 /\ 0 \in 0..0
  BY EmptySeq
<1>3. stop' \in {"no", "flushing", "done"}
  BY DEF FlushEnds, SignalInv, SignalBasics
<1>4. Flushing'
  BY <1>1, <1>2 DEF Flushing, isFlushingBatch
<1>5. Remaining' = From(batch', pos')
  BY DEF Remaining, From
<1>6. ASSUME NEW q \in Seq(QueuedSignal), Len(q) = 0 PROVE From(q, 0) = << >>
  <2>1. From(q, 0) \in Seq(QueuedSignal) /\ Len(From(q, 0)) = 0
    <3>1. 0 \in 0..Len(q) /\ Len(q) - 0 = 0
      BY <1>6
    <3> QED
      BY <3>1, CutFact
  <2> QED
    BY <2>1, EmptySeq
<1>7. batch' \in Seq(QueuedSignal) /\ Len(batch') = 0
  BY <1>1, <1>2
<1>8. Remaining' = << >>
  BY <1>1, <1>5, <1>6, <1>7
<1> QED
  BY <1>1, <1>2, <1>3, <1>4, <1>8

(* The flush succeeds: nothing was left of it, and what arrived meanwhile  *)
(* stays.                                                                  *)
LEMMA CorrelateKeeps ==
  ASSUME SignalInv, Correlate PROVE SignalInv'
<1>1. /\ FlushEnds /\ phase = "correlate" /\ retryCount' = 0 /\ retryQueue' = retryQueue
      /\ seen' = seen /\ rows' = rows /\ skipped' = skipped /\ dropped' = dropped
      /\ signalBatch' = signalBatch /\ accepted' = accepted /\ rejected' = rejected
  BY DEF Correlate, FlushEnds, AfterSuccess
<1>2. /\ batch' = << >> /\ batch' \in Seq(QueuedSignal) /\ pos' \in 0..Len(batch') /\ Flushing'
      /\ phase' \in {"idle", "check", "create", "correlate"}
      /\ stop' \in {"no", "flushing", "done"}
      /\ Remaining' = << >>
  BY <1>1, EndFact
<1>3. Remaining = << >>
  BY <1>1, LeftFact DEF SignalInv, Flushing
<1>4. SignalBasics'
  BY <1>1, <1>2, AggregatorAssumption DEF SignalInv, SignalBasics
<1>5. Counted'
  BY <1>1, <1>2, <1>3 DEF SignalInv, Counted
<1> QED
  BY <1>2, <1>4, <1>5 DEF SignalInv

(* The flush fails: what is left of it is dropped, or goes back in front   *)
(* of what arrived meanwhile, of which the oldest may fall off.            *)
LEMMA FailureKeeps ==
  ASSUME SignalInv, FlushBatchFails PROVE SignalInv'
<1> DEFINE combined == Remaining \o retryQueue
           n == Overflow(combined)
<1>1. /\ FlushEnds /\ isFlushingBatch /\ seen' = seen /\ rows' = rows /\ skipped' = skipped
      /\ signalBatch' = signalBatch /\ accepted' = accepted /\ rejected' = rejected
  BY DEF FlushBatchFails, FlushEnds
<1>2. /\ batch' = << >> /\ batch' \in Seq(QueuedSignal) /\ pos' \in 0..Len(batch') /\ Flushing'
      /\ phase' \in {"idle", "check", "create", "correlate"}
      /\ stop' \in {"no", "flushing", "done"}
      /\ Remaining' = << >>
  BY <1>1, EndFact
<1>3. /\ Remaining \in Seq(QueuedSignal) /\ retryQueue \in Seq(QueuedSignal)
      /\ signalBatch = << >> /\ Len(signalBatch) = 0
  BY <1>1, LeftFact, EmptySeq DEF SignalInv, SignalBasics, Flushing
<1>4. CASE GivesUp
  <2>1. /\ dropped' = dropped \cup ToSet(Remaining) /\ retryCount' = 0
        /\ retryQueue' = retryQueue
    BY <1>4 DEF FlushBatchFails
  <2>2. Kept(ToSet(Remaining)) = Mem(Remaining) /\ Alone(ToSet(Remaining))
        /\ ToSet(Remaining) \subseteq QueuedSignal
    BY <1>3, KeptFact, SetOf DEF SignalInv, Counted
  <2>3. Alone(dropped) /\ Kept(dropped) \cap Kept(ToSet(Remaining)) = {}
    BY <2>2 DEF SignalInv, Counted, Apart
  <2>4. Kept(dropped') = Kept(dropped) \cup Mem(Remaining) /\ Alone(dropped')
    BY <2>1, <2>2, <2>3, KeptUnion
  <2>5. SignalBasics'
    BY <1>1, <1>2, <2>1, <2>2, AggregatorAssumption DEF SignalInv, SignalBasics
  <2>6. Counted'
    <3>1. /\ Disj(signalBatch') /\ Disj(retryQueue') /\ Disj(Remaining') /\ Disj(rows')
          /\ Alone(skipped') /\ Alone(dropped') /\ Mem(Remaining') = {}
      BY <1>1, <1>2, <2>1, <2>4, NothingFact DEF SignalInv, Counted
    <3>2. Apart(Mem(signalBatch'), Mem(retryQueue'), Mem(Remaining'), Mem(rows'),
                Kept(skipped'), Kept(dropped'))
      BY <1>1, <2>1, <2>4, <3>1 DEF SignalInv, Counted, Apart
    <3>3. accepted' = Mem(signalBatch') \cup Mem(retryQueue') \cup Mem(Remaining')
                        \cup Mem(rows') \cup Kept(skipped') \cup Kept(dropped')
      BY <1>1, <2>1, <2>4, <3>1 DEF SignalInv, Counted
    <3> QED
      BY <3>1, <3>2, <3>3 DEF Counted
  <2> QED
    BY <1>2, <2>5, <2>6 DEF SignalInv
<1>5. CASE ~GivesUp
  <2>1. /\ retryCount' = retryCount + 1
        /\ retryQueue' = From(combined, n)
        /\ dropped' = dropped \cup ToSet(First(combined, n))
    BY <1>5 DEF FlushBatchFails, From, First
  <2>2. /\ combined \in Seq(QueuedSignal) /\ Mem(combined) = Mem(Remaining) \cup Mem(retryQueue)
        /\ Len(combined) \in Nat
    BY <1>3, ConcatProperties, MemConcat, LenProperties
  <2>3. Disj(combined)
    <3>1. Disj(Remaining) /\ Disj(retryQueue) /\ Mem(Remaining) \cap Mem(retryQueue) = {}
      BY DEF SignalInv, Counted, Apart
    <3> QED
      BY <1>3, <3>1, MemConcat
  <2> HIDE DEF combined
  <2>4. n \in 0..Len(combined) /\ Len(combined) - n <= MaxQueueSize
    BY <2>2, AggregatorAssumption DEF Overflow
  <2> DEFINE lost == First(combined, n)
             kept == From(combined, n)
  <2> HIDE DEF n
  <2>5. /\ lost \in Seq(QueuedSignal) /\ kept \in Seq(QueuedSignal) /\ Len(kept) = Len(combined) - n
    BY <2>2, <2>4, CutFact
  <2>6. /\ Mem(combined) = Mem(lost) \cup Mem(kept)
        /\ Disj(lost) /\ Disj(kept) /\ Mem(lost) \cap Mem(kept) = {}
    BY <2>2, <2>3, <2>4, MemCut
  <2>7. retryQueue' = kept /\ dropped' = dropped \cup ToSet(lost)
    BY <2>1
  <2> HIDE DEF lost, kept
  <2>8. Kept(ToSet(lost)) = Mem(lost) /\ Alone(ToSet(lost)) /\ ToSet(lost) \subseteq QueuedSignal
    BY <2>5, <2>6, KeptFact, SetOf
  <2>9. Alone(dropped) /\ Kept(dropped) \cap Kept(ToSet(lost)) = {}
    BY <2>2, <2>6, <2>8 DEF SignalInv, Counted, Apart
  <2>10. Kept(dropped') = Kept(dropped) \cup Mem(lost) /\ Alone(dropped')
    BY <2>7, <2>8, <2>9, KeptUnion
  <2>11. retryCount' \in 0..(MaxFlushRetries - 1)
    BY <1>5, <2>1, AggregatorAssumption DEF SignalInv, SignalBasics, GivesUp
  <2>12. Len(signalBatch') + Len(retryQueue') <= MaxQueueSize
    BY <1>1, <1>3, <2>2, <2>4, <2>5, <2>7, AggregatorAssumption
  <2>13. SignalBasics'
    BY <1>1, <1>2, <2>5, <2>7, <2>8, <2>11, <2>12 DEF SignalInv, SignalBasics
  <2>14. Counted'
    <3>1. /\ Disj(signalBatch') /\ Disj(retryQueue') /\ Disj(Remaining') /\ Disj(rows')
          /\ Alone(skipped') /\ Alone(dropped') /\ Mem(Remaining') = {}
      BY <1>1, <1>2, <2>6, <2>7, <2>10, NothingFact DEF SignalInv, Counted
    <3>2. Apart(Mem(signalBatch'), Mem(retryQueue'), Mem(Remaining'), Mem(rows'),
                Kept(skipped'), Kept(dropped'))
      BY <1>1, <2>2, <2>6, <2>7, <2>10, <3>1 DEF SignalInv, Counted, Apart
    <3>3. accepted' = Mem(signalBatch') \cup Mem(retryQueue') \cup Mem(Remaining')
                        \cup Mem(rows') \cup Kept(skipped') \cup Kept(dropped')
      BY <1>1, <2>2, <2>6, <2>7, <2>10, <3>1 DEF SignalInv, Counted
    <3> QED
      BY <3>1, <3>2, <3>3 DEF Counted
  <2> QED
    BY <1>2, <2>13, <2>14 DEF SignalInv
<1> QED
  BY <1>4, <1>5

(* Every step of the aggregator preserves the invariant.                   *)
LEMMA SignalStepKeeps ==
  ASSUME SignalInv, [AggregatorNext]_aggregatorVars PROVE SignalInv'
<1>1. ASSUME NEW s \in Signal, queueSignal(s) PROVE SignalInv'
  BY <1>1, QueueKeeps
<1>2. CASE BatchTimer
  <2>1. stop' \in {"no", "flushing", "done"}
    BY <1>2 DEF BatchTimer
  <2> QED
    BY <1>2, <2>1, FlushKeeps DEF BatchTimer
<1>3. CASE FlushBatchStep
  BY <1>3, KeyIsNewKeeps, KeyIsUsedKeeps, CreateKeeps, CorrelateKeeps, FailureKeeps
  DEF FlushBatchStep
<1>4. CASE Stop
  BY <1>4, StopKeeps
<1>5. CASE UNCHANGED aggregatorVars
  BY <1>5, SignalsUnmoved
<1> QED
  BY <1>1, <1>2, <1>3, <1>4, <1>5 DEF AggregatorNext

(* For every configuration, the two queues of the aggregator together      *)
(* never exceed maxQueueSize, not even when a failed flush puts its items  *)
(* back, and retryCount stays below maxRetries (queueSignal and the catch  *)
(* block of flushBatch).                                                   *)
THEOREM SignalsTyped == AggregatorSpec => []AggregatorTypeOK
<1>1. AggregatorInit => SignalInv
  BY SignalsInit
<1>2. SignalInv /\ [AggregatorNext]_aggregatorVars => SignalInv'
  BY SignalStepKeeps
<1>3. SignalInv => AggregatorTypeOK
  BY TypedFact
<1> QED
  BY <1>1, <1>2, <1>3, PTL DEF AggregatorSpec

(* For every configuration and however flushes, arrivals, failures and     *)
(* stop() interleave, each signal queueSignal has accepted is counted      *)
(* exactly once: waiting, in what is left of the flush, in a row, as a     *)
(* duplicate or as dropped (queueSignal, flushBatch, deduplicateSignals).  *)
THEOREM SignalsAccounted == AggregatorSpec => []AcceptedIsAccounted
<1>1. AggregatorInit => SignalInv
  BY SignalsInit
<1>2. SignalInv /\ [AggregatorNext]_aggregatorVars => SignalInv'
  BY SignalStepKeeps
<1>3. SignalInv => AcceptedIsAccounted
  BY AccountedFact
<1> QED
  BY <1>1, <1>2, <1>3, PTL DEF AggregatorSpec
=============================================================================
