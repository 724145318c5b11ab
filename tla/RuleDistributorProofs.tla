------------------------ MODULE RuleDistributorProofs ------------------------
(***************************************************************************)
(* Proofs about the rule distributor: scheduled deployments are executed   *)
(* at most once, a rolling rollout that goes wrong stops early, and a      *)
(* rollout that is done has tried every sensor.  They hold for any number  *)
(* of sensors, deployments, restarts and cancellations, any batch size,    *)
(* failure limit and canary percentage.                                    *)
(***************************************************************************)
EXTENDS RuleDistributor, FiniteSetTheorems, SequenceTheorems, TLAPS

(* Scheduled deployments                                                   *)

ScheduleTypes ==
  /\ row \in [Deployment -> Schedule!RowStatus \union {"none"}]
  /\ timer \subseteq Deployment
  /\ executing \in [Deployment -> Schedule!Stage]
  /\ executions \in [Deployment -> Nat]

(* A deployment that still waits to be pushed: by its timer, by an         *)
(* execution under way, or by the recovery of its row.                     *)
MayBePushed(d) ==
  \/ row[d] \in {"none", "PENDING"}
  \/ d \in timer
  \/ executing[d] \in {"marking", "deploying"}

(* Until the rules are pushed the count is zero; an execution that is      *)
(* about to push them has left PENDING behind, and no timer runs with it.  *)
Unpushed(d) ==
  /\ MayBePushed(d) => executions[d] = 0
  /\ executing[d] \in {"deploying", "recording"} => row[d] \notin {"none", "PENDING"}
  /\ d \in timer => executing[d] = "no"
  /\ row[d] = "none" => d \notin timer /\ executing[d] = "no"
  /\ executions[d] <= 1

ScheduleInv == ScheduleTypes /\ \A d \in Deployment : Unpushed(d)

LEMMA ScheduleInit == Schedule!Init => ScheduleInv
BY DEF Schedule!Init, ScheduleInv, ScheduleTypes, Unpushed, MayBePushed, Schedule!Stage,
       Schedule!RowStatus

(* Every operation on scheduled deployments, and a restart with or without *)
(* the recovery, preserves the invariant.                                  *)
LEMMA ScheduleNext == ScheduleInv /\ [Schedule!Next]_(Schedule!vars) => ScheduleInv'
<1> SUFFICES ASSUME ScheduleInv, [Schedule!Next]_(Schedule!vars) PROVE ScheduleInv'
  OBVIOUS
<1> USE DEF ScheduleInv, ScheduleTypes, Unpushed, MayBePushed, Schedule!Stage,
            Schedule!RowStatus
<1>1. ASSUME NEW d \in Deployment, Schedule!deployScheduled(d) PROVE ScheduleInv'
  BY <1>1 DEF Schedule!deployScheduled
<1>2. ASSUME NEW d \in Deployment, Schedule!TimerFires(d) PROVE ScheduleInv'
  BY <1>2 DEF Schedule!TimerFires, Schedule!Executes
<1>3. ASSUME NEW d \in Deployment, Schedule!Mark(d) PROVE ScheduleInv'
  BY <1>3 DEF Schedule!Mark, Schedule!MarkExecuting, Schedule!Executes
<1>4. ASSUME NEW d \in Deployment, Schedule!Deploy(d) PROVE ScheduleInv'
  BY <1>4 DEF Schedule!Deploy, Schedule!Executes
<1>5. ASSUME NEW d \in Deployment, Schedule!Record(d) PROVE ScheduleInv'
  BY <1>5 DEF Schedule!Record, Schedule!Executes
<1>6. ASSUME NEW d \in Deployment, Schedule!CancelStep(d) PROVE ScheduleInv'
  BY <1>6 DEF Schedule!CancelStep, Schedule!CancelReads, Schedule!CancelChecks,
     Schedule!CancelWrites
<1>7. CASE Schedule!Restart
  BY <1>7 DEF Schedule!Restart, Schedule!Pending
<1>8. CASE UNCHANGED Schedule!vars
  BY <1>8 DEF Schedule!vars
<1> QED
  BY <1>1, <1>2, <1>3, <1>4, <1>5, <1>6, <1>7, <1>8 DEF Schedule!Next, Schedule!ExecuteStep

(* The rules of a scheduled deployment are pushed at most once, whatever   *)
(* the timer, a cancellation, a restart and the recovery do.               *)
THEOREM PushedAtMostOnce == Schedule!Spec => []Schedule!PushedOnce
<1>1. ScheduleInv => Schedule!PushedOnce
  BY DEF ScheduleInv, Unpushed, Schedule!PushedOnce
<1> QED
  BY <1>1, ScheduleInit, ScheduleNext, PTL DEF Schedule!Spec

(* A step of the distributor is one of the scheduled deployments, or       *)
(* leaves them alone.                                                      *)
LEMMA StepIsScheduleStep ==
  [DistributorNext]_all => [Schedule!Next]_(Schedule!vars)
<1> SUFFICES ASSUME [DistributorNext]_all PROVE [Schedule!Next]_(Schedule!vars)
  OBVIOUS
<1> USE DEF Schedule!vars, scheduled, rollouts, Schedule!Next
<1>1. CASE /\ \/ Start \/ RolloutStep \/ Poll
              \/ \E s \in Sensor : Execute(s) \/ CommandFails(s)
           /\ UNCHANGED scheduled
  <2>1. UNCHANGED restarts
    BY <1>1 DEF Start, RolloutStep, SyncRows, Throws, Send, SendThrows, NextStage, BatchEnds,
       Rollback, Poll, Execute, CommandFails
  <2> QED
    BY <1>1, <2>1
<1>2. ASSUME NEW d \in Deployment, ScheduleStep(d) PROVE Schedule!Next
  BY <1>2 DEF ScheduleStep, Schedule!ExecuteStep, Schedule!CancelStep
<1>3. ASSUME NEW d \in Deployment, PushScheduled(d) PROVE Schedule!Next
  BY <1>3 DEF PushScheduled, Schedule!ExecuteStep
<1>4. CASE RestartAll
  BY <1>4 DEF RestartAll
<1>5. CASE UNCHANGED all
  BY <1>5 DEF all
<1> QED
  BY <1>1, <1>2, <1>3, <1>4, <1>5 DEF DistributorNext

(* The whole distributor, with its rollouts, its pushes and its restart,   *)
(* implements the specification of the scheduled deployments alone.        *)
THEOREM SchedulesImplemented == DistributorSpec => Schedule!Spec
<1>1. DistributorSpec => DistributorInit /\ [][DistributorNext]_all
  BY PTL DEF DistributorSpec
<1>2. DistributorInit => Schedule!Init
  BY DEF DistributorInit
<1> QED
  BY <1>1, <1>2, StepIsScheduleStep, PTL DEF Schedule!Spec

(* In the distributor at work, too, the rules of a scheduled deployment    *)
(* are pushed at most once.                                                *)
THEOREM DistributorPushesOnce == DistributorSpec => []PushedOnce
<1>1. Schedule!PushedOnce => PushedOnce
  BY DEF PushedOnce
<1> QED
  BY <1>1, SchedulesImplemented, PushedAtMostOnce, PTL

-----------------------------------------------------------------------------
(* The slices of a rollout                                                 *)

(* Of the stages still to come the last is the one of 100 percent, or the  *)
(* last has been reached.                                                  *)
EndsWithAll(ps, n) ==
  /\ ps \in Seq(1..100)
  /\ IF ps = << >> THEN n = NumSensors ELSE ps[Len(ps)] = 100

LEMMA DivideFact ==
  ASSUME NEW n \in Nat, NEW m \in Nat, NEW d \in Nat \ {0}
  PROVE  n \div d \in Nat /\ (n < (m + 1) * d => n \div d <= m)
BY Z3

(* Math.ceil never makes a stage larger than the fleet, and the stage of   *)
(* 100 percent is the fleet.                                               *)
LEMMA TargetFact ==
  /\ \A p \in 1..100 : targetCount(p) \in 0..NumSensors
  /\ targetCount(100) = NumSensors
<1>1. ASSUME NEW p \in 1..100 PROVE targetCount(p) \in 0..NumSensors
  <2>1. NumSensors * p <= NumSensors * 100 /\ NumSensors * p \in Nat
    BY RuleRolloutAssumption
  <2>2. NumSensors * p + 99 \in Nat /\ NumSensors * p + 99 < (NumSensors + 1) * 100
    BY <2>1, RuleRolloutAssumption
  <2> QED
    BY <2>2, DivideFact, RuleRolloutAssumption DEF targetCount
<1>2. targetCount(100) = NumSensors
  BY RuleRolloutAssumption DEF targetCount
<1> QED
  BY <1>1, <1>2

(* A nonempty set of positions has a first one.                            *)
LEMMA FirstPosition ==
  ASSUME NEW S \in SUBSET Nat, S # {}
  PROVE  \E k \in S : \A j \in S : k <= j
<1> DEFINE T == {1..i : i \in S}
<1>1. T \subseteq FiniteSubsetsOf(Nat)
  BY FS_Interval DEF FiniteSubsetsOf
<1>2. PICK x \in T : \A y \in T : ~(<<y, x>> \in StrictSubsetOrdering(Nat))
  <2>1. T # {}
    OBVIOUS
  <2>2. IsWellFoundedOn(StrictSubsetOrdering(Nat), FiniteSubsetsOf(Nat))
    BY FS_StrictSubsetOrderingWellFounded
  <2> HIDE DEF T
  <2> QED
    BY <1>1, <2>1, <2>2, WFMin
<1>3. PICK k \in S : x = 1..k
  OBVIOUS
<1>4. ASSUME NEW j \in S, j < k PROVE FALSE
  <2>1. /\ 1..j \in T /\ 1..j \in SUBSET Nat /\ 1..k \in SUBSET Nat
        /\ 1..j \subseteq 1..k /\ k \in 1..k /\ k \notin 1..j
    BY <1>4
  <2> QED
    BY <1>2, <1>3, <2>1 DEF StrictSubsetOrdering
<1> QED
  BY <1>4

(* A canary rollout is done when every stage was, and otherwise its next   *)
(* stage goes on where the last one ended.                                 *)
LEMMA StageFact ==
  ASSUME NEW ps, NEW n \in 0..NumSensors, EndsWithAll(ps, n), CanaryStage(ps, n)
  PROVE  \/ pc' = "done" /\ n = NumSensors /\ UNCHANGED batch
         \/ /\ pc' = "syncing" /\ first' = n + 1 /\ next' = n + 1
            /\ last' \in (n + 1)..NumSensors /\ confirmed' = {}
            /\ EndsWithAll(percentages', last')
<1>1. ps \in Seq(1..100) /\ Len(ps) \in Nat
  BY DEF EndsWithAll
<1>2. CASE Adds(ps, n) = {}
  <2>1. CASE ps = << >>
    BY <1>2, <2>1 DEF EndsWithAll, CanaryStage
  <2>2. CASE ps # << >>
    <3>1. Len(ps) \in DOMAIN ps /\ ps[Len(ps)] = 100
      BY <1>1, <2>2, EmptySeq, LenProperties DEF EndsWithAll
    <3>2. ~(NumSensors > n)
      BY <1>2, <3>1, TargetFact DEF Adds
    <3> QED
      BY <1>2, <3>2, RuleRolloutAssumption DEF CanaryStage
  <2> QED
    BY <2>1, <2>2
<1>3. CASE Adds(ps, n) # {}
  <2> DEFINE k == StageIndex(ps, n)
  <2>1. k \in DOMAIN ps /\ targetCount(ps[k]) > n
    <3>1. Adds(ps, n) \subseteq Nat
      BY <1>1, LenProperties DEF Adds
    <3>2. \E i \in Adds(ps, n) : \A j \in Adds(ps, n) : i <= j
      BY <1>3, <3>1, FirstPosition
    <3>3. k \in Adds(ps, n)
      BY <3>2 DEF StageIndex
    <3> QED
      BY <3>3 DEF Adds
  <2>2. k \in 1..Len(ps) /\ ps[k] \in 1..100 /\ targetCount(ps[k]) \in (n + 1)..NumSensors
    <3> HIDE DEF k
    <3>1. k \in 1..Len(ps) /\ ps[k] \in 1..100
      BY <1>1, <2>1, LenProperties
    <3>2. targetCount(ps[k]) \in 0..NumSensors
      BY <3>1, TargetFact
    <3> QED
      BY <2>1, <3>1, <3>2, RuleRolloutAssumption
  <2>3. /\ pc' = "syncing" /\ first' = n + 1 /\ next' = n + 1 /\ confirmed' = {}
        /\ last' = targetCount(ps[k]) /\ percentages' = SubSeq(ps, k + 1, Len(ps))
    BY <1>3 DEF CanaryStage, Batch
  <2> HIDE DEF k
  <2>4. /\ percentages' \in Seq(1..100)
        /\ Len(percentages') = IF k + 1 <= Len(ps) THEN Len(ps) - k ELSE 0
        /\ \A i \in 1..(Len(ps) - k) : percentages'[i] = ps[k + i]
    <3>1. \A i \in (k + 1)..Len(ps) : ps[i] \in 1..100
      BY <1>1, <2>2, ElementOfSeq
    <3> QED
      BY <1>1, <2>2, <2>3, <3>1, SubSeqProperties
  <2>5. CASE k = Len(ps)
    <3>1. percentages' = << >>
      BY <1>1, <2>4, <2>5, EmptySeq
    <3>2. last' = NumSensors
      <4>1. ps # << >>
        BY <1>1, <2>2, EmptySeq
      <4>2. ps[k] = 100
        BY <2>5, <4>1 DEF EndsWithAll
      <4> QED
        BY <2>3, <4>2, TargetFact
    <3> QED
      BY <2>2, <2>3, <2>4, <3>1, <3>2 DEF EndsWithAll
  <2>6. CASE k < Len(ps)
    <3>1. ps # << >> /\ ps[Len(ps)] = 100
      BY <1>1, <2>2, EmptySeq DEF EndsWithAll
    <3>2. Len(percentages') = Len(ps) - k /\ Len(ps) - k \in 1..(Len(ps) - k)
      BY <1>1, <2>2, <2>4, <2>6
    <3>3. percentages' # << >>
      BY <1>1, <2>2, <2>6, <3>2, EmptySeq
    <3>4. percentages'[Len(ps) - k] = ps[Len(ps)]
      <4>1. k + (Len(ps) - k) = Len(ps)
        BY <1>1, <2>2
      <4>2. percentages'[Len(ps) - k] = ps[k + (Len(ps) - k)]
        BY <2>4, <3>2
      <4> QED
        BY <4>1, <4>2
    <3> QED
      BY <2>2, <2>3, <2>4, <3>1, <3>2, <3>3, <3>4 DEF EndsWithAll
  <2> QED
    BY <1>1, <2>2, <2>5, <2>6
<1> QED
  BY <1>2, <1>3

-----------------------------------------------------------------------------
(* What a rollout has behind it                                            *)

UnderWay == pc \in {"syncing", "sending", "delay", "health"}

RolloutTypes ==
  /\ strategy \in Strategy
  /\ first \in Nat /\ last \in Nat /\ next \in Nat
  /\ deployedSensors \subseteq Sensor /\ unconfirmed \subseteq Sensor
  /\ failureCount \in Nat

(* The slice under way lies in the fleet, and next in the slice.           *)
SliceFits ==
  UnderWay =>
    /\ 1 <= first /\ first <= next /\ next <= last /\ last <= NumSensors
    /\ pc = "syncing" => strategy # "rolling" /\ next = first
    /\ pc = "delay" => strategy # "rolling" /\ next = last
    /\ pc = "health" => strategy = "rolling" /\ next = last
    /\ strategy # "rolling" => EndsWithAll(percentages, last)
    /\ strategy = "rolling" => last < first + BatchSize

(* The first n sensors were all tried.  A rolling rollout counts a send    *)
(* that throws, the others end with it.                                    *)
Tried(n) ==
  /\ strategy # "rolling" => 1..n \subseteq deployedSensors
  /\ strategy = "rolling" => Cardinality((1..n) \ deployedSensors) <= failureCount

(* There is no gap between the slices.                                     *)
NoGap ==
  /\ pc \in {"syncing", "sending"} => Tried(next - 1)
  /\ pc \in {"delay", "health"} => Tried(last)
  /\ pc = "done" => Tried(NumSensors)

(* A batch with unhealthy sensors is followed by another one only when all *)
(* failures so far are fewer than MaxFailures.  Sends that throw may take  *)
(* the count beyond it: what is bounded is the sensors left unconfirmed.   *)
FewUnconfirmed ==
  strategy = "rolling" /\ pc \in {"sending", "health"} =>
    /\ Cardinality(unconfirmed) <= failureCount
    /\ RollbackOnFailure => Cardinality(unconfirmed) < MaxFailures

RolloutInv == RolloutTypes /\ SliceFits /\ NoGap /\ FewUnconfirmed

LEMMA SetOfSensors ==
  ASSUME NEW S \in SUBSET Sensor
  PROVE  IsFiniteSet(S) /\ Cardinality(S) \in Nat
<1>1. IsFiniteSet(Sensor)
  BY RuleRolloutAssumption, FS_Interval DEF Sensor
<1>2. IsFiniteSet(S)
  BY <1>1, FS_Subset
<1> QED
  BY <1>2, FS_CardinalityType

LEMMA UntriedFact ==
  ASSUME NEW n \in Nat, NEW D
  PROVE  IsFiniteSet((1..n) \ D) /\ Cardinality((1..n) \ D) \in Nat
<1>1. IsFiniteSet(1..n)
  BY FS_Interval
<1>2. IsFiniteSet((1..n) \ D)
  BY <1>1, FS_Subset
<1> QED
  BY <1>2, FS_CardinalityType

LEMMA RolloutInit == Init => RolloutInv
BY DEF Init, RolloutInv, RolloutTypes, SliceFits, NoGap, FewUnconfirmed, UnderWay, Strategy

LEMMA StartKeepsRollout ==
  ASSUME Start
  PROVE  RolloutInv'
<1>1. /\ deployedSensors' = {} /\ failureCount' = 0 /\ unconfirmed' = {}
  BY DEF Start
<1>2. Tried(0)'
  <2>1. 1..0 = {} /\ (1..0) \ deployedSensors' = {}
    OBVIOUS
  <2> QED
    BY <1>1, <2>1, FS_EmptySet DEF Tried
<1>3. FewUnconfirmed' 
  BY <1>1, FS_EmptySet, RuleRolloutAssumption DEF FewUnconfirmed
<1>4. CASE strategy' = "immediate" /\ Batch(1, NumSensors, "syncing") /\ percentages' = << >>
  <2>1. EndsWithAll(percentages', last')
    BY <1>4, EmptySeq DEF EndsWithAll, Batch
  <2>2. SliceFits'
    BY <1>4, <2>1, RuleRolloutAssumption DEF SliceFits, UnderWay, Batch
  <2>3. NoGap'
    BY <1>2, <1>4 DEF NoGap, Batch
  <2> QED
    BY <1>1, <1>3, <1>4, <2>2, <2>3, RuleRolloutAssumption
    DEF RolloutInv, RolloutTypes, Batch, Strategy
<1>5. ASSUME strategy' = "canary", NEW p \in CanaryPercentage, CanaryStage(<<p, 50, 100>>, 0)
      PROVE  RolloutInv'
  <2>1. <<p, 50, 100>> \in Seq(1..100) /\ Len(<<p, 50, 100>>) = 3 /\ <<p, 50, 100>> # << >>
    BY RuleRolloutAssumption
  <2>2. EndsWithAll(<<p, 50, 100>>, 0)
    BY <2>1 DEF EndsWithAll
  <2>3. /\ pc' = "syncing" /\ first' = 1 /\ next' = 1
        /\ last' \in 1..NumSensors /\ EndsWithAll(percentages', last')
    BY <1>5, <2>2, StageFact, RuleRolloutAssumption
  <2>4. SliceFits' /\ NoGap'
    BY <1>2, <1>5, <2>3, RuleRolloutAssumption DEF SliceFits, UnderWay, NoGap
  <2> QED
    BY <1>1, <1>3, <1>5, <2>3, <2>4, RuleRolloutAssumption
    DEF RolloutInv, RolloutTypes, Strategy
<1>6. CASE strategy' = "rolling" /\ RollingBatch(0)
  <2>1. /\ pc' = "sending" /\ first' = 1 /\ next' = 1
        /\ last' \in 1..NumSensors /\ last' < 1 + BatchSize
    BY <1>6, RuleRolloutAssumption DEF RollingBatch, Batch, Smaller
  <2>2. SliceFits' /\ NoGap'
    BY <1>2, <1>6, <2>1, RuleRolloutAssumption DEF SliceFits, UnderWay, NoGap
  <2> QED
    BY <1>1, <1>3, <1>6, <2>1, <2>2, RuleRolloutAssumption
    DEF RolloutInv, RolloutTypes, Strategy
<1> QED
  BY <1>4, <1>5, <1>6 DEF Start

(* A send that succeeds or, in a rolling rollout, is counted: one more     *)
(* sensor tried.                                                           *)
LEMMA OneMoreTried ==
  ASSUME RolloutInv, pc = "sending", UNCHANGED strategy, NEW n \in Nat, n = next,
         \/ deployedSensors' = deployedSensors \union {n} /\ UNCHANGED failureCount
         \/ /\ strategy = "rolling" /\ failureCount' = failureCount + 1
            /\ UNCHANGED deployedSensors
  PROVE  Tried(n)'
<1>1. n \in Nat \ {0} /\ n - 1 \in Nat /\ Tried(n - 1) /\ failureCount \in Nat
  BY DEF RolloutInv, RolloutTypes, SliceFits, UnderWay, NoGap
<1> DEFINE U == (1..(n - 1)) \ deployedSensors
           V == (1..n) \ deployedSensors'
<1>2. IsFiniteSet(U) /\ Cardinality(U) \in Nat /\ IsFiniteSet(V) /\ Cardinality(V) \in Nat
  BY <1>1, UntriedFact
<1>3. 1..n = (1..(n - 1)) \union {n}
  BY <1>1
<1>4. CASE strategy # "rolling"
  <2>1. deployedSensors' = deployedSensors \union {n} /\ 1..(n - 1) \subseteq deployedSensors
    BY <1>1, <1>4 DEF Tried
  <2> QED
    BY <1>3, <1>4, <2>1 DEF Tried
<1>5. CASE /\ strategy = "rolling"
           /\ deployedSensors' = deployedSensors \union {n} /\ UNCHANGED failureCount
  <2>1. V \subseteq U
    BY <1>3, <1>5
  <2>2. Cardinality(V) <= Cardinality(U)
    BY <1>2, <2>1, FS_Subset
  <2>3. Cardinality(U) <= failureCount
    BY <1>1, <1>5 DEF Tried
  <2>4. Cardinality(V) <= failureCount'
    <3> HIDE DEF U, V
    <3> QED BY <1>1, <1>2, <1>5, <2>2, <2>3
  <2> QED
    BY <1>5, <2>4 DEF Tried
<1>6. CASE strategy = "rolling" /\ failureCount' = failureCount + 1 /\ UNCHANGED deployedSensors
  <2>1. V \subseteq U \union {n}
    BY <1>3, <1>6
  <2>2. IsFiniteSet(U \union {n}) /\ Cardinality(U \union {n}) <= Cardinality(U) + 1
        /\ Cardinality(U \union {n}) \in Nat
    <3> HIDE DEF U
    <3> QED BY <1>2, FS_AddElement, FS_CardinalityType
  <2>3. Cardinality(V) <= Cardinality(U \union {n})
    BY <2>1, <2>2, FS_Subset
  <2>4. Cardinality(U) <= failureCount
    BY <1>1, <1>6 DEF Tried
  <2>5. Cardinality(V) <= failureCount'
    <3> HIDE DEF U, V
    <3> QED BY <1>1, <1>2, <1>6, <2>2, <2>3, <2>4
  <2> QED
    BY <1>6, <2>5 DEF Tried
<1> QED
  BY <1>4, <1>5, <1>6

LEMMA SendKeepsRollout ==
  ASSUME RolloutInv, Send \/ SendThrows
  PROVE  RolloutInv'
<1>1. /\ pc = "sending" /\ UNCHANGED <<strategy, unconfirmed>>
      /\ \/ deployedSensors' = deployedSensors \union {next} /\ UNCHANGED failureCount
         \/ /\ strategy = "rolling" /\ failureCount' = failureCount + 1
            /\ UNCHANGED deployedSensors
      /\ AfterSend
  BY DEF Send, SendThrows
<1>2. /\ 1 <= first /\ first <= next /\ next <= last /\ last <= NumSensors
      /\ first \in Nat /\ next \in Nat /\ last \in Nat /\ next \in Sensor
  BY <1>1, RuleRolloutAssumption DEF RolloutInv, RolloutTypes, SliceFits, UnderWay, Sensor
<1>3. RolloutTypes'
  <2>1. first' \in Nat /\ last' \in Nat /\ next' \in Nat
    BY <1>1, <1>2 DEF AfterSend, batch
  <2>2. deployedSensors' \subseteq Sensor /\ unconfirmed' \subseteq Sensor /\ failureCount' \in Nat
    <3>1. deployedSensors \subseteq Sensor /\ unconfirmed \subseteq Sensor /\ failureCount \in Nat
      BY DEF RolloutInv, RolloutTypes
    <3>2. unconfirmed' = unconfirmed
      BY <1>1
    <3>3. \/ deployedSensors' = deployedSensors \union {next} /\ failureCount' = failureCount
          \/ failureCount' = failureCount + 1 /\ deployedSensors' = deployedSensors
      BY <1>1
    <3>4. deployedSensors' \subseteq Sensor
      <4>1. next \in Sensor
        BY <1>2
      <4> QED BY <3>1, <3>3, <4>1
    <3>5. failureCount' \in Nat
      BY <3>1, <3>3
    <3> QED
      BY <3>1, <3>2, <3>4, <3>5
  <2> QED
    BY <1>1, <2>1, <2>2 DEF RolloutInv, RolloutTypes
<1>4. PICK n \in Nat : n = next
  BY <1>2
<1>5. Tried(n)'
  BY <1>1, <1>4, OneMoreTried
<1>6. FewUnconfirmed'
  <2>1. Cardinality(unconfirmed) \in Nat /\ failureCount \in Nat /\ failureCount' \in Nat
        /\ failureCount <= failureCount'
    BY <1>1, <1>3, SetOfSensors DEF RolloutInv, RolloutTypes
  <2> QED
    BY <1>1, <2>1 DEF RolloutInv, FewUnconfirmed
<1>7. CASE next < last
  <2>1. next' = next + 1 /\ UNCHANGED <<pc, percentages, first, last>>
    BY <1>1, <1>7 DEF AfterSend
  <2>2. SliceFits'
    BY <1>1, <1>2, <1>7, <2>1 DEF RolloutInv, SliceFits, UnderWay
  <2>3. NoGap'
    <3>1. next' - 1 = n
      BY <1>4, <2>1
    <3> QED
      BY <1>1, <1>5, <2>1, <3>1 DEF NoGap
  <2> QED
    BY <1>3, <1>6, <2>2, <2>3 DEF RolloutInv
<1>8. CASE ~(next < last)
  <2>1. /\ pc' = IF strategy = "rolling" THEN "health" ELSE "delay"
        /\ UNCHANGED <<percentages, first, last, next>>
    BY <1>1, <1>8 DEF AfterSend, batch
  <2>2. n = last
    BY <1>2, <1>4, <1>8
  <2>3. SliceFits'
    BY <1>1, <1>2, <1>8, <2>1 DEF RolloutInv, SliceFits, UnderWay
  <2>4. NoGap'
    BY <1>5, <2>1, <2>2 DEF NoGap
  <2> QED
    BY <1>3, <1>6, <2>3, <2>4 DEF RolloutInv
<1> QED
  BY <1>7, <1>8

(* The steps that leave the slice and the counts alone.                    *)
LEMMA FrameKeepsRollout ==
  ASSUME RolloutInv,
         UNCHANGED <<strategy, percentages, first, last, next, deployedSensors,
                     failureCount, unconfirmed>>,
         pc' = pc \/ pc' \in {"error", "rolledback"} \/ (pc = "syncing" /\ pc' = "sending")
  PROVE  RolloutInv'
<1>1. RolloutTypes' /\ SliceFits'
  BY DEF RolloutInv, RolloutTypes, SliceFits, UnderWay
<1>2. NoGap'
  BY DEF RolloutInv, NoGap, Tried
<1>3. FewUnconfirmed'
  BY DEF RolloutInv, FewUnconfirmed, SliceFits, UnderWay
<1> QED
  BY <1>1, <1>2, <1>3 DEF RolloutInv

LEMMA NextStageKeepsRollout ==
  ASSUME RolloutInv, NextStage
  PROVE  RolloutInv'
<1>1. /\ pc = "delay" /\ CanaryStage(percentages, last)
      /\ UNCHANGED <<strategy, deployedSensors, failureCount, unconfirmed>>
  BY DEF NextStage, rollout
<1>2. /\ strategy \in Strategy \ {"rolling"} /\ EndsWithAll(percentages, last)
      /\ last \in 0..NumSensors
  BY <1>1, RuleRolloutAssumption DEF RolloutInv, RolloutTypes, SliceFits, UnderWay
<1>3. PICK n \in 0..NumSensors : n = last
  BY <1>2
<1>4. Tried(n)'
  BY <1>1, <1>3 DEF RolloutInv, NoGap, Tried
<1>5. FewUnconfirmed'
  BY <1>1, <1>2 DEF FewUnconfirmed
<1>6. CASE pc' = "done" /\ n = NumSensors /\ UNCHANGED batch
  BY <1>1, <1>4, <1>5, <1>6
  DEF RolloutInv, RolloutTypes, SliceFits, UnderWay, NoGap, batch
<1>7. CASE /\ pc' = "syncing" /\ first' = n + 1 /\ next' = n + 1
           /\ last' \in (n + 1)..NumSensors
           /\ EndsWithAll(percentages', last')
  <2>1. SliceFits'
    BY <1>1, <1>2, <1>7, RuleRolloutAssumption DEF SliceFits, UnderWay
  <2>2. NoGap'
    <3>1. next' - 1 = n
      BY <1>7
    <3> QED
      BY <1>4, <1>7, <3>1 DEF NoGap
  <2>3. RolloutTypes'
    BY <1>1, <1>7, RuleRolloutAssumption DEF RolloutInv, RolloutTypes
  <2> QED
    BY <1>5, <2>1, <2>2, <2>3 DEF RolloutInv
<1> QED
  BY <1>1, <1>2, <1>3, <1>6, <1>7, StageFact

LEMMA BatchEndsKeepsRollout ==
  ASSUME RolloutInv, BatchEnds
  PROVE  RolloutInv'
<1> DEFINE sick == (first..last) \ confirmed
           failures == failureCount + Cardinality(sick)
<1>1. /\ pc = "health" /\ failureCount' = failures
      /\ unconfirmed' = unconfirmed \union sick
      /\ UNCHANGED <<strategy, deployedSensors>>
      /\ \/ Aborts(Cardinality(sick), failures) /\ pc' = "rollback" /\ UNCHANGED batch
         \/ /\ ~Aborts(Cardinality(sick), failures)
            /\ IF MoreBatches(last)
                 THEN RollingBatch(last) /\ UNCHANGED percentages
                 ELSE pc' = "done" /\ UNCHANGED batch
  BY DEF BatchEnds
<1>2. /\ strategy = "rolling" /\ 1 <= first /\ first <= last /\ last <= NumSensors
      /\ first \in Nat /\ last \in Nat /\ failureCount \in Nat
      /\ unconfirmed \subseteq Sensor /\ Tried(last)
  BY <1>1, RuleRolloutAssumption DEF RolloutInv, RolloutTypes, SliceFits, UnderWay, NoGap
<1>3. sick \subseteq Sensor
  BY <1>2, RuleRolloutAssumption DEF Sensor
<1>4. Cardinality(sick) \in Nat /\ IsFiniteSet(sick) /\ failures \in Nat /\ failureCount <= failures
      /\ Cardinality(unconfirmed) \in Nat /\ IsFiniteSet(unconfirmed)
  BY <1>2, <1>3, SetOfSensors
<1>5. Cardinality(unconfirmed') \in Nat
      /\ Cardinality(unconfirmed') <= Cardinality(unconfirmed) + Cardinality(sick)
  <2>1. Cardinality(unconfirmed \cap sick) \in Nat /\ unconfirmed' \subseteq Sensor
    BY <1>1, <1>2, <1>3, SetOfSensors
  <2>2. Cardinality(unconfirmed \union sick)
          = Cardinality(unconfirmed) + Cardinality(sick) - Cardinality(unconfirmed \cap sick)
    BY <1>4, FS_Union
  <2> HIDE DEF sick
  <2> QED
    BY <1>1, <1>4, <2>1, <2>2, SetOfSensors
<1>6. Cardinality(unconfirmed) <= failureCount
      /\ (RollbackOnFailure => Cardinality(unconfirmed) < MaxFailures)
  BY <1>1, <1>2 DEF RolloutInv, FewUnconfirmed
<1>7. PICK n \in 1..NumSensors : n = last
  BY <1>2, RuleRolloutAssumption
<1>8. Tried(n)'
  <2>1. Cardinality((1..n) \ deployedSensors) \in Nat
    BY UntriedFact
  <2>2. Cardinality((1..n) \ deployedSensors) <= failureCount
    BY <1>2, <1>7 DEF Tried
  <2> HIDE DEF failures
  <2> QED
    BY <1>1, <1>2, <1>4, <2>1, <2>2 DEF Tried
<1>9. unconfirmed' \subseteq Sensor /\ failureCount' \in Nat /\ strategy' = "rolling"
  BY <1>1, <1>2, <1>3, <1>4
<1>10. CASE pc' = "rollback" /\ UNCHANGED batch
  BY <1>1, <1>9, <1>10
  DEF RolloutInv, RolloutTypes, SliceFits, UnderWay, NoGap, FewUnconfirmed, batch
<1>11. CASE ~MoreBatches(last) /\ pc' = "done" /\ UNCHANGED batch
  <2>1. n = NumSensors
    BY <1>2, <1>7, <1>11, RuleRolloutAssumption DEF MoreBatches
  <2> QED
    BY <1>1, <1>8, <1>9, <1>11, <2>1
    DEF RolloutInv, RolloutTypes, SliceFits, UnderWay, NoGap, FewUnconfirmed, batch
<1>12. CASE /\ ~Aborts(Cardinality(sick), failures) /\ MoreBatches(last)
            /\ RollingBatch(last)
  <2>1. /\ pc' = "sending" /\ first' = n + 1 /\ next' = n + 1
        /\ last' \in (n + 1)..NumSensors /\ last' < n + 1 + BatchSize
    BY <1>2, <1>7, <1>12, RuleRolloutAssumption DEF RollingBatch, Batch, Smaller, MoreBatches
  <2>2. SliceFits'
    BY <1>9, <2>1, RuleRolloutAssumption DEF SliceFits, UnderWay
  <2>3. NoGap'
    <3>1. next' - 1 = n
      BY <2>1
    <3> QED
      BY <1>8, <2>1, <3>1 DEF NoGap
  <2>4. FewUnconfirmed'
    <3>1. Cardinality(unconfirmed') <= failures
      <4> HIDE DEF sick
      <4> QED BY <1>2, <1>4, <1>5, <1>6
    <3>2. CASE Cardinality(sick) = 0
      <4>1. Cardinality(unconfirmed') <= Cardinality(unconfirmed)
        <5> HIDE DEF sick
        <5> QED BY <1>4, <1>5, <3>2
      <4> QED
        BY <1>1, <1>4, <1>5, <1>6, <3>1, <4>1, RuleRolloutAssumption DEF FewUnconfirmed
    <3>3. CASE Cardinality(sick) # 0
      <4>1. RollbackOnFailure => failures < MaxFailures
        <5> HIDE DEF sick
        <5> QED BY <1>4, <1>12, <3>3, RuleRolloutAssumption DEF Aborts
      <4> HIDE DEF failures
      <4> QED
        BY <1>1, <1>4, <1>5, <3>1, <4>1, RuleRolloutAssumption DEF FewUnconfirmed
    <3> QED
      BY <3>2, <3>3
  <2>5. RolloutTypes'
    BY <1>1, <1>9, <2>1, RuleRolloutAssumption DEF RolloutInv, RolloutTypes
  <2> QED
    BY <2>2, <2>3, <2>4, <2>5 DEF RolloutInv
<1> QED
  BY <1>1, <1>10, <1>11, <1>12

(* Every step of the distributor preserves the invariant of the rollout:   *)
(* those of scheduled deployments touch only queues and rows.              *)
LEMMA RolloutNext == RolloutInv /\ [DistributorNext]_all => RolloutInv'
<1> SUFFICES ASSUME RolloutInv, [DistributorNext]_all PROVE RolloutInv'
  OBVIOUS
<1> USE DEF rollout, batch, fleet, rollouts
<1>1. CASE Start
  BY <1>1, StartKeepsRollout
<1>2. CASE SyncRows \/ Throws
  BY <1>2, FrameKeepsRollout DEF SyncRows, Throws
<1>3. CASE Send \/ SendThrows
  BY <1>3, SendKeepsRollout
<1>4. CASE NextStage
  BY <1>4, NextStageKeepsRollout
<1>5. CASE BatchEnds
  BY <1>5, BatchEndsKeepsRollout
<1>6. CASE Rollback \/ Poll
  BY <1>6, FrameKeepsRollout DEF Rollback, Poll
<1>7. ASSUME NEW s \in Sensor, Execute(s) \/ CommandFails(s) PROVE RolloutInv'
  BY <1>7, FrameKeepsRollout DEF Execute, CommandFails
<1>8. ASSUME NEW d \in Deployment, ScheduleStep(d) \/ PushScheduled(d) PROVE RolloutInv'
  BY <1>8, FrameKeepsRollout DEF ScheduleStep, PushScheduled
<1>9. CASE RestartAll
  BY <1>9, FrameKeepsRollout DEF RestartAll, Restart
<1>10. CASE UNCHANGED all
  BY <1>10, FrameKeepsRollout DEF all
<1> QED
  BY <1>1, <1>2, <1>3, <1>4, <1>5, <1>6, <1>7, <1>8, <1>9, <1>10
  DEF DistributorNext, RolloutStep

LEMMA RolloutAlways == DistributorSpec => []RolloutInv
<1>1. DistributorInit => RolloutInv
  BY RolloutInit DEF DistributorInit
<1> QED
  BY <1>1, RolloutNext, PTL DEF DistributorSpec

(* With rollback enabled, deployRolling reaches at most MaxFailures - 1    *)
(* sensors that were not found healthy, and the batch under way, however   *)
(* sends that throw and unhealthy sensors are mixed in the count.          *)
THEOREM RollingBlastRadius == DistributorSpec => []BlastRadius
<1>1. ASSUME RolloutInv, strategy = "rolling", RollbackOnFailure, pc \in {"sending", "health"}
      PROVE  Cardinality(unconfirmed \union ((first..last) \ confirmed))
               <= MaxFailures - 1 + BatchSize
  <2> DEFINE open == (first..last) \ confirmed
  <2>1. /\ first \in Nat /\ last \in Nat /\ first <= last /\ last < first + BatchSize
        /\ Cardinality(unconfirmed) < MaxFailures /\ unconfirmed \subseteq Sensor
    BY <1>1 DEF RolloutInv, RolloutTypes, SliceFits, UnderWay, FewUnconfirmed
  <2>2. IsFiniteSet(first..last) /\ Cardinality(first..last) = last - first + 1
    BY <2>1, FS_Interval
  <2>3. IsFiniteSet(open) /\ Cardinality(open) <= last - first + 1
    BY <2>2, FS_Subset
  <2>4. Cardinality(open) \in Nat
    BY <2>3, FS_CardinalityType
  <2>5. IsFiniteSet(unconfirmed) /\ Cardinality(unconfirmed) \in Nat
        /\ Cardinality(unconfirmed \cap open) \in Nat
    BY <2>1, SetOfSensors
  <2>6. Cardinality(unconfirmed \union open)
          = Cardinality(unconfirmed) + Cardinality(open) - Cardinality(unconfirmed \cap open)
    BY <2>3, <2>5, FS_Union
  <2>7. Cardinality(unconfirmed \union open) <= MaxFailures - 1 + BatchSize
    <3> HIDE DEF open
    <3> QED BY <2>1, <2>3, <2>4, <2>5, <2>6, RuleRolloutAssumption
  <2> QED
    BY <2>7
<1>2. RolloutInv => BlastRadius
  BY <1>1 DEF BlastRadius
<1> QED
  BY <1>2, RolloutAlways, PTL

(* A rollout that is done left no sensor out between two batches or        *)
(* stages: an immediate or canary one has sent to all of them, a rolling   *)
(* one has counted those it could not send to.                             *)
THEOREM DoneMeansComplete == DistributorSpec => []DoneIsComplete
<1>1. RolloutInv => DoneIsComplete
  BY DEF RolloutInv, RolloutTypes, NoGap, Tried, DoneIsComplete, Sensor
<1> QED
  BY <1>1, RolloutAlways, PTL
=============================================================================
