------------------------ MODULE FleetCommanderProofs ------------------------
(***************************************************************************)
(* The commander's rows follow the life cycle of CommandLifecycle, for any *)
(* queue limits, any number of sensors and requests, and any order of the  *)
(* database operations.                                                    *)
(***************************************************************************)
EXTENDS FleetCommander, TLAPS

LEMMA InitRows == Init => RowsOfFinishedRequests /\ Lifecycle!Init
BY DEF Init, RowsOfFinishedRequests, Lifecycle!Init

(* Every operation on an existing row is a conditional update of it.       *)
LEMMA UpdateFact ==
  ASSUME RowsOfFinishedRequests, NEW id \in Id, NEW st \in Open \cup Final,
         Update(id, st), tx' = tx
  PROVE  RowsOfFinishedRequests' /\ [Lifecycle!Next]_row
<1>1. CASE ~Matches(id)
  BY <1>1 DEF Update, RowsOfFinishedRequests
<1>2. CASE Matches(id)
  <2>1. row' = [row EXCEPT ![id] = st] /\ row[id] \in Open
    BY <1>2 DEF Update, Matches
  <2>2. RowsOfFinishedRequests'
    BY <2>1 DEF RowsOfFinishedRequests, Open
  <2>3. \/ Lifecycle!Dispatch(id) \/ Lifecycle!Requeue(id) \/ Lifecycle!Settle(id)
    BY <2>1 DEF Open, Final, Lifecycle!Dispatch, Lifecycle!Requeue, Lifecycle!Settle,
       Lifecycle!Unsettled, Lifecycle!Outcome
  <2> QED
    BY <2>2, <2>3 DEF Lifecycle!Next
<1> QED
  BY <1>1, <1>2

LEMMA NextRows ==
  RowsOfFinishedRequests /\ [Next]_vars => RowsOfFinishedRequests' /\ [Lifecycle!Next]_row
<1> SUFFICES ASSUME RowsOfFinishedRequests, [Next]_vars
             PROVE  RowsOfFinishedRequests' /\ [Lifecycle!Next]_row
  OBVIOUS
<1> USE DEF db, requests
<1>1. CASE UNCHANGED <<row, tx>>
  BY <1>1 DEF RowsOfFinishedRequests
<1>2. ASSUME NEW id \in Id, markCommandSent(id) \/ markCommandSuccess(id)
                            \/ FailPermanently(id) \/ checkTimeouts(id) \/ cancelCommand(id)
      PROVE  RowsOfFinishedRequests' /\ [Lifecycle!Next]_row
  <2>1. PICK st \in {"sent", "success", "failed", "timeout"} : Update(id, st)
    BY <1>2 DEF markCommandSent, markCommandSuccess, FailPermanently, checkTimeouts,
       cancelCommand
  <2>2. tx' = tx /\ st \in Open \cup Final
    BY <1>2 DEF markCommandSent, markCommandSuccess, FailPermanently, checkTimeouts,
       cancelCommand, Finish, Open, Final
  <2> QED
    BY <2>1, <2>2, UpdateFact
<1>3. ASSUME NEW id \in Id, ResetToPending(id)
      PROVE  RowsOfFinishedRequests' /\ [Lifecycle!Next]_row
  <2>1. tx' = tx
    BY <1>3 DEF ResetToPending, Finish
  <2>2. CASE row' = row
    BY <2>1, <2>2 DEF RowsOfFinishedRequests
  <2>3. CASE row' # row
    <3>1. Update(id, "pending")
      BY <1>3, <2>3 DEF ResetToPending, Update
    <3> QED
      BY <2>1, <3>1, UpdateFact DEF Open
  <2> QED
    BY <2>2, <2>3
<1>4. ASSUME NEW r \in Id, Commit(r)
      PROVE  RowsOfFinishedRequests' /\ [Lifecycle!Next]_row
  <2>1. /\ tx[r] = "open" /\ tx' = [tx EXCEPT ![r] = "committed"]
        /\ row' \in {row, [row EXCEPT ![r] = "pending"]}
    BY <1>4 DEF Commit
  <2>2. row[r] = "none"
    BY <2>1 DEF RowsOfFinishedRequests
  <2>3. RowsOfFinishedRequests'
    BY <2>1 DEF RowsOfFinishedRequests, Open
  <2>4. row' = row \/ Lifecycle!Create(r)
    BY <2>1, <2>2 DEF Lifecycle!Create
  <2> QED
    BY <2>3, <2>4 DEF Lifecycle!Next
<1>5. ASSUME NEW r \in Id, OpenTransaction(r)
      PROVE  RowsOfFinishedRequests' /\ [Lifecycle!Next]_row
  BY <1>5 DEF OpenTransaction, RowsOfFinishedRequests
<1>7. ASSUME NEW r \in Id, Send(r)
      PROVE  RowsOfFinishedRequests' /\ [Lifecycle!Next]_row
  BY <1>7 DEF Send, RowsOfFinishedRequests
<1>6. CASE Crash
  BY <1>6 DEF Crash, RowsOfFinishedRequests
<1> QED
  BY <1>1, <1>2, <1>3, <1>4, <1>5, <1>6, <1>7 DEF Next, QueueStep, SensorAcks, DatabaseStep,
     markCommandFailed, OperationFails, Finish, Age, vars

(* The rows implement the safety part of the life cycle: created once, and *)
(* settled once, whatever races and restarts happen.                       *)
THEOREM RowsImplementLifecycle == Spec => Lifecycle!Init /\ [][Lifecycle!Next]_row
  BY InitRows, NextRows, PTL DEF Spec

(* A row's outcome is final.                                               *)
THEOREM RowOutcomeIsFinal == Spec => RowOutcomeSticks
<1>1. ASSUME RowsOfFinishedRequests, [Next]_vars
      PROVE  [\A id \in Id : row[id] \in Final => row'[id] = row[id]]_vars
  <2>1. [Lifecycle!Next]_row
    BY <1>1, NextRows
  <2>2. \A id \in Id : row[id] \in Final => row'[id] = row[id]
    BY <1>1, <2>1 DEF RowsOfFinishedRequests, Lifecycle!Next, Lifecycle!Create,
       Lifecycle!Dispatch, Lifecycle!Requeue, Lifecycle!Settle, Lifecycle!Unsettled, Final
  <2> QED
    BY <2>2
<1> QED
  BY <1>1, InitRows, NextRows, PTL DEF Spec, RowOutcomeSticks

-----------------------------------------------------------------------------
(* What an outcome rests on.  An update takes effect long after the event  *)
(* or the read that called for it, so the invariant speaks of the updates  *)
(* in progress as well as of the rows.                                     *)

LedgerTyped ==
  /\ row \in [Id -> {"none"} \cup Open \cup Final]
  /\ rowAttempts \in [Id -> Nat]
  /\ ops \in [OpKind -> [Id -> Nat]]

SuccessesComing == \A id \in Id : ops["markSuccess"][id] > 0 => id \in acked
FailuresComing == \A id \in Id : ops["giveUp"][id] > 0 => rowAttempts[id] >= MaxRetries

Ledger ==
  /\ LedgerTyped /\ SuccessesComing /\ FailuresComing
  /\ SuccessWasAcked /\ FailedWhenExhausted

LEMMA LedgerInit == Init => Ledger
BY DEF Init, Ledger, LedgerTyped, SuccessesComing, FailuresComing, SuccessWasAcked,
       FailedWhenExhausted, NoOps, OpKind

(* trySendNext reports sends, never an answer.                             *)
LEMMA TrySendReports ==
  ASSUME NEW s, NEW st, NEW at, NEW qs, NEW fl, NEW tm, NEW ev,
         Q!TrySendNext(s, st, at, qs, fl, tm, ev)
  PROVE  \A x : <<"complete", x>> \in emitted' => <<"complete", x>> \in ev
<1>1. CASE emitted' = ev
  BY <1>1
<1>2. ASSUME NEW S, emitted' = ev \cup Q!Emit("sent", S)
      PROVE  \A x : <<"complete", x>> \in emitted' => <<"complete", x>> \in ev
  BY <1>2 DEF Q!Emit
<1>3. emitted' = ev \/ \E S : emitted' = ev \cup Q!Emit("sent", S)
  BY DEF Q!TrySendNext
<1> QED
  BY <1>1, <1>2, <1>3

(* Only an answer with success completes a command, and only its own.      *)
LEMMA OnlyAnswersComplete ==
  /\ QueueStep => \A x : <<"complete", x>> \notin emitted'
  /\ \A id : Q!SendCommand(id) => \A x : <<"complete", x>> \notin emitted'
  /\ \A id \in Id : Q!HandleResponse(id, TRUE) =>
                      \A x : <<"complete", x>> \in emitted' => x = id
<1>1. ASSUME NEW id, NEW final, NEW ev, Q!FinalizeCommand(id, final, ev)
      PROVE  \A x : <<"complete", x>> \in emitted' => <<"complete", x>> \in ev
  BY <1>1, TrySendReports DEF Q!FinalizeCommand
<1>2. ASSUME NEW id, Q!SendCommand(id) PROVE \A x : <<"complete", x>> \notin emitted'
  <2>1. CASE Q!SendAccepted(id)
    <3>1. PICK s, st, at, qs, fl, tm, v, w :
            Q!TrySendNext(s, st, at, qs, fl, tm, Q!Evicted(v) \cup Q!Evicted(w))
      BY <2>1 DEF Q!SendAccepted
    <3>2. \A x : <<"complete", x>> \notin Q!Evicted(v) \cup Q!Evicted(w)
      BY DEF Q!Evicted, Q!Emit
    <3> QED
      BY <3>1, <3>2, TrySendReports
  <2>2. CASE Q!SendDropped(id)
    <3>1. PICK v : emitted' = Q!Evicted(v) \cup {<<"dropped", id>>}
      BY <2>2 DEF Q!SendDropped
    <3> QED
      BY <3>1 DEF Q!Evicted, Q!Emit
  <2> QED
    BY <1>2, <2>1, <2>2 DEF Q!SendCommand
<1>3. ASSUME NEW id \in Id, Q!HandleResponse(id, TRUE)
      PROVE  \A x : <<"complete", x>> \in emitted' => x = id
  <2>1. Q!FinalizeCommand(id, "success", {<<"complete", id>>})
    BY <1>3 DEF Q!HandleResponse
  <2>2. \A x : <<"complete", x>> \in emitted' => <<"complete", x>> \in {<<"complete", id>>}
    BY <1>1, <2>1
  <2> QED
    BY <2>2
<1>4. ASSUME QueueStep PROVE \A x : <<"complete", x>> \notin emitted'
  <2>1. ASSUME NEW s \in Sensor, NEW r \in {"open", "closed"}, Q!RegisterConnection(s, r)
        PROVE  \A x : <<"complete", x>> \notin emitted'
    <3>1. ASSUME NEW id, NEW qs, Q!Resend(id, qs)
          PROVE  \A x : <<"complete", x>> \notin emitted'
      BY <3>1 DEF Q!Resend
    <3>2. ASSUME NEW qs, Q!TrySendNext(s, status, attempts, qs, inflight, timer, {})
          PROVE  \A x : <<"complete", x>> \notin emitted'
      <4>1. \A x : <<"complete", x>> \in emitted' => <<"complete", x>> \in {}
        BY <3>2, TrySendReports
      <4> QED
        BY <4>1
    <3>3. \E qs : \/ Q!Resend(inflight[s], qs)
                 \/ Q!TrySendNext(s, status, attempts, qs, inflight, timer, {})
      BY <2>1 DEF Q!RegisterConnection
    <3> QED
      BY <3>1, <3>2, <3>3
  <2>2. ASSUME NEW s \in Sensor,
               Q!SocketCloses(s) \/ Q!UnregisterConnection(s) \/ Q!Disconnect(s)
        PROVE  \A x : <<"complete", x>> \notin emitted'
    BY <2>2 DEF Q!SocketCloses, Q!UnregisterConnection, Q!Disconnect, Q!CleanupSensor, Q!Emit
  <2>3. ASSUME NEW id \in Id, Q!HandleResponse(id, FALSE)
        PROVE  \A x : <<"complete", x>> \notin emitted'
    <3>1. Q!FinalizeCommand(id, "failed", {<<"failed", id>>})
      BY <2>3 DEF Q!HandleResponse
    <3>2. \A x : <<"complete", x>> \notin {<<"failed", id>>}
      OBVIOUS
    <3> QED
      BY <1>1, <3>1, <3>2
  <2>4. ASSUME NEW id \in Id, Q!TimerFires(id)
        PROVE  \A x : <<"complete", x>> \notin emitted'
    <3>1. \/ Q!Resend(id, queue)
          \/ Q!FinalizeCommand(id, "timeout", {<<"timeout", id>>})
      BY <2>4 DEF Q!TimerFires
    <3>2. \A x : <<"complete", x>> \notin {<<"timeout", id>>}
      OBVIOUS
    <3>3. CASE Q!Resend(id, queue)
      BY <3>3 DEF Q!Resend
    <3> QED
      BY <1>1, <3>1, <3>2, <3>3
  <2>5. ASSUME NEW id \in Id, Q!OrphanTimerFires(id)
        PROVE  \A x : <<"complete", x>> \notin emitted'
    <3>1. \/ emitted' = {<<"sent", id>>} \/ emitted' = {}
          \/ Q!FinalizeCommand(id, status[id], {<<"timeout", id>>})
      BY <2>5 DEF Q!OrphanTimerFires
    <3>2. \A x : <<"complete", x>> \notin {<<"timeout", id>>}
      OBVIOUS
    <3>3. CASE emitted' = {<<"sent", id>>} \/ emitted' = {}
      BY <3>3
    <3> QED
      BY <1>1, <3>1, <3>2, <3>3
  <2>6. ASSUME NEW id \in Id, Q!ExpireCompleted(id) \/ Q!ExpirePending(id)
        PROVE  \A x : <<"complete", x>> \notin emitted'
    BY <2>6 DEF Q!ExpireCompleted, Q!ExpirePending
  <2>7. ASSUME NEW id \in Id, Q!ExpireStaleSent(id)
        PROVE  \A x : <<"complete", x>> \notin emitted'
    <3>1. Q!FinalizeCommand(id, "failed", {<<"failed", id>>})
      BY <2>7 DEF Q!ExpireStaleSent
    <3>2. \A x : <<"complete", x>> \notin {<<"failed", id>>}
      OBVIOUS
    <3> QED
      BY <1>1, <3>1, <3>2
  <2> QED
    BY <1>4, <2>1, <2>2, <2>3, <2>4, <2>5, <2>6, <2>7 DEF QueueStep, Q!Timers
<1> QED
  BY <1>2, <1>3, <1>4

(* The listeners start updates of the event's own command.                 *)
LEMMA ListenFact ==
  ASSUME LedgerTyped, Listen
  PROVE  /\ ops' \in [OpKind -> [Id -> Nat]]
         /\ \A id \in Id : ops'["giveUp"][id] = ops["giveUp"][id]
         /\ \A id \in Id : ops'["markSuccess"][id] > ops["markSuccess"][id]
                            => <<"complete", id>> \in emitted'
         /\ \A id \in Id : ops'["markSuccess"][id] \in Nat
<1>1. ops' \in [OpKind -> [Id -> Nat]]
  BY DEF LedgerTyped, Listen
<1>2. \A id \in Id : ops'["giveUp"][id] = ops["giveUp"][id]
  BY DEF LedgerTyped, Listen, Starts, OpKind
<1>3. \A id \in Id : ops'["markSuccess"][id] > ops["markSuccess"][id]
                     => <<"complete", id>> \in emitted'
  BY DEF LedgerTyped, Listen, Starts, OpKind
<1> QED
  BY <1>1, <1>2, <1>3 DEF OpKind

LEMMA NextKeepsLedger ==
  ASSUME Ledger, [Next]_vars PROVE Ledger'
<1> USE CommanderAssumption DEF Ledger, db, requests, history
<1>1. ASSUME NEW A \in SUBSET Id, Listen, UNCHANGED <<db, cancelled>>, acked' = acked \cup A,
             \A x \in Id : <<"complete", x>> \in emitted' => x \in A
      PROVE  Ledger'
  <2>1. LedgerTyped'
    BY <1>1, ListenFact DEF LedgerTyped
  <2>2. SuccessesComing'
    <3> SUFFICES ASSUME NEW id \in Id, ops'["markSuccess"][id] > 0 PROVE id \in acked'
      BY DEF SuccessesComing
    <3>1. ops["markSuccess"][id] \in Nat /\ ops'["markSuccess"][id] \in Nat
      BY <2>1 DEF LedgerTyped, OpKind
    <3>2. ops["markSuccess"][id] > 0 \/ ops'["markSuccess"][id] > ops["markSuccess"][id]
      BY <3>1
    <3> QED
      BY <1>1, <3>2, ListenFact DEF SuccessesComing
  <2>3. FailuresComing'
    BY <1>1, ListenFact DEF FailuresComing
  <2>4. SuccessWasAcked' /\ FailedWhenExhausted'
    BY <1>1 DEF SuccessWasAcked, FailedWhenExhausted
  <2> QED
    BY <2>1, <2>2, <2>3, <2>4
<1>2. CASE QueueStep
  <2>1. \A x \in Id : <<"complete", x>> \in emitted' => x \in {}
    BY <1>2, OnlyAnswersComplete
  <2>2. Listen /\ UNCHANGED <<db, cancelled>> /\ acked' = acked \cup {} /\ {} \in SUBSET Id
    BY <1>2 DEF QueueStep
  <2> QED
    BY <1>1, <2>1, <2>2
<1>3. ASSUME NEW id \in Id, SensorAcks(id) PROVE Ledger'
  <2>1. \A x \in Id : <<"complete", x>> \in emitted' => x \in {id}
    BY <1>3, OnlyAnswersComplete DEF SensorAcks
  <2>2. Listen /\ UNCHANGED <<db, cancelled>> /\ acked' = acked \cup {id}
    BY <1>3 DEF SensorAcks
  <2> QED
    BY <1>1, <2>1, <2>2
<1>4. ASSUME NEW r \in Id, Send(r) PROVE Ledger'
  <2>1. PICK id : Q!SendCommand(id)
    BY <1>4 DEF Send
  <2>2. \A x \in Id : <<"complete", x>> \in emitted' => x \in {}
    BY <2>1, OnlyAnswersComplete
  <2>3. Listen /\ UNCHANGED <<db, cancelled>> /\ acked' = acked \cup {} /\ {} \in SUBSET Id
    BY <1>4 DEF Send
  <2> QED
    BY <1>1, <2>2, <2>3
<1> USE DEF LedgerTyped, SuccessesComing, FailuresComing, SuccessWasAcked,
        FailedWhenExhausted, OpKind
<1>5. ASSUME NEW r \in Id, OpenTransaction(r) \/ Age(r) PROVE Ledger'
  BY <1>5 DEF OpenTransaction, Age
<1>6. ASSUME NEW r \in Id, Commit(r) PROVE Ledger'
  BY <1>6 DEF Commit, Open
<1>7. ASSUME NEW id \in Id, markCommandSent(id) PROVE Ledger'
  BY <1>7 DEF markCommandSent, Finish, Update, Matches, Open
<1>8. ASSUME NEW id \in Id, markCommandSuccess(id) PROVE Ledger'
  BY <1>8 DEF markCommandSuccess, Finish, Update, Final
<1>9. ASSUME NEW id \in Id, markCommandFailed(id) PROVE Ledger'
  <2>1. CASE ~Matches(id)
    BY <1>9, <2>1 DEF markCommandFailed
  <2>2. CASE Matches(id) /\ MayRetry(id)
    BY <1>9, <2>2 DEF markCommandFailed
  <2>3. CASE Matches(id) /\ ~MayRetry(id)
    BY <1>9, <2>3 DEF markCommandFailed, MayRetry
  <2> QED
    BY <2>1, <2>2, <2>3
<1>10. ASSUME NEW id \in Id, ResetToPending(id) PROVE Ledger'
  BY <1>10 DEF ResetToPending, Finish, Open
<1>11. ASSUME NEW id \in Id, FailPermanently(id) PROVE Ledger'
  BY <1>11 DEF FailPermanently, Finish, Update, Final
<1>12. ASSUME NEW k \in OpKind, NEW id \in Id, OperationFails(k, id) PROVE Ledger'
  BY <1>12 DEF OperationFails, Finish
<1>13. ASSUME NEW id \in Id, checkTimeouts(id) PROVE Ledger'
  BY <1>13 DEF checkTimeouts, Update, Final
<1>14. ASSUME NEW id \in Id, cancelCommand(id) PROVE Ledger'
  BY <1>14 DEF cancelCommand, Update, Final
<1>15. CASE Crash
  BY <1>15 DEF Crash, NoOps
<1>16. CASE UNCHANGED vars
  BY <1>16 DEF vars
<1> QED
  BY <1>2, <1>3, <1>4, <1>5, <1>6, <1>7, <1>8, <1>9, <1>10, <1>11, <1>12, <1>13, <1>14,
     <1>15, <1>16 DEF Next, DatabaseStep

(* A row says success only when a sensor answered that command with        *)
(* success: markSuccess is started by the queue's command-complete, which  *)
(* only handleResponse emits, and nothing else writes "success".           *)
THEOREM SuccessIsEarned == Spec => []SuccessWasAcked
<1>1. Ledger /\ [Next]_vars => Ledger'
  BY NextKeepsLedger
<1>2. Ledger => SuccessWasAcked
  BY DEF Ledger
<1> QED
  BY <1>1, <1>2, LedgerInit, PTL DEF Spec

(* A row fails for good only when it was cancelled or was sent maxRetries  *)
(* times, though markCommandFailed writes after a read that may be stale:  *)
(* attempts only grow, so what the read saw still holds.                   *)
THEOREM FailureIsExhausted == Spec => []FailedWhenExhausted
<1>1. Ledger /\ [Next]_vars => Ledger'
  BY NextKeepsLedger
<1>2. Ledger => FailedWhenExhausted
  BY DEF Ledger
<1> QED
  BY <1>1, <1>2, LedgerInit, PTL DEF Spec
=============================================================================
