-------------------------- MODULE CommandLifecycle --------------------------
(***************************************************************************)
(* What the fleet commander promises of a command's row, whatever the      *)
(* queue, the sensors, the database and restarts do: the row is created    *)
(* pending, may go between pending and sent, settles in one outcome it     *)
(* then keeps, and always does settle.                                     *)
(***************************************************************************)
CONSTANT Id
VARIABLE row

Outcome == {"success", "failed", "timeout"}
Unsettled == {"pending", "sent"}

Init == row = [id \in Id |-> "none"]

Create(id) == row[id] = "none" /\ row' = [row EXCEPT ![id] = "pending"]

Dispatch(id) == row[id] \in Unsettled /\ row' = [row EXCEPT ![id] = "sent"]

Requeue(id) == row[id] \in Unsettled /\ row' = [row EXCEPT ![id] = "pending"]

Settle(id) ==
  /\ row[id] \in Unsettled
  /\ \E o \in Outcome : row' = [row EXCEPT ![id] = o]

Next == \E id \in Id : Create(id) \/ Dispatch(id) \/ Requeue(id) \/ Settle(id)

Spec ==
  /\ Init /\ [][Next]_row
  /\ \A id \in Id : WF_row(Settle(id))
=============================================================================
