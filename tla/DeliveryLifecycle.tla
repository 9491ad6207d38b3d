------------------------- MODULE DeliveryLifecycle --------------------------
(***************************************************************************)
(* What the outbox promises of a delivery, with no workers, no broker, no  *)
(* clock and no locks: the state machine of the status column, and the     *)
(* budget of attempts that bounds it.  Outbox implements it.               *)
(***************************************************************************)
EXTENDS Integers

CONSTANTS
    Rows,          \* deliveries
    MaxAttempts    \* failed attempts a row is allowed

VARIABLES
    status,        \* DeliveryStatus, with "none" and "gone" for no row
    attempts       \* failed attempts counted so far

vars == <<status, attempts>>

Init ==
    /\ status = [d \in Rows |-> "none"]
    /\ attempts = [d \in Rows |-> 0]

\* The notification is committed: its rows exist, the other pairs never will.
Create(new, never) ==
    /\ \A d \in new \cup never : status[d] \in {"none", "gone"}
    /\ \A d \in new : status[d] = "none"
    /\ status' = [d \in Rows |->
                    IF d \in new THEN "pending"
                    ELSE IF d \in never THEN "gone" ELSE status[d]]
    /\ attempts' = [d \in Rows |-> IF d \in new THEN 0 ELSE attempts[d]]

\* A worker takes the row.
Take(d) ==
    /\ status[d] \in {"pending", "failed"}
    /\ status' = [status EXCEPT ![d] = "sending"]
    /\ UNCHANGED attempts

\* The row dies without an attempt: channel disabled or unreadable.
Bury(d) ==
    /\ status[d] \in {"pending", "failed"}
    /\ status' = [status EXCEPT ![d] = "dead"]
    /\ UNCHANGED attempts

\* The attempt ends: delivered, refused for good, or failed and counted.
Deliver(d) ==
    /\ status[d] = "sending"
    /\ status' = [status EXCEPT ![d] = "sent"]
    /\ UNCHANGED attempts

Refuse(d) ==
    /\ status[d] = "sending"
    /\ status' = [status EXCEPT ![d] = "dead"]
    /\ UNCHANGED attempts

Fail(d) ==
    /\ status[d] = "sending"
    /\ attempts' = [attempts EXCEPT ![d] = @ + 1]
    /\ status' = [status EXCEPT ![d] =
                    IF attempts[d] + 1 >= MaxAttempts THEN "dead" ELSE "failed"]

\* Attempts whose worker gave no sign of life are given up, uncounted.
GiveUp(rows) ==
    /\ \A d \in rows : status[d] = "sending"
    /\ status' = [d \in Rows |-> IF d \in rows THEN "failed" ELSE status[d]]
    /\ UNCHANGED attempts

\* A user revives a dead row.
Revive(d) ==
    /\ status[d] = "dead"
    /\ status' = [status EXCEPT ![d] = "pending"]
    /\ attempts' = [attempts EXCEPT ![d] = 0]

\* Rows are removed.
Remove(rows) ==
    /\ status' = [d \in Rows |-> IF d \in rows THEN "gone" ELSE status[d]]
    /\ attempts' = [d \in Rows |-> IF d \in rows THEN 0 ELSE attempts[d]]

Next ==
    \/ \E new, never \in SUBSET Rows : Create(new, never)
    \/ \E d \in Rows :
         Take(d) \/ Bury(d) \/ Deliver(d) \/ Refuse(d) \/ Fail(d) \/ Revive(d)
    \/ \E rows \in SUBSET Rows : GiveUp(rows)
    \/ \E rows \in SUBSET Rows : Remove(rows)

Spec == Init /\ [][Next]_vars
=============================================================================
