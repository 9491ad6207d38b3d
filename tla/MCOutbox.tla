------------------------------ MODULE MCOutbox ------------------------------
(* Instances of Outbox for TLC. *)
EXTENDS Outbox

\* Every failure is retried after one tick.
MCBackoff == [n \in 1 .. MaxAttempts |-> 1]
=============================================================================
