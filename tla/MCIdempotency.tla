--------------------------- MODULE MCIdempotency ----------------------------
(* Instances of Idempotency for TLC. *)
EXTENDS Idempotency, TLC

\* Requests are interchangeable.
MCSymmetry == Permutations(Requests)
=============================================================================
