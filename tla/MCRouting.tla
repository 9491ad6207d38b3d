----------------------------- MODULE MCRouting ------------------------------
(* Routing with a channel that is bound and overridden, and one to be created. *)
EXTENDS Routing, TLC

CONSTANTS c1, c2

MCChannels == {c1, c2}
MCInitialRows ==
    [channel |-> c1 :> [id |-> 0, enabled |-> TRUE] @@ c2 :> Unborn,
     binding |-> c1 :> [id |-> 0, min |-> 1, enabled |-> TRUE] @@ c2 :> NoRow,
     override |-> c1 :> [id |-> 0, mode |-> "override", min |-> 2] @@ c2 :> NoRow]

Interchangeable == Permutations(Requests)
=============================================================================
