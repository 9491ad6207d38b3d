-------------------------- MODULE MCObjectStorage ---------------------------
(* Instances of ObjectStorage for TLC. *)
EXTENDS ObjectStorage, TLC

CONSTANTS o1, o2, t1, t2

\* Two tenants with one large payload each.
MCTenantOf == (o1 :> t1) @@ (o2 :> t2)
=============================================================================
