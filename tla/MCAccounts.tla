----------------------------- MODULE MCAccounts ------------------------------
(* Accounts on small instances: two or three users, two requests in flight. *)
EXTENDS Accounts, TLC

CONSTANTS u1, u2, u3

\* Two owners, an owner with an administrator, an owner with two of them.
TwoOwners == u1 :> "owner" @@ u2 :> "owner"
OwnerAndAdmin == u1 :> "owner" @@ u2 :> "admin"
TwoAdmins == u1 :> "owner" @@ u2 :> "admin" @@ u3 :> "admin"

Patch(r, s) == [role |-> r, status |-> s]
Toggle == {Patch("same", "disabled"), Patch("same", "active")}
AllPatches == Toggle \cup {Patch("owner", "same"), Patch("viewer", "same")}

Interchangeable == Permutations(Requests) \cup Permutations(Tokens)
=============================================================================
