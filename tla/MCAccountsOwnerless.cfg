\* The constraint on the last owner, as the specification states it.
CONSTANTS
    u1 = u1
    u2 = u2
    u3 = u3
    Users = {u1, u2}
    Tenant = Tenant
    Requests = {r1, r2}
    Tokens = {t1}
    FirstRole <- OwnerAndAdmin
    Operations = {"update_user"}
    Patches <- AllPatches
    MaxRequests = 3
SPECIFICATION Spec
INVARIANTS OwnerAlwaysRemains
CHECK_DEADLOCK FALSE
