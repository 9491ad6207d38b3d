\* Two owners, every operation, two requests in flight of four.
SPECIFICATION Spec
SYMMETRY Interchangeable
CONSTANTS
    u1 = u1
    u2 = u2
    u3 = u3
    Users = {u1, u2}
    Tenant = Tenant
    Requests = {r1, r2}
    Tokens = {t1, t2, t3}
    FirstRole <- TwoOwners
    Operations = {"login", "refresh", "logout", "update_user", "remove_user", "cleanup_tokens"}
    Patches <- AllPatches
    MaxRequests = 4
INVARIANTS
    TypeOK
    ClosedStaysClosed
    OneLiveToken
    DisabledHasNoSession
    OwnerRemains
    SessionsNeverDeadlock
CHECK_DEADLOCK FALSE
