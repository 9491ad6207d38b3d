\* Two payloads of two tenants, two drains and the purge, one fault.
SPECIFICATION FairSpec
CONSTANTS
    o1 = o1
    o2 = o2
    t1 = t1
    t2 = t2
    Objects = {o1, o2}
    Tenants = {t1, t2}
    TenantOf <- MCTenantOf
    Runs = {j1, j2}
    Batch = 1
    MaxAttempts = 1
    Grace = 1
    IngestBound = 1
    MaxFaults = 1
    NoObject = NoObject
INVARIANTS
    TypeOK
    PayloadKept
    DeletionNotForgotten
PROPERTIES
    NoObjectLeaks
