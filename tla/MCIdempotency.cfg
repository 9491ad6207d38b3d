\* Three requests with one id.
SPECIFICATION FairSpec
CONSTANTS
    Requests = {r1, r2, r3}
    Nobody = Nobody
    Window = 3
    Wait = 1
INVARIANTS
    TypeOK
    NoDuplicate
PROPERTIES
    EveryRequestAnswered
