\* Two requests in flight of three.
SPECIFICATION Spec
SYMMETRY Interchangeable
CONSTANTS
    a = a
    b = b
    n1 = n1
    n2 = n2
    ps = ps
    receiver = receiver
    preset = preset
    Word = Word
    Rules <- MCRules
    Ids <- MCIds
    Receiver = receiver
    Presets <- MCPresets
    ListOf <- MCListOf
    SeverityOf <- MCSeverityOf
    InitialRows <- MCInitialRows
    Requests = {r1, r2}
    MaxRequests = 3
    Numbers = {20, 50}
    Policies <- MCPolicies
    Messages <- MCMessages
    NoRow = NoRow
    NoRequest = NoRequest
    Same = Same
    Null = Null
    Int4Max = 50
    Int8Max = 2000
INVARIANTS
    TypeOK
    NumberRefusalsHaveACause
    ListsNeverDeadlock
    ReplayIsStable
PROPERTIES
    OrderAsGiven
    EditsKeepEachOther
    DecidedInOrder
CHECK_DEADLOCK FALSE
