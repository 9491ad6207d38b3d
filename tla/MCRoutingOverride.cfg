\* PUTs of one override, two in flight of four.
SPECIFICATION Spec
SYMMETRY Interchangeable
CONSTANTS
    c1 = c1
    c2 = c2
    Channels <- MCChannels
    Severities = {1, 2}
    InitialRows <- MCInitialRows
    Requests = {r1, r2}
    MaxRequests = 4
    Operations = {"update_receiver_override"}
    Unborn = Unborn
    NoRow = NoRow
    NoRequest = NoRequest
    Same = Same
    Null = Null
INVARIANTS
    OverrideIsComplete
CHECK_DEADLOCK FALSE
