\* Two sends, two PATCHes and two overlapping runs on one receiver, three of them at once.
SPECIFICATION Spec
SYMMETRY Symmetry
CONSTRAINT ThreeAtOnce
CONSTANTS
    Receivers = {r1}
    Tenants = {t1}
    TenantOf <- SameTenant
    Policies <- OnePolicy
    NoPolicy = NoPolicy
    NoEdit = NoEdit
    Sends = {s1, s2}
    Editors = {e1, e2}
    Runs = {j1, j2}
    MaxEdits = 2
    MaxFaults = 0
    Horizon = 3
INVARIANTS
    TypeOK
    HeartbeatIsLatest
PROPERTIES
    OneAlarmPerAbsence
    WatchStartsFresh
