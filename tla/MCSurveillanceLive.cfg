\* Alarm, return and second alarm, next to a receiver whose schedule cannot be computed.
SPECIFICATION FairSpec
CONSTANTS
    Receivers = {r1, r2}
    Tenants = {t1}
    TenantOf <- SameTenant
    Policies <- BadPolicies
    NoPolicy = NoPolicy
    NoEdit = NoEdit
    Sends = {s1}
    Editors = {e1}
    Runs = {j1}
    MaxEdits = 0
    MaxFaults = 1
    Horizon = 7
PROPERTIES
    AbsencesAndReturnsAreReported
