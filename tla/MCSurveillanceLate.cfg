SPECIFICATION FairSpec
CONSTANTS
    Receivers = {r1}
    Tenants = {t1}
    TenantOf <- SameTenant
    Policies <- OnePolicy
    NoPolicy = NoPolicy
    NoEdit = NoEdit
    Sends = {s1}
    Editors = {e1}
    Runs = {j1}
    MaxEdits = 0
    MaxFaults = 0
    Horizon = 4
PROPERTY
    SendRearms
