\* Each module with two requests in flight of three.
SPECIFICATION MCSpec
SYMMETRY Interchangeable
CONSTANTS
    Requests = {r1, r2}
    MaxRequests = 3
    Users = {u, v}
    Channels = {c1, c2}
    Severities = {1, 2}
    Operations <- EveryOperation
    InitialTables <- OneChannel
    Receivers = {x, y}
    Caps = {1, 2}
    Sizes = {1, 2}
    InitialCaps <- OneCap
    InitialTenants <- FewLimits
    Settings <- FewSettings
    Notifications = {1, 2, 3}
    Present = {1, 3}
    ReceivedAt <- OneInstant
    Deliveries = {1, 2, 3}
    NotificationOf <- OfNotifications
    Groups = {g, h}
    GroupOf <- OfGroups
    Limit = 1
    ExportMax = 2
    Emails = {e1, e2}
    Invitations = {i1, i2}
    EmailOf <- ToE1
    GroupNames = {"a", "b"}
    InitialDirectory <- OneMember
    Presets = {s1, s2, s3}
    BUILTIN_PRESETS <- Catalogue
    PresetNames = {"L", "m"}
    Priorities = {1, 2}
    Factory = 1
    Positions = {0, 1}
    Receiver = x
    InitialPresets <- OnePreset
    Unborn = Unborn
    NoRow = NoRow
    NoRequest = NoRequest
    Same = Same
    Null = Null
    c1 = c1
    c2 = c2
    x = x
    y = y
    g = g
    h = h
    i1 = i1
    i2 = i2
    e1 = e1
    e2 = e2
    s1 = s1
    s2 = s2
    s3 = s3
    TenantRow = TenantRow
INVARIANTS
    TypeOK
    RefusalsHaveACause
    CapHolds
    SendsNeverDeadlock
    ListedOnce
    TrailTellsTheState
    InvitationIsSpentOnce
    ReplacedAsAsked
PROPERTIES
    RoutedByOneConfiguration
    QuotaHolds
CHECK_DEADLOCK FALSE
