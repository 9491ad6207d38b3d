\* One row, two workers; faults stop after the first tick.
SPECIFICATION FairSpec
CONSTANTS
    Notifications = {n1}
    Channels = {c1}
    Workers = {w1, w2}
    MaxAttempts = 2
    Backoff <- MCBackoff
    RetryAfters = {1}
    StuckAfter = 1
    SentRetention = 1
    Horizon = 2
    FaultsUntil = 1
    MaxMessages = 1
    NoDelivery = NoDelivery
INVARIANTS
    TypeOK
    SoleOwner
    NoSpuriousDuplicate
PROPERTIES
    ImplementsLifecycle
    EveryDeliverySettles
