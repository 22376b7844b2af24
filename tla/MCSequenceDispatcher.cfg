SPECIFICATION Spec
CONSTANTS
    c1 = c1
    c2 = c2
    Chains = {c1, c2}
    Routes <- MCRoutes
    MaxTasks = 3
    MaxActive = 2
    MaxAttempts = 2
INVARIANTS TypeOK ChecksHold ActiveCounted NoStartMissed NoBusyLoop NoStall
PROPERTIES InOrder
CHECK_DEADLOCK FALSE
