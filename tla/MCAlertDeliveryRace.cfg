SPECIFICATION Spec
CONSTANTS
    a1 = a1
    a2 = a2
    w1 = w1
    w2 = w2
    Alerts = {a1}
    LocalAlerts = {}
    Workers = {w1, w2}
    Nobody = Nobody
    NoWindow = NoWindow
    Schedules <- MCLateSchedule
    Backoff <- MCBackoff
    DayLength = 2
    DedupWindow = 3
    HoldLimit = 3
    TickBudget = 1
    ProviderTimeout = 1
    HandoffBudget = 0
    AnswersGetLost = TRUE
    MaxTime = 4
    MaxRevision = 1
    MaxFaults = 1

SYMMETRY WorkerSymmetry
INVARIANTS
    NoUnaccountedDuplicate
    UnrecordedDeliveryIsCovered
PROPERTIES
    GivesUpOnlyOnRelease
    ImplementsOutbox
CHECK_DEADLOCK FALSE
