SPECIFICATION Spec
CONSTANTS
    a1 = a1
    a2 = a2
    w1 = w1
    w2 = w2
    Alerts = {a1}
    LocalAlerts = {}
    Workers = {w1}
    Nobody = Nobody
    NoWindow = NoWindow
    Schedules <- MCSchedules
    Backoff <- MCNoBackoff
    DayLength = 2
    DedupWindow = 2
    HoldLimit = 4
    TickBudget = 1
    ProviderTimeout = 1
    HandoffBudget = 0
    AnswersGetLost = TRUE
    MaxTime = 5
    MaxRevision = 2
    MaxFaults = 1

INVARIANTS
    NothingLandsAfterShut
PROPERTIES
    HandoffIsCurrent
CHECK_DEADLOCK FALSE
