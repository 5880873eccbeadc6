SPECIFICATION Spec
CONSTANTS
    a1 = a1
    a2 = a2
    w1 = w1
    w2 = w2
    Alerts = {a1}
    LocalAlerts = {}
    Workers = {w1}
    Nobody = Nobody
    NoWindow = NoWindow
    Schedules <- MCLateSchedule
    Backoff <- MCBackoff
    DayLength = 2
    DedupWindow = 2
    HoldLimit = 4
    TickBudget = 1
    ProviderTimeout = 1
    HandoffBudget = 0
    AnswersGetLost = FALSE
    MaxTime = 6
    MaxRevision = 1
    MaxFaults = 1

INVARIANT
    CrashCannotDoubleSend
CHECK_DEADLOCK FALSE
