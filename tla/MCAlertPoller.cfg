SPECIFICATION FairSpec
CONSTANTS
    e1 = e1
    NULL = NULL
    Scheduled = {1, 2}
    Tests = {8}
    EventOf <- MCEventOf
    Dead = {1}
    SEND_CONCURRENCY = 1
    MAX_ALERTS_PER_TICK = 1
    TICK_BUDGET = 1
    RETRY_WINDOW = 1
    DELIVERY_BOUND = 1
    TEST_ALERT_CLAIM_ATTEMPTS = 1
    ApiConnections = 1
    MaxFailures = 2
    MaxLocks = 1
    MaxFaults = 1
    MaxRestarts = 1
INVARIANTS
    StopMeansStopped
    TheChaseNeverStalls
PROPERTIES
    EveryTestIsAnswered
    DeliverableIsDelivered
CHECK_DEADLOCK FALSE
