CONSTANTS
    t1 = t1
    c1 = c1
    c2 = c2
    Tasks = {t1}
    Consumers = {c1, c2}
    Unknown <- OlderProcess
    MaxRetries = 2
    Cancellable = {t1}
    MaxDeliveries = 4
    MaxFaults = 0
    MaxDeaths = 1
    PelRecovery = TRUE
    ScanOnStartupOnly = FALSE
    RetryOnTimeout = TRUE
    SlowHandlers = FALSE
    SlowScans = FALSE
SPECIFICATION FairSpec
INVARIANTS
    NoTaskForgotten
    CancelHonoured
    DeadLetterMeansFailed
PROPERTIES
    LifecycleSpec
    EventuallySettled
CHECK_DEADLOCK FALSE
