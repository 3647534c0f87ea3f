CONSTANTS
    t1 = t1
    c1 = c1
    c2 = c2
    Tasks = {t1}
    Consumers = {c1, c2}
    Unknown <- OlderProcess
    MaxRetries = 2
    Cancellable = {}
    MaxDeliveries = 4
    MaxFaults = 1
    MaxDeaths = 1
    PelRecovery = TRUE
    ScanOnStartupOnly = FALSE
    RetryOnTimeout = TRUE
    SlowHandlers = TRUE
    SlowScans = FALSE
SPECIFICATION Spec
INVARIANTS
    AtLeastOnce
    AttemptsWithinBudget
    NoTheftFromLiveOwner
CHECK_DEADLOCK FALSE
