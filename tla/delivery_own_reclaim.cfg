CONSTANTS
    t1 = t1
    c1 = c1
    c2 = c2
    Tasks = {t1}
    Consumers = {c1}
    Unknown = {}
    MaxRetries = 2
    Cancellable = {}
    MaxDeliveries = 3
    MaxFaults = 0
    MaxDeaths = 0
    PelRecovery = TRUE
    ScanOnStartupOnly = FALSE
    RetryOnTimeout = TRUE
    SlowHandlers = TRUE
    SlowScans = FALSE
SPECIFICATION Spec
INVARIANTS
    NoDuplicateExecution
CHECK_DEADLOCK FALSE
