CONSTANTS
    m1 = m1
    m2 = m2
    m3 = m3
    e1 = e1
    e2 = e2
    Messages = {m1, m2, m3}
    Endpoints = {e1, e2}
    Endpoint <- Routing
    Priority <- Urgency
    Limit <- Limits
    WorkerCapacity = 2
    PullCount = 10
    PelRecovery = FALSE
    LongHandlers = FALSE
    Abandoned = {}
    Retried = {}
    MaxRecoveries = 0
    MaxFaults = 0
SPECIFICATION Spec
INVARIANTS
    TokensReturned
CHECK_DEADLOCK FALSE
