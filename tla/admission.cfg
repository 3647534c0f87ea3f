CONSTANTS
    m1 = m1
    m2 = m2
    m3 = m3
    e1 = e1
    e2 = e2
    Messages = {m1, m2, m3}
    Endpoints = {e1, e2}
    Endpoint <- Routing
    Priority <- Urgency
    Limit <- Limits
    WorkerCapacity = 2
    PullCount = 10
    PelRecovery = TRUE
    LongHandlers = FALSE
    Abandoned = {}
    Retried = {m3}
    MaxRecoveries = 1
    MaxFaults = 1
SPECIFICATION FairSpec
INVARIANTS
    TypeOK
    LimitRespected
    TokensExact
    PendingReachable
    HeldWithinCapacity
    StopDrains
PROPERTIES
    AllHandled
CHECK_DEADLOCK FALSE
