CONSTANTS
    MaxTasks = 3
    Nodes = {n1, n2, n3}
    Caps = {0, 2}
    Waiters = {}
    Closers = {c}
    Nil = Nil
SPECIFICATION FairSpec
INVARIANTS
    NoStrandedTask
    TakenInOrder
    NodeNotRecycledInUse
    ConcurrencyBounded
    ShutdownDrains
    ShutdownNeverPanics
PROPERTIES
    AllTasksFinish
CHECK_DEADLOCK FALSE
