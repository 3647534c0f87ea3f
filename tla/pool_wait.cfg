CONSTANTS
    MaxTasks = 2
    Nodes = {n1, n2}
    Caps = {1}
    Waiters = {w}
    Closers = {}
    Nil = Nil
SPECIFICATION Spec
INVARIANTS
    WaitNeverPanics
CHECK_DEADLOCK FALSE
