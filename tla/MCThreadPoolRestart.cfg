\* One worker; the pool is started a second time after it was stopped.
CONSTANTS
    p1 = p1
    p2 = p2
    Producers = {p1}
    Tasks = {t1}
    NumThreads = 1
    MaxStarts = 2
    MaxQueueSize = 1
    Free = Free
    NoEntry = NoEntry
SPECIFICATION Spec
INVARIANT JoinAssertion
CHECK_DEADLOCK FALSE
