\* An int holds -4 .. 3, a delay may be 5: the product with UsPerMs overflows.
CONSTANTS
    p1 = p1
    Threads = {p1}
    Loop = Loop
    MaxTimers = 1
    MaxTime = 2
    MaxPending = 1
    Times = {0}
    Delays = {1, 5}
    UsPerMs = 1
    IntLimit = 4
    MinDelta = 1
    Far = 100
SPECIFICATION Spec
PROPERTY NeverEarly
CHECK_DEADLOCK FALSE
