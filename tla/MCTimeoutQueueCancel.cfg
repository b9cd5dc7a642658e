\* One timer, added by an outside thread and cancelled by the loop thread.
CONSTANTS
    p1 = p1
    Threads = {p1}
    Loop = Loop
    MaxTimers = 1
    MaxTime = 2
    MaxPending = 1
    Times = {0}
    Delays = {1}
    UsPerMs = 1
    IntLimit = 4
    MinDelta = 1
    Far = 100
SPECIFICATION Spec
INVARIANT CancelHonoured
CHECK_DEADLOCK FALSE
