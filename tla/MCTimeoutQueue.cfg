\* One outside thread, two timers, five ticks of the clock; RunAt of a time
\* that has passed and of one to come, delays and intervals of none and of two ticks.
CONSTANTS
    p1 = p1
    Threads = {p1}
    Loop = Loop
    MaxTimers = 2
    MaxTime = 5
    MaxPending = 2
    Times = {0, 3}
    Delays = {0, 2}
    UsPerMs = 1
    IntLimit = 8
    MinDelta = 1
    Far = 100
SPECIFICATION Spec
INVARIANTS TypeOK TimerfdCoversEvents OneShotOnce EraseIsFinal CancelInOrderHonoured
PROPERTIES NeverEarly
