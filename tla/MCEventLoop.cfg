\* Two outside threads, three tasks, a low and a high priority channel; the
\* event array starts at one entry, so the wakeup channel can be crowded out.
CONSTANTS
    p1 = p1
    p2 = p2
    low = low
    high = high
    Threads = {p1, p2}
    Loop = Loop
    Channels = {low, high}
    WakeupChannel = WakeupChannel
    Priority <- MCPriority
    EventSlots = 1
    Tasks = {t1, t2, t3}
    NoChannel = NoChannel
    NoContext = NoContext
SPECIFICATION FairSpec
INVARIANTS NoLostWakeup ExactlyOnePlace
PROPERTIES ImplementsExecutor PostedTasksRun LastRoundRunsTasks QuitStopsLoop QuitIsFinal
