\* Two workers and two producers on a queue of one place; started once.
CONSTANTS
    p1 = p1
    p2 = p2
    Producers = {p1, p2}
    Tasks = {t1, t2, t3}
    NumThreads = 2
    MaxStarts = 1
    MaxQueueSize = 1
    Free = Free
    NoEntry = NoEntry
SPECIFICATION FairSpec
INVARIANTS QueueBounded NoWorkerSleepsOnWork NoProducerSleepsOnRoom NoSleeperAtJoin
PROPERTIES TasksRun ProducersGetOn StopReturns
CHECK_DEADLOCK FALSE
