CONSTANTS
  MaxThreads = 3
  MaxHandOut = 2
SPECIFICATION Spec
INVARIANT LoopsHandedOutLive
PROPERTY PoolStartsAndEnds
