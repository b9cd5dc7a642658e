CONSTANTS
  MaxLogSize = 2
  CheckTimeRoll = 0
  LogBufSecs = 1
  SecondsPerDay = 2
  MaxNow = 2
  Producers = {p1}
  MaxRecs = 3
  Lens = {1, 2}
  BufferSize = 3
  MaxBacklog = 2
  Backend = backend
  Notice = notice
  MaxFail = 1
  MaxDeaths = 1
SPECIFICATION Spec
INVARIANTS SpareBuffersSuffice NothingLostInOrder LinkNeverStale
PROPERTIES LoggedReachesDisk LoggerStops
CHECK_DEADLOCK FALSE
