CONSTANTS
  CThreads = {t1, t2, t3}
  Names = {n1, n2, n3}
  MaxThreads = 2
  MaxCounters = 2
  IntMax = 1
  SampleCap = 1
  Deltas = {1}
  MaxOps = 3
  MaxSamples = 3
  MaxSecond = 2
  RThreads = {r1, r2}
  Histograms = {h1}
  TraceIds = {1}
  MaxSpan = 2
  MaxObjects = 4
  HThreads = {w1, w2}
  Values <- HistogramValues
  BucketCount = 3
  SampleMax = 4
  MaxAdds = 2
  MaxReports = 1
SYMMETRY Symmetry
SPECIFICATION Spec
INVARIANTS SamplesAccountForAdds HistogramAccounts OneObjectPerId
PROPERTY CountsExact
CHECK_DEADLOCK FALSE
