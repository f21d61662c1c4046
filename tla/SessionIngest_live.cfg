SPECIFICATION LiveSpec
CONSTANTS
  s1 = s1  s2 = s2  w1 = w1  w2 = w2
  NoWorker = NoWorker
  Workers <- TwoWorkers
  Sessions <- TwoSessions
  LegacySessions <- None
  Batches <- Patient
  Store = "postgres"
  FullRate = 10  Tolerance = 1
  StalledAfter = 0  EndedAfter = 1
  MaxTime = 2  MaxRequests = 2  MaxFailures = 1
PROPERTIES RequestsFinish IdleSessionEnds
