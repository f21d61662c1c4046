SPECIFICATION Spec
CONSTANTS
  s1 = s1  s2 = s2  w1 = w1  w2 = w2
  NoWorker = NoWorker
  Workers <- TwoWorkers
  Sessions <- OneSession
  LegacySessions <- None
  Batches <- Races
  Store = "postgres"
  FullRate = 10  Tolerance = 1
  StalledAfter = 0  EndedAfter = 0
  MaxTime = 0  MaxRequests = 2  MaxFailures = 0
INVARIANTS ClientEndHonoured
