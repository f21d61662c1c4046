SPECIFICATION Spec
CONSTANTS
  s1 = s1  s2 = s2  w1 = w1  w2 = w2
  NoWorker = NoWorker
  Workers <- TwoWorkers
  Sessions <- TwoSessions
  LegacySessions <- None
  Batches <- Crossing
  Store = "postgres"
  FullRate = 10  Tolerance = 1
  StalledAfter = 0  EndedAfter = 0
  MaxTime = 1  MaxRequests = 2  MaxFailures = 1
SYMMETRY Symmetry
INVARIANTS IInv CorrelationAgreement
PROPERTIES EndIsFinal NothingIsLost ImplementsLedger
