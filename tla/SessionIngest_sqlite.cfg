SPECIFICATION Spec
CONSTANTS
  s1 = s1  s2 = s2  w1 = w1  w2 = w2
  NoWorker = NoWorker
  Workers <- TwoWorkers
  Sessions <- TwoSessions
  LegacySessions <- OlderSession
  Batches <- Retries
  Store = "sqlite"
  FullRate = 10  Tolerance = 1
  StalledAfter = 0  EndedAfter = 1
  MaxTime = 2  MaxRequests = 2  MaxFailures = 1
SYMMETRY Symmetry
INVARIANTS
  ClientEndHonoured CountCoversEvents
  OneAcceptedPerKey SequencesUnique NoOrphans RatesPrecedeEvents
PROPERTIES IdentityIsImmutable
