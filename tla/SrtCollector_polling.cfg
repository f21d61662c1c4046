SPECIFICATION CollectorLiveSpec
CONSTANTS
  s1 = s1  c1 = c1  c2 = c2
  Streams <- OneStream
  Connections <- TwoConnections
  PathOf <- SamePath
  StaleAfter = 2  MaxBackoff = 2  MaxBytes = 1  MaxTroubles = 1
INVARIANTS CollectorTypeOK SamplesAdvance StaleHasGround
PROPERTIES TrafficIsSampled
