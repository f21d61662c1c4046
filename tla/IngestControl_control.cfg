SPECIFICATION Spec
CONSTANTS
  q1 = q1  q2 = q2  q3 = q3  s1 = s1  p1 = p1  p2 = p2  n1 = n1  n2 = n2  t1 = t1  t2 = t2
  None = None
  Databases <- BothStores
  Requests <- ThreeRequests
  Projects <- TwoProjects
  Names <- TwoNames
  Targets <- TwoTargets
  MediaMTX <- TwoTargets
  Unusable <- OneName
  Streams <- OneStream
  Stored <- OldStream
  Asks <- Mixed
  Within <- OneStranger
  MaxAttempts = 2
INVARIANTS TypeOK ActiveKeys OutsideFollowsStore
PROPERTIES AnswersAreTrue ImplementsKeyRing
CHECK_DEADLOCK FALSE
