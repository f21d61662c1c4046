SPECIFICATION Spec
CONSTANTS
  r1 = r1  r2 = r2  p1 = p1  p2 = p2  a1 = a1  o1 = o1
  None = None
  Limiters <- AllLimiters
  Replicas <- TwoReplicas
  Clients <- TwoClients
  Batches <- OneOrTwo
  Capacity = 2
  GlobalCapacity = 3
  Unit = 1
  Refill = 1
  TTL = 4
  Skew = 1
  MaxTime = 5
INVARIANTS Budget Stocked
CHECK_DEADLOCK FALSE
