SPECIFICATION LiveSpec
CONSTANTS
  r1 = r1  r2 = r2  w1 = w1  w2 = w2  c1 = c1  c2 = c2  p1 = p1  p2 = p2
  NoReplica = NoReplica
  Writers <- TwoWriters
  HomeOf <- OneEach
  Replicas <- TwoReplicas
  Projects <- OneProject
  Clients <- TwoClients
  ProjectOf <- AllOfOne
  Attentive <- OneClient
  BlockSize = 2  BufferSize = 1  BackfillLimit = 1
  MaxSeq = 3  MaxBreaks = 1
INVARIANT NoUnexplainedGap
PROPERTY EveryEventArrives
