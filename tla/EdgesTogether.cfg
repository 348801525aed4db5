SPECIFICATION Spec
CONSTANTS
  Threads = {t1, t2, t3}
  NumVertices = 4
  Types = {0, 1}
  BlockSize = 2
  PoolSize = 5
  Workloads <- Together
SYMMETRY Symmetry
INVARIANTS
  TypeOK
  SlotLockExclusive
  NoDuplicateEdge
  NoBlockLost
  ListedIsPublished
  CountsWhenIdle
  StampsWhenIdle
PROPERTIES
  SlotsAreNotOverwritten
  ImplementsEdgeSet
