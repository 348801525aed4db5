SPECIFICATION ReadersSpec
CONSTANTS
  Threads = {t1, t2}
  NumVertices = 4
  Types = {0, 1}
  BlockSize = 2
  PoolSize = 4
  Workloads <- Growing
  Traversals <- AlongList
INVARIANTS
  StaysInPool
