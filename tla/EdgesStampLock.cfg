SPECIFICATION Spec
CONSTANTS
  Threads = {t1, t2}
  NumVertices = 3
  Types = {0}
  BlockSize = 2
  PoolSize = 4
  Workloads <- EmptiedRace
SYMMETRY Symmetry
INVARIANTS
  StampLockKept
