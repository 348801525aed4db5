SPECIFICATION Spec
CONSTANTS
  Threads = {t1, t2}
  NumVertices = 3
  Types = {0}
  BlockSize = 2
  PoolSize = 3
  Workloads <- Absent
INVARIANTS
  RemovalAnswers
