SPECIFICATION FairSpec
CONSTANTS
  s1 = s1
  s2 = s2
  Streams = {s1, s2}
  Algs = {a1, a2}
  Setups <- Single
  MaxBatch = 2
PROPERTIES
  RemovalHeeded
