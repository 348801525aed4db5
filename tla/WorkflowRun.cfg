SPECIFICATION FairSpec
CONSTANTS
  s1 = s1
  s2 = s2
  Streams = {s1, s2}
  Algs = {a1, a2, a3}
  Setups <- Mixed
  MaxBatch = 3
INVARIANTS
  TypeOK
PROPERTIES
  ImplementsLifecycle
  AppliedOnce
  EndsAlone
