SPECIFICATION Spec
CONSTANTS
  Threads = {t1, t2}
  Names <- Strings
  Hash <- Bucket
  Length <- Bytes
  PrefixOf <- Prefix
  MaxTypes = 3
  MaxNames = 40
  Workloads <- Colliding
SYMMETRY Symmetry
INVARIANTS
  NobodyHangs
