SPECIFICATION FairSpec
CONSTANTS
  Threads = {t1, t2}
  A = A
  a = a
  B = B
  C = C
  D = D
  empty = empty
  Names <- Strings
  Lower <- Lowered
  Empty = empty
  LV = 3
  MaxTime = 99
  Sessions <- Absent
INVARIANTS
  AssertedDeletions
