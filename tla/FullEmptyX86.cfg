SPECIFICATION FairSpec
CONSTANTS
  Threads = {t1, t2, t3}
  Values = {a, b}
  MARKER = MARKER
  MaxCalls = 1
INVARIANTS
  Exclusion
PROPERTIES
  ImplementsFullEmpty
  AllReturn
