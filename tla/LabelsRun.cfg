SPECIFICATION FairSpec
CONSTANTS
  Threads = {t1, t2}
  nv = 4
  NumTypes = 2
  vtype <- SomeTyped
  Histories <- Small
INVARIANTS
  TypeOK
  EndsAgree
  LabelsConnected
  Components
  SizesCounted
PROPERTIES
  Termination
