SPECIFICATION FairSpec
CONSTANTS
  Threads = {t1, t2, t3}
  Names <- Strings
  Hash <- Bucket
  Length <- Bytes
  PrefixOf <- Prefix
  MaxTypes = 3
  MaxNames = 40
  Workloads <- Racing
INVARIANTS
  TypeOK
  AnswersAgree
  CreatedIsFound
PROPERTIES
  Termination
