SPECIFICATION FairSpec
CONSTANTS
  NScopes = 2
  MaxGen = 1
  Domains <- CodeDomains
  Workers = {w1, w2}
  EnqueueBatchSize = 2
  MaxAttempts = 2
  Gate = TRUE
  Expected = 0
  SemanticLimit = 1
  MaxFaults = 1
  MaxLate = 1
  MaxReopens = 0
  MaxReplays = 0
  Null = Null
INVARIANTS
  SemanticCap
PROPERTIES
  IntentsSettle
CHECK_DEADLOCK FALSE
