SPECIFICATION Spec
CONSTANTS
  NScopes = 1
  MaxGen = 2
  Domains <- CodeDomains
  Workers = {w1, w2}
  EnqueueBatchSize = 2
  MaxAttempts = 2
  Gate = FALSE
  Expected = 0
  SemanticLimit = 1
  MaxFaults = 0
  MaxLate = 0
  MaxReopens = 0
  MaxReplays = 0
  Null = Null
PROPERTIES
  SupersededMeansNewer
CHECK_DEADLOCK FALSE
