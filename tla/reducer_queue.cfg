SPECIFICATION Spec
CONSTANTS
  NScopes = 1
  MaxGen = 2
  Domains <- CodeDomains
  Workers = {w1, w2}
  EnqueueBatchSize = 1
  MaxAttempts = 2
  Gate = TRUE
  Expected = 0
  SemanticLimit = 1
  MaxFaults = 2
  MaxLate = 0
  MaxReopens = 1
  MaxReplays = 1
  Null = Null
SYMMETRY ReducerSymmetry
INVARIANTS
  TypeOK
  ConflictFence
  SucceededWasHandled
  DrainedIsConverged
CHECK_DEADLOCK FALSE
