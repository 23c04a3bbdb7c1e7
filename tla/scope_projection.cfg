SPECIFICATION FairSpec
CONSTANTS
  s1 = s1
  w1 = w1
  w2 = w2
  Scopes = {s1}
  MaxGen = 2
  Workers = {w1, w2}
  LeaseOwner <- SharedOwner
  Hint <- SameHint
  MaxAttempts = 2
  MaxFaults = 2
  MaxOps = 1
  Redelivery = FALSE
  Null = Null
INVARIANTS
  TypeOK
  ActiveIsProjected
  ActivePointerAgrees
  PendingHasWork
  OneActiveGeneration
  QuietGraphIsActive
PROPERTIES
  WorkSettles
CHECK_DEADLOCK FALSE
