SPECIFICATION Spec
CONSTANTS
  s1 = s1
  w1 = w1
  w2 = w2
  Scopes = {s1}
  MaxGen = 2
  Workers = {w1, w2}
  LeaseOwner <- SharedOwner
  Hint <- SameHint
  MaxAttempts = 2
  MaxFaults = 0
  MaxOps = 0
  Redelivery = FALSE
  Null = Null
INVARIANTS
  NoOverlappingRewrites
CHECK_DEADLOCK FALSE
