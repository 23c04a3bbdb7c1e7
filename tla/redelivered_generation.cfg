SPECIFICATION Spec
CONSTANTS
  s1 = s1
  w1 = w1
  w2 = w2
  Scopes = {s1}
  MaxGen = 1
  Workers = {w1}
  LeaseOwner <- SharedOwner
  Hint <- SameHint
  MaxAttempts = 2
  MaxFaults = 1
  MaxOps = 0
  Redelivery = TRUE
  Null = Null
INVARIANTS
  PendingHasWork
CHECK_DEADLOCK FALSE
