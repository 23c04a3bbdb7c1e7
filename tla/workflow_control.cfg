SPECIFICATION StoreSpec
CONSTANTS
  Items = {i1, i2}
  ClaimIds = {c1, c2, c3, c4}
  Owners = {o1, o2}
  ReapLimit = 2
  Null = Null
SYMMETRY StoreSymmetry
INVARIANTS
  StoreTypeOK
  ExclusiveOwnership
  TokensNeverReused
PROPERTIES
  FinishedIsFinal
  ImplementsLease
