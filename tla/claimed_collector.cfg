SPECIFICATION FairCollectorSpec
CONSTANTS
  Items = {i1}
  ClaimIds = {c1, c2, c3}
  Owners = {w1, w2}
  ReapLimit = 1
  Null = Null
  MaxFaults = 2
INVARIANTS
  CollectorTypeOK
  CompletedWasCommitted
  OneCurrentHolder
PROPERTIES
  StoreSpec
  ItemsSettle
CHECK_DEADLOCK FALSE
