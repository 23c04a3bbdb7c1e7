SPECIFICATION FairRunSpec
CONSTANTS
  i1 = i1
  i2 = i2
  canonical = canonical
  anchor = anchor
  Items = {i1, i2}
  Null = Null
  Kinds = {"git", "terraform_state"}
  KindOf <- SliceKinds
  Phases = {canonical, anchor}
  Required <- OwnPhase
  Batches <- OneBatch
  Coordinators = {k1, k2}
  MaxEpochs = 1
  MaxAborts = 1
INVARIANTS
  RunTypeOK
  CompleteIsConverged
  StatusIsExplained
PROPERTIES
  RunSettles
CHECK_DEADLOCK FALSE
