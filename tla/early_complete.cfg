SPECIFICATION RunSpec
CONSTANTS
  i1 = i1
  i2 = i2
  canonical = canonical
  anchor = anchor
  Items = {i1, i2}
  Null = Null
  Kinds = {"git", "terraform_state"}
  KindOf <- SliceKinds
  Phases = {canonical, anchor}
  Required <- Contracts
  Batches <- TwoBatches
  Coordinators = {k1}
  MaxEpochs = 1
  MaxAborts = 0
SYMMETRY RunSymmetry
INVARIANTS
  CompleteIsConverged
CHECK_DEADLOCK FALSE
