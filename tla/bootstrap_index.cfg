SPECIFICATION FairSpec
CONSTANTS
  Scopes = {s1, s2}
  Selections = {{s1}, {s1, s2}}
  Workers = {w1, w2}
  MaxEmptyPolls = 2
  MaxFaults = 1
INVARIANTS
  TypeOK
  BackfillAfterCollection
  ReopenAfterDrain
  SuccessIsDrained
  NoMappingLeftGated
PROPERTIES
  PipelineEnds
CHECK_DEADLOCK FALSE
