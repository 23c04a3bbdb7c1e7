SPECIFICATION FairSpec
CONSTANTS
  s1 = s1
  s2 = s2
  u1 = u1
  e1 = e1
  e2 = e2
  Lanes = {"code_calls", "repo_dependency"}
  Scopes = {s1, s2}
  Units = {u1}
  OwnUnit <- Owns
  Edges = {e1, e2}
  Resolves <- OwnOrShared
  MaxGen = 2
  Processes = {p1, p2}
  ScanCap = 4
  MaxFaults = 1
  MaxLate = 1
  MaxAgain = 1
  Null = Null
INVARIANTS
  TypeOK
  LaneIsExclusive
  DrainedMatchesAccepted
  ChangesAreReplayed
PROPERTIES
  IntentsDrain
CHECK_DEADLOCK FALSE
