SPECIFICATION FairConfigSpec
CONSTANTS
  N = 2
  MaxGen = 2
  MaxOps = 2
  Calls = {c1, c2}
  Stuck = {c2}
  None = None
  Names <- NamesMC
  Instances <- InstancesMC
  Ends <- EndsMC
INVARIANTS
  PositiveReplyIsSaved
  OldInstancesAreCutOff
PROPERTIES
  CallKeepsContract
  OnlyLatestPersists
  CallReturns
CHECK_DEADLOCK FALSE
