\* Two running processes swap two shards while time passes.
SPECIFICATION Spec
CONSTANTS
  n1 = n1
  n2 = n2
  n3 = n3
  k1 = k1
  k2 = k2
  EmptyKey = EmptyKey
  None = None
  Nodes = {n1, n2}
  Procs = {n1, n2}
  ProcOf <- OwnProcess
  Shards = {1, 2}
  Keys = {k2, EmptyKey}
  ShardOf <- TwoShards
  Values = {"a"}
  Ttls = {0, 1, 2}
  Assignments <- Swap
  FirstMap <- SwapFirst
  Started = {n1, n2}
  Unreliable = TRUE
  MaxEdits = 2
  MaxRestarts = 0
  MaxTime = 2
INVARIANTS
  TypeOK
  CopyKeepsExpiry
  SteadyCopiesLand
CHECK_DEADLOCK FALSE
