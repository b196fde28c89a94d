\* Two replicas that stay; requests and answers are lost, time passes.
SPECIFICATION ClientSpec
CONSTANTS
  n1 = n1
  n2 = n2
  c1 = c1
  c2 = c2
  k1 = k1
  EmptyKey = EmptyKey
  None = None
  Unknown = Unknown
  Nodes = {n1, n2}
  Procs = {n1, n2}
  ProcOf <- OwnProcess
  Shards = {1}
  Keys = {k1, EmptyKey}
  ShardOf <- OneShard
  Values = {"a", "b"}
  Ttls = {1}
  Assignments <- Static
  FirstMap <- OnBoth
  Started = {n1, n2}
  Unreliable = TRUE
  MaxEdits = 0
  MaxRestarts = 0
  MaxTime = 1
  Callers = {c1, c2}
  Fragile = {n2}
  Deadlines = {}
  MaxCalls = 4
SYMMETRY CallerSymmetry
INVARIANTS
  ReadsLastWrite
  SuccessIsEverywhere
CHECK_DEADLOCK FALSE
