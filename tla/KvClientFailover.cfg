\* One caller; a replica is added that crashes and restarts; contexts end.
SPECIFICATION FairClientSpec
CONSTANTS
  n1 = n1
  n2 = n2
  c1 = c1
  c2 = c2
  k1 = k1
  EmptyKey = EmptyKey
  None = None
  Unknown = Unknown
  Nodes = {n1, n2}
  Procs = {n1, n2}
  ProcOf <- OwnProcess
  Shards = {1}
  Keys = {k1, EmptyKey}
  ShardOf <- OneShard
  Values = {"a"}
  Ttls = {1}
  Assignments <- AddsReplica
  FirstMap <- OnN1
  Started = {n1, n2}
  Unreliable = FALSE
  MaxEdits = 1
  MaxRestarts = 1
  MaxTime = 0
  Callers = {c1}
  Fragile = {n2}
  Deadlines = {"set", "delete"}
  MaxCalls = 2
INVARIANT
  GetFailsOver
PROPERTY
  CallsReturn
CHECK_DEADLOCK FALSE
