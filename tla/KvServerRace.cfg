\* A shard that moves between two processes, one of them starting and restarting.
SPECIFICATION FairSpec
CONSTANTS
  n1 = n1
  n2 = n2
  n3 = n3
  k1 = k1
  k2 = k2
  EmptyKey = EmptyKey
  None = None
  Nodes = {n1, n2}
  Procs = {n1, n2}
  ProcOf <- OwnProcess
  Shards = {1}
  Keys = {k1, EmptyKey}
  ShardOf <- OneShard
  Values = {"a"}
  Ttls = {0, 1}
  Assignments <- MoveOne
  FirstMap <- OnN1
  Started = {n1}
  Unreliable = TRUE
  MaxEdits = 2
  MaxRestarts = 1
  MaxTime = 0
INVARIANTS
  NoLostUpdate
  LockNotHeldWhileWaiting
  StoredIsAccepted
PROPERTIES
  HandlerReturns
  ServersFollowFile
  ExpiredRemoved
CHECK_DEADLOCK FALSE
