\* Movements of two shards over three nodes, two in a row.
SPECIFICATION FairMoveSpec
CONSTANTS
  n1 = n1
  n2 = n2
  n3 = n3
  k1 = k1
  k2 = k2
  EmptyKey = EmptyKey
  None = None
  Nodes = {n1, n2, n3}
  Procs = {"test"}
  ProcOf <- OneProcess
  Shards = {1, 2}
  Keys = {k1, k2, EmptyKey}
  ShardOf <- KeyShard
  Values = {"a"}
  Ttls = {1}
  Assignments <- OnlyFirst
  FirstMap <- First
  Started = {"test"}
  Unreliable = TRUE
  MaxEdits = 0
  MaxRestarts = 0
  MaxTime = 0
  Batches <- ByHand
  MaxMoves = 2
INVARIANTS
  MappingProcessed
  KeysNeverLost
  ReplicasComplete
PROPERTY
  MovesReturn
CHECK_DEADLOCK FALSE
