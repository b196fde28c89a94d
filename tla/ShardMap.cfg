SPECIFICATION FairMapSpec
CONSTANTS
  Servers = {n1, n2}
  Testers = {t1}
  Callers = {c1, c2}
  Targets = {n1}
  Watcher = w
  None = None
  NodesOf <- AllFromOne
  MaxUpdates = 2
  MaxStops = 1
INVARIANTS
  LatestIsSeen
  NoSendOnClosed
  OneClientPerNode
PROPERTIES
  UpdateReturns
  FileIsFollowed
CHECK_DEADLOCK FALSE
