SPECIFICATION FairStressSpec
CONSTANTS
  Sets = {w1, w2}
  Gets = {g1}
  Replicas = {r1, r2}
  None = None
  MaxPending = 2
  Ttl = 1
  Buffer = 0
  Duration = 2
  MaxTime = 2
INVARIANTS
  ValuesAreThoseNotOverwritten
  OnlyFailedSetsAlarm
  ReportIsComplete
PROPERTIES
  TestEnds
CHECK_DEADLOCK FALSE
