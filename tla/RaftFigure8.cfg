SPECIFICATION RaftSpec
CONSTANTS
  Server = {s1, s2, s3, s4, s5}
  Candidates = {s1, s5}
  MaxTerm = 4
  MaxLog = 2
  MaxStarts = 1
  MaxMsgs = 1
  MaxCrashes = 0
VIEW Observed
CONSTRAINT LeadersReachNobodyAtFirst
SYMMETRY Peers
INVARIANTS
  NoApplyError
CHECK_DEADLOCK FALSE
