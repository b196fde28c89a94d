SPECIFICATION RaftSpec
CONSTANTS
  Server = {s1, s2, s3}
  Candidates = {s1, s2, s3}
  MaxTerm = 3
  MaxLog = 2
  MaxStarts = 1
  MaxMsgs = 2
  MaxCrashes = 1
VIEW Observed
SYMMETRY Peers
INVARIANTS
  OwnEntriesStay
  LogsMatch
  MatchIsHeld
CHECK_DEADLOCK FALSE
