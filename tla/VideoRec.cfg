SPECIFICATION FairDialSpec
CONSTANTS
  q1 = q1
  q2 = q2
  Requests <- TheRequests
  Users <- TheUsers
  Videos <- TheVideos
  SubscribedTo <- TheSubscriptions
  LikedVideos <- TheLikes
  Rank <- TheRank
  topVideos <- TheTrend
  Calls <- TheCalls
  Configs <- TheConfigs
  StartConfigs <- TheOptions
  MaxBatchSize = 2
  TtlSeconds = 0
  MaxTime = 2
  MaxConfigs = 1
  None = None
INVARIANTS
  NoInvalidBatch
  FreshIsBest
  StatsAddUp
  StaleIsTrending
  ConnectionsClosed
PROPERTIES
  RequestsReturn
CHECK_DEADLOCK FALSE
