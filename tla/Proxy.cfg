CONSTANTS
  Requests = {r1, r2}
  Buffers = {b1, b2}
  Routes <- TwoRoutes
  Statuses = {200}
  Configs <- OneConfig
  InitialConfig <- cfgA
  Scale = 100
  MaxElapsed = 1
  MaxConcurrent = 1
  SlowThreshold = 0
  Adaptive = TRUE
  LatencyCeiling = 2
  MinThreshold = 40
  Latencies = {1}
SPECIFICATION FairSpec
INVARIANTS SlotsFollowRequests OneTruthfulReply RetriesJustified
  ReportsMatchAnswers
PROPERTY EveryRequestReturns
