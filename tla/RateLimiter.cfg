CONSTANTS
  Requests = {r1}
  IPs = {ip1}
  Buckets = {b1, b2}
  Configs <- TwoConfigs
  InitialConfig <- over
  IdleTTL = 2
  BatchSize = 1
  MaxPass = 1
SPECIFICATION FairLimiterSpec
PROPERTIES EvictsOnlyIdle IdleIsEvicted CloseReturns
