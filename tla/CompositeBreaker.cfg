CONSTANTS
  Callers = {c1, c2, c3}
  Configs <- ThreeConfigs
  InitialConfig <- cfgA
  Scale = 100
  MaxElapsed = 1
  MaxConcurrent = 2
  SlowThreshold = 3
  Adaptive = TRUE
  LatencyCeiling = 2
  MinThreshold = 40
  Latencies = {1, 5}
SPECIFICATION FairSpec
INVARIANTS SlotAccounting
PROPERTIES ImplementsFailureRate ThresholdRelaxes
