CONSTANTS
  Configs <- MCConfigs
  InitialConfig <- cfgA
  Thresholds <- MCThresholds
  Scale = 100
  MaxElapsed = 2
SPECIFICATION FairSpec
INVARIANTS TypeOK RingCoherent
PROPERTIES ImplementsSlidingWindow HealsWithTraffic
