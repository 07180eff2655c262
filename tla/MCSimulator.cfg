SPECIFICATION SimulatorSpec
CONSTANTS
  N = 4
  PrefillLens <- Prompts
  OutputLens <- Outputs
  Configs <- Clusters
  PrefillMaxBatchSize = 3
  PrefillMaxTokens = 4
  DecodeMaxTokens = 4
  DecodeCap = 6
  BackPressureAt = 3
  Layers = 4
  Heads = 4
  MaxRate = 4
  Esp = 1
  Settings <- SmallSettings
  MultiRates = {1}
  Profiled <- SomeProfiled
  Sizes <- TwoSizes
  TopRate = 2
  MaxGpus = 4
INVARIANTS
  NoLostWakeup
  Consistent
  LogsShowAllTheWork
  ResultIsSharp
  PoolIsConsistent
  ReportIsBest
PROPERTIES
  EveryRequestExits
  SearchReturns
