CONSTANTS
  Configs    <- MCConfigs
  MaxSize    = 100
  Lengths    <- MCLengths
  Bandwidths <- MCBandwidths
  Models       <- MCModels
  Parallel     <- MCParallel
  SchedPolicies     <- MCPolicies
  Environments <- MCEnvironments
  Cluster      <- MCCluster
  GpuMemory    = 40000
  Utilization  = 90
  CpuSwapSpace = 4000
  BlockSize    = 2
  Earlier      <- MCEarlier
  Callers     = {"worker0", "worker1"}
  Checkpoints <- MCCheckpoints
  Dtypes      = {"fp16", "fp32", "fp8"}
  MaxCalls    = 1
  MaxDeaths   = 1
SPECIFICATION EngineSpec
INVARIANTS
  BelowBreakevenMigrates
  LayersAreAligned
  StartedWithCaches
  WeightsAreComplete
PROPERTIES
  FasterFavoursMigration
  LongerNeverCheaper
CHECK_DEADLOCK FALSE
