CONSTANTS
  Requests          <- FourRequests
  PromptLen         <- FourPrompts
  BlockSize         = 2
  MaxNumGpuBlocks   = 4
  MaxBatchSize      = 2
  MaxTokensPerBatch = 5
  PipelineSize      = 2
SPECIFICATION Spec
INVARIANTS
  AllocationNeverFails
  CountsAgree
  BlocksKeptForMigration
  BridgeInArrivalOrder
PROPERTIES
  EveryRequestLeaves
