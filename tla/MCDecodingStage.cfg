CONSTANTS
  Requests          <- FourRequests
  PromptLen         <- FourPrompts
  MaxTokens         <- FourMaxima
  BlockSize         = 2
  MaxNumGpuBlocks   = 6
  MaxNumCpuBlocks   = 2
  MaxBatchSize      = 3
  MaxTokensPerBatch = 3
  AcceptBelow       = 1
  PipelineSize      = 2
SPECIFICATION Spec
INVARIANTS
  Consistent
  TablesFollowQueues
  GpuBlocksSuffice
  InFlightHasBlocks
PROPERTIES
  InFlightUntouched
  EveryRequestFinishes
CHECK_DEADLOCK FALSE
