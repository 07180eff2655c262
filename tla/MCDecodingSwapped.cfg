CONSTANTS
  Requests          <- TwoRequests
  PromptLen         <- TwoPrompts
  MaxTokens         <- TwoMaxima
  BlockSize         = 2
  MaxNumGpuBlocks   = 4
  MaxNumCpuBlocks   = 3
  MaxBatchSize      = 2
  MaxTokensPerBatch = 2
  AcceptBelow       = 1
  PipelineSize      = 1
SPECIFICATION Spec
PROPERTIES
  SwappedReturns
