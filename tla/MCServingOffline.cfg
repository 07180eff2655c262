CONSTANTS
  r1 = r1
  r2 = r2
  r3 = r3
  Requests     <- TwoRequests
  PromptLen    <- Prompts
  TokenIds     <- SecondOne
  SpecialTokens = 1
  Sampling     <- OfflineSampling
  Streaming    <- SecondOne
  Resending     = {}
  Calls        <- TwoCalls
  Server       = FALSE
  PipelineSize = 1
SPECIFICATION Spec
PROPERTIES
  EveryClientAnswered
