CONSTANTS
  r1 = r1
  r2 = r2
  r3 = r3
  Requests     <- ThreeRequests
  PromptLen    <- LongPrompts
  TokenIds      = {}
  SpecialTokens = 1
  Sampling     <- ServerSampling
  Streaming    <- SecondOne
  Resending    <- ThirdOne
  Calls        <- OneCall
  Server       = TRUE
  PipelineSize = 2
SPECIFICATION Spec
INVARIANTS
  Consistent
  NoTokenLost
  SlotsAreTiled
PROPERTIES
  LifetimeIsComplete
  EveryClientAnswered
