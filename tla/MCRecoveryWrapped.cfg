CONSTANTS
  NumWorkers      = 2
  SimBandwidth    = 4
  Measurements    <- OneMeasurement
  MaxMeasurements = 0
  Requests        <- OneRequest
  PromptLen       <- OnePrompt
  RomConfig       <- Config
  BuiltInLoop     = FALSE
SPECIFICATION Spec
PROPERTIES
  DeathIsDetected
CHECK_DEADLOCK FALSE
