CONSTANTS
  NumWorkers      = 2
  SimBandwidth    = 4
  Measurements    <- OneMeasurement
  MaxMeasurements = 2
  Requests        <- TwoRequests
  PromptLen       <- TwoPrompts
  RomConfig       <- Config
  BuiltInLoop     = TRUE
SPECIFICATION Spec
INVARIANTS
  TargetNotKnownDead
  EstimateWithinMeasurements
  ChargedWithRunning
  OneRecoveryPerFailure
  EveryAffectedIsTried
PROPERTIES
  DeathIsDetected
CHECK_DEADLOCK FALSE
