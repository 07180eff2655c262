CONSTANTS
  Requests  = {r1, r2}
  GpuBlocks = {g1, g2}
  CpuBlocks = {c1, c2}
  MaxCalls  = 3
SPECIFICATION StreamSpec
PROPERTIES
  Requirement2
CHECK_DEADLOCK FALSE
