CONSTANTS
  Requests  = {r1, r2, r3}
  GpuBlocks = {g1, g2, g3, g4}
  CpuBlocks = {c1, c2, c3}
  r1 = r1
  r2 = r2
  r3 = r3
  g1 = g1
  g2 = g2
  g3 = g3
  g4 = g4
  c1 = c1
  c2 = c2
  c3 = c3
SPECIFICATION Spec
SYMMETRY Symmetry
INVARIANTS
  BlocksPartitioned
  FreeBlocksAreQuiet
PROPERTIES
  RunningKeepsItsBlocks
  ImplementsBlockPool
