--------------------------- MODULE MCBlockManager ---------------------------
(* BlockManager on a small instance: three requests that compete for four  *)
(* GPU blocks, with three CPU blocks to swap to.                           *)
EXTENDS BlockManager, TLC

Symmetry == Permutations(Requests) \cup Permutations(GpuBlocks) \cup Permutations(CpuBlocks)
=============================================================================
