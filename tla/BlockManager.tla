---------------------------- MODULE BlockManager ----------------------------
(***************************************************************************)
(* src/distserve/block_manager.py: the KV-cache blocks of one stage.       *)
(*                                                                         *)
(* A block is in a free list, in a "swapping" list (its content is being   *)
(* copied away, the copy may not have ended), or in the block table of one *)
(* request.  The lists are sets here: nothing depends on their order, and  *)
(* a block that entered a list twice would first have been in two places.  *)
(* The GPU and CPU halves of every method are one definition, indexed by   *)
(* the location.                                                           *)
(*                                                                         *)
(* Every caller runs on the event loop and none awaits inside a call, so   *)
(* one call on one request is one step; the batched methods are runs of    *)
(* such steps, and one that raises leaves what its earlier steps did.  A   *)
(* call whose assertion fails changes nothing and is not a step.           *)
(***************************************************************************)
EXTENDS Integers, FiniteSets

CONSTANTS
  Requests,       \* request ids
  GpuBlocks,      \* range(max_num_gpu_blocks)
  CpuBlocks       \* range(max_num_cpu_blocks)

ASSUME BlocksAssumption == IsFiniteSet(GpuBlocks) /\ IsFiniteSet(CpuBlocks)

Locations == {"GPU", "CPU"}
Blocks    == [loc \in Locations |-> IF loc = "GPU" THEN GpuBlocks ELSE CpuBlocks]
Other(loc) == IF loc = "GPU" THEN "CPU" ELSE "GPU"

VARIABLES
  freeBlocks,       \* free_gpu_blocks_list, free_cpu_blocks_list
  swappingBlocks,   \* swapping_gpu_blocks_list, swapping_cpu_blocks_list
  blockTable,       \* block_table: the blocks of a request, {} without an entry
  requestLocation,  \* request_location: "none" without an entry
  copying           \* the sources of the swap_blocks calls issued to the workers
                    \*   since the last wait_for_all_swap_out (GPU) / _in (CPU)

vars == <<freeBlocks, swappingBlocks, blockTable, requestLocation, copying>>

Init ==
  /\ freeBlocks      = Blocks
  /\ swappingBlocks  = [loc \in Locations |-> {}]
  /\ blockTable      = [r \in Requests |-> {}]
  /\ requestLocation = [r \in Requests |-> "none"]
  /\ copying         = [loc \in Locations |-> {}]

NumAvail(loc) == Cardinality(freeBlocks[loc]) + Cardinality(swappingBlocks[loc])

(***************************************************************************)
(* _get_free_blocks(n, loc).  When the free list is too short the manager  *)
(* calls wait_for_all_swap_* on the workers and takes the swapping list    *)
(* over.                                                                   *)
(***************************************************************************)
MustFlush(n, loc) == Cardinality(freeBlocks[loc]) < n

Pool(n, loc) ==
  IF MustFlush(n, loc) THEN freeBlocks[loc] \cup swappingBlocks[loc]
                       ELSE freeBlocks[loc]

(* The choices of n blocks: the code takes the first n of its list. *)
GetFreeBlocks(n, loc) ==
  IF n <= NumAvail(loc)
  THEN {taken \in SUBSET Pool(n, loc) : Cardinality(taken) = n}
  ELSE {}                                            \* AssertionError

(* The swapping lists after the call. *)
MutKeepSwapping(n, loc) == swappingBlocks        \* mutant: list taken over, not cleared

SwappingAfter(n, loc) ==
  IF MustFlush(n, loc) THEN [swappingBlocks EXCEPT ![loc] = {}] ELSE swappingBlocks

(* The copies that may be under way after the call. *)
MutNoWait(n, loc) == copying                     \* mutant: workers not told to wait

CopyingAfter(n, loc) ==
  IF MustFlush(n, loc) THEN [copying EXCEPT ![loc] = {}] ELSE copying

(***************************************************************************)
(* The methods.                                                            *)
(***************************************************************************)

(* mutant: the table is assigned the new blocks, not extended by them *)
MutAllocateBlocks(r, needed) ==
  LET n == needed - Cardinality(blockTable[r]) IN
  /\ requestLocation[r] # "CPU"
  /\ n > 0
  /\ \E taken \in GetFreeBlocks(n, "GPU") :
       /\ blockTable' = [blockTable EXCEPT ![r] = taken]
       /\ freeBlocks' = [freeBlocks EXCEPT !["GPU"] = Pool(n, "GPU") \ taken]
  /\ requestLocation' = [requestLocation EXCEPT ![r] = "GPU"]
  /\ swappingBlocks'  = SwappingAfter(n, "GPU")
  /\ copying'         = CopyingAfter(n, "GPU")

(* allocate_blocks: a request needs `needed` blocks in all on the GPU.     *)
(* With enough of them already the call changes nothing.                   *)
AllocateBlocks(r, needed) ==
  LET n == needed - Cardinality(blockTable[r]) IN
  /\ requestLocation[r] # "CPU"
  /\ n > 0
  /\ \E taken \in GetFreeBlocks(n, "GPU") :
       /\ blockTable' = [blockTable EXCEPT ![r] = @ \cup taken]
       /\ freeBlocks' = [freeBlocks EXCEPT !["GPU"] = Pool(n, "GPU") \ taken]
  /\ requestLocation' = [requestLocation EXCEPT ![r] = "GPU"]
  /\ swappingBlocks'  = SwappingAfter(n, "GPU")
  /\ copying'         = CopyingAfter(n, "GPU")

(* mutant: every freed block goes to the GPU list *)
MutFreedTo(r) == "GPU"

(* The list the freed blocks of a request go to: that of their side. *)
FreedTo(r) == requestLocation[r]

(* free_blocks *)
FreeBlocks(r) ==
  /\ requestLocation[r] # "none"
  /\ freeBlocks'      = [freeBlocks EXCEPT ![FreedTo(r)] = @ \cup blockTable[r]]
  /\ blockTable'      = [blockTable EXCEPT ![r] = {}]
  /\ requestLocation' = [requestLocation EXCEPT ![r] = "none"]
  /\ UNCHANGED <<swappingBlocks, copying>>

(* swap_requests([r]); both callers pass one request.  The old blocks go   *)
(* to the swapping list of their side and the copy is issued.              *)
SwapRequest(r, from, to) ==
  LET n == Cardinality(blockTable[r]) IN
  /\ requestLocation[r] = from
  /\ \E taken \in GetFreeBlocks(n, to) :
       /\ blockTable' = [blockTable EXCEPT ![r] = taken]
       /\ freeBlocks' = [freeBlocks EXCEPT ![to] = Pool(n, to) \ taken]
  /\ requestLocation' = [requestLocation EXCEPT ![r] = to]
  /\ swappingBlocks'  = [SwappingAfter(n, to) EXCEPT ![from] = @ \cup blockTable[r]]
  /\ copying'         = [CopyingAfter(n, to) EXCEPT ![from] = @ \cup blockTable[r]]

SwapIn(r)  == SwapRequest(r, "CPU", "GPU")
SwapOut(r) == SwapRequest(r, "GPU", "CPU")

Next ==
  \E r \in Requests :
    \/ \E needed \in 1 .. Cardinality(GpuBlocks) : AllocateBlocks(r, needed)
    \/ FreeBlocks(r)
    \/ SwapIn(r)
    \/ SwapOut(r)

Spec == Init /\ [][Next]_vars

(***************************************************************************)
(* Properties.                                                             *)
(***************************************************************************)

(* The lists and tables hold blocks of their own side. *)
TypeOK ==
  /\ requestLocation \in [Requests -> Locations \cup {"none"}]
  /\ freeBlocks      \in [Locations -> SUBSET (GpuBlocks \cup CpuBlocks)]
  /\ swappingBlocks  \in [Locations -> SUBSET (GpuBlocks \cup CpuBlocks)]
  /\ copying         \in [Locations -> SUBSET (GpuBlocks \cup CpuBlocks)]
  /\ blockTable      \in [Requests -> SUBSET (GpuBlocks \cup CpuBlocks)]
  /\ \A loc \in Locations : freeBlocks[loc] \cup swappingBlocks[loc] \subseteq Blocks[loc]
  /\ \A r \in Requests, loc \in Locations :
       requestLocation[r] = loc => blockTable[r] \subseteq Blocks[loc]

(* The blocks of loc that are in the tables of requests there. *)
InTables(loc) == UNION {blockTable[r] : r \in {q \in Requests : requestLocation[q] = loc}}

(* No block has two owners: the free list, the swapping list and the       *)
(* tables of one side share none, nor do two tables.                       *)
NoSharedBlock ==
  /\ \A loc \in Locations :
       /\ freeBlocks[loc] \cap swappingBlocks[loc] = {}
       /\ freeBlocks[loc] \cap InTables(loc) = {}
       /\ swappingBlocks[loc] \cap InTables(loc) = {}
  /\ \A r, q \in Requests :
       r # q /\ requestLocation[r] = requestLocation[q] =>
         blockTable[r] \cap blockTable[q] = {}

(* No block is ever lost: every block of a side is in one of the three.    *)
NoLostBlock ==
  \A loc \in Locations :
    freeBlocks[loc] \cup swappingBlocks[loc] \cup InTables(loc) = Blocks[loc]

BlocksPartitioned == NoSharedBlock /\ NoLostBlock

(* Requirement 2 of block_manager.py:239-242, the manager's share of it: a *)
(* block it may hand out without waiting is not the source of a copy that  *)
(* may still be under way.                                                 *)
FreeBlocksAreQuiet == \A loc \in Locations : freeBlocks[loc] \cap copying[loc] = {}

(* allocate_blocks extends a table in place: the blocks in which a request *)
(* on the GPU already has its keys and values stay its own until it is     *)
(* swapped out or freed.                                                   *)
RunningKeepsItsBlocks ==
  [][\A r \in Requests :
       requestLocation[r] = "GPU" /\ requestLocation'[r] = "GPU" =>
         blockTable[r] \subseteq blockTable'[r]]_vars

(* The manager implements the pool of counts the schedulers see. *)
Pools == INSTANCE BlockPool WITH
  NumBlocks <- [loc \in Locations |-> Cardinality(Blocks[loc])],
  avail     <- [loc \in Locations |-> NumAvail(loc)],
  held      <- [r \in Requests |-> Cardinality(blockTable[r])],
  where     <- requestLocation

ImplementsBlockPool == Pools!Spec
=============================================================================
