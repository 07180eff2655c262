------------------------- MODULE BlockManager_proofs -------------------------
(***************************************************************************)
(* For every set of requests and every finite number of blocks, the        *)
(* manager never gives a block to two owners, never loses one, and never   *)
(* hands out a block that a copy may still be reading.                     *)
(***************************************************************************)
EXTENDS BlockManager, FiniteSetTheorems, TLAPS

(***************************************************************************)
(* The inductive invariant: the partition said block by block, and what    *)
(* makes it inductive.                                                     *)
(***************************************************************************)

Shape ==
  /\ freeBlocks      \in [Locations -> SUBSET (GpuBlocks \cup CpuBlocks)]
  /\ swappingBlocks  \in [Locations -> SUBSET (GpuBlocks \cup CpuBlocks)]
  /\ copying         \in [Locations -> SUBSET (GpuBlocks \cup CpuBlocks)]
  /\ blockTable      \in [Requests -> SUBSET (GpuBlocks \cup CpuBlocks)]
  /\ requestLocation \in [Requests -> Locations \cup {"none"}]

(* A request without an entry has no blocks. *)
NoEntryNoBlocks == \A r \in Requests : requestLocation[r] = "none" => blockTable[r] = {}

(* The sources of the copies under way are all in the swapping lists. *)
CopiesAreSwapping == \A loc \in Locations : copying[loc] \subseteq swappingBlocks[loc]

ListsDisjoint == \A loc \in Locations : freeBlocks[loc] \cap swappingBlocks[loc] = {}

ListsOfTheSide ==
  \A loc \in Locations : freeBlocks[loc] \cup swappingBlocks[loc] \subseteq Blocks[loc]

(* The blocks of a table are of the request's side and in no list of it. *)
TablesOutsideLists ==
  \A r \in Requests : \A loc \in Locations : requestLocation[r] = loc =>
    blockTable[r] \subseteq Blocks[loc] \ (freeBlocks[loc] \cup swappingBlocks[loc])

TablesDisjoint ==
  \A r, q \in Requests :
    r # q /\ requestLocation[r] = requestLocation[q] => blockTable[r] \cap blockTable[q] = {}

EveryBlockSomewhere ==
  \A loc \in Locations : \A b \in Blocks[loc] :
    \/ b \in freeBlocks[loc] \cup swappingBlocks[loc]
    \/ \E r \in Requests : requestLocation[r] = loc /\ b \in blockTable[r]

IInv ==
  /\ Shape
  /\ NoEntryNoBlocks
  /\ CopiesAreSwapping
  /\ ListsDisjoint
  /\ ListsOfTheSide
  /\ TablesOutsideLists
  /\ TablesDisjoint
  /\ EveryBlockSomewhere

LEMMA InitIInv == Init => IInv
  BY DEF Init, IInv, Shape, NoEntryNoBlocks, CopiesAreSwapping, ListsDisjoint, ListsOfTheSide,
     TablesOutsideLists, TablesDisjoint, EveryBlockSomewhere, Locations, Blocks

(***************************************************************************)
(* What _get_free_blocks does to the lists of a side, whether it flushed   *)
(* or not: the blocks taken leave the two lists, the other blocks stay in  *)
(* one of them, and nothing that may be copied becomes free.               *)
(***************************************************************************)
LEMMA TakenFacts ==
  ASSUME NEW loc \in Locations, NEW n \in Int, NEW taken \in GetFreeBlocks(n, loc), IInv
  PROVE  /\ taken \subseteq freeBlocks[loc] \cup swappingBlocks[loc]
         /\ (Pool(n, loc) \ taken) \cup SwappingAfter(n, loc)[loc]
              = (freeBlocks[loc] \cup swappingBlocks[loc]) \ taken
         /\ (Pool(n, loc) \ taken) \cap SwappingAfter(n, loc)[loc] = {}
         /\ CopyingAfter(n, loc)[loc] \subseteq SwappingAfter(n, loc)[loc]
         /\ SwappingAfter(n, loc) \in [Locations -> SUBSET (GpuBlocks \cup CpuBlocks)]
         /\ CopyingAfter(n, loc) \in [Locations -> SUBSET (GpuBlocks \cup CpuBlocks)]
         /\ Pool(n, loc) \subseteq GpuBlocks \cup CpuBlocks
         /\ \A o \in Locations \ {loc} : /\ SwappingAfter(n, loc)[o] = swappingBlocks[o]
                                         /\ CopyingAfter(n, loc)[o] = copying[o]
  <1>1. taken \in SUBSET Pool(n, loc)
    BY DEF GetFreeBlocks
  <1>2. CASE MustFlush(n, loc)
    BY <1>1, <1>2 DEF Pool, SwappingAfter, CopyingAfter, IInv, Shape
  <1>3. CASE ~MustFlush(n, loc)
    BY <1>1, <1>3 DEF Pool, SwappingAfter, CopyingAfter, IInv, Shape, ListsDisjoint, CopiesAreSwapping
  <1> QED BY <1>2, <1>3

LEMMA AllocateIInv ==
  ASSUME NEW r \in Requests, NEW needed \in Int, IInv, AllocateBlocks(r, needed),
         Cardinality(blockTable[r]) \in Int
  PROVE  IInv'
  <1> DEFINE n == needed - Cardinality(blockTable[r])
  <1>1. PICK taken \in GetFreeBlocks(n, "GPU") :
          /\ blockTable' = [blockTable EXCEPT ![r] = @ \cup taken]
          /\ freeBlocks' = [freeBlocks EXCEPT !["GPU"] = Pool(n, "GPU") \ taken]
    BY DEF AllocateBlocks
  <1>2. /\ requestLocation[r] # "CPU"
        /\ requestLocation' = [requestLocation EXCEPT ![r] = "GPU"]
        /\ swappingBlocks' = SwappingAfter(n, "GPU")
        /\ copying' = CopyingAfter(n, "GPU")
    BY DEF AllocateBlocks
  <1>3. "GPU" \in Locations /\ n \in Int
    BY DEF Locations
  <1> HIDE DEF n
  <1>4. /\ taken \subseteq freeBlocks["GPU"] \cup swappingBlocks["GPU"]
        /\ (Pool(n, "GPU") \ taken) \cup swappingBlocks'["GPU"]
              = (freeBlocks["GPU"] \cup swappingBlocks["GPU"]) \ taken
        /\ (Pool(n, "GPU") \ taken) \cap swappingBlocks'["GPU"] = {}
        /\ copying'["GPU"] \subseteq swappingBlocks'["GPU"]
        /\ swappingBlocks' \in [Locations -> SUBSET (GpuBlocks \cup CpuBlocks)]
        /\ copying' \in [Locations -> SUBSET (GpuBlocks \cup CpuBlocks)]
        /\ Pool(n, "GPU") \subseteq GpuBlocks \cup CpuBlocks
        /\ swappingBlocks'["CPU"] = swappingBlocks["CPU"] /\ copying'["CPU"] = copying["CPU"]
    BY <1>1, <1>2, <1>3, TakenFacts DEF Locations
  <1>5. Shape'
    BY <1>1, <1>2, <1>4 DEF IInv, Shape, Locations
  <1> USE DEF IInv, Shape, Locations
  <1>6. NoEntryNoBlocks'
    BY <1>1, <1>2 DEF NoEntryNoBlocks
  <1>7. CopiesAreSwapping'
    BY <1>4 DEF CopiesAreSwapping
  <1>8. ListsDisjoint'
    BY <1>1, <1>4 DEF ListsDisjoint
  <1>9. ListsOfTheSide'
    BY <1>1, <1>4 DEF ListsOfTheSide
  <1>10. TablesOutsideLists'
    BY <1>1, <1>2, <1>4 DEF TablesOutsideLists, ListsOfTheSide, NoEntryNoBlocks
  <1>11. TablesDisjoint'
    BY <1>1, <1>2, <1>4 DEF TablesDisjoint, TablesOutsideLists, NoEntryNoBlocks
  <1>12. EveryBlockSomewhere'
    BY <1>1, <1>2, <1>4 DEF EveryBlockSomewhere, NoEntryNoBlocks
  <1> QED BY <1>5, <1>6, <1>7, <1>8, <1>9, <1>10, <1>11, <1>12

LEMMA FreeIInv ==
  ASSUME NEW r \in Requests, IInv, FreeBlocks(r)
  PROVE  IInv'
  <1> USE DEF IInv, Shape, FreeBlocks, FreedTo
  <1>1. requestLocation[r] \in Locations
    OBVIOUS
  <1>2. Shape'
    BY <1>1
  <1>3. NoEntryNoBlocks'
    BY <1>1 DEF NoEntryNoBlocks
  <1>4. CopiesAreSwapping'
    BY <1>1 DEF CopiesAreSwapping
  <1>5. ListsDisjoint'
    BY <1>1 DEF ListsDisjoint, TablesOutsideLists
  <1>6. ListsOfTheSide'
    BY <1>1 DEF ListsOfTheSide, TablesOutsideLists
  <1>7. TablesOutsideLists'
    BY <1>1 DEF TablesOutsideLists, TablesDisjoint, Locations
  <1>8. TablesDisjoint'
    BY <1>1 DEF TablesDisjoint, NoEntryNoBlocks, Locations
  <1>9. EveryBlockSomewhere'
    BY <1>1 DEF EveryBlockSomewhere, Locations
  <1> QED BY <1>2, <1>3, <1>4, <1>5, <1>6, <1>7, <1>8, <1>9

LEMMA SwapIInv ==
  ASSUME NEW r \in Requests, NEW from \in Locations, NEW to \in Locations, from # to,
         Cardinality(blockTable[r]) \in Int, IInv, SwapRequest(r, from, to)
  PROVE  IInv'
  <1> DEFINE n == Cardinality(blockTable[r])
  <1>1. PICK taken \in GetFreeBlocks(n, to) :
          /\ blockTable' = [blockTable EXCEPT ![r] = taken]
          /\ freeBlocks' = [freeBlocks EXCEPT ![to] = Pool(n, to) \ taken]
    BY DEF SwapRequest
  <1>2. /\ requestLocation[r] = from
        /\ requestLocation' = [requestLocation EXCEPT ![r] = to]
        /\ swappingBlocks' = [SwappingAfter(n, to) EXCEPT ![from] = @ \cup blockTable[r]]
        /\ copying' = [CopyingAfter(n, to) EXCEPT ![from] = @ \cup blockTable[r]]
    BY DEF SwapRequest
  <1>3. n \in Int
    OBVIOUS
  <1> HIDE DEF n
  <1>4. /\ taken \subseteq freeBlocks[to] \cup swappingBlocks[to]
        /\ (Pool(n, to) \ taken) \cup swappingBlocks'[to]
              = (freeBlocks[to] \cup swappingBlocks[to]) \ taken
        /\ (Pool(n, to) \ taken) \cap swappingBlocks'[to] = {}
        /\ copying'[to] \subseteq swappingBlocks'[to]
        /\ swappingBlocks' \in [Locations -> SUBSET (GpuBlocks \cup CpuBlocks)]
        /\ copying' \in [Locations -> SUBSET (GpuBlocks \cup CpuBlocks)]
        /\ Pool(n, to) \subseteq GpuBlocks \cup CpuBlocks
        /\ swappingBlocks'[from] = swappingBlocks[from] \cup blockTable[r]
        /\ copying'[from] = copying[from] \cup blockTable[r]
    BY <1>1, <1>2, <1>3, TakenFacts DEF IInv, Shape
  <1>5. /\ Locations = {from, to}
        /\ freeBlocks'[to] = Pool(n, to) \ taken
        /\ freeBlocks'[from] = freeBlocks[from]
    BY <1>1 DEF Locations, IInv, Shape
  <1> USE DEF IInv, Shape
  <1>6. Shape'
    BY <1>1, <1>2, <1>4
  <1>7. NoEntryNoBlocks'
    BY <1>1, <1>2 DEF NoEntryNoBlocks, Locations
  <1>8. CopiesAreSwapping'
    BY <1>4, <1>5 DEF CopiesAreSwapping
  <1>9. ListsDisjoint'
    BY <1>2, <1>4, <1>5 DEF ListsDisjoint, TablesOutsideLists
  <1>10. ListsOfTheSide'
    BY <1>2, <1>4, <1>5 DEF ListsOfTheSide, TablesOutsideLists
  <1>11. TablesOutsideLists'
    BY <1>1, <1>2, <1>4, <1>5 DEF TablesOutsideLists, ListsOfTheSide, TablesDisjoint
  <1>12. TablesDisjoint'
    BY <1>1, <1>2, <1>4, <1>5 DEF TablesDisjoint, TablesOutsideLists, NoEntryNoBlocks, Locations
  <1>13. EveryBlockSomewhere'
    BY <1>1, <1>2, <1>4, <1>5 DEF EveryBlockSomewhere
  <1> QED BY <1>6, <1>7, <1>8, <1>9, <1>10, <1>11, <1>12, <1>13

(* Block sets are finite, so that counting them makes sense. *)
LEMMA FiniteSides ==
  ASSUME IInv
  PROVE  /\ \A S \in SUBSET (GpuBlocks \cup CpuBlocks) : IsFiniteSet(S) /\ Cardinality(S) \in Nat
         /\ \A r \in Requests : Cardinality(blockTable[r]) \in Nat
  <1>1. IsFiniteSet(GpuBlocks \cup CpuBlocks)
    BY BlocksAssumption, FS_Union
  <1>2. \A S \in SUBSET (GpuBlocks \cup CpuBlocks) : IsFiniteSet(S) /\ Cardinality(S) \in Nat
    BY <1>1, FS_Subset, FS_CardinalityType
  <1> QED BY <1>2 DEF IInv, Shape

LEMMA NextIInv == IInv /\ [Next]_vars => IInv'
  <1> SUFFICES ASSUME IInv, [Next]_vars PROVE IInv'
    OBVIOUS
  <1>1. ASSUME NEW r \in Requests, NEW needed \in 1 .. Cardinality(GpuBlocks),
               AllocateBlocks(r, needed)
        PROVE  IInv'
    <2>1. needed \in Int /\ Cardinality(blockTable[r]) \in Int
      BY FiniteSides, BlocksAssumption, FS_CardinalityType
    <2> QED BY <1>1, <2>1, AllocateIInv
  <1>2. ASSUME NEW r \in Requests, FreeBlocks(r) PROVE IInv'
    BY <1>2, FreeIInv
  <1>3. ASSUME NEW r \in Requests, SwapIn(r) \/ SwapOut(r) PROVE IInv'
    <2>1. Cardinality(blockTable[r]) \in Int
      BY FiniteSides
    <2> QED BY <1>3, <2>1, SwapIInv DEF SwapIn, SwapOut, Locations
  <1>4. CASE UNCHANGED vars
    BY <1>4 DEF vars, IInv, Shape, NoEntryNoBlocks, CopiesAreSwapping, ListsDisjoint,
       ListsOfTheSide, TablesOutsideLists, TablesDisjoint, EveryBlockSomewhere
  <1> QED BY <1>1, <1>2, <1>3, <1>4 DEF Next

LEMMA Invariance == Spec => []IInv
  BY InitIInv, NextIInv, PTL DEF Spec

(***************************************************************************)
(* The theorems.                                                           *)
(***************************************************************************)

(* The lists, tables and locations keep their types. *)
THEOREM TypeCorrect == Spec => []TypeOK
  <1>1. IInv => TypeOK
    BY DEF IInv, TypeOK, Shape, ListsOfTheSide, TablesOutsideLists
  <1> QED BY <1>1, Invariance, PTL

(* Every block of a side is in exactly one of the free list, the swapping  *)
(* list and one request's table, whatever the calls.                       *)
THEOREM Partition == Spec => []BlocksPartitioned
  <1>1. ASSUME IInv PROVE BlocksPartitioned
    <2> USE <1>1 DEF IInv, Shape
    <2>1. NoSharedBlock
      <3>1. \A loc \in Locations : /\ freeBlocks[loc] \cap InTables(loc) = {}
                                   /\ swappingBlocks[loc] \cap InTables(loc) = {}
        BY DEF InTables, TablesOutsideLists
      <3> QED BY <3>1 DEF NoSharedBlock, ListsDisjoint, TablesDisjoint
    <2>2. NoLostBlock
      <3>1. \A loc \in Locations : InTables(loc) \subseteq Blocks[loc]
        BY DEF InTables, TablesOutsideLists
      <3>2. \A loc \in Locations : \A b \in Blocks[loc] :
              b \in freeBlocks[loc] \cup swappingBlocks[loc] \cup InTables(loc)
        BY DEF InTables, EveryBlockSomewhere
      <3> QED BY <3>1, <3>2 DEF NoLostBlock, ListsOfTheSide
    <2> QED BY <2>1, <2>2 DEF BlocksPartitioned
  <1> QED BY <1>1, Invariance, PTL

(* A block in a free list is not the source of a copy under way. *)
THEOREM QuietFreeBlocks == Spec => []FreeBlocksAreQuiet
  <1>1. IInv => FreeBlocksAreQuiet
    BY DEF IInv, CopiesAreSwapping, ListsDisjoint, FreeBlocksAreQuiet
  <1> QED BY <1>1, Invariance, PTL

(* A request keeps its GPU blocks while it stays on the GPU. *)
THEOREM KeepsBlocks == Spec => RunningKeepsItsBlocks
  <1> DEFINE Keeps == \A r \in Requests :
               requestLocation[r] = "GPU" /\ requestLocation'[r] = "GPU" =>
                 blockTable[r] \subseteq blockTable'[r]
  <1>1. ASSUME IInv, [Next]_vars PROVE [Keeps]_vars
    <2> USE <1>1 DEF IInv, Shape
    <2>1. ASSUME NEW r \in Requests, NEW needed, AllocateBlocks(r, needed) PROVE Keeps
      BY <2>1 DEF AllocateBlocks
    <2>2. ASSUME NEW r \in Requests, FreeBlocks(r) PROVE Keeps
      BY <2>2 DEF FreeBlocks
    <2>3. ASSUME NEW r \in Requests, SwapIn(r) \/ SwapOut(r) PROVE Keeps
      BY <2>3 DEF SwapIn, SwapOut, SwapRequest
    <2> QED BY <2>1, <2>2, <2>3 DEF Next
  <1> QED BY <1>1, Invariance, PTL DEF Spec, RunningKeepsItsBlocks

(***************************************************************************)
(* The refinement.                                                         *)
(***************************************************************************)

(* Counting a disjoint union, and what is left of a set. *)
LEMMA CountUnion ==
  ASSUME NEW S, NEW T, IsFiniteSet(S), IsFiniteSet(T), S \cap T = {}
  PROVE  Cardinality(S \cup T) = Cardinality(S) + Cardinality(T)
  <1>1. Cardinality(S \cap T) = 0
    BY FS_EmptySet
  <1>2. Cardinality(S) \in Nat /\ Cardinality(T) \in Nat
    BY FS_CardinalityType
  <1>3. Cardinality(S \cup T) = Cardinality(S) + Cardinality(T) - Cardinality(S \cap T)
    BY FS_Union
  <1> QED BY <1>1, <1>2, <1>3

LEMMA CountDifference ==
  ASSUME NEW S, NEW T, IsFiniteSet(S), T \subseteq S
  PROVE  Cardinality(S \ T) = Cardinality(S) - Cardinality(T)
  <1>1. S \cap T = T /\ IsFiniteSet(T)
    BY FS_Subset
  <1> QED BY <1>1, FS_Difference, FS_CardinalityType

(* What is available on a side is what its two lists hold together, before *)
(* a step and after it.                                                    *)
LEMMA AvailIsTheLists ==
  ASSUME IInv, IInv', NEW loc \in Locations
  PROVE  /\ IsFiniteSet(freeBlocks[loc] \cup swappingBlocks[loc])
         /\ NumAvail(loc) = Cardinality(freeBlocks[loc] \cup swappingBlocks[loc])
         /\ NumAvail(loc)' = Cardinality(freeBlocks'[loc] \cup swappingBlocks'[loc])
         /\ NumAvail(loc) \in Nat
  <1>1. \A S \in SUBSET (GpuBlocks \cup CpuBlocks) : IsFiniteSet(S) /\ Cardinality(S) \in Nat
    BY FiniteSides
  <1>2. /\ freeBlocks[loc] \in SUBSET (GpuBlocks \cup CpuBlocks)
        /\ swappingBlocks[loc] \in SUBSET (GpuBlocks \cup CpuBlocks)
        /\ freeBlocks[loc] \cap swappingBlocks[loc] = {}
    BY DEF IInv, Shape, ListsDisjoint
  <1>3. /\ freeBlocks'[loc] \in SUBSET (GpuBlocks \cup CpuBlocks)
        /\ swappingBlocks'[loc] \in SUBSET (GpuBlocks \cup CpuBlocks)
        /\ freeBlocks'[loc] \cap swappingBlocks'[loc] = {}
    BY DEF IInv, Shape, ListsDisjoint
  <1>4. freeBlocks[loc] \cup swappingBlocks[loc] \in SUBSET (GpuBlocks \cup CpuBlocks)
    BY <1>2
  <1>5. NumAvail(loc) = Cardinality(freeBlocks[loc] \cup swappingBlocks[loc])
    BY <1>1, <1>2, CountUnion DEF NumAvail
  <1>6. NumAvail(loc)' = Cardinality(freeBlocks'[loc] \cup swappingBlocks'[loc])
    BY <1>1, <1>3, CountUnion DEF NumAvail
  <1> QED BY <1>1, <1>4, <1>5, <1>6

LEMMA AllocateRefines ==
  ASSUME NEW r \in Requests, NEW needed \in Int, IInv, IInv', AllocateBlocks(r, needed)
  PROVE  \E n \in 1 .. NumAvail("GPU") : Pools!Allocate(r, n)
  <1> DEFINE n == needed - Cardinality(blockTable[r])
  <1> USE DEF IInv, Shape
  <1>1. PICK taken \in GetFreeBlocks(n, "GPU") :
          /\ blockTable' = [blockTable EXCEPT ![r] = @ \cup taken]
          /\ freeBlocks' = [freeBlocks EXCEPT !["GPU"] = Pool(n, "GPU") \ taken]
    BY DEF AllocateBlocks
  <1>2. /\ requestLocation[r] # "CPU"
        /\ requestLocation' = [requestLocation EXCEPT ![r] = "GPU"]
        /\ swappingBlocks' = SwappingAfter(n, "GPU")
        /\ n > 0 /\ n \in Int
        /\ Locations = {"GPU", "CPU"}
    BY FiniteSides DEF AllocateBlocks, Locations
  <1>3. n <= NumAvail("GPU") /\ Cardinality(taken) = n
    BY <1>1 DEF GetFreeBlocks
  <1> HIDE DEF n
  <1>4. /\ taken \subseteq freeBlocks["GPU"] \cup swappingBlocks["GPU"]
        /\ freeBlocks'["GPU"] \cup swappingBlocks'["GPU"]
              = (freeBlocks["GPU"] \cup swappingBlocks["GPU"]) \ taken
        /\ swappingBlocks'["CPU"] = swappingBlocks["CPU"]
        /\ freeBlocks'["CPU"] = freeBlocks["CPU"]
    BY <1>1, <1>2, TakenFacts
  <1>5. NumAvail("GPU")' = NumAvail("GPU") - n /\ NumAvail("CPU")' = NumAvail("CPU")
    BY <1>2, <1>3, <1>4, AvailIsTheLists, CountDifference
  <1>6. blockTable[r] \cap taken = {}
    BY <1>2, <1>4 DEF TablesOutsideLists, NoEntryNoBlocks
  <1>7. Cardinality(blockTable[r] \cup taken) = Cardinality(blockTable[r]) + n
    <2>1. IsFiniteSet(blockTable[r]) /\ IsFiniteSet(taken)
      BY <1>2, <1>4, FiniteSides
    <2> QED BY <1>3, <1>6, <2>1, CountUnion
  <1>8. [loc \in Locations |-> NumAvail(loc)]'
          = [[loc \in Locations |-> NumAvail(loc)] EXCEPT !["GPU"] = @ - n]
    BY <1>2, <1>5
  <1>9. [q \in Requests |-> Cardinality(blockTable[q])]'
          = [[q \in Requests |-> Cardinality(blockTable[q])] EXCEPT ![r] = @ + n]
    BY <1>1, <1>7
  <1>10. n \in 1 .. NumAvail("GPU")
    BY <1>2, <1>3, AvailIsTheLists
  <1>11. Pools!Allocate(r, n)
    BY <1>2, <1>8, <1>9 DEF Pools!Allocate
  <1> QED BY <1>10, <1>11

LEMMA FreeRefines ==
  ASSUME NEW r \in Requests, IInv, IInv', FreeBlocks(r)
  PROVE  Pools!Free(r)
  <1> USE DEF IInv, Shape
  <1>1. PICK loc \in Locations : requestLocation[r] = loc
    BY DEF FreeBlocks
  <1>2. /\ freeBlocks' = [freeBlocks EXCEPT ![loc] = @ \cup blockTable[r]]
        /\ swappingBlocks' = swappingBlocks
        /\ blockTable' = [blockTable EXCEPT ![r] = {}]
        /\ requestLocation' = [requestLocation EXCEPT ![r] = "none"]
    BY <1>1 DEF FreeBlocks, FreedTo
  <1>3. blockTable[r] \cap (freeBlocks[loc] \cup swappingBlocks[loc]) = {}
    BY <1>1 DEF TablesOutsideLists
  <1>4. NumAvail(loc)' = NumAvail(loc) + Cardinality(blockTable[r])
    <2>1. freeBlocks'[loc] \cup swappingBlocks'[loc]
            = (freeBlocks[loc] \cup swappingBlocks[loc]) \cup blockTable[r]
      BY <1>1, <1>2
    <2>2. IsFiniteSet(blockTable[r]) /\ IsFiniteSet(freeBlocks[loc] \cup swappingBlocks[loc])
      BY FiniteSides, AvailIsTheLists
    <2>3. Cardinality((freeBlocks[loc] \cup swappingBlocks[loc]) \cup blockTable[r])
            = Cardinality(freeBlocks[loc] \cup swappingBlocks[loc]) + Cardinality(blockTable[r])
      BY <1>3, <2>2, CountUnion
    <2> QED BY <2>1, <2>3, AvailIsTheLists
  <1>5. \A o \in Locations \ {loc} : NumAvail(o)' = NumAvail(o)
    BY <1>2 DEF NumAvail
  <1>6. [o \in Locations |-> NumAvail(o)]'
          = [[o \in Locations |-> NumAvail(o)] EXCEPT ![loc] = @ + Cardinality(blockTable[r])]
    BY <1>1, <1>4, <1>5
  <1>7. [q \in Requests |-> Cardinality(blockTable[q])]'
          = [[q \in Requests |-> Cardinality(blockTable[q])] EXCEPT ![r] = 0]
    BY <1>2, FS_EmptySet
  <1> QED BY <1>1, <1>2, <1>6, <1>7 DEF Pools!Free, Locations

LEMMA SwapRefines ==
  ASSUME NEW r \in Requests, NEW from \in Locations, NEW to \in Locations, from # to,
         IInv, IInv', SwapRequest(r, from, to)
  PROVE  Pools!Swap(r, from, to)
  <1> DEFINE n == Cardinality(blockTable[r])
  <1> USE DEF IInv, Shape
  <1>1. PICK taken \in GetFreeBlocks(n, to) :
          /\ blockTable' = [blockTable EXCEPT ![r] = taken]
          /\ freeBlocks' = [freeBlocks EXCEPT ![to] = Pool(n, to) \ taken]
    BY DEF SwapRequest
  <1>2. /\ requestLocation[r] = from
        /\ requestLocation' = [requestLocation EXCEPT ![r] = to]
        /\ swappingBlocks' = [SwappingAfter(n, to) EXCEPT ![from] = @ \cup blockTable[r]]
        /\ n \in Nat
        /\ Locations = {from, to}
    BY FiniteSides DEF SwapRequest, Locations
  <1>3. n <= NumAvail(to) /\ Cardinality(taken) = n
    BY <1>1 DEF GetFreeBlocks
  <1>4. blockTable[r] \cap (freeBlocks[from] \cup swappingBlocks[from]) = {}
    BY <1>2 DEF TablesOutsideLists
  <1>5. IsFiniteSet(blockTable[r])
    BY FiniteSides
  <1>6. /\ taken \subseteq freeBlocks[to] \cup swappingBlocks[to]
        /\ freeBlocks'[to] \cup swappingBlocks'[to]
              = (freeBlocks[to] \cup swappingBlocks[to]) \ taken
        /\ freeBlocks'[from] \cup swappingBlocks'[from]
              = (freeBlocks[from] \cup swappingBlocks[from]) \cup blockTable[r]
    <2> HIDE DEF n
    <2>1. /\ taken \subseteq freeBlocks[to] \cup swappingBlocks[to]
          /\ (Pool(n, to) \ taken) \cup SwappingAfter(n, to)[to]
                = (freeBlocks[to] \cup swappingBlocks[to]) \ taken
          /\ SwappingAfter(n, to)[from] = swappingBlocks[from]
          /\ SwappingAfter(n, to) \in [Locations -> SUBSET (GpuBlocks \cup CpuBlocks)]
      BY <1>1, <1>2, TakenFacts
    <2> QED BY <1>1, <1>2, <2>1
  <1>7. NumAvail(to)' = NumAvail(to) - n
    <2>1. Cardinality((freeBlocks[to] \cup swappingBlocks[to]) \ taken)
            = Cardinality(freeBlocks[to] \cup swappingBlocks[to]) - Cardinality(taken)
      BY <1>6, AvailIsTheLists, CountDifference
    <2> QED BY <1>3, <1>6, <2>1, AvailIsTheLists
  <1>8. NumAvail(from)' = NumAvail(from) + n
    <2>1. Cardinality((freeBlocks[from] \cup swappingBlocks[from]) \cup blockTable[r])
            = Cardinality(freeBlocks[from] \cup swappingBlocks[from]) + n
      BY <1>4, <1>5, AvailIsTheLists, CountUnion
    <2> QED BY <1>6, <2>1, AvailIsTheLists
  <1>9. [loc \in Locations |-> NumAvail(loc)]'
          = [[loc \in Locations |-> NumAvail(loc)] EXCEPT ![to] = @ - n, ![from] = @ + n]
    <2> HIDE DEF n, IInv, Shape
    <2> DEFINE before == [loc \in Locations |-> NumAvail(loc)]
               after == [before EXCEPT ![to] = @ - n, ![from] = @ + n]
    <2>1. before' = [loc \in Locations |-> NumAvail(loc)']
      OBVIOUS
    <2>2. after = [loc \in Locations |-> IF loc = to THEN NumAvail(to) - n
                                         ELSE IF loc = from THEN NumAvail(from) + n
                                         ELSE NumAvail(loc)]
      OBVIOUS
    <2>3. ASSUME NEW loc \in Locations
          PROVE  NumAvail(loc)' = IF loc = to THEN NumAvail(to) - n
                                  ELSE IF loc = from THEN NumAvail(from) + n
                                  ELSE NumAvail(loc)
      <3>1. CASE loc = to
        BY <1>7, <3>1
      <3>2. CASE loc = from
        BY <1>8, <3>2
      <3> QED BY <1>2, <3>1, <3>2
    <2> HIDE DEF before, after
    <2>4. before' = after
      BY <2>1, <2>2, <2>3
    <2> QED BY <2>4 DEF before, after
  <1>10. [q \in Requests |-> Cardinality(blockTable[q])]'
          = [q \in Requests |-> Cardinality(blockTable[q])]
    BY <1>1, <1>3
  <1> QED BY <1>2, <1>3, <1>9, <1>10 DEF Pools!Swap

(* Every step of the manager is a step of the pools the schedulers see, or *)
(* invisible to them: flushing the swapping list never shows.              *)
THEOREM Refinement == Spec => ImplementsBlockPool
  <1>1. Init => Pools!Init
    <2> SUFFICES ASSUME Init PROVE Pools!Init
      OBVIOUS
    <2>1. \A loc \in Locations : NumAvail(loc) = Cardinality(Blocks[loc])
      BY BlocksAssumption, FS_EmptySet, FS_CardinalityType DEF Init, NumAvail, Blocks, Locations
    <2>2. \A r \in Requests : Cardinality(blockTable[r]) = 0
      BY FS_EmptySet DEF Init
    <2> QED BY <2>1, <2>2 DEF Init, Pools!Init
  <1>2. ASSUME IInv, IInv', [Next]_vars PROVE [Pools!Next]_(Pools!vars)
    <2>1. ASSUME NEW r \in Requests, NEW needed \in 1 .. Cardinality(GpuBlocks),
                 AllocateBlocks(r, needed)
          PROVE  Pools!Next
      <3>1. needed \in Int
        BY BlocksAssumption, FS_CardinalityType
      <3>2. \E n \in 1 .. NumAvail("GPU") : Pools!Allocate(r, n)
        BY <1>2, <2>1, <3>1, AllocateRefines
      <3> QED BY <3>2 DEF Pools!Next, Locations
    <2>2. ASSUME NEW r \in Requests, FreeBlocks(r) PROVE Pools!Next
      BY <1>2, <2>2, FreeRefines DEF Pools!Next
    <2>3. ASSUME NEW r \in Requests, SwapIn(r) \/ SwapOut(r) PROVE Pools!Next
      BY <1>2, <2>3, SwapRefines DEF Pools!Next, SwapIn, SwapOut, Locations
    <2>4. CASE UNCHANGED vars
      BY <2>4 DEF vars, Pools!vars, NumAvail
    <2> QED BY <1>2, <2>1, <2>2, <2>3, <2>4 DEF Next
  <1> QED BY <1>1, <1>2, Invariance, PTL DEF Spec, ImplementsBlockPool, Pools!Spec
=============================================================================
