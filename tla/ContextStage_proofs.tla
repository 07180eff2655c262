------------------------- MODULE ContextStage_proofs -------------------------
(***************************************************************************)
(* For every set of requests, all prompt lengths and all limits: the       *)
(* scheduler's count of blocks and the block manager's table agree, so no  *)
(* allocation ever fails, and a request on its way to the decoding stage   *)
(* keeps its blocks until they are migrated.                               *)
(***************************************************************************)
EXTENDS ContextStage, QueueLemmas

(***************************************************************************)
(* The inductive invariant.                                                *)
(***************************************************************************)

(* A request is in at most one of the waiting queue, one batch of the      *)
(* pipeline and the unaccepted queue, and only after it arrived.           *)
OnePlace ==
  /\ Distinct(waitingQueue)
  /\ Separate(pipeline)
  /\ Range(waitingQueue) \cap (Pipe(pipeline) \cup unacceptedQueue) = {}
  /\ Pipe(pipeline) \cap unacceptedQueue = {}
  /\ Range(waitingQueue) \cup Pipe(pipeline) \cup unacceptedQueue \subseteq Range(arrivals)

(* The table holds the blocks of the requests that left the waiting queue  *)
(* and of no other, and they never outnumber the blocks there are.         *)
BlocksHeld ==
  /\ onFlyBlocks = Total(BlocksNeeded, Pipe(pipeline))
  /\ table = Items(BlocksNeeded, Pipe(pipeline) \cup unacceptedQueue)
  /\ Cardinality(table) <= MaxNumGpuBlocks

(* The unaccepted requests are on the bridge or at the decoding engine. *)
OnTheWay ==
  /\ Distinct(bridge)
  /\ Range(bridge) \cap taken = {}
  /\ Range(bridge) \cup taken = unacceptedQueue

(* The pipeline has room whenever the loop is about to push a batch. *)
LoopPlace ==
  /\ pc = "ready" => Len(pipeline) < PipelineSize
  /\ pc = "sleep" => Len(pipeline) > 0
  /\ pc = "await" => Len(pipeline) > 0

IInv == TypeOK /\ OnePlace /\ BlocksHeld /\ OnTheWay /\ LoopPlace

LEMMA BlocksNeededType == BlocksNeeded \in [Requests -> Nat]
  <1>1. ASSUME NEW r \in Requests PROVE (PromptLen[r] + BlockSize - 1) \div BlockSize \in Nat
    <2>1. PromptLen[r] + BlockSize - 1 \in Nat /\ BlockSize \in Nat \ {0}
      BY ContextAssumption
    <2> QED BY <2>1
  <1> QED BY <1>1 DEF BlocksNeeded

(* Blocks add up over disjoint sets of requests. *)
LEMMA Blocks ==
  ASSUME NEW A \in SUBSET Requests, NEW B \in SUBSET Requests, A \cap B = {}
  PROVE  /\ Total(BlocksNeeded, A) \in Nat /\ Total(BlocksNeeded, B) \in Nat
         /\ Total(BlocksNeeded, A \cup B) = Total(BlocksNeeded, A) + Total(BlocksNeeded, B)
         /\ IsFiniteSet(Items(BlocksNeeded, A))
  BY BlocksNeededType, ContextAssumption, TotalType, TotalUnion

(* What _step does with the batches once one is pushed: no request of the  *)
(* pipeline is lost, and the loop goes where it may.                       *)
LEMMA SettleFacts ==
  ASSUME NEW p \in Seq(Seq(Requests)), Len(p) \in 1 .. PipelineSize, Separate(p), Settle(p)
  PROVE  /\ pipeline' \in Seq(Seq(Requests))
         /\ Len(pipeline') <= PipelineSize
         /\ Pipe(pipeline') = Pipe(p)
         /\ Separate(pipeline')
         /\ pc' \in {"ready", "await"}
         /\ LoopPlace'
  <1> USE ContextAssumption
  <1>1. p # <<>> /\ Len(p) \in Nat
    OBVIOUS
  <1>2. CASE Len(p) = PipelineSize /\ Head(p) = <<>>
    <2>1. pipeline' = Tail(p) /\ pc' = "ready"
      BY <1>2 DEF Settle
    <2>2. Range(Head(p)) = {}
      BY <1>2 DEF Range
    <2>3. /\ Tail(p) \in Seq(Seq(Requests)) /\ Len(Tail(p)) = Len(p) - 1
          /\ Pipe(p) = Range(Head(p)) \cup Pipe(Tail(p)) /\ Separate(Tail(p))
      BY <1>1, PipeTail
    <2>4. Pipe(Tail(p)) = Pipe(p)
      BY <2>2, <2>3
    <2> QED BY <1>1, <1>2, <2>1, <2>3, <2>4 DEF LoopPlace
  <1>3. CASE Len(p) = PipelineSize /\ Head(p) # <<>>
    BY <1>1, <1>3 DEF Settle, LoopPlace
  <1>4. CASE Len(p) # PipelineSize
    BY <1>1, <1>4 DEF Settle, LoopPlace
  <1> QED BY <1>2, <1>3, <1>4

(* What the invariant says of the counts. *)
LEMMA InvariantCounts ==
  ASSUME IInv
  PROVE  /\ IsFiniteSet(table) /\ Cardinality(table) \in Nat
         /\ Total(BlocksNeeded, unacceptedQueue) \in Nat
         /\ onFlyBlocks + Total(BlocksNeeded, unacceptedQueue) = Cardinality(table)
  <1> USE DEF IInv
  <1>1. /\ Pipe(pipeline) \subseteq Requests /\ unacceptedQueue \subseteq Requests
        /\ Pipe(pipeline) \cap unacceptedQueue = {}
    BY PipeType DEF TypeOK, OnePlace
  <1>2. PICK both : both = Pipe(pipeline) \cup unacceptedQueue
    OBVIOUS
  <1>3. both \subseteq Requests /\ table = Items(BlocksNeeded, both)
    BY <1>1, <1>2 DEF BlocksHeld
  <1>4. IsFiniteSet(table)
    BY <1>3, BlocksNeededType, ContextAssumption, TotalType
  <1>5. Total(BlocksNeeded, both) = Cardinality(table)
    BY <1>3, Zenon DEF Total
  <1>6. /\ Total(BlocksNeeded, both)
              = Total(BlocksNeeded, Pipe(pipeline)) + Total(BlocksNeeded, unacceptedQueue)
        /\ Total(BlocksNeeded, unacceptedQueue) \in Nat
    BY <1>1, <1>2, Blocks
  <1> QED BY <1>4, <1>5, <1>6, FS_CardinalityType DEF BlocksHeld

(* Freeing blocks keeps the table within its bound. *)
LEMMA TableShrinks ==
  ASSUME IInv, table' \subseteq table
  PROVE  Cardinality(table') <= MaxNumGpuBlocks
  <1>1. IsFiniteSet(table) /\ Cardinality(table) \in Nat /\ Cardinality(table) <= MaxNumGpuBlocks
    BY InvariantCounts DEF IInv, BlocksHeld
  <1>2. Cardinality(table') \in Nat /\ Cardinality(table') <= Cardinality(table)
    BY <1>1, FS_Subset, FS_CardinalityType
  <1> QED BY <1>1, <1>2, ContextAssumption

LEMMA InitIInv == Init => IInv
  <1> SUFFICES ASSUME Init PROVE IInv
    OBVIOUS
  <1> USE ContextAssumption DEF Init
  <1>1. Pipe(pipeline) = {} /\ Range(waitingQueue) = {} /\ Range(bridge) = {}
    BY DEF Pipe, Range
  <1>2. TypeOK
    BY DEF TypeOK
  <1>3. OnePlace
    BY <1>1 DEF OnePlace, Distinct, Separate
  <1>4. BlocksHeld
    <2>1. Pipe(pipeline) \cup unacceptedQueue = {}
      BY <1>1
    <2>2. Total(BlocksNeeded, Pipe(pipeline)) = 0
      BY <1>1, TotalEmpty
    <2>3. Items(BlocksNeeded, Pipe(pipeline) \cup unacceptedQueue) = {}
      BY <2>1, ItemsEmpty
    <2>4. Cardinality(table) = 0
      BY FS_EmptySet
    <2> QED BY <2>2, <2>3, <2>4 DEF BlocksHeld
  <1>5. OnTheWay
    BY <1>1 DEF OnTheWay, Distinct
  <1>6. LoopPlace
    BY DEF LoopPlace
  <1> QED BY <1>2, <1>3, <1>4, <1>5, <1>6 DEF IInv

LEMMA AddRequestIInv ==
  ASSUME IInv, NEW r \in Requests, AddRequest(r)
  PROVE  IInv'
  <1> USE DEF IInv
  <1>1. waitingQueue \in Seq(Requests) /\ arrivals \in Seq(Requests)
    BY DEF TypeOK
  <1>2. /\ waitingQueue' = Append(waitingQueue, r) /\ arrivals' = Append(arrivals, r)
        /\ r \notin Range(arrivals)
    BY DEF AddRequest
  <1>3. Range(waitingQueue') = Range(waitingQueue) \cup {r} /\ Range(arrivals') = Range(arrivals) \cup {r}
    BY <1>1, <1>2, AppendRange
  <1>4. r \notin Range(waitingQueue) /\ r \notin Pipe(pipeline) \cup unacceptedQueue
    BY <1>2 DEF OnePlace
  <1>5. Distinct(waitingQueue')
    BY <1>1, <1>2, <1>4, AppendDistinct DEF OnePlace
  <1>6. TypeOK'
    BY <1>1, <1>2 DEF TypeOK, AddRequest
  <1>7. OnePlace'
    BY <1>3, <1>4, <1>5 DEF OnePlace, AddRequest
  <1>8. BlocksHeld' /\ OnTheWay' /\ LoopPlace'
    BY DEF BlocksHeld, OnTheWay, LoopPlace, AddRequest
  <1> QED BY <1>6, <1>7, <1>8

LEMMA ScheduleIInv ==
  ASSUME IInv, Schedule
  PROVE  IInv'
  <1> USE ContextAssumption DEF IInv
  <1>1. PICK n \in 0 .. Len(waitingQueue) : pc = "ready" /\ ScheduleBatch(FirstWaiting(n))
    BY DEF Schedule
  <1>2. waitingQueue \in Seq(Requests) /\ pipeline \in Seq(Seq(Requests)) /\ Distinct(waitingQueue)
    BY DEF TypeOK, OnePlace
  <1>3. PICK batch : batch = FirstWaiting(n)
    OBVIOUS
  <1>4. PICK rest : rest = SubSeq(waitingQueue, n + 1, Len(waitingQueue))
    OBVIOUS
  <1>5. /\ batch \in Seq(Requests) /\ rest \in Seq(Requests) /\ Len(batch) = n
        /\ Range(waitingQueue) = Range(batch) \cup Range(rest)
        /\ Range(batch) \cap Range(rest) = {}
        /\ Distinct(rest)
    BY <1>2, <1>3, <1>4, SplitSeq DEF FirstWaiting
  <1>6. /\ waitingQueue' = rest
        /\ onFlyBlocks' = onFlyBlocks + Total(BlocksNeeded, Range(batch))
        /\ table' = table \cup Items(BlocksNeeded, Range(batch))
        /\ Allocatable(batch)
        /\ \/ batch = <<>> /\ pipeline' = Append(pipeline, batch) /\ pc' = "sleep"
           \/ Settle(Append(pipeline, batch))
        /\ UNCHANGED <<unacceptedQueue, bridge, taken, arrivals, left>>
    BY <1>1, <1>3, <1>4, <1>5 DEF ScheduleBatch
  <1>7. Range(batch) \cap Pipe(pipeline) = {} /\ Range(batch) \cap unacceptedQueue = {}
    BY <1>5 DEF OnePlace
  <1>8. PICK pushed : pushed = Append(pipeline, batch)
    OBVIOUS
  <1>9. /\ pushed \in Seq(Seq(Requests)) /\ Len(pushed) \in 1 .. PipelineSize
        /\ Pipe(pushed) = Pipe(pipeline) \cup Range(batch) /\ Separate(pushed)
    <2>1. /\ Pipe(Append(pipeline, batch)) = Pipe(pipeline) \cup Range(batch)
          /\ Separate(Append(pipeline, batch))
      BY <1>2, <1>5, <1>7, PipeAppend DEF OnePlace
    <2>2. Len(pipeline) < PipelineSize
      BY <1>1 DEF LoopPlace
    <2> QED BY <1>2, <1>5, <1>8, <2>1, <2>2
  <1>10. /\ pipeline' \in Seq(Seq(Requests)) /\ Len(pipeline') <= PipelineSize
         /\ Pipe(pipeline') = Pipe(pushed) /\ Separate(pipeline')
         /\ pc' \in {"ready", "sleep", "await"} /\ LoopPlace'
    <2>1. CASE pipeline' = pushed /\ pc' = "sleep"
      BY <1>9, <2>1 DEF LoopPlace
    <2>2. CASE Settle(pushed)
      BY <1>9, <2>2, SettleFacts
    <2> QED BY <1>6, <1>8, <2>1, <2>2
  <1>11. Range(batch) \subseteq Requests /\ Pipe(pipeline) \subseteq Requests /\ unacceptedQueue \subseteq Requests
    BY <1>2, <1>5, RangeOfSeq, PipeType DEF TypeOK
  <1>12. /\ Total(BlocksNeeded, Range(batch)) \in Nat
         /\ Total(BlocksNeeded, Pipe(pipeline) \cup Range(batch))
               = Total(BlocksNeeded, Pipe(pipeline)) + Total(BlocksNeeded, Range(batch))
    BY <1>7, <1>11, Blocks
  <1>13. PICK before : before = Pipe(pipeline) \cup unacceptedQueue
    OBVIOUS
  <1>14. /\ Items(BlocksNeeded, before \cup Range(batch)) = table'
         /\ Total(BlocksNeeded, before \cup Range(batch)) = Cardinality(table) + Total(BlocksNeeded, Range(batch))
    <2>1. table = Items(BlocksNeeded, before)
      BY <1>13 DEF BlocksHeld
    <2>2. Total(BlocksNeeded, before) = Cardinality(table)
      BY <2>1, Zenon DEF Total
    <2>3. before \subseteq Requests /\ before \cap Range(batch) = {}
      BY <1>7, <1>11, <1>13
    <2>4. Total(BlocksNeeded, before \cup Range(batch))
            = Total(BlocksNeeded, before) + Total(BlocksNeeded, Range(batch))
      BY <1>11, <2>3, Blocks
    <2> QED BY <1>6, <2>1, <2>2, <2>4, ItemsUnion
  <1>15. Cardinality(table') = Cardinality(table) + Total(BlocksNeeded, Range(batch))
    BY <1>14, Zenon DEF Total
  <1>16. Cardinality(table') <= MaxNumGpuBlocks
    <2>1. Cardinality(table) \in Nat
      BY InvariantCounts
    <2>2. Total(BlocksNeeded, Range(batch)) <= MaxNumGpuBlocks - Cardinality(table)
      BY <1>6 DEF Allocatable, NumFreeBlocks
    <2> QED BY <1>12, <1>15, <2>1, <2>2
  <1>17. OnePlace'
    BY <1>5, <1>6, <1>7, <1>9, <1>10 DEF OnePlace
  <1>18. BlocksHeld'
    <2>1. Pipe(pipeline') \cup unacceptedQueue' = before \cup Range(batch)
      BY <1>6, <1>9, <1>10, <1>13
    <2>2. onFlyBlocks' = Total(BlocksNeeded, Pipe(pipeline'))
      BY <1>6, <1>9, <1>10, <1>12 DEF BlocksHeld
    <2> QED BY <1>14, <1>16, <2>1, <2>2 DEF BlocksHeld
  <1>19. OnTheWay'
    BY <1>6 DEF OnTheWay
  <1>20. TypeOK'
    <2>1. Items(BlocksNeeded, Range(batch)) \subseteq Items(BlocksNeeded, Requests)
      BY <1>11 DEF Items
    <2>2. table' \subseteq Items(BlocksNeeded, Requests)
      BY <1>6, <2>1 DEF TypeOK
    <2>3. onFlyBlocks' \in Nat
      BY <1>6, <1>12 DEF TypeOK
    <2> QED BY <1>5, <1>6, <1>10, <2>2, <2>3 DEF TypeOK
  <1> QED BY <1>10, <1>16, <1>17, <1>18, <1>19, <1>20

LEMMA WakeUpIInv ==
  ASSUME IInv, WakeUp
  PROVE  IInv'
  <1> USE ContextAssumption DEF IInv
  <1>1. Len(pipeline) \in 1 .. PipelineSize /\ Settle(pipeline)
    BY DEF TypeOK, LoopPlace, WakeUp
  <1>2. UNCHANGED <<schedulerVars, table, bridge, taken, arrivals, left>>
    BY DEF WakeUp
  <1>3. /\ pipeline' \in Seq(Seq(Requests)) /\ Len(pipeline') <= PipelineSize
        /\ Pipe(pipeline') = Pipe(pipeline) /\ Separate(pipeline')
        /\ pc' \in {"ready", "await"} /\ LoopPlace'
    BY <1>1, SettleFacts DEF TypeOK, OnePlace
  <1>4. TypeOK'
    BY <1>2, <1>3 DEF TypeOK, schedulerVars
  <1>5. OnePlace' /\ BlocksHeld' /\ OnTheWay'
    BY <1>2, <1>3 DEF OnePlace, BlocksHeld, OnTheWay, schedulerVars
  <1> QED BY <1>3, <1>4, <1>5

LEMMA FinishBatchIInv ==
  ASSUME IInv, FinishBatch
  PROVE  IInv'
  <1> USE ContextAssumption DEF IInv
  <1>1. /\ pipeline \in Seq(Seq(Requests)) /\ Len(pipeline) > 0
        /\ bridge \in Seq(Requests) /\ Separate(pipeline)
    BY DEF TypeOK, LoopPlace, OnePlace, FinishBatch
  <1>2. pipeline # <<>>
    BY <1>1
  <1>3. PICK batch, rest : batch = Head(pipeline) /\ rest = Tail(pipeline)
    OBVIOUS
  <1>4. /\ batch \in Seq(Requests) /\ rest \in Seq(Seq(Requests)) /\ Len(rest) = Len(pipeline) - 1
        /\ Pipe(pipeline) = Range(batch) \cup Pipe(rest)
        /\ Separate(rest) /\ Range(batch) \cap Pipe(rest) = {}
    BY <1>1, <1>2, <1>3, PipeTail
  <1>5. PICK out \in Subsequences(batch) :
          /\ unacceptedQueue' = unacceptedQueue \cup Range(out)
          /\ onFlyBlocks' = onFlyBlocks - Total(BlocksNeeded, Range(batch))
          /\ bridge' = bridge \o out
          /\ table' = table \ Items(BlocksNeeded, Range(batch) \ Range(out))
          /\ left' = left \cup (Range(batch) \ Range(out))
    BY <1>3 DEF FinishBatch, PutOnBridge, FreedOnReturn
  <1>6. pipeline' = rest /\ pc' = "ready" /\ UNCHANGED <<waitingQueue, taken, arrivals>>
    BY <1>3 DEF FinishBatch
  <1>7. out \in Seq(Requests) /\ Distinct(out) /\ Range(out) \subseteq Range(batch)
    BY <1>4, <1>5, SubsequenceFacts
  <1>8. Range(batch) \subseteq Requests /\ Pipe(rest) \subseteq Requests /\ unacceptedQueue \subseteq Requests
    BY <1>4, RangeOfSeq, PipeType DEF TypeOK
  <1>9. Range(batch) \cap unacceptedQueue = {} /\ Range(waitingQueue) \cap Range(batch) = {}
    BY <1>4 DEF OnePlace
  <1>10. /\ bridge' \in Seq(Requests) /\ Distinct(bridge')
         /\ Range(bridge') = Range(bridge) \cup Range(out)
    <2>1. Distinct(bridge) /\ Range(bridge) \cap Range(out) = {}
      BY <1>7, <1>9 DEF OnTheWay
    <2> QED BY <1>1, <1>5, <1>7, <2>1, ConcatDistinct
  <1>11. /\ Total(BlocksNeeded, Range(batch)) \in Nat /\ Total(BlocksNeeded, Pipe(rest)) \in Nat
         /\ Total(BlocksNeeded, Pipe(pipeline))
               = Total(BlocksNeeded, Range(batch)) + Total(BlocksNeeded, Pipe(rest))
    BY <1>4, <1>8, Blocks
  <1>12. onFlyBlocks' = Total(BlocksNeeded, Pipe(rest))
    BY <1>5, <1>11 DEF BlocksHeld
  <1>13. PICK finished, kept : /\ finished = Range(batch) \ Range(out)
                              /\ kept = Pipe(rest) \cup unacceptedQueue \cup Range(out)
    OBVIOUS
  <1>14. table' = Items(BlocksNeeded, kept)
    <2>1. table = Items(BlocksNeeded, Pipe(pipeline) \cup unacceptedQueue)
      BY DEF BlocksHeld
    <2>2. kept = (Pipe(pipeline) \cup unacceptedQueue) \ finished
      BY <1>4, <1>7, <1>9, <1>13
    <2>3. Items(BlocksNeeded, kept)
            = Items(BlocksNeeded, Pipe(pipeline) \cup unacceptedQueue) \ Items(BlocksNeeded, finished)
      BY <2>2, ItemsDifference
    <2> QED BY <1>5, <1>13, <2>1, <2>3
  <1>15. table' \subseteq table /\ table' \subseteq Items(BlocksNeeded, Requests)
    BY <1>5 DEF TypeOK
  <1>16. Cardinality(table') <= MaxNumGpuBlocks
    BY <1>15, TableShrinks
  <1>17. TypeOK'
    <2>1. onFlyBlocks' \in Nat
      BY <1>11, <1>12
    <2>2. unacceptedQueue' \in SUBSET Requests /\ left' \in SUBSET Requests
      BY <1>5, <1>7, <1>8 DEF TypeOK
    <2> QED BY <1>1, <1>4, <1>6, <1>10, <1>15, <2>1, <2>2 DEF TypeOK
  <1>18. OnePlace'
    BY <1>4, <1>5, <1>6, <1>7, <1>9 DEF OnePlace
  <1>19. BlocksHeld'
    <2>1. Pipe(pipeline') \cup unacceptedQueue' = kept
      BY <1>5, <1>6, <1>13
    <2> QED BY <1>6, <1>12, <1>14, <1>16, <2>1 DEF BlocksHeld
  <1>20. OnTheWay'
    BY <1>5, <1>6, <1>7, <1>9, <1>10 DEF OnTheWay
  <1>21. LoopPlace'
    BY <1>1, <1>4, <1>6 DEF LoopPlace, TypeOK
  <1> QED BY <1>17, <1>18, <1>19, <1>20, <1>21

LEMMA TakeFromBridgeIInv ==
  ASSUME IInv, TakeFromBridge
  PROVE  IInv'
  <1> USE DEF IInv
  <1>1. bridge \in Seq(Requests) /\ bridge # <<>> /\ Distinct(bridge)
    BY DEF TypeOK, OnTheWay, TakeFromBridge
  <1>2. PICK first, rest : first = Head(bridge) /\ rest = Tail(bridge)
    OBVIOUS
  <1>3. /\ first \in Range(bridge) /\ rest \in Seq(Requests)
        /\ Range(bridge) = {first} \cup Range(rest)
        /\ Distinct(rest) /\ first \notin Range(rest)
    BY <1>1, <1>2, HeadAndTail
  <1>4. /\ bridge' = rest /\ taken' = taken \cup {first}
        /\ UNCHANGED <<schedulerVars, pipeline, table, pc, arrivals, left>>
    BY <1>2 DEF TakeFromBridge
  <1>5. OnTheWay'
    BY <1>3, <1>4 DEF OnTheWay, schedulerVars
  <1>6. TypeOK'
    <2>1. first \in Requests
      BY <1>1, <1>3, RangeOfSeq
    <2> QED BY <1>3, <1>4, <2>1 DEF TypeOK, schedulerVars
  <1>7. OnePlace' /\ BlocksHeld' /\ LoopPlace'
    BY <1>4 DEF OnePlace, BlocksHeld, LoopPlace, schedulerVars
  <1> QED BY <1>5, <1>6, <1>7

LEMMA RequestMigratedIInv ==
  ASSUME IInv, NEW r \in Requests, RequestMigrated(r)
  PROVE  IInv'
  <1> USE DEF IInv
  <1>1. /\ r \in taken /\ taken' = taken \ {r}
        /\ table' = table \ Items(BlocksNeeded, {r})
        /\ unacceptedQueue' = unacceptedQueue \ {r}
        /\ left' = left \cup {r}
        /\ UNCHANGED <<waitingQueue, onFlyBlocks, pipeline, pc, bridge, arrivals>>
    BY DEF RequestMigrated, UnacceptedAfter
  <1>2. OnTheWay'
    BY <1>1 DEF OnTheWay
  <1>3. OnePlace' /\ LoopPlace'
    BY <1>1 DEF OnePlace, LoopPlace
  <1>4. table' \subseteq table /\ table' \subseteq Items(BlocksNeeded, Requests)
    BY <1>1 DEF TypeOK
  <1>5. TypeOK'
    BY <1>1, <1>4 DEF TypeOK
  <1>6. BlocksHeld'
    <2>1. r \notin Pipe(pipeline)
      BY <1>1 DEF OnTheWay, OnePlace
    <2>2. Pipe(pipeline) \cup unacceptedQueue' = (Pipe(pipeline) \cup unacceptedQueue) \ {r}
      BY <1>1, <2>1
    <2>3. table' = Items(BlocksNeeded, Pipe(pipeline) \cup unacceptedQueue')
      BY <1>1, <2>2, ItemsDifference DEF BlocksHeld
    <2>4. Cardinality(table') <= MaxNumGpuBlocks
      BY <1>4, TableShrinks
    <2> QED BY <1>1, <2>3, <2>4 DEF BlocksHeld
  <1> QED BY <1>2, <1>3, <1>5, <1>6

LEMMA Invariance == Spec => []IInv
  <1>1. IInv /\ [Next]_vars => IInv'
    <2> SUFFICES ASSUME IInv, [Next]_vars PROVE IInv'
      OBVIOUS
    <2>1. ASSUME NEW r \in Requests, AddRequest(r) PROVE IInv'
      BY <2>1, AddRequestIInv
    <2>2. CASE Schedule
      BY <2>2, ScheduleIInv
    <2>3. CASE WakeUp
      BY <2>3, WakeUpIInv
    <2>4. CASE FinishBatch
      BY <2>4, FinishBatchIInv
    <2>5. CASE TakeFromBridge
      BY <2>5, TakeFromBridgeIInv
    <2>6. ASSUME NEW r \in Requests, RequestMigrated(r) PROVE IInv'
      BY <2>6, RequestMigratedIInv
    <2>7. CASE UNCHANGED vars
      BY <2>7 DEF vars, IInv, TypeOK, OnePlace, BlocksHeld, OnTheWay, LoopPlace
    <2> QED BY <2>1, <2>2, <2>3, <2>4, <2>5, <2>6, <2>7 DEF Next
  <1> QED BY InitIInv, <1>1, PTL DEF Spec

(***************************************************************************)
(* The order of arrival.  The bridge keeps it because everything before it *)
(* does: the waiting queue, each batch, and the batches one after another. *)
(***************************************************************************)
Ordered(a, q)   == \A i, j \in DOMAIN q : i < j => PositionIn(a, q[i]) < PositionIn(a, q[j])
Before(a, S, T) == \A x \in S, y \in T : PositionIn(a, x) < PositionIn(a, y)
Chained(a, p) ==
  /\ \A i \in DOMAIN p : Ordered(a, p[i])
  /\ \A i, j \in DOMAIN p : i < j => Before(a, Range(p[i]), Range(p[j]))

InOrder ==
  /\ Distinct(arrivals)
  /\ Ordered(arrivals, waitingQueue)
  /\ Chained(arrivals, pipeline)
  /\ Ordered(arrivals, bridge)
  /\ Before(arrivals, Pipe(pipeline), Range(waitingQueue))
  /\ Before(arrivals, Range(bridge), Pipe(pipeline) \cup Range(waitingQueue))

(* Who arrives comes after all who came before, and moves none of them. *)
LEMMA PositionAppend ==
  ASSUME NEW S, NEW a \in Seq(S), NEW r \in S, Distinct(a), r \notin Range(a)
  PROVE  /\ \A x \in Range(a) : PositionIn(Append(a, r), x) = PositionIn(a, x)
         /\ Before(Append(a, r), Range(a), {r})
  <1> DEFINE b == Append(a, r)
  <1>1. /\ DOMAIN a = 1 .. Len(a) /\ DOMAIN b = 1 .. Len(a) + 1 /\ Len(a) \in Nat
        /\ \A i \in 1 .. Len(a) : b[i] = a[i]
        /\ b[Len(a) + 1] = r
    OBVIOUS
  <1> HIDE DEF b
  <1>2. \A i \in 1 .. Len(a) : a[i] # r
    BY <1>1 DEF Range
  <1>3. PositionIn(b, r) = Len(a) + 1
    <2>1. \A i \in DOMAIN b : b[i] = r <=> i = Len(a) + 1
      BY <1>1, <1>2
    <2>2. Len(a) + 1 \in DOMAIN b
      BY <1>1
    <2> QED BY <2>1, <2>2 DEF PositionIn
  <1>4. ASSUME NEW x \in Range(a)
        PROVE  PositionIn(b, x) = PositionIn(a, x) /\ PositionIn(a, x) \in 1 .. Len(a)
    <2>1. PICK k \in 1 .. Len(a) : a[k] = x
      BY <1>1 DEF Range
    <2>2. \A i \in DOMAIN a : a[i] = x <=> i = k
      BY <1>1, <2>1 DEF Distinct
    <2>3. PositionIn(a, x) = k
      BY <1>1, <2>1, <2>2 DEF PositionIn
    <2>4. \A i \in DOMAIN b : b[i] = x <=> i = k
      <3>1. SUFFICES ASSUME NEW i \in 1 .. Len(a) + 1 PROVE b[i] = x <=> i = k
        BY <1>1
      <3>2. CASE i \in 1 .. Len(a)
        BY <1>1, <2>2, <3>2
      <3>3. CASE i = Len(a) + 1
        BY <1>1, <1>2, <2>1, <3>3
      <3> QED BY <1>1, <3>1, <3>2, <3>3
    <2>5. k \in DOMAIN b
      BY <1>1
    <2>6. PositionIn(b, x) = k
      BY <2>4, <2>5 DEF PositionIn
    <2> QED BY <2>3, <2>6
  <1>5. Before(b, Range(a), {r})
    BY <1>1, <1>3, <1>4 DEF Before
  <1> QED BY <1>4, <1>5 DEF b

LEMMA OrderedConcat ==
  ASSUME NEW a, NEW S, NEW q \in Seq(S), NEW t \in Seq(S),
         Ordered(a, q), Ordered(a, t), Before(a, Range(q), Range(t))
  PROVE  Ordered(a, q \o t)
  <1>1. /\ Len(q) \in Nat /\ Len(t) \in Nat
        /\ DOMAIN (q \o t) = 1 .. Len(q) + Len(t) /\ DOMAIN q = 1 .. Len(q) /\ DOMAIN t = 1 .. Len(t)
        /\ \A i \in 1 .. Len(q) : (q \o t)[i] = q[i]
        /\ \A i \in Len(q) + 1 .. Len(q) + Len(t) : (q \o t)[i] = t[i - Len(q)]
    OBVIOUS
  <1>2. SUFFICES ASSUME NEW i \in 1 .. Len(q) + Len(t), NEW j \in 1 .. Len(q) + Len(t), i < j
                 PROVE  PositionIn(a, (q \o t)[i]) < PositionIn(a, (q \o t)[j])
    BY <1>1 DEF Ordered
  <1>3. CASE j \in 1 .. Len(q)
    <2>1. i \in 1 .. Len(q)
      BY <1>1, <1>2, <1>3
    <2> QED BY <1>1, <1>2, <1>3, <2>1 DEF Ordered
  <1>4. CASE i \notin 1 .. Len(q)
    <2>1. /\ i \in Len(q) + 1 .. Len(q) + Len(t) /\ j \in Len(q) + 1 .. Len(q) + Len(t)
          /\ i - Len(q) \in 1 .. Len(t) /\ j - Len(q) \in 1 .. Len(t) /\ i - Len(q) < j - Len(q)
      BY <1>1, <1>2, <1>4
    <2> QED BY <1>1, <2>1 DEF Ordered
  <1>5. CASE i \in 1 .. Len(q) /\ j \notin 1 .. Len(q)
    <2>1. j \in Len(q) + 1 .. Len(q) + Len(t) /\ j - Len(q) \in 1 .. Len(t)
      BY <1>1, <1>2, <1>5
    <2>2. q[i] \in Range(q) /\ t[j - Len(q)] \in Range(t)
      BY <1>1, <1>5, <2>1 DEF Range
    <2> QED BY <1>1, <1>5, <2>1, <2>2 DEF Before
  <1> QED BY <1>3, <1>4, <1>5

LEMMA OrderedSplit ==
  ASSUME NEW a, NEW S, NEW q \in Seq(S), NEW n \in 0 .. Len(q), Ordered(a, q)
  PROVE  /\ Ordered(a, SubSeq(q, 1, n))
         /\ Ordered(a, SubSeq(q, n + 1, Len(q)))
         /\ Before(a, Range(SubSeq(q, 1, n)), Range(SubSeq(q, n + 1, Len(q))))
  <1> DEFINE first == SubSeq(q, 1, n)
             rest  == SubSeq(q, n + 1, Len(q))
  <1>1. /\ Len(q) \in Nat /\ n \in Nat /\ n <= Len(q) /\ DOMAIN q = 1 .. Len(q)
        /\ DOMAIN first = 1 .. n /\ DOMAIN rest = 1 .. Len(q) - n
        /\ \A i \in 1 .. n : first[i] = q[i]
        /\ \A i \in 1 .. Len(q) - n : rest[i] = q[n + i]
    OBVIOUS
  <1> HIDE DEF first, rest
  <1>2. \A i \in 1 .. n : i \in DOMAIN q
    BY <1>1
  <1>3. \A i \in 1 .. Len(q) - n : n + i \in DOMAIN q
    BY <1>1
  <1>4. Ordered(a, first)
    BY <1>1, <1>2 DEF Ordered
  <1>5. Ordered(a, rest)
    <2>1. SUFFICES ASSUME NEW i \in 1 .. Len(q) - n, NEW j \in 1 .. Len(q) - n, i < j
                   PROVE  PositionIn(a, rest[i]) < PositionIn(a, rest[j])
      BY <1>1 DEF Ordered
    <2>2. n + i < n + j /\ n + i \in DOMAIN q /\ n + j \in DOMAIN q
      BY <1>1, <1>3, <2>1
    <2> QED BY <1>1, <2>2 DEF Ordered
  <1>6. Before(a, Range(first), Range(rest))
    <2>1. SUFFICES ASSUME NEW i \in 1 .. n, NEW j \in 1 .. Len(q) - n
                   PROVE  PositionIn(a, first[i]) < PositionIn(a, rest[j])
      BY <1>1 DEF Before, Range
    <2>2. i < n + j /\ i \in DOMAIN q /\ n + j \in DOMAIN q
      BY <1>1, <1>2, <1>3
    <2> QED BY <1>1, <2>2 DEF Ordered
  <1> QED BY <1>4, <1>5, <1>6 DEF first, rest

LEMMA OrderedTail ==
  ASSUME NEW a, NEW S, NEW q \in Seq(S), q # <<>>, Ordered(a, q)
  PROVE  Ordered(a, Tail(q))
  <1> DEFINE t == Tail(q)
  <1>1. /\ t \in Seq(S) /\ Len(t) = Len(q) - 1 /\ Len(q) \in Nat \ {0}
        /\ \A i \in 1 .. Len(t) : t[i] = q[i + 1]
    BY HeadTailProperties
  <1>2. DOMAIN q = 1 .. Len(q) /\ DOMAIN t = 1 .. Len(q) - 1
    BY <1>1
  <1> HIDE DEF t
  <1>3. SUFFICES ASSUME NEW i \in 1 .. Len(q) - 1, NEW j \in 1 .. Len(q) - 1, i < j
                 PROVE  PositionIn(a, t[i]) < PositionIn(a, t[j])
    BY <1>2 DEF Ordered, t
  <1>4. i + 1 < j + 1 /\ i + 1 \in DOMAIN q /\ j + 1 \in DOMAIN q
    BY <1>1, <1>2, <1>3
  <1> QED BY <1>1, <1>4 DEF Ordered

(* What is left of a batch keeps its order. *)
LEMMA OrderedSubsequence ==
  ASSUME NEW a, NEW S, NEW q \in Seq(S), NEW out \in Subsequences(q), Ordered(a, q)
  PROVE  Ordered(a, out)
  <1>1. \A i, j \in DOMAIN out : i < j => PositionIn(q, out[i]) < PositionIn(q, out[j])
    BY DEF Subsequences
  <1>2. \A r \in Range(q) : PositionIn(q, r) \in DOMAIN q /\ q[PositionIn(q, r)] = r
    BY DEF PositionIn, Range
  <1>3. \A i \in DOMAIN out : out[i] \in Range(q)
    BY DEF Subsequences
  <1> QED BY <1>1, <1>2, <1>3 DEF Ordered

LEMMA ChainedAppend ==
  ASSUME NEW a, NEW S, NEW p \in Seq(Seq(S)), NEW b \in Seq(S),
         Chained(a, p), Ordered(a, b), Before(a, Pipe(p), Range(b))
  PROVE  Chained(a, Append(p, b))
  <1> DEFINE q == Append(p, b)
  <1>1. /\ DOMAIN q = 1 .. Len(p) + 1 /\ DOMAIN p = 1 .. Len(p) /\ Len(p) \in Nat
        /\ \A i \in 1 .. Len(p) : q[i] = p[i]
        /\ q[Len(p) + 1] = b
    OBVIOUS
  <1> HIDE DEF q
  <1>2. \A i \in 1 .. Len(p) + 1 : i \in 1 .. Len(p) \/ i = Len(p) + 1
    BY <1>1
  <1>3. \A i \in DOMAIN q : Ordered(a, q[i])
    BY <1>1, <1>2 DEF Chained
  <1>4. \A i \in 1 .. Len(p) : Before(a, Range(p[i]), Range(b))
    BY <1>1 DEF Before, Pipe
  <1>5. ASSUME NEW i \in DOMAIN q, NEW j \in DOMAIN q, i < j
        PROVE  Before(a, Range(q[i]), Range(q[j]))
    <2>1. i \in 1 .. Len(p)
      BY <1>1, <1>5
    <2>2. CASE j \in 1 .. Len(p)
      BY <1>1, <1>5, <2>1, <2>2 DEF Chained
    <2>3. CASE j = Len(p) + 1
      BY <1>1, <1>4, <2>1, <2>3
    <2> QED BY <1>1, <1>2, <2>2, <2>3
  <1> QED BY <1>3, <1>5 DEF Chained, q

LEMMA ChainedTail ==
  ASSUME NEW a, NEW S, NEW p \in Seq(Seq(S)), p # <<>>, Chained(a, p)
  PROVE  /\ Ordered(a, Head(p)) /\ Chained(a, Tail(p))
         /\ Before(a, Range(Head(p)), Pipe(Tail(p)))
  <1> DEFINE t == Tail(p)
  <1>1. /\ t \in Seq(Seq(S)) /\ Len(t) = Len(p) - 1 /\ Len(p) \in Nat \ {0}
        /\ \A i \in 1 .. Len(t) : t[i] = p[i + 1]
        /\ Head(p) = p[1]
    BY HeadTailProperties
  <1>2. DOMAIN p = 1 .. Len(p) /\ DOMAIN t = 1 .. Len(p) - 1
    BY <1>1
  <1> HIDE DEF t
  <1>3. ASSUME NEW i \in DOMAIN t
        PROVE  i \in Int /\ i + 1 \in DOMAIN p /\ 1 \in DOMAIN p /\ 1 < i + 1 /\ t[i] = p[i + 1]
    BY <1>1, <1>2, <1>3
  <1>4. Ordered(a, Head(p))
    <2>1. 1 \in DOMAIN p
      BY <1>1, <1>2
    <2>2. Ordered(a, p[1])
      BY <2>1, Zenon DEF Chained
    <2> QED BY <1>1, <2>2, Zenon
  <1>5. Chained(a, t)
    <2>1. \A i \in DOMAIN t : Ordered(a, t[i])
      BY <1>3 DEF Chained
    <2>2. ASSUME NEW i \in DOMAIN t, NEW j \in DOMAIN t, i < j
          PROVE  Before(a, Range(t[i]), Range(t[j]))
      <3>1. i \in Int /\ j \in Int
        BY <1>3
      <3>2. i + 1 < j + 1
        BY <2>2, <3>1
      <3> QED BY <1>3, <3>2 DEF Chained
    <2> QED BY <2>1, <2>2 DEF Chained
  <1>6. \A i \in DOMAIN t : Before(a, Range(Head(p)), Range(t[i]))
    BY <1>1, <1>3 DEF Chained
  <1>7. Before(a, Range(Head(p)), Pipe(t))
    BY <1>6 DEF Before, Pipe
  <1> QED BY <1>4, <1>5, <1>7 DEF t

LEMMA SettleChained ==
  ASSUME NEW a, NEW p \in Seq(Seq(Requests)), Len(p) \in 1 .. PipelineSize, Chained(a, p), Settle(p)
  PROVE  Chained(a, pipeline')
  <1>1. p # <<>>
    BY ContextAssumption
  <1>2. pipeline' = Tail(p) \/ pipeline' = p
    BY DEF Settle
  <1> QED BY <1>1, <1>2, ChainedTail

LEMMA InitInOrder == Init => InOrder
  <1> SUFFICES ASSUME Init PROVE InOrder
    OBVIOUS
  <1>1. arrivals = <<>> /\ waitingQueue = <<>> /\ pipeline = <<>> /\ bridge = <<>>
    BY DEF Init
  <1>2. Range(bridge) = {} /\ Pipe(pipeline) = {} /\ Range(waitingQueue) = {}
    BY <1>1 DEF Range, Pipe
  <1> QED BY <1>1, <1>2 DEF InOrder, Distinct, Ordered, Chained, Before

LEMMA AddRequestInOrder ==
  ASSUME IInv, InOrder, NEW r \in Requests, AddRequest(r)
  PROVE  InOrder'
  <1> USE DEF IInv
  <1>1. /\ waitingQueue \in Seq(Requests) /\ arrivals \in Seq(Requests)
        /\ pipeline \in Seq(Seq(Requests)) /\ bridge \in Seq(Requests)
    BY DEF TypeOK
  <1>2. /\ waitingQueue' = Append(waitingQueue, r) /\ arrivals' = Append(arrivals, r)
        /\ r \notin Range(arrivals) /\ pipeline' = pipeline /\ bridge' = bridge
    BY DEF AddRequest
  <1>3. /\ \A x \in Range(arrivals) : PositionIn(arrivals', x) = PositionIn(arrivals, x)
        /\ Before(arrivals', Range(arrivals), {r})
    BY <1>1, <1>2, PositionAppend DEF InOrder
  <1>4. /\ Range(waitingQueue) \subseteq Range(arrivals) /\ Pipe(pipeline) \subseteq Range(arrivals)
        /\ Range(bridge) \subseteq Range(arrivals)
    BY DEF OnePlace, OnTheWay
  <1>5. Range(waitingQueue') = Range(waitingQueue) \cup {r}
    BY <1>1, <1>2, AppendRange
  <1>6. Distinct(arrivals')
    BY <1>1, <1>2, AppendDistinct DEF InOrder
  <1>7. Ordered(arrivals', waitingQueue')
    <2>1. Ordered(arrivals', waitingQueue)
      BY <1>3, <1>4 DEF InOrder, Ordered, Range
    <2>2. <<r>> \in Seq(Requests) /\ Range(<<r>>) = {r} /\ Ordered(arrivals', <<r>>)
      BY DEF Range, Ordered
    <2>3. Before(arrivals', Range(waitingQueue), Range(<<r>>))
      BY <1>3, <1>4, <2>2 DEF Before
    <2>4. waitingQueue' = waitingQueue \o <<r>>
      BY <1>1, <1>2
    <2> QED BY <1>1, <2>1, <2>2, <2>3, <2>4, OrderedConcat
  <1>8. Ordered(arrivals', bridge')
    BY <1>2, <1>3, <1>4 DEF InOrder, Ordered, Range
  <1>9. Chained(arrivals', pipeline')
    <2>1. \A i \in DOMAIN pipeline : Range(pipeline[i]) \subseteq Range(arrivals)
      BY <1>4 DEF Pipe
    <2>2. \A i \in DOMAIN pipeline : \A k \in DOMAIN pipeline[i] : pipeline[i][k] \in Range(arrivals)
      BY <2>1 DEF Range
    <2>3. \A i \in DOMAIN pipeline : Ordered(arrivals', pipeline[i])
      BY <1>3, <2>2 DEF InOrder, Chained, Ordered
    <2>4. \A i, j \in DOMAIN pipeline : i < j => Before(arrivals', Range(pipeline[i]), Range(pipeline[j]))
      BY <1>3, <2>1 DEF InOrder, Chained, Before
    <2> QED BY <1>2, <2>3, <2>4 DEF Chained
  <1>10. Before(arrivals', Pipe(pipeline'), Range(waitingQueue'))
    BY <1>2, <1>3, <1>4, <1>5 DEF InOrder, Before
  <1>11. Before(arrivals', Range(bridge'), Pipe(pipeline') \cup Range(waitingQueue'))
    BY <1>2, <1>3, <1>4, <1>5 DEF InOrder, Before
  <1> QED BY <1>6, <1>7, <1>8, <1>9, <1>10, <1>11 DEF InOrder

LEMMA ScheduleInOrder ==
  ASSUME IInv, InOrder, Schedule
  PROVE  InOrder'
  <1> USE ContextAssumption DEF IInv
  <1>1. PICK n \in 0 .. Len(waitingQueue) : pc = "ready" /\ ScheduleBatch(FirstWaiting(n))
    BY DEF Schedule
  <1>2. waitingQueue \in Seq(Requests) /\ pipeline \in Seq(Seq(Requests)) /\ Distinct(waitingQueue)
    BY DEF TypeOK, OnePlace
  <1>3. PICK batch, rest : batch = FirstWaiting(n) /\ rest = SubSeq(waitingQueue, n + 1, Len(waitingQueue))
    OBVIOUS
  <1>4. /\ batch \in Seq(Requests) /\ Len(batch) = n
        /\ Range(waitingQueue) = Range(batch) \cup Range(rest)
        /\ Range(batch) \cap Range(rest) = {}
    BY <1>2, <1>3, SplitSeq DEF FirstWaiting
  <1>5. Ordered(arrivals, batch) /\ Ordered(arrivals, rest) /\ Before(arrivals, Range(batch), Range(rest))
    BY <1>2, <1>3, OrderedSplit DEF InOrder, FirstWaiting
  <1>6. /\ waitingQueue' = rest /\ arrivals' = arrivals /\ bridge' = bridge
        /\ \/ pipeline' = Append(pipeline, batch)
           \/ Settle(Append(pipeline, batch))
    BY <1>1, <1>3, <1>4 DEF ScheduleBatch
  <1>7. PICK pushed : pushed = Append(pipeline, batch)
    OBVIOUS
  <1>8. Chained(arrivals, pushed)
    <2>1. Before(arrivals, Pipe(pipeline), Range(batch))
      BY <1>4 DEF InOrder, Before
    <2> QED BY <1>2, <1>4, <1>5, <1>7, <2>1, ChainedAppend DEF InOrder
  <1>9. /\ pushed \in Seq(Seq(Requests)) /\ Len(pushed) \in 1 .. PipelineSize
        /\ Pipe(pushed) = Pipe(pipeline) \cup Range(batch) /\ Separate(pushed)
    <2>1. Pipe(pipeline) \cap Range(batch) = {}
      BY <1>4 DEF OnePlace
    <2>2. Pipe(pushed) = Pipe(pipeline) \cup Range(batch) /\ Separate(pushed)
      BY <1>2, <1>4, <1>7, <2>1, PipeAppend DEF OnePlace
    <2>3. Len(pipeline) < PipelineSize
      BY <1>1 DEF LoopPlace
    <2> QED BY <1>2, <1>4, <1>7, <2>2, <2>3
  <1>10. Pipe(pipeline') = Pipe(pushed) /\ Chained(arrivals, pipeline')
    <2>1. CASE Settle(pushed)
      BY <1>8, <1>9, <2>1, SettleFacts, SettleChained
    <2> QED BY <1>6, <1>7, <1>8, <2>1
  <1>11. Before(arrivals, Pipe(pipeline'), Range(rest))
    BY <1>4, <1>5, <1>9, <1>10 DEF InOrder, Before
  <1>12. Before(arrivals, Range(bridge), Pipe(pipeline') \cup Range(rest))
    BY <1>4, <1>9, <1>10 DEF InOrder, Before
  <1> QED BY <1>5, <1>6, <1>10, <1>11, <1>12 DEF InOrder

LEMMA WakeUpInOrder ==
  ASSUME IInv, InOrder, WakeUp
  PROVE  InOrder'
  <1>1. Len(pipeline) \in 1 .. PipelineSize /\ Settle(pipeline) /\ pipeline \in Seq(Seq(Requests))
    BY ContextAssumption DEF IInv, TypeOK, LoopPlace, WakeUp
  <1>2. Pipe(pipeline') = Pipe(pipeline) /\ Chained(arrivals, pipeline')
    BY <1>1, SettleFacts, SettleChained DEF IInv, OnePlace, InOrder
  <1>3. waitingQueue' = waitingQueue /\ arrivals' = arrivals /\ bridge' = bridge
    BY DEF WakeUp, schedulerVars
  <1> QED BY <1>2, <1>3 DEF InOrder

LEMMA FinishBatchInOrder ==
  ASSUME IInv, InOrder, FinishBatch
  PROVE  InOrder'
  <1> USE DEF IInv
  <1>1. pipeline \in Seq(Seq(Requests)) /\ pipeline # <<>> /\ bridge \in Seq(Requests)
    BY DEF TypeOK, LoopPlace, FinishBatch
  <1>2. PICK batch, rest : batch = Head(pipeline) /\ rest = Tail(pipeline)
    OBVIOUS
  <1>3. batch \in Seq(Requests) /\ Pipe(pipeline) = Range(batch) \cup Pipe(rest)
    BY <1>1, <1>2, PipeTail
  <1>4. /\ Ordered(arrivals, batch) /\ Chained(arrivals, rest)
        /\ Before(arrivals, Range(batch), Pipe(rest))
    BY <1>1, <1>2, ChainedTail DEF InOrder
  <1>5. PICK out \in Subsequences(batch) : bridge' = bridge \o out
    BY <1>2 DEF FinishBatch, PutOnBridge
  <1>6. pipeline' = rest /\ waitingQueue' = waitingQueue /\ arrivals' = arrivals
    BY <1>2 DEF FinishBatch
  <1>7. out \in Seq(Requests) /\ Range(out) \subseteq Range(batch) /\ Ordered(arrivals, out)
    BY <1>3, <1>4, SubsequenceFacts, OrderedSubsequence
  <1>8. Range(bridge') = Range(bridge) \cup Range(out)
    BY <1>1, <1>5, <1>7, RangeConcatenation
  <1>9. Ordered(arrivals, bridge')
    <2>1. Before(arrivals, Range(bridge), Range(out))
      BY <1>3, <1>7 DEF InOrder, Before
    <2> QED BY <1>1, <1>5, <1>7, <2>1, OrderedConcat DEF InOrder
  <1>10. Before(arrivals, Pipe(rest), Range(waitingQueue))
    BY <1>3 DEF InOrder, Before
  <1>11. Before(arrivals, Range(bridge'), Pipe(rest) \cup Range(waitingQueue))
    BY <1>3, <1>4, <1>7, <1>8 DEF InOrder, Before
  <1> QED BY <1>4, <1>6, <1>9, <1>10, <1>11 DEF InOrder

LEMMA TakeFromBridgeInOrder ==
  ASSUME IInv, InOrder, TakeFromBridge
  PROVE  InOrder'
  <1>1. bridge \in Seq(Requests) /\ bridge # <<>>
    BY DEF IInv, TypeOK, TakeFromBridge
  <1>2. /\ bridge' = Tail(bridge)
        /\ UNCHANGED <<waitingQueue, pipeline, arrivals>>
    BY DEF TakeFromBridge, schedulerVars
  <1>3. Range(bridge') \subseteq Range(bridge)
    BY <1>1, <1>2, HeadAndTail
  <1>4. Ordered(arrivals, bridge')
    BY <1>1, <1>2, OrderedTail DEF InOrder
  <1> QED BY <1>2, <1>3, <1>4 DEF InOrder, Before

LEMMA OrderInvariance == Spec => []InOrder
  <1>1. IInv /\ InOrder /\ [Next]_vars => InOrder'
    <2> SUFFICES ASSUME IInv, InOrder, [Next]_vars PROVE InOrder'
      OBVIOUS
    <2>1. ASSUME NEW r \in Requests, AddRequest(r) PROVE InOrder'
      BY <2>1, AddRequestInOrder
    <2>2. CASE Schedule
      BY <2>2, ScheduleInOrder
    <2>3. CASE WakeUp
      BY <2>3, WakeUpInOrder
    <2>4. CASE FinishBatch
      BY <2>4, FinishBatchInOrder
    <2>5. CASE TakeFromBridge
      BY <2>5, TakeFromBridgeInOrder
    <2>6. ASSUME NEW r \in Requests, RequestMigrated(r) PROVE InOrder'
      BY <2>6 DEF RequestMigrated, InOrder
    <2>7. CASE UNCHANGED vars
      BY <2>7 DEF vars, InOrder
    <2> QED BY <2>1, <2>2, <2>3, <2>4, <2>5, <2>6, <2>7 DEF Next
  <1> QED BY InitInOrder, Invariance, <1>1, PTL DEF Spec

(***************************************************************************)
(* The theorems.                                                           *)
(***************************************************************************)

(* The queues, the pipeline and the table keep their types, and the        *)
(* pipeline never holds more batches than it has stages.                   *)
THEOREM TypeCorrect == Spec => []TypeOK
  <1>1. IInv => TypeOK
    BY DEF IInv
  <1> QED BY Invariance, <1>1, PTL

(* The scheduler's own count of blocks and the block manager's table agree *)
(* at every await.                                                         *)
THEOREM Agreement == Spec => []CountsAgree
  <1>1. IInv => CountsAgree
    <2> SUFFICES ASSUME IInv PROVE CountsAgree
      OBVIOUS
    <2>1. InPipeline = Pipe(pipeline)
      BY DEF InPipeline, Pipe
    <2> QED BY <2>1, InvariantCounts DEF IInv, BlocksHeld, CountsAgree
  <1> QED BY Invariance, <1>1, PTL

(* The scheduler never lets a batch through that the block manager would   *)
(* refuse: the allocation of _step cannot raise.                           *)
THEOREM Allocation == Spec => []AllocationNeverFails
  <1>1. IInv => AllocationNeverFails
    <2> SUFFICES ASSUME IInv, NEW n \in 0 .. Len(waitingQueue), IsNextBatchLen(n)
                 PROVE  Allocatable(FirstWaiting(n))
      BY DEF AllocationNeverFails
    <2> USE ContextAssumption
    <2>1. PICK batch : batch = FirstWaiting(n)
      OBVIOUS
    <2>2. Cardinality(table) \in Nat /\ Cardinality(table) <= MaxNumGpuBlocks
      BY InvariantCounts DEF IInv, BlocksHeld
    <2>3. waitingQueue \in Seq(Requests) /\ Distinct(waitingQueue)
      BY DEF IInv, TypeOK, OnePlace
    <2>4. batch \in Seq(Requests) /\ Len(batch) = n
      BY <2>1, <2>3, SplitSeq DEF FirstWaiting
    <2>5. CASE n = 0
      <3>1. Range(batch) = {}
        BY <2>4, <2>5 DEF Range
      <3>2. Total(BlocksNeeded, Range(batch)) = 0
        BY <3>1, TotalEmpty
      <3> QED BY <2>1, <2>2, <3>2 DEF Allocatable, NumFreeBlocks
    <2>6. CASE n # 0
      <3>1. n \in 1 .. n
        BY <2>6
      <3>2. Reserved(Range(batch)) <= MaxNumGpuBlocks
        BY <2>1, <3>1 DEF IsNextBatchLen, WithinLimits
      <3>3. Range(batch) \subseteq Requests
        BY <2>4, RangeOfSeq
      <3>4. Total(BlocksNeeded, Range(batch)) \in Nat
        BY <3>3, BlocksNeededType, TotalType
      <3>5. /\ onFlyBlocks + Total(BlocksNeeded, unacceptedQueue) = Cardinality(table)
            /\ Total(BlocksNeeded, unacceptedQueue) \in Nat /\ onFlyBlocks \in Nat
        BY InvariantCounts DEF IInv, TypeOK
      <3> QED BY <2>1, <2>2, <3>2, <3>4, <3>5 DEF Allocatable, NumFreeBlocks, Reserved
    <2> QED BY <2>5, <2>6
  <1> QED BY Invariance, <1>1, PTL

(* Until its blocks are migrated, a request on its way to the decoding     *)
(* stage keeps them all.                                                   *)
THEOREM KeptForMigration == Spec => []BlocksKeptForMigration
  <1>1. IInv => BlocksKeptForMigration
    <2> SUFFICES ASSUME IInv, NEW r \in Range(bridge) \cup taken
                 PROVE  r \in unacceptedQueue /\ Items(BlocksNeeded, {r}) \subseteq table
      BY DEF BlocksKeptForMigration
    <2>1. r \in unacceptedQueue
      BY DEF IInv, OnTheWay
    <2>2. table = Items(BlocksNeeded, Pipe(pipeline) \cup unacceptedQueue)
      BY DEF IInv, BlocksHeld
    <2> QED BY <2>1, <2>2 DEF Items
  <1> QED BY Invariance, <1>1, PTL

(* The bridge queue hands requests over in the order in which they         *)
(* arrived, with any number of batches in the pipeline.                    *)
THEOREM ArrivalOrder == Spec => []BridgeInArrivalOrder
  <1>1. InOrder => BridgeInArrivalOrder
    BY DEF InOrder, Ordered, BridgeInArrivalOrder
  <1> QED BY OrderInvariance, <1>1, PTL
=============================================================================
