---------------------------- MODULE ContextStage ----------------------------
(***************************************************************************)
(* The context (prefill) stage: ContextStageFCFSScheduler                  *)
(* (src/distserve/context_stage_scheduler.py) driven by the event loop of  *)
(* ContextStageLLMEngine (src/distserve/single_stage_engine.py), which     *)
(* hands finished prompts to the decoding stage over the bridge queue.     *)
(*                                                                         *)
(* The event loop is one asyncio task.  It yields at its awaits only, and  *)
(* there the other tasks run: requests arrive, the decoding engine takes   *)
(* requests off the bridge, and, when it has copied the blocks of one over,*)
(* calls back to free them here.  pc says at which await the loop is.      *)
(*                                                                         *)
(* A block table is the set of the request's logical blocks <<r, i>> that  *)
(* have a physical block: on this stage nothing is swapped, and which      *)
(* physical block it is matters to BlockManager only.                      *)
(***************************************************************************)
EXTENDS Queues

CONSTANTS
  Requests,           \* every request of the run, told apart by request_id
  PromptLen,          \* [Requests -> Nat \ {0}]: len(prompt_token_ids)
  BlockSize,          \* cache_config.block_size
  MaxNumGpuBlocks,    \* block_manager.max_num_gpu_blocks
  MaxBatchSize,       \* sched_config.max_batch_size
  MaxTokensPerBatch,  \* sched_config.max_tokens_per_batch
  PipelineSize        \* parallel_config.pipeline_parallel_size

ASSUME ContextAssumption ==
  /\ IsFiniteSet(Requests)
  /\ PromptLen \in [Requests -> Nat \ {0}]
  /\ BlockSize \in Nat \ {0}
  /\ PipelineSize \in Nat \ {0}
  /\ MaxNumGpuBlocks \in Nat
  /\ MaxBatchSize \in Nat
  /\ MaxTokensPerBatch \in Nat

VARIABLES
  \* the scheduler
  waitingQueue,       \* Seq(Requests)
  unacceptedQueue,    \* SUBSET Requests: only ever searched by request_id
  onFlyBlocks,        \* num_on_fly_request_block
  \* the engine and its block manager
  pipeline,           \* batches_in_pipeline; an empty batch has no future
  table,              \* the logical blocks in block_table
  pc,                 \* the await the loop is at: "ready" (the sleep between steps),
                      \*   "sleep" (no request), "await" (the oldest batch's future)
  \* the way to the decoding stage
  bridge,             \* bridge_queue
  taken,              \* requests the decoding engine took and has not migrated yet
  \* history
  arrivals,           \* the requests in the order of their add_request
  left                \* requests that finished here or were migrated

schedulerVars == <<waitingQueue, unacceptedQueue, onFlyBlocks>>
vars == <<waitingQueue, unacceptedQueue, onFlyBlocks, pipeline, table, pc,
          bridge, taken, arrivals, left>>

(* _get_block_needed(len(prompt_token_ids)), and get_num_blocks_needed of  *)
(* a request that has generated nothing: the length rounded up to blocks.  *)
BlocksNeeded == [r \in Requests |-> (PromptLen[r] + BlockSize - 1) \div BlockSize]

NumFreeBlocks == MaxNumGpuBlocks - Cardinality(table)

Init ==
  /\ waitingQueue    = <<>>
  /\ unacceptedQueue = {}
  /\ onFlyBlocks     = 0
  /\ pipeline        = <<>>
  /\ table           = {}
  /\ pc              = "ready"
  /\ bridge          = <<>>
  /\ taken           = {}
  /\ arrivals        = <<>>
  /\ left            = {}

(***************************************************************************)
(* Arrivals: LLMEngine.generate -> add_request.                            *)
(***************************************************************************)
AddRequest(r) ==
  /\ r \notin Range(arrivals)
  /\ arrivals'     = Append(arrivals, r)
  /\ waitingQueue' = Append(waitingQueue, r)
  /\ UNCHANGED <<unacceptedQueue, onFlyBlocks, pipeline, table, pc, bridge, taken, left>>

(***************************************************************************)
(* get_next_batch_and_pop: the longest prefix of the waiting queue that    *)
(* keeps within the three limits at each request.                          *)
(***************************************************************************)
FirstWaiting(n) == SubSeq(waitingQueue, 1, n)

(* mutant: the blocks of finished prompts are not counted *)
MutReserved(S) == Total(BlocksNeeded, S) + onFlyBlocks

(* The blocks the scheduler counts as taken if S is the next batch. *)
Reserved(S) == Total(BlocksNeeded, S) + Total(BlocksNeeded, unacceptedQueue) + onFlyBlocks

WithinLimits(n) ==
  /\ n <= MaxBatchSize                                                      \* Limit 1
  /\ Total(PromptLen, Range(FirstWaiting(n))) <= MaxTokensPerBatch          \* Limit 2
  /\ Reserved(Range(FirstWaiting(n))) <= MaxNumGpuBlocks                    \* Limit 3

IsNextBatchLen(n) ==
  /\ \A k \in 1 .. n : WithinLimits(k)
  /\ n < Len(waitingQueue) => ~WithinLimits(n + 1)

(* What _step does once it has pushed a batch: with the pipeline full it   *)
(* drops an empty oldest batch, or else awaits the oldest one's future.    *)
Settle(batches) ==
  IF Len(batches) = PipelineSize
  THEN IF Head(batches) = <<>> THEN pipeline' = Tail(batches) /\ pc' = "ready"
                               ELSE pipeline' = batches /\ pc' = "await"
  ELSE pipeline' = batches /\ pc' = "ready"

(* allocate_blocks_batched asserts that enough blocks are free; a failing  *)
(* assertion would end the event loop here (AllocationNeverFails).         *)
Allocatable(batch) == Total(BlocksNeeded, Range(batch)) <= NumFreeBlocks

(* _step up to its first await. *)
ScheduleBatch(batch) ==
  /\ Allocatable(batch)
  /\ waitingQueue' = SubSeq(waitingQueue, Len(batch) + 1, Len(waitingQueue))
  /\ onFlyBlocks'  = onFlyBlocks + Total(BlocksNeeded, Range(batch))
  /\ table'        = table \cup Items(BlocksNeeded, Range(batch))
  /\ \/ /\ batch = <<>>
        /\ pipeline' = Append(pipeline, batch)
        /\ pc' = "sleep"
     \/ /\ batch # <<>>
        /\ Settle(Append(pipeline, batch))
  /\ UNCHANGED <<unacceptedQueue, bridge, taken, arrivals, left>>

Schedule ==
  /\ pc = "ready"
  /\ \E n \in 0 .. Len(waitingQueue) :
       IsNextBatchLen(n) /\ ScheduleBatch(FirstWaiting(n))

(* The sleep of an empty step ends. *)
WakeUp ==
  /\ pc = "sleep"
  /\ Settle(pipeline)
  /\ UNCHANGED <<schedulerVars, table, bridge, taken, arrivals, left>>

(***************************************************************************)
(* The oldest batch returns with one token for each of its requests.  The  *)
(* token may finish a request (an EOS, or max_tokens = 1), and any subset  *)
(* of the batch may: `out` is what is left of the batch, in its order.     *)
(***************************************************************************)

(* mutant: blocks are freed as soon as the prompt is processed *)
MutFreedOnReturn(batch, out) == Items(BlocksNeeded, Range(batch))

(* Only a finished request is freed: the decoding stage still needs the    *)
(* blocks of the others.                                                   *)
FreedOnReturn(batch, out) == Items(BlocksNeeded, Range(batch) \ Range(out))

(* mutant: the bridge is a stack *)
MutPutOnBridge(out) == out \o bridge

PutOnBridge(out) == bridge \o out

FinishBatch ==
  /\ pc = "await"
  /\ LET batch == Head(pipeline) IN
     \E out \in Subsequences(batch) :
       /\ unacceptedQueue' = unacceptedQueue \cup Range(out)        \* on_finish_requests
       /\ onFlyBlocks'     = onFlyBlocks - Total(BlocksNeeded, Range(batch))
       /\ bridge'          = PutOnBridge(out)
       /\ table'           = table \ FreedOnReturn(batch, out)
       /\ left'            = left \cup (Range(batch) \ Range(out))
  /\ pipeline' = Tail(pipeline)
  /\ pc' = "ready"
  /\ UNCHANGED <<waitingQueue, taken, arrivals>>

(***************************************************************************)
(* The decoding engine's side.                                             *)
(***************************************************************************)

(* Its first event loop: bridge_queue.get(). *)
TakeFromBridge ==
  /\ bridge # <<>>
  /\ taken'  = taken \cup {Head(bridge)}
  /\ bridge' = Tail(bridge)
  /\ UNCHANGED <<schedulerVars, pipeline, table, pc, arrivals, left>>

(* mutant: on_request_migrated is not called *)
MutUnacceptedAfter(r) == unacceptedQueue

(* on_request_migrated *)
UnacceptedAfter(r) == unacceptedQueue \ {r}

(* clear_migrated_blocks_callback, called when the blocks of r are copied. *)
RequestMigrated(r) ==
  /\ r \in taken
  /\ taken'           = taken \ {r}
  /\ table'           = table \ Items(BlocksNeeded, {r})
  /\ unacceptedQueue' = UnacceptedAfter(r)
  /\ left'            = left \cup {r}
  /\ UNCHANGED <<waitingQueue, onFlyBlocks, pipeline, pc, bridge, arrivals>>

Next ==
  \/ \E r \in Requests : AddRequest(r)
  \/ Schedule
  \/ WakeUp
  \/ FinishBatch
  \/ TakeFromBridge
  \/ \E r \in Requests : RequestMigrated(r)

(***************************************************************************)
(* Fairness: asyncio runs every task that can run, sleeps end, the workers *)
(* return, and the decoding engine accepts and migrates what it took (an   *)
(* assumption on the other stage).  Nobody has to send a request.          *)
(***************************************************************************)
Fairness ==
  /\ WF_vars(Schedule)
  /\ WF_vars(WakeUp)
  /\ WF_vars(FinishBatch)
  /\ WF_vars(TakeFromBridge)
  /\ \A r \in Requests : WF_vars(RequestMigrated(r))

Spec == Init /\ [][Next]_vars /\ Fairness

(***************************************************************************)
(* Properties.                                                             *)
(***************************************************************************)
TypeOK ==
  /\ waitingQueue \in Seq(Requests)
  /\ unacceptedQueue \in SUBSET Requests
  /\ onFlyBlocks \in Nat
  /\ pipeline \in Seq(Seq(Requests))
  /\ Len(pipeline) <= PipelineSize
  /\ table \subseteq Items(BlocksNeeded, Requests)
  /\ pc \in {"ready", "sleep", "await"}
  /\ bridge \in Seq(Requests)
  /\ taken \in SUBSET Requests
  /\ arrivals \in Seq(Requests)
  /\ left \in SUBSET Requests

(* The assertion "not enough free blocks on GPU" (block_manager.py:72-74)  *)
(* never fails: the scheduler's own count keeps every batch it lets        *)
(* through within what the block manager has left, whatever the decoding   *)
(* engine's callbacks free in between.                                     *)
AllocationNeverFails ==
  pc = "ready" =>
    \A n \in 0 .. Len(waitingQueue) : IsNextBatchLen(n) => Allocatable(FirstWaiting(n))

InPipeline == UNION {Range(pipeline[i]) : i \in DOMAIN pipeline}

(* The scheduler keeps no view of the block manager: it counts blocks on   *)
(* its own.  At every await the two agree, block for block.                *)
CountsAgree ==
  /\ table = Items(BlocksNeeded, InPipeline \cup unacceptedQueue)
  /\ onFlyBlocks + Total(BlocksNeeded, unacceptedQueue) = Cardinality(table)

(* A request on its way to the decoding stage keeps all its blocks until   *)
(* they are migrated, and is counted as unaccepted.                        *)
BlocksKeptForMigration ==
  \A r \in Range(bridge) \cup taken :
    /\ r \in unacceptedQueue
    /\ Items(BlocksNeeded, {r}) \subseteq table

(* First come, first served: the bridge queue is in the order of arrival,  *)
(* also when batches overlap in the pipeline.                              *)
BridgeInArrivalOrder ==
  \A i, j \in DOMAIN bridge :
    i < j => PositionIn(arrivals, bridge[i]) < PositionIn(arrivals, bridge[j])

(* A request that fits an empty stage on its own. *)
Servable(r) ==
  /\ MaxBatchSize >= 1
  /\ PromptLen[r] <= MaxTokensPerBatch
  /\ BlocksNeeded[r] <= MaxNumGpuBlocks

(* When every request is servable, every request that arrives leaves the   *)
(* stage: finished, or migrated to the decoding stage.                     *)
EveryRequestLeaves ==
  (\A r \in Requests : Servable(r)) =>
    \A r \in Requests : (r \in Range(arrivals)) ~> (r \in left)
=============================================================================
