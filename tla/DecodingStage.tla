---------------------------- MODULE DecodingStage ----------------------------
(***************************************************************************)
(* The decoding stage: DecodingStageFCFSScheduler                          *)
(* (src/distserve/decoding_stage_scheduler.py) driven by the event loops   *)
(* of DecodingStageLLMEngine (src/distserve/single_stage_engine.py).       *)
(*                                                                         *)
(* One batch per pipeline stage goes round; a request stays in its batch   *)
(* from one token to the next, and its table grows with it.  When the GPU  *)
(* blocks run short the last requests of the next batch are swapped out to *)
(* the CPU.  After each step the scheduler accepts requests that the       *)
(* bridge queue brought, and migrates their blocks.                        *)
(*                                                                         *)
(* pc is the await at which the second event loop is.  The first event     *)
(* loop, which empties the bridge queue, runs at any of them.  pc = "post" *)
(* is no await: it splits a step of the loop before post_process, which no *)
(* other task can tell, as what comes before does not read                 *)
(* unaccepted_queue, all that the first loop writes.                       *)
(*                                                                         *)
(* Which physical blocks a request has matters to BlockManager only: here  *)
(* a request has a number of blocks on one side, as in BlockPool.          *)
(***************************************************************************)
EXTENDS Queues

CONSTANTS
  Requests,           \* the requests that come over the bridge
  PromptLen,          \* [Requests -> Nat \ {0}]: get_input_len()
  MaxTokens,          \* [Requests -> Nat]: sampling_params.max_tokens; the first token
                      \*   came from the context stage and did not finish the request
  BlockSize,          \* cache_config.block_size
  MaxNumGpuBlocks,    \* block_manager.max_num_gpu_blocks
  MaxNumCpuBlocks,    \* block_manager.max_num_cpu_blocks
  MaxBatchSize,       \* sched_config.max_batch_size
  MaxTokensPerBatch,  \* sched_config.max_tokens_per_batch
  AcceptBelow,        \* max_num_gpu_blocks * waiting_block_prop_threshold, rounded up:
                      \*   a number of blocks is below the one iff it is below the other
  PipelineSize        \* parallel_config.pipeline_parallel_size

ASSUME DecodingAssumption ==
  /\ IsFiniteSet(Requests)
  /\ PromptLen \in [Requests -> Nat \ {0}]
  /\ MaxTokens \in [Requests -> Nat \ {0, 1}]
  /\ BlockSize \in Nat \ {0}
  /\ PipelineSize \in Nat \ {0}
  /\ MaxNumGpuBlocks \in Nat
  /\ MaxNumCpuBlocks \in Nat
  /\ MaxBatchSize \in Nat
  /\ MaxTokensPerBatch \in Nat
  /\ AcceptBelow \in Nat

Stages == 0 .. PipelineSize - 1
Empty  == -1          \* in the pipeline, a batch that was empty: it has no future

VARIABLES
  \* the scheduler
  unacceptedQueue,    \* Seq(Requests)
  waitingQueue,       \* Seq(Requests)
  swappedQueue,       \* Seq(Requests)
  batchQueues,        \* [Stages -> Seq(Requests)]
  curIndex,           \* cur_index
  \* the engine and its block manager
  pipeline,           \* batches_in_pipeline, by their index in batchQueues
  migrating,          \* the request whose blocks are being migrated, if any
  held,               \* [Requests -> Nat]: the length of a request's block table
  where,              \* [Requests -> {"none", "GPU", "CPU"}]: its request_location
  pc,                 \* "ready", "sleep" (empty batch), "await" (oldest future),
                      \*   "post", "migrate", "failed" (an assertion ended the loop)
  \* the requests
  outputLen,          \* get_output_len()
  arrived, finished   \* history: came off the bridge; is_finished

queueVars   == <<unacceptedQueue, waitingQueue, swappedQueue, batchQueues, curIndex>>
blockVars   == <<held, where>>
requestVars == <<outputLen, arrived, finished>>
vars == <<queueVars, pipeline, migrating, blockVars, pc, requestVars>>

BlocksFor(length) == (length + BlockSize - 1) \div BlockSize

(* The blocks of a prompt, and of all tokens of a request so far. *)
PromptBlocks == [r \in Requests |-> BlocksFor(PromptLen[r])]
Blocks       == [r \in Requests |-> BlocksFor(PromptLen[r] + outputLen[r])]

On(loc)  == {r \in Requests : where[r] = loc}
AvailGpu == MaxNumGpuBlocks - Total(held, On("GPU"))
AvailCpu == MaxNumCpuBlocks - Total(held, On("CPU"))

InBatches(queues) == UNION {Range(queues[i]) : i \in DOMAIN queues}

Init ==
  /\ unacceptedQueue = <<>>
  /\ waitingQueue    = <<>>
  /\ swappedQueue    = <<>>
  /\ batchQueues     = [i \in Stages |-> <<>>]
  /\ curIndex        = -1
  /\ pipeline        = <<>>
  /\ migrating       = {}
  /\ held            = [r \in Requests |-> 0]
  /\ where           = [r \in Requests |-> "none"]
  /\ pc              = "ready"
  /\ outputLen       = [r \in Requests |-> 1]
  /\ arrived         = {}
  /\ finished        = {}

(* Event loop 1: bridge_queue.get(), scheduler.add_request. *)
AddRequest(r) ==
  /\ pc # "failed"
  /\ r \notin arrived
  /\ arrived' = arrived \cup {r}
  /\ unacceptedQueue' = Append(unacceptedQueue, r)
  /\ UNCHANGED <<waitingQueue, swappedQueue, batchQueues, curIndex, pipeline, migrating,
                 blockVars, pc, outputLen, finished>>

(***************************************************************************)
(* get_next_batch.                                                         *)
(***************************************************************************)
NextIndex == (curIndex + 1) % PipelineSize

(* The requests of all batches, if `batch` is the next one. *)
Running(batch) == InBatches([batchQueues EXCEPT ![NextIndex] = batch])

(* First, while the running and the waiting requests need more blocks than *)
(* there are, the last request of the next batch is swapped out: the batch *)
(* keeps its longest prefix with which they do not.                        *)
Overbooked(batch) ==
  Total(Blocks, Running(batch)) + Total(PromptBlocks, Range(waitingQueue)) > MaxNumGpuBlocks

FirstOf(queue, n) == SubSeq(queue, 1, n)

(* mutant: what was taken off the queue stays in it *)
MutAfterFirst(queue, n) == queue

AfterFirst(queue, n) == SubSeq(queue, n + 1, Len(queue))

IsKeptLen(n) ==
  LET batch == batchQueues[NextIndex] IN
  /\ ~Overbooked(FirstOf(batch, n))
  /\ \A k \in n + 1 .. Len(batch) : Overbooked(FirstOf(batch, k))

(* They are popped from the end and appended to the swapped queue. *)
Reversed(queue) == [i \in DOMAIN queue |-> queue[Len(queue) + 1 - i]]
SwappedOut(n)   == Reversed(AfterFirst(batchQueues[NextIndex], n))

(* mutant: the blocks of the waiting requests are not counted *)
MutFits(batch, queue, n) ==
  /\ Len(batch) + n <= MaxBatchSize
  /\ Len(batch) + n <= MaxTokensPerBatch
  /\ Total(Blocks, Running(batch) \cup Range(FirstOf(queue, n))) <= MaxNumGpuBlocks

(* Then requests join the batch: those of the swapped queue in order and,  *)
(* when none is left there, those of the waiting queue.  This is           *)
(* _check_add_to_cur_batch for the n-th of them, which if it is waiting is *)
(* still in the waiting queue.  Every request enters one token.            *)
Fits(batch, queue, n) ==
  /\ Len(batch) + n <= MaxBatchSize
  /\ Len(batch) + n <= MaxTokensPerBatch
  /\ Total(Blocks, Running(batch) \cup Range(FirstOf(queue, n)))
       + Total(PromptBlocks, Range(waitingQueue) \ Range(FirstOf(queue, n - 1))) <= MaxNumGpuBlocks

IsJoinLen(batch, queue, n) ==
  /\ \A k \in 1 .. n : Fits(batch, queue, k)
  /\ n < Len(queue) => ~Fits(batch, queue, n + 1)

(* The three choices of get_next_batch, all determined: the next batch     *)
(* keeps k requests, then n of the swapped queue join it, then m waiting.  *)
IsNextBatch(k, n, m) ==
  LET batch   == batchQueues[NextIndex]
      swapped == swappedQueue \o SwappedOut(k)
  IN  /\ k \in 0 .. Len(batch) /\ n \in 0 .. Len(swapped) /\ m \in 0 .. Len(waitingQueue)
      /\ IsKeptLen(k)
      /\ m > 0 => n = Len(swapped)
      /\ IsJoinLen(FirstOf(batch, k), swapped \o waitingQueue, n + m)

NextBatch(k, n, m) ==
  FirstOf(batchQueues[NextIndex], k)
    \o FirstOf(swappedQueue \o SwappedOut(k), n) \o FirstOf(waitingQueue, m)

(* The block tables after the swaps and allocate_blocks_batched. *)
WhereAfter(batch, out) ==
  [r \in Requests |-> IF r \in Range(batch) THEN "GPU"
                      ELSE IF r \in Range(out) THEN "CPU" ELSE where[r]]

(* mutant: the blocks a batch grows into are not allocated *)
MutHeldAfter(batch) == held

HeldAfter(batch) ==
  [r \in Requests |-> IF r \in Range(batch) /\ Blocks[r] > held[r] THEN Blocks[r] ELSE held[r]]

(* After the swap-outs GPU blocks are only taken, so no assertion about    *)
(* them fails iff they suffice in the end (GpuBlocksSuffice).              *)
Affordable(k, n, m) ==
  LET after == WhereAfter(NextBatch(k, n, m), SwappedOut(k)) IN
  Total(HeldAfter(NextBatch(k, n, m)), {r \in Requests : after[r] = "GPU"}) <= MaxNumGpuBlocks

CanSwapOut(out) == Total(held, Range(out)) <= AvailCpu

(***************************************************************************)
(* _step.                                                                  *)
(***************************************************************************)

(* With the pipeline full: drop an empty oldest batch, or await it. *)
Settle(batches) ==
  IF Len(batches) = PipelineSize
  THEN IF Head(batches) = Empty THEN pipeline' = Tail(batches) /\ pc' = "post"
                                ELSE pipeline' = batches /\ pc' = "await"
  ELSE pipeline' = batches /\ pc' = "post"

Push(batch) ==
  \/ /\ batch = <<>>
     /\ pipeline' = Append(pipeline, Empty)
     /\ pc' = "sleep"
  \/ /\ batch # <<>>
     /\ Settle(Append(pipeline, NextIndex))

Schedule ==
  /\ pc = "ready"
  /\ \E k \in 0 .. Len(batchQueues[NextIndex]) :
     \E n \in 0 .. Len(swappedQueue) + Len(SwappedOut(k)), m \in 0 .. Len(waitingQueue) :
       LET batch == NextBatch(k, n, m) IN
       /\ IsNextBatch(k, n, m)
       /\ CanSwapOut(SwappedOut(k))
       /\ Affordable(k, n, m)
       /\ batchQueues'  = [batchQueues EXCEPT ![NextIndex] = batch]
       /\ swappedQueue' = AfterFirst(swappedQueue \o SwappedOut(k), n)
       /\ waitingQueue' = AfterFirst(waitingQueue, m)
       /\ held'  = HeldAfter(batch)
       /\ where' = WhereAfter(batch, SwappedOut(k))
       /\ Push(batch)
  /\ curIndex' = NextIndex
  /\ UNCHANGED <<unacceptedQueue, migrating, requestVars>>

(* "not enough free blocks on CPU": the AssertionError of swap_out_requests *)
(* ends the event loops, and with them the server.                          *)
SwapOutFails ==
  /\ pc = "ready"
  /\ \E k \in 0 .. Len(batchQueues[NextIndex]) : IsKeptLen(k) /\ ~CanSwapOut(SwappedOut(k))
  /\ pc' = "failed"
  /\ UNCHANGED <<queueVars, pipeline, migrating, blockVars, requestVars>>

(* The sleep of a step with an empty batch ends. *)
WakeUp ==
  /\ pc = "sleep"
  /\ Settle(pipeline)
  /\ UNCHANGED <<queueVars, migrating, blockVars, requestVars>>

(* mutant: the batch of the current step *)
MutLastStageBatch == curIndex

(* _get_last_stage_batch: the batch pop_finished_requests looks at. *)
LastStageBatch == (curIndex + 1) % PipelineSize

(* mutant: the blocks of finished requests are not freed *)
MutFreed(batch) == {}

(* pop_finished_requests, free_blocks_batched *)
Freed(batch) == Range(batch) \cap finished'

(* The oldest batch returns: each of its requests gets a token, and is     *)
(* finished at max_tokens, or before it by a stop token.                   *)
FinishBatch ==
  /\ pc = "await"
  /\ LET returned == Range(batchQueues[Head(pipeline)])
         popFrom  == batchQueues[LastStageBatch]
     IN  /\ outputLen' = [r \in Requests |-> outputLen[r] + IF r \in returned THEN 1 ELSE 0]
         /\ \E done \in SUBSET returned :
              /\ {r \in returned : outputLen'[r] >= MaxTokens[r]} \subseteq done
              /\ finished' = finished \cup done
         /\ \E kept \in Subsequences(popFrom) :
              /\ Range(kept) = Range(popFrom) \ finished'
              /\ batchQueues' = [batchQueues EXCEPT ![LastStageBatch] = kept]
         /\ held'  = [r \in Requests |-> IF r \in Freed(popFrom) THEN 0 ELSE held[r]]
         /\ where' = [r \in Requests |-> IF r \in Freed(popFrom) THEN "none" ELSE where[r]]
  /\ pipeline' = Tail(pipeline)
  /\ pc' = "post"
  /\ UNCHANGED <<unacceptedQueue, waitingQueue, swappedQueue, curIndex, migrating, arrived>>

(***************************************************************************)
(* post_process.                                                           *)
(***************************************************************************)
(* mutant: the threshold is to hold with the request accepted *)
MutShouldAccept(r) ==
  /\ Total(PromptBlocks, Range(waitingQueue) \cup {r}) < AcceptBelow
  /\ PromptBlocks[r] <= AvailGpu

ShouldAccept(r) ==
  /\ Total(PromptBlocks, Range(waitingQueue)) < AcceptBelow
  /\ PromptBlocks[r] <= AvailGpu

(* _migrate_blocks up to its await; the blocks are those of the prompt. *)
BeginMigration ==
  /\ pc = "post"
  /\ unacceptedQueue # <<>>
  /\ LET r == Head(unacceptedQueue) IN
     /\ ShouldAccept(r)
     /\ migrating' = {r}
     /\ held'  = [held  EXCEPT ![r] = PromptBlocks[r]]
     /\ where' = [where EXCEPT ![r] = "GPU"]
  /\ unacceptedQueue' = Tail(unacceptedQueue)
  /\ pc' = "migrate"
  /\ UNCHANGED <<waitingQueue, swappedQueue, batchQueues, curIndex, pipeline, requestVars>>

EndMigration ==
  /\ pc = "migrate"
  /\ \E r \in migrating : waitingQueue' = Append(waitingQueue, r)
  /\ migrating' = {}
  /\ pc' = "post"
  /\ UNCHANGED <<unacceptedQueue, swappedQueue, batchQueues, curIndex, pipeline, blockVars,
                 requestVars>>

EndStep ==
  /\ pc = "post"
  /\ unacceptedQueue # <<>> => ~ShouldAccept(Head(unacceptedQueue))
  /\ pc' = "ready"
  /\ UNCHANGED <<queueVars, pipeline, migrating, blockVars, requestVars>>

Next ==
  \/ \E r \in Requests : AddRequest(r)
  \/ Schedule
  \/ SwapOutFails
  \/ WakeUp
  \/ FinishBatch
  \/ BeginMigration
  \/ EndMigration
  \/ EndStep

(* Sleeps end, and the workers return what they were called for. *)
Fairness ==
  /\ WF_vars(Schedule \/ SwapOutFails)
  /\ WF_vars(WakeUp)
  /\ WF_vars(FinishBatch)
  /\ WF_vars(BeginMigration \/ EndStep)
  /\ WF_vars(EndMigration)

Spec == Init /\ [][Next]_vars /\ Fairness

(***************************************************************************)
(* Properties.                                                             *)
(***************************************************************************)
TypeOK ==
  /\ unacceptedQueue \in Seq(Requests)
  /\ waitingQueue \in Seq(Requests)
  /\ swappedQueue \in Seq(Requests)
  /\ batchQueues \in [Stages -> Seq(Requests)]
  /\ curIndex \in Stages \cup {-1}
  /\ pipeline \in Seq(Stages \cup {Empty}) /\ Len(pipeline) <= PipelineSize
  /\ migrating \in SUBSET Requests
  /\ held \in [Requests -> Nat]
  /\ where \in [Requests -> {"none", "GPU", "CPU"}]
  /\ pc \in {"ready", "sleep", "await", "post", "migrate", "failed"}
  /\ outputLen \in [Requests -> Nat]
  /\ arrived \in SUBSET Requests
  /\ finished \in SUBSET arrived

(* decoding_stage_scheduler.py:95-96: "one request can only be in one      *)
(* queue at a time".  A request that arrived and is not finished is in     *)
(* exactly one, once; a finished one is in none.                           *)
Places(r) ==
  LET At(queue) == {i \in DOMAIN queue : queue[i] = r} IN
  ({"unaccepted"} \X {0} \X At(unacceptedQueue)) \cup ({"waiting"} \X {0} \X At(waitingQueue))
    \cup ({"swapped"} \X {0} \X At(swappedQueue)) \cup ({"migrating"} \X {0} \X (migrating \cap {r}))
    \cup UNION {{"batch"} \X {i} \X At(batchQueues[i]) : i \in Stages}

Consistent ==
  /\ TypeOK
  /\ \A r \in Requests : Cardinality(Places(r)) = IF r \in arrived \ finished THEN 1 ELSE 0

(* A request has its blocks on the CPU while it is in the swapped queue,   *)
(* on the GPU while it waits or runs, and else it has none.                *)
TablesFollowQueues ==
  \A r \in Requests :
    /\ where[r] = "CPU" <=> r \in Range(swappedQueue)
    /\ where[r] = "GPU" <=> r \in Range(waitingQueue) \cup migrating \cup InBatches(batchQueues)
    /\ held[r] > 0 <=> where[r] # "none"

(* GPU blocks are never the reason why a step fails, although the loop     *)
(* counts the blocks requests need and the manager those they have: the    *)
(* swap-out loop never pops from an empty batch, and neither swap_in nor   *)
(* the allocation for the batch finds too few blocks.                      *)
GpuBlocksSuffice ==
  pc = "ready" =>
    /\ \E k \in 0 .. Len(batchQueues[NextIndex]) : IsKeptLen(k)
    /\ \A k \in 0 .. Len(batchQueues[NextIndex]) :
       \A n \in 0 .. Len(swappedQueue) + Len(SwappedOut(k)), m \in 0 .. Len(waitingQueue) :
         IsNextBatch(k, n, m) => Affordable(k, n, m)

(* The workers write into the blocks of the batches in flight: each of     *)
(* their requests is on the GPU, with a block for every token it has.      *)
InFlight == {i \in Stages : i \in Range(pipeline)}

InFlightHasBlocks ==
  \A i \in InFlight : \A r \in Range(batchQueues[i]) :
    where[r] = "GPU" /\ held[r] >= Blocks[r]

(* No step changes a batch while it is in flight: the tokens that come     *)
(* back are zipped with its requests.  (start_one_iteration asserts a part *)
(* of it, that no batch is in flight twice.)                               *)
InFlightUntouched ==
  [][\A i \in InFlight : i \in Range(pipeline') => batchQueues'[i] = batchQueues[i]]_vars

(* Every request fits beside the requests that may be waiting.             *)
Roomy ==
  /\ MaxBatchSize > 0 /\ MaxTokensPerBatch > 0 /\ AcceptBelow > 0
  /\ \A r, q \in Requests :
       BlocksFor(PromptLen[r] + MaxTokens[r] - 1) + (AcceptBelow - 1) + PromptBlocks[q] <= MaxNumGpuBlocks

(* Then every request that arrives finishes, however often it is swapped   *)
(* out, as long as swap-outs find CPU blocks.                              *)
EveryRequestFinishes ==
  Roomy => \A r \in Requests : (r \in arrived) ~> (r \in finished \/ pc = "failed")

(* engine.py:55-64 has "Waiting", "Decoding" and "Finished" as the only    *)
(* states of a request, and lines 80-83 the decoding loop forward what is  *)
(* in the decoding queue to the decoding stage: a request it swapped out   *)
(* is some day in a batch again.                                           *)
SwappedReturns ==
  \A r \in Requests : (r \in Range(swappedQueue)) ~> (r \in InBatches(batchQueues))
=============================================================================
