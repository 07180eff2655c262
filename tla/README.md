# RecomputeOrMigrate: specifications, model checking and proofs

RecomputeOrMigrate (RoM) serves a language model with its two phases on
different GPUs.  A *context* stage processes prompts, a *decoding* stage
generates the remaining tokens, and the KV cache of a request is copied from
the first to the second.  RoM adds a policy to DistServe: when a decode worker
dies, each of its requests is either migrated or recomputed.  The repository
also holds a simulator of both systems and searches over its configurations.
This directory holds TLA+ modules for the parts of it that decide anything,
configurations to check them with TLC, and proofs for TLAPS.

Paths below are relative to `src/`.  All line numbers are of that tree.

## 1. The system

### Components

| component | state | operations | module |
|---|---|---|---|
| Block manager (`distserve/block_manager.py`), one per stage | free and swapping lists of GPU and CPU blocks, block tables, locations | allocate, free, swap in, swap out | `BlockManager`, `BlockPool` |
| Workers (`distserve/worker.py`) | caches, swap streams and their latest events | swap, wait for swaps; start; pull blocks | `SwapStreams`, `Startup`, `FailureRecovery` |
| Context scheduler (`distserve/context_stage_scheduler.py`) | waiting queue, unaccepted queue, count of blocks on the fly | add a request, next batch, batch finished, request migrated | `ContextStage` |
| Context engine (`distserve/single_stage_engine.py:148-428`) | batches in the pipeline and their futures, bridge queue (shared) | step, callback that frees migrated blocks | `ContextStage`, `Serving` |
| Decoding scheduler (`distserve/decoding_stage_scheduler.py`) | unaccepted, waiting and swapped queues, one batch per pipeline stage, index of the current one | add a request, next batch with swaps, pop finished, accept and migrate | `DecodingStage` |
| Decoding engine (`distserve/single_stage_engine.py:431-931`) | pipeline and futures, requests per worker, dead workers | bridge loop, step, migration, failure monitor, recovery | `DecodingStage` and `Serving` (normal path), `FailureRecovery` (monitor, recovery) |
| LLMEngine (`distserve/engine.py`) | output queues, lifetime events and prompt lengths by request; placement groups | construct, initialize, generate, callbacks, RoM decision, bandwidth probe | `Startup`, `Serving`, `RomQueries`, `LocalScheduler` |
| Requests and lifetime (`distserve/request.py`, `distserve/lifetime.py`) | output length, finished, slots filled, events | generate a token, stop, log an event | `Serving`, `DecodingStage` |
| Clients (`distserve/llm.py`, `distserve/api_server`, the benchmark client) | the requests they read | issue, read, disconnect, send again; two ROM endpoints | `Serving` |
| Configuration and placement (`distserve/config.py`, `distserve/rom_config.py`) | none | sizes of a model, its blocks and workers, ROM configuration | `Startup` |
| RoM decision (`distserve/rom_decision.py`) | none | cost of migrating, of recomputing, choice, breakeven | `RomDecision`, `RomQueries` |
| RoM local scheduler (`distserve/rom_local_scheduler.py`) | bandwidth average and its age, queue lengths | update, register, deregister, best worker | `LocalScheduler` |
| Simulator (`simdistserve/base`, `simdistserve/clusters`) | per worker two queues, a wake-up event, a batch; per request counters and a log | arrivals, iterations of the workers, forwarding | `SimWorker` |
| Search (`simdistserve/benchmarks`) | bounds of a bisection, a pool of processes, the best configuration | bisect, start, collect, prune | `Search`, `GridSearch` |
| Downloader (`distserve/downloader`), called by every worker | a file lock, the files of a model's folder and its mark `done` | find or convert the weights, mark them complete | `Weights` |
| Logs, tokenizer, estimators, most evaluation scripts | | | not modelled (section 8) |

### How they interact

```
 client --> generate() --> add_request        bridge_queue        _migrate_blocks
   ^            ^            context engine ==============> decoding engine ----> workers
   | tokens     |               |  ^      |                     |   ^      |
   +-- output --+---------------+  |      | allocate, free      |   |      | allocate, free, swap
       queue         callbacks     |      |                     |   |      |
                        context scheduler v                     v   |      v
                            block manager (context)  decoding scheduler  block manager (decoding)
                                  ^                             |
                                  +-- clear_migrated_blocks_callback
```

Everything in the figure but the workers and the clients of the API server runs
on one asyncio event loop: a handler runs alone from one `await` to the next.
The tasks are the step loop of the context engine, the bridge loop and the step
loop of the decoding engine, one `generate()` per request, and the failure
monitor.  The workers are Ray actors: calls on them are asynchronous and ordered
per worker.

Failures take another way through the same engine:

```
 monitor task --ping--> decode workers (Ray actors)
     | dead
     v
 _handle_decode_worker_failure --deregister, best worker, bandwidth--> LocalScheduler (Ray actor)
     | per request: get_rom_decision                                        ^
     v                                                                      | measurements
 recover_via_migrate | recover_via_recompute                    _probe_bandwidth task
```

The simulator is a program of its own: the processes of `simpy` hold control
from one `yield` to the next, and hand requests to each other through queues.
The searches start simulations, in processes of the operating system or one
after the other.

The repository as committed does not run as it is: `distserve/request.py:172-181`
has a parameter without a default after one with a default, a syntax error when
the module is imported, and `init_kvcache_and_swap` (`distserve/worker.py:133`)
assigns from a name `handles` that is nowhere defined, a `NameError` when the KV
cache is initialised.  The modules model the program with these two places
repaired, which changes nothing else that is modelled.

### What is hard in it

* State read at one await and used at a later one: the context scheduler
  keeps its own count of blocks, while callbacks of the other engine free
  blocks under it.
* Batches overlap in the pipeline; the batch whose tokens return, the batch
  that finished requests are popped from and the batch that is filled next are
  found in three different ways.
* Blocks run short: swapping out, swapping back in, admission and acceptance
  each count blocks by a formula of their own.
* A block handed out while the copy that reads it has not ended; copies in two
  streams that no event orders.
* Queues served strictly in order, whose heads can block what is behind them
  or each other.
* Dead workers: found by a task that awaits in the middle of its round, while
  the step loop fails on the same worker and may end the process first.
* Event loops that are cancelled in the middle of a step and started anew on
  the same engines; clients that leave; requests that are sent again.
* A start of many actors, some of whose failures are swallowed.
* A conversion of weights that dies half-way and leaves its files to the next
  process, which may want another element type.
* In the simulator, wake-ups that fall between a look at the queues and the
  sleep, and batches that are forwarded item by item; in the searches, pools at
  their limit, bounds of a bisection, and pruning.

`PROJECT.json` lists these hazards at their lines, with the properties that
would catch them.

### What makes the components correct

* Block manager: no block lost, none with two owners, none handed out under a
  copy, none taken from a running request; to its clients, a pool of counts.
* Context stage: the two counts of blocks agree, no allocation fails, requests
  go over the bridge in order of arrival and with their blocks, and all leave.
* Decoding stage: one queue at a time, block tables on the side the queue
  demands, enough GPU blocks for what the loop does next, batches in flight
  untouched and covered by blocks, and every request finishes.
* Serving: every token reaches its client once and in order, the cache slots of
  a request have neither gap nor overlap, what is in flight is known to every
  table, lifetimes are complete, and clients that stay are answered.
* Start: an engine that calls itself initialized has all its workers, with
  their models, caches that fit and the blocks its block manager hands out, and
  both stages of a layer on one node.  (The models it may lack: section 4.)
* Weights: whoever returns from the downloader finds every file its model needs,
  whole, of one element type, with every head in exactly one piece.
* RoM decision: it agrees with the breakeven length, and is monotone in the
  bandwidth; the estimate it rests on is monotone in the prompt.
* Local scheduler: never a worker known to be dead; an average within what was
  measured.
* Recovery: every death is noticed; the affected requests are exactly those
  begun and not finished, and each is tried once for each dead worker.
* Simulator: no lost wake-up, no lost request, chunks that stay together, logs
  that show all the work on the right side of the first token.
* Searches: the reported rate is sharp, the reported configuration the best,
  the pools within their size, and they return.

## 2. Modules

| module | what it is |
|---|---|
| `BlockPool` | abstract specification: what a scheduler sees of a block manager |
| `BlockManager` | the block manager, shown to implement `BlockPool` |
| `SwapStreams` | the manager's swaps as one worker carries them out; extends `BlockManager` |
| `Queues` | totals over queues, subsequences; used by both stages, `Serving` and `SimWorker` |
| `ContextStage` | context scheduler and engine, bridge queue, the decoding side's callback |
| `DecodingStage` | decoding scheduler and engine |
| `Serving` | a request from its client through both stages and back; the event loops of both |
| `Startup` | LLMEngine from its configurations to `engine_initialized` |
| `Weights` | the workers of a machine that find or convert the weights of a model |
| `RomDecision` | costs, decision and breakeven as operators |
| `RomQueries` | the decisions asked one after the other of an engine |
| `LocalScheduler` | the actor with the bandwidth average and the candidates |
| `FailureRecovery` | workers that die, the monitor, the recovery; extends `LocalScheduler` |
| `SimWorker` | the simulator: clusters, workers, scheduler, requests, logs |
| `Search` | the bisections and the pools of processes that run them |
| `GridSearch` | the serial grid search with its pruning |
| `MC...` | instances for TLC; `MCStartup` composes three modules, `MCSimulator` three |
| `BlockManager_proofs`, `QueueLemmas`, `ContextStage_proofs`, `DecodingStage_proofs`, `Serving_proofs`, `Engine_proofs` (start, weights, RoM decision), `FailureRecovery_proofs`, `Simulator_proofs` (workers, searches) | theorems and proofs |

### BlockManager and SwapStreams

`freeBlocks`, `swappingBlocks`, `blockTable`, `requestLocation` are the lists
and dictionaries of the class.  The lists are sets, since nothing depends on
their order; the GPU and the CPU half of a method are one definition with the
location as a parameter.  `copying` is not a variable of the class: it holds
the source blocks of the `swap_blocks` calls the manager has issued since it
last told the workers to wait, so the copies that may still be under way.  The
actions are `AllocateBlocks` (first allocation and growth), `FreeBlocks`,
`SwapIn`, `SwapOut`; the flush in the middle of `_get_free_blocks` is
`MustFlush`, `Pool`, `SwappingAfter`, `CopyingAfter`.

The manager's callers never await inside a call, so a call on one request is
one step.

`SwapStreams` adds one worker: the queue of its actor (`calls`), the copies
issued and not ended in each of its two CUDA streams (`copies`), and how many of
them the latest event of a stream comes after (`latest`).  The actions of the
manager put calls in the queue; `IssueCopy` is `swap_blocks`, `WaitForAll` is
`wait_for_all_swap_in` and `wait_for_all_swap_out`, `CopyEnds` is the GPU.
`swap_event_table` is left out: it is keyed by `Request` objects that are
unpickled anew in each call and looked up by id, so it never finds anything (and
grows for ever).

### ContextStage

`pc` is the await at which the step loop is: between steps, in the sleep of an
empty step, or at the future of the oldest batch.  `Schedule` is `_step` from
its start to its next await: `get_next_batch_and_pop`, the allocation, the push
and, with the pipeline full, the drop of an empty oldest batch.  `FinishBatch`
is the rest of `_step`.  `AddRequest`, `TakeFromBridge` and `RequestMigrated`
(the decoding engine's callback) run at any await.  Which requests a returned
token finishes is a free choice.

A block table is the set of a request's logical blocks; the physical ones are
the subject of `BlockManager`.  `taken` stands for the decoding stage: what it
took off the bridge and has not migrated.  It may migrate in any order, which
is more than the decoding scheduler does.

### DecodingStage

The queues, `curIndex` and the batches are those of the scheduler; a batch in
the pipeline is its index, as in the code, where it is one object that goes
round.  `Schedule` is `_step` up to its next await.  The three loops inside
`get_next_batch` are stated by what they determine: how many requests of the
next batch are kept (`IsKeptLen`), and how many of the swapped and of the
waiting queue join (`IsJoinLen`).  `SwapOutFails` is the same step when the
assertion of a swap-out fails for want of CPU blocks, an exception that ends the
server.  `FinishBatch` is `_step` after the oldest future, `BeginMigration` and
`EndMigration` are the two halves of one round of `post_process` around its
await, `EndStep` its exit.  `AddRequest` is the bridge loop.

`held` and `where` are the block manager as `BlockPool` shows it; the step from
it to the physical lists is the refinement checked for `BlockManager`.

### Serving

The composition of the front with both stages.  What the two scheduler modules
decide is left open here: `StepContext` takes any number of requests from the front
of its queue, `StepDecoding` any of those that no batch has (one that is
swapped out does not keep a younger one from running), `StepEmpty` takes none,
`PostDone` refuses.  What they leave out is here: `Generate`, `PutOutputs` and `Log...` are
what a step reports through the two callbacks of LLMEngine, in the order of the
code; `Forward` marks the cache positions that a step computes (`slots`), from
the index and the number of its input tokens in `request.py`.

`Issue` is `generate()` up to its first await, after the parameters were looked
at: `IsValid` is the constructor of `SamplingParams`, and a request it raises
for is `Refuse`d.  `ReadToken` and `ReadLast` are one round of its loop, with what
the client does before it asks for the next output.  `Disconnect` is a client of
the server that leaves: the handler of a stream is cancelled in its `get()`, the
other kind answers 499.  Both leave `request_outputs`, the lifetime events and
`_prompt_len_map` as they are, for ever: `abort` does nothing
(`single_stage_engine.py:241-246`), and the request runs on to its end.
`Resend` is the benchmark client, which takes a refusal for a failure to parse
the answer.  `RomDecision` and `RomRecover` are what the server's two ROM endpoints
answer; they change nothing.

`call` is the `asyncio.run` under way.  The server has one; `OfflineLLM.generate`
makes one per call, and `NextCall` cancels the loops of the one before wherever
they are.  An asyncio queue belongs to the first event loop that waits on it
(`boundTo`), and raises in any other (`WaitOnBridge`).

### Startup

`pc` follows the constructor and `initialize` of LLMEngine, `stage` the start of
each single-stage engine, which run side by side.  The arithmetic of
`config.py` (layers, heads, sizes, blocks), of the placement groups and of
`rom_config.py` is in operators with the names of the code.  A method of a worker
that fails leaves its worker out of `alive`, `loaded`, `cache` or `mapped`; only
the `asyncio.gather` in `_init_kvcache` raises, the calls under `asyncio.wait` do
not: those for the start of the actors, for the models, and for the handles of
the context stage's caches.  Any subset may fail at each of them.  The actor
`rom_local_scheduler` is found by its name if there is one, so `registered` starts
as what an earlier engine left (`Earlier`), and it may be gone when the workers are
registered, which raises.

### Weights

`distserve/downloader` as the workers of one machine call it: `Acquire` is the
file lock, `FindCached` the test for the file `done`, `BeginConversion`,
`SaveTensor` and `MarkDone` the conversion under the lock, one tensor at a time in
any order (the code takes that of a dictionary, merged from shards).  `Refuse` and
`SaveFails` are the asserts and exits of the two files, before the conversion and
in the middle of it.  A process may `Die` while it holds the lock, which the
operating system then releases; it leaves behind what it wrote, the last file
`"torn"`.  `CallAgain` is a later engine that wants the same model, in any element
type.  The three preprocessors and name translators are operators over the names
of the tensors; of a tensor's content the module keeps the element type and the
heads in it.  The names that a model is loaded from (`LayerNames`,
`OutsideNames`) come from the comments of `converter.py`, and the tensors of
a checkpoint from the architecture: `StandardOfLayer` and `StandardOutside`
are assumptions about files that the repository does not hold.

### RomDecision and RomQueries

`RomDecision` has one operator per function of `rom_decision.py`.  A float is an
exact fraction `[num, den]`, with `[1, 0]` for `math.inf`; rounding is not
modelled, so a tie is an exact tie.  The table is a function, as the dictionary
is; the bisection of `_interpolate` is stated by the neighbours it finds.
`RomQueries` asks `get_rom_decision` for one prompt and bandwidth after the other
under one configuration, so that two successive queries can be compared.

### LocalScheduler and FailureRecovery

`LocalScheduler` is the Ray actor: the average as an exact fraction, whether the
last measurement is at most 60 seconds old, and the keys of `_queue_lengths`.
The queue lengths themselves are all 0 for ever: their only reporter asks the
decoding scheduler for `get_num_waiting_requests`, which it does not have, and
drops the exception (`single_stage_engine.py:891-905`).  So the best worker is
the one registered first.  If the lengths did arrive, a dead worker would be a
candidate again after the next step, as `update_queue_length` does not look
whether its worker was deregistered.

`FailureRecovery` has the monitor task with `pc` as the await it is at, the step
loop as far as failures see it (a batch is pushed and charged to all workers, the
oldest one returns, some requests finish, or the step raises because the last
stage's worker is dead), the death of workers and of the actor, and the end of
the process.  A batch pushed while a worker is dead never returns (`sound`).
`BuiltInLoop` says whether the engine is constructed inside the event loop that
runs it later: `asyncio.ensure_future` (`single_stage_engine.py:500`) ties the
monitor to the loop that is current at construction.  `snapshot` and
`recoveries` are the records `ROMLogger` writes; `path` is the way that was
tried last.

`PullFails` is the only outcome of a migration: `_call_migrate_blocks`
(`worker.py:415-435`) passes `migrate_blocks` arguments that are not its own, so it
raises whatever the sources do.  Recomputing always raises too, as no class
defines `recover_via_recompute`.  `POST /v1/rom/recover` runs the same two methods
and changes no state for that reason; it is not an action.

### SimWorker

A worker is a `simpy` process; `pc` is the `yield` it is at and `control` names the
one that is between two of them.  `Start`, `Sleep`, `DoPrefill`, `DoDecode` and
`Finish` are the pieces of `run` between its yields; `Arrive` is the arrival
process with the scheduler's choice of a worker.  The loops of these pieces are
stated by what they determine.  `_enter_prefill` and `_enter_decodes` take the
longest prefix of a queue that fits (`IsPrefillCount`, `IsDecodeCount`);
`Part` is what a first worker takes of one prompt, and in the chunked mode every
token counts twice, as the limit shrinks while the chunk grows.  `_exit_prefill`
and `_exit_decode` hand on the requests of a batch one by one: `Forwards` says which
queue ends up with which of them in which order, and `Shares` how the
scheduler, who counts the requests it placed before, spreads those that turn to
decode over the decode instances.  `wakeup` is `Awakened`, for all `Receivers`
together: a worker that was woken once in a piece is not asleep any more.
Delays are left open: any order of the timeouts.  The uuid of a chunk is
abstracted to its first request.  `log` keeps the events of a request in order,
from which `organize_data.py` computes latencies.

The cluster (DistServe's or vLLM's, its pipelines, instances and chunked prefill)
is drawn from `Configs` at the start.

### Search and GridSearch

`Search` draws a setting: a driver, a backend and a cluster.  `Jobs` are the
configurations `search_configs.py` enumerates for it.  A job has the bounds of
its bisection (`low`, `high`, `best`) and a state (`proc`); `processes` is the list
of the pool.  An experiment meets its targets, misses them, raises, or never
returns (a prompt longer than the prefill batch, which `SimWorker` would run for
ever).  `met` and `missed` record the experiments.  `serial_bisect.py` is the
driver with a pool of one; it drops its results, which are recorded as if it
did not.  Rates are counted in units that make all bounds whole numbers.

`GridSearch` walks over the grid of `simulate_dist.py` and compares goodputs per
GPU by cross-multiplication.  `Skip` is both reasons to leave a configuration
out: too many GPUs, or no chance to be better than the best.

## 3. Runs

| run | configuration | what it asks |
|---|---|---|
| `block_manager` | 3 requests, 4 GPU and 3 CPU blocks, symmetric | partition of the blocks, no free block under a copy, growth in place, implements `BlockPool` |
| `context_stage` | 4 prompts of 2, 1, 2, 1 blocks, 4 blocks, batches of at most 2 requests and 5 tokens, pipeline of 2 | counts agree, no allocation fails, blocks kept for the migration, bridge in order, every request leaves |
| `decoding_stage` | 4 requests that grow to 11 blocks, 6 GPU and 2 CPU blocks, batches of at most 3, pipeline of 2 | one queue at a time, tables follow queues, GPU blocks suffice, batches in flight covered and untouched, every request finishes |
| `decoding_swapped` | 2 requests of 2 blocks, 4 GPU blocks | violated: a swapped-out request comes back |
| `recovery` | 2 workers, 2 requests, 2 measurements, monitor in the running loop | no target known to be dead, average within the measurements, charges, one recovery per failure, all affected tried, every death noticed |
| `recovery_wrapped` | the same with 1 request and no measurement, engine constructed outside of the running loop | violated: every death is noticed |
| `engine_front` | 6 parallelisms, 5 models, 4 pairs of policies, 3 environments, nodes of 3 and 5 GPUs; 2 workers that load one of 11 checkpoints as fp16, fp32 or a dtype that is refused, one death and one later call; 6 tables of 1 to 4 lengths, 3 policies, prompts of 0 to 9, bandwidths of -1 to 4 | an initialized engine is aligned and has every worker with its caches; who finds weights finds all of them; the decision agrees with breakeven and is monotone in the bandwidth, the cost of recomputing in the prompt |
| `start_unloaded` | the start in `engine_front` | violated: an initialized engine has loaded its models and opened the context stage's caches |
| `serving` | server with 2 requests and a third that is refused and sent again, pipelines of 2 | in flight at one place and known to every table, no token lost, slots tiled, lifetimes complete, every client answered |
| `serving_offline` | `OfflineLLM.generate` called twice, pipelines of 1 | violated: the second call returns |
| `simulator` | 4 requests on 6 clusters: both backends, with and without chunked prefill, pipelines of 1 and 2, 1 and 2 instances; 9 settings of a search, five of them with up to 5 jobs on pools of 1 or 2 and four with pools without room; rates up to 4; a grid of 32 configurations of which 18 are within the limit | no lost wake-up, no lost or doubled request, chunks stay together, logs show all the work, every request exits; results sharp, pools consistent, the grid's report the best, the search returns |
| `swap_requirement` | 2 requests, 2 GPU and 2 CPU blocks | violated: a copy waits for the copies that still read its target blocks |

Each module has one type invariant.  Where a run checks it, it does so as a part
of a larger invariant: `Consistent` and `PoolIsConsistent` include `TypeOK`
(`SimTypeOK` in `SimWorker`, with `ChunksStayTogether`),
`LayersAreAligned` includes `StartTypeOK`, `ReportIsBest` includes `GridTypeOK`;
`StartedWithCaches` also includes `EstimateIsAllocation` and `AllocationFits`.  Where
section 6 names an inductive invariant, the type invariant is a part of it.

**Bounds.**  The number of requests, their prompt lengths and `max_tokens`
are the only bounds of most runs, all CONSTANTS; no state constraint is used.
They are chosen so that the interesting cases happen.  In `block_manager` three
requests want more than all GPU blocks and the swapping lists are not empty at
an allocation, so that flushes happen on both sides.  In `context_stage` each
of the three limits ends a batch in some state, batches overlap, and the bridge
is filled by one batch while another is out.  In `decoding_stage` a step may
swap out several requests, bring one back in the same step, run with an empty
batch in the pipeline, and find too few CPU blocks; a request is accepted only
while no other waits.  In `recovery` both workers may die, in either order,
before, between and after the awaits of the handler; one prompt migrates at the
configured bandwidth and is recomputed at the measured one.  With three workers
and one measurement the same properties hold in 1.2 million states, beyond what
is worth running every time.

In `engine_front` the models have grouped heads, one key/value head, no length at
all, or an element type that is refused; two shapes do not divide the layers or
the heads, and a group of 5 workers fits one node only; some bandwidth makes migration win, lose and tie on each growing
table, and prompts lie below, at, between and above the table's lengths.  The
start, the loading of the weights and the queries share no state, and are
enumerated one after the other (`MCStartup`); an actor of an earlier engine, with
a worker that the new one has not, is found in one shape; of the checkpoints three can be
converted, one of them with heads that eight pieces do not divide, and each of the
others fails in a way of its own.  In `serving` one request ends with its stop string or its maximum of
3 tokens and the other is streamed, so that both ways to leave, both forms of
the lifetime and a request that ends in the context stage occur.  In
`simulator` a prompt fills the prefill batch, one wants no output, one two
rounds; the back-pressure of 3 tokens sets in.  In its searches
the hosts go down to 1 processor, one configuration was not profiled, and the two
largest clusters are there for what is enumerated of them (18 and 70
configurations); the simulation and the two searches share no state and are
enumerated one after the other (`MCSimulator`).

The bounds that are not the program's own: `MaxMeasurements` = 2 in
`LocalScheduler`, as each measurement makes the denominator of the average grow;
`MaxCalls` = 3 in `SwapStreams`, the length of the actor's queue; `MaxCalls` = 1 and
`MaxDeaths` = 1 in `Weights`, enough for a worker that comes after a half-written
folder; and in `Serving` a
pipeline that is one batch too long takes no more batches (`Push`): it never gets
shorter, so what else is put in it does not matter.

**Deadlock** is not checked where the program may stop: in the decoding
runs after `SwapOutFails`, in the recovery runs as the process may exit, in
`engine_front` as the start may raise, and in
`swap_requirement` because of `MaxCalls`.  In all others it is.

**Mutants.**  Each module keeps, next to a definition, the form a plausible bug
would give it, marked as a mutant: a list that is taken over and not cleared, a
forgotten wait, freed blocks that go to the wrong list, a count that leaves a
queue out, a bridge that is a stack, the wrong batch popped, a next worker that
is not woken, an abandoned `continue`.  Every property of a passing run fails with
the mutant that `PROJECT.json` names for it.

## 4. What the code does otherwise than it says

Shown by a run:

* `decoding_swapped`.  The admission loop (`decoding_stage_scheduler.py:206-222`)
  stops at a swapped request that does not fit beside the blocks of the waiting
  queue, and so never admits the waiting requests, which keep those blocks.
* `recovery_wrapped`.  `OfflineLLM` and `AsyncLLM` (`llm.py:41`, `llm.py:111`) and
  through the latter the API server construct `LLMEngine`, and with it the
  monitor task, outside of any running loop; `asyncio.run` (`llm.py:97`,
  `distserve_api_server.py:303`) starts another loop, in which that task is not.
  A dead worker is never noticed, where `distserve_api_server.py:209-210` says
  that recovery is triggered automatically in normal operation.
* `serving_offline`.  A second `OfflineLLM.generate` never returns.  The first one
  cancels the event loops while a stage sleeps with an empty batch in its
  pipeline, which stays there, so that the pipeline's length never equals its
  size again; and the bridge queue belongs to the first call's event loop.
* `start_unloaded`.  An engine calls itself initialized without its models.
  `_init_model` (`single_stage_engine.py:193-194`) waits with `asyncio.wait`, which
  drops what `init_model` raised; `init_kvcache_and_swap` (`worker.py:102-136`) does not
  look at the model, whose weights are then whatever the memory held.  The same
  goes for the handles of the context stage's caches (`single_stage_engine.py:724-728`),
  without which each migration fails, unnoticed again (line 767).  The
  docstring of `initialize` (`single_stage_engine.py:116`) is "Initialize workers,
  load models and initialize k/v cache".  A missing worker is noticed, by
  the `asyncio.gather` for the caches: that much is `StartedWithCaches`.  (Both
  runs take `worker.py:133` for what it means to do: section 1.)
* `swap_requirement`.  `swap_blocks` (`worker.py:289`) records its event before it
  issues the copy, so that waiting for the event does not wait for that copy,
  against Requirement 2 of `block_manager.py:239-242`.  `FreeBlocksAreQuiet` holds
  of the block manager's own books: it waits at the right time, for an event that
  comes too early.

Met while modelling, and not runs of their own:

* `single_stage_engine.py:313-315` names two causes for an empty context batch.
  There is a third: the head of the queue is longer than `max_tokens_per_batch`.
  Nothing rejects such a prompt, and everything behind it waits for ever.
  `EveryRequestLeaves` has a premise for it.
* `_check_add_to_cur_batch` (`decoding_stage_scheduler.py:145-149`) adds the blocks of
  the candidate to those of the waiting queue, which still contains the
  candidate.  A request whose prompt takes more than half of the GPU blocks
  passes `should_accept`, is migrated, and never runs.  This and
  `decoding_swapped` are why `EveryRequestFinishes` has its premise `Roomy`: each
  request at its longest fits beside the prompts that can wait at a time.
* `single_stage_engine.py:676-677` says that after a failed migration the caller
  falls back to recomputing.  The caller, `_recover_one_request`, only logs the
  failure.
* `breakeven_prompt_len` is documented (`rom_decision.py:224-225`) to return 0 if
  migration is always cheaper and `sys.maxsize` if recomputing is; it returns
  `sys.maxsize` in the first case and the first table length in the second, and
  counts a tie as a crossover, where `make_decision` migrates.
* `get_rom_decision` is documented (`engine.py:399-400`) to default to "migrate" for an
  unknown request; with a bandwidth that is not positive, or under
  `always_recompute`, it does not.
* The ROM endpoints are said to return 404 for a request that is not in flight
  (`distserve_api_server.py:169`).  The entry they look up is removed by
  `generate()` when its reader has read the last output (`engine.py:353-364`): a
  request whose client left is found for ever.
* `OfflineLLM` passes no request id to `generate`, so all its prompt lengths are
  stored under `None`; and the length recorded for a prompt lacks the special
  tokens that the tokenizer adds.
* The parameters of a request but `max_tokens`, `stop` and `ignore_eos` are checked
  and never reach the model, and by default the end-of-sequence token does not
  end a request.
* `DecodingStageSchedConfig` accepts four policies, of which one has a scheduler.
* A streamed token's text is read from the shared `Request`, and may run ahead of
  the output it is sent with.
* The file `done` says nothing of the element type it was converted to: a worker
  that asks for fp16 finds the fp32 files of an earlier engine and loads them.
* A model that is downloaded from the hub cannot be converted: its local path
  already ends in `*.bin`, `convert_weights` looks for `*.bin` files below that,
  finds none and exits.
* The lock of the downloader lies in the default cache folder, the weights in
  `DISTSERVE_CACHE`: on a shared file system two machines convert side by side.
* A folder with some of a checkpoint's shards missing is converted and marked
  complete; `WeightsAreComplete` assumes that the shards hold the tensors of the
  architecture.
* The benchmark client sends a refused request again without a limit.
* `simulate_multi.py` prints that all is done while its last processes run.

## 5. Fairness

Weak fairness of the steps of the loops: an asyncio task that can run is run,
a sleep ends, and a worker's future resolves.  In `ContextStage` also of
`RequestMigrated`, which says that the decoding stage accepts what it takes; it
is an assumption there about another component.  Arrivals have no fairness:
nobody need send a request.

In `Serving` the tasks are weakly fair, among them a reader that has an output to
read.  Strong fairness is used for `StepContext`, `StepDecoding` and `Accept`
only: a scheduler that looks at a queue with something in it again and again
takes something from it in the end.  That this is so, as long as prompts fit, is
what `EveryRequestLeaves` and `EveryRequestFinishes` check of the schedulers
themselves; weak fairness would not do, as the loop sleeps between two looks.
Clients of the server are not fair to issue, nor to disconnect; the requests of
`OfflineLLM` are issued by one `gather`, which is.

In `FailureRecovery` there is weak fairness of the monitor alone: its task is run
by its loop, its sleep ends, and the calls it awaits are answered or raise.  That
a ping is answered assumes that a live worker is not stuck in a collective
operation with a dead one.  Neither the step loop, nor deaths, nor the exit of
the process are fair; `DeathIsDetected` therefore allows for the exit.

In `SimWorker` the arrivals and every worker's next piece are weakly fair: `simpy`
handles every event in its queue, and delays are finite.  In `Search` the driver
and the end of each experiment are; that an experiment hangs is not, and
`SearchReturns` allows for it.  In `MCSimulator` both are so from the
end of the simulation on, before which no search starts.  `Startup`, `Weights`, `RomQueries`, `BlockManager`, `SwapStreams`
and `GridSearch` state no fairness, as nothing is said of them but safety.

## 6. Proofs

All theorems hold for any values of the constants that meet the named
assumptions of each module: finite sets of blocks or requests, positive lengths,
block size and pipeline depth, tables of positive lengths, positive
measurements, positive sizes of clusters and of the tolerance.  They do not need
any limit to be positive.

**Block manager** (`BlockManager_proofs`).  `BlocksPartitioned` together with
the type is inductive.  That a flush takes the swapping list over without
putting a block in two places rests on the partition before the step.
`FreeBlocksAreQuiet` is not inductive: a block leaves the swapping list only by
a flush, and only if `copying` is within the swapping list at that time is it
cleared completely.  The strengthening is that every source of a copy under way
is in the swapping list of its side.  `KeepsBlocks` follows from the type.
`Refinement` maps the lists to their counts: every step of the manager is a
step of `BlockPool`, where the arithmetic is the cardinality of disjoint unions
from the partition; `BlockPool` says nothing of fairness, so this is the whole
of the refinement.

**Queues** (`QueueLemmas`).  Totals over disjoint unions, parts and
singletons, prefixes and suffixes of queues without repetitions, and what a
subsequence keeps of a queue.

**Context stage** (`ContextStage_proofs`).  The inductive invariant is `IInv`:
the type; `OnePlace`, that a request is in at most one of the waiting queue, the
batches in the pipeline and the unaccepted queue, at most once, and only if it
arrived; `BlocksHeld`, that the table is that of the requests in the pipeline
and unaccepted, and that the on-the-fly count is the total of the pipeline;
`OnTheWay`, that the bridge and `taken` are disjoint and unaccepted; `LoopPlace`,
that the pipeline has room when the loop is between steps and is not empty at
its two other awaits.  Without `OnePlace` the counts could not be added up;
without `LoopPlace` the pipeline could outgrow `pp_size`, and a step find no batch
to finish.
`CountsAgree`, `AllocationNeverFails` and `BlocksKeptForMigration` follow
from it.  One lemma per action shows that it is preserved.
`BridgeInArrivalOrder` has an invariant of its own, `InOrder`, on top of `IInv`: no
request arrives twice, the waiting queue, each batch and the bridge are ordered
by arrival, and so are the batches among each other, with the bridge before the
pipeline and the pipeline before the waiting queue.  The last part is the one
that carries it: that the bridge is in order depends on the batch that returns
being older than all others in flight.

**Decoding stage** (`DecodingStage_proofs`).  The inductive invariant is `IInv`: the
type; `OnePlace`, that the queues, the batches and the migration repeat no
request and share none, and together have those that arrived and are not
finished; `TablesFollowQueues` itself; `HeldFacts`; and `LoopPlace`.
`HeldFacts` relates the blocks a request has to those it needs: a waiting one has
those of its prompt, none has more than it needs, and none of a batch that is in
flight or not the next one has fewer.  That is why the code may count needs
where the block manager counts tables: when a batch is formed, its old tables
are part of what it needs, and all others have at least what they are counted
with (`NextBatchAffordable`); and when it keeps nobody, what is left fits
already, so the swap-out loop ends (`KeptLenExists`).  `Affordable` is a guard
of `Schedule`, being the manager's assertion, and bounds the blocks in use after
it; `GpuBlocksSuffice` says that it never is what stops a step.
`LoopPlace` says that the batches in flight were scheduled one after the other:
the index of each follows from its place in the pipeline, without a modulus,
which gives both that the next batch is not in flight when the loop is between
steps and that the batch which returns is the one whose finished requests are
popped.

**Serving** (`Serving_proofs`).  Proved of one `asyncio.run` (`Len(Calls) = 1`), for
the server and for `OfflineLLM`, with any number of requests, tokens, stages
and clients that leave or come again: `Consistent`, `NoTokenLost`, `SlotsAreTiled`
and, of every step, `LifetimeIsComplete`.  A second call starts with
the pipelines that the first one left, and `serving_offline` shows where it ends.  The
inductive invariant is `IInv`: `Shape`, the types; `LoopPlaces`, what each await of
the two step loops says of its pipeline (room before a push, requests in the batch
that is waited for, a head of the unaccepted queue during a migration);
`OnePlace`, that the two queues, the two pipelines, the bridge and the
decoding batch share no request and together have those in flight;
`TablesAgree`, for each request, what the client's state says of the output queue,
the counts of tokens and the prompt lengths; `SlotsAreTiled` itself; and `LifeByPlace`,
that the lifetime of a request is the beginning of a full life which its place
determines.  `NoTokenLost` needs of `TablesAgree` that a reader's queue has all it
has not received, ends with the last output if and only if the request finished,
and has no last output before (`Reading`).  `SlotsAreTiled` needs to know how many
tokens a request has when it is in the context stage, on the bridge or decoding
(`FirstToken`).  That a lifetime is complete when its reader leaves needs the place
of each event, because events are logged by both engines and by the migration.

**Start** (`Engine_proofs`).  The inductive invariant is `StartInv`: the type, and
what each state of `pc` and of a stage has established (`Complete`): the layers
divide and all groups are placed, the ROM configuration is that of the
model, the blocks are those the profile allows, and every worker has the cache of
its stage.  `LayersAreAligned` rests on the arithmetic of the placement groups:
with as many groups as the layers have over the least common multiple of what the
stages' workers hold, every worker's layers lie within one group
(`LayersOfGroup`), and each group has the workers it was sized for (`GroupIsFull`),
so a group that fits a node is not split.  `StartedWithCaches` is, beyond
`Complete`, that what the RoM cost model counts for a block is what the workers
allocate, times the ratio of the two element sizes, when the heads and layers
divide, and that the blocks that the floor divisions leave fit the memory
(`Estimate`, `Allocation`).  It says nothing of models and handles, which
may be missing (`start_unloaded`).

**Weights** (`Engine_proofs`).  `WeightsInv`: only the holder of the lock is
converting, and while it is, the folder is not marked and every tensor it
took off its list is there in full with its element type; once the folder is marked,
every tensor is there with one element type.  The files of an earlier process
that died are no obstacle, since whatever they are they are written again before
the mark.  It remains that each needed file is one of some tensor's files
(`Covered`, one case per architecture) and that each head is in exactly one
of the eight pieces (`Piece`, a floor division).

**RoM decision** (`Engine_proofs`).  `Breakeven`: the cost of migrating is linear
in the prompt and 0 at 0, the estimate of recomputing is linear on each segment
and constant before the first length; migrating is strictly cheaper at all
lengths up to the crossover, so it is no dearer at the two ends of the prompt's
segment, hence within it.  `Faster` multiplies out the two fractions.  `Longer`:
between two prompts there is a table length, whose value separates theirs, or
they lie on one segment or beyond the same end.

**Failure recovery** (`FailureRecovery_proofs`).  The inductive invariant is `IInv`:
the type; `DeadKnown`, that no worker counted dead is alive and the actor, as
long as it can be found, has none of them among its candidates; `HandlerState`, that
while a failure is handled the failed worker is the one pinged last and the
target is not dead, and that at a ping no worker of the round is known to be
dead; `Recovered`, that recoveries are of dead workers and none is of a request
that is still to be recovered; `Pending`, that what a failure affected has been
recovered or still is affected; `Apart`, that batches in the pipeline share no
request; the charges and the range of the average.  `OneRecoveryPerFailure` is not
inductive without `Recovered` and `HandlerState`: it is the ping's skipping of
dead workers that keeps a worker from being handled twice.  `ChargedWithRunning`
needs `Apart`: a request that finished must not be in a younger batch.

**Simulator: workers** (`Simulator_proofs`).  Proved for any set of clusters (backend,
pipeline depths, numbers of instances, chunked prefill or not), any number of
requests, lengths and limits.  `SimShape`, the type together with `NoLostWakeup`, is
inductive by itself: a piece that puts requests into queues wakes their workers
before it ends, and a worker looks at its queues and goes to sleep in one piece.
`Consistent` counts the places of a request; what is inductive is `OneHome`, that
there is an assignment `home` of a queue or batch to each request in the
simulation, such that each queue and batch holds the requests assigned to it, once.
It needs `Values`: a request in a prefill queue or batch has no token yet, one that
decodes has some but not all and no prompt left, so that a batch that ends
sends each of its requests one way.
`ChunksStayTogether` needs `Chunks`, because requests are forwarded one by one and
each batch is formed anew: at all workers but the first, a chunk lies side by side in
the queue, all of it, and is no longer than a batch may be, so that the batch
that starts with its head takes all of it, and nothing else.
`LogsShowAllTheWork` needs `Logs`: a request of chunk number `c` at the `k`-th worker
of a pipeline of `pp` has logged `c * pp` and `k - 1` prefills (`k` once it is in a
batch), one that decodes `counter * pp` rounds and as many more, and the first
`wait_decode` of its log separates the two.

**Searches** (`Simulator_proofs`).  For the bisection the
invariant is that `best` is the low bound, which is 0 or a rate that met the
targets, that the high bound missed them or is the end of the range
(`BoundsTried`), that a job whose bounds moved can be simulated
(`TriedIsRunnable`), and that a result is the best of a bisection that closed
(`ResultsAreBest`).  For the pools it is that running processes are in the list
and the list is empty or within the pool (`PoolIsBounded`: it holds of an empty
list in a pool without room as well), that a process ends with a result or by
raising (`EndsOneWay`), and that a driver that returned has seen all end.  For the
grid it is that everything before the position that is better than the best
found and within the limit was simulated and exceeded its latencies; that this
survives when the best is replaced is that the order of goodputs is transitive
(`WorseIsAnOrder`), which for fractions needs two multiplications.

**Only model-checked.**  Every invariant and every property of steps that a run checks is
the statement of a theorem (`NoTokenLost` and the others of `Serving` for one call).
What stays with TLC is liveness (`EveryRequestLeaves`, `EveryRequestFinishes`,
`DeathIsDetected`, `EveryClientAnswered`, `EveryRequestExits`, `SearchReturns`), out of
reach of this prover, and `SwapStreams`, whose only property the run shows violated.

## 7. Plan

The order was that of importance, and most of it is done: block manager, both
stages, decision and recovery, then the composition of both stages with their
clients, the start, the swap streams, the simulator and the searches.  What is
left, in this order:

1. `Serving` for several calls of `OfflineLLM.generate` (`Len(Calls) > 1`): the safety
   theorems are of the first, and a second starts from the pipelines the first left.
2. What the composition promises one client (tokens in order, then the end), as an
   abstract specification that `Serving` is shown to implement.

## 8. Not modelled, and why

* `abort_request` of both schedulers: `LLMEngine.abort_request` (`engine.py:366-368`)
  calls `SingleStageLLMEngine.abort_request`, which warns and returns before it
  calls the scheduler (`single_stage_engine.py:241-246`).
* `LocalScheduler.set_bandwidth_alpha`, `reset` and `get_state`: only tests call them.
* A copy of migrated blocks that fails (`single_stage_engine.py:767`): the engine goes
  on exactly as if it had not, so that no state of it differs.
* A collective initialisation that hangs because a worker is missing: in `Startup`
  a call to a worker ends, well or not.
* The contents of tokens, prompts and the KV cache; sampling; timestamps and
  statistics: no decision depends on them.
* The C++ and CUDA side, and Ray itself.
* HTTP, the parsing of arguments, the loading of a model's configuration.
* Tokenizer: input and output.  Of the downloader, the transfer from the hub and
  what the numbers of a tensor become.
* `rom_logger.py` but for the records of a recovery, profiling and utilities: records
  that nothing reads back.
* The simulator's time estimators: polynomials fitted to measurements;
  `SimWorker` lets every delay be anything.  The workloads and the statistics of an
  experiment: floating-point data.
* Evaluation scripts and examples but for the loop of the benchmark client.

## 9. Running

```
tlc -workers 2 -config MCContextStage.cfg MCContextStage
tlapm ContextStage_proofs.tla
```
