------------------------------ MODULE Startup -------------------------------
(***************************************************************************)
(* LLMEngine from its configurations to engine_initialized                 *)
(* (src/distserve/engine.py): the placement groups, the ROMConfig, and the *)
(* start of both single-stage engines, which runs in parallel: workers,    *)
(* models, k/v caches, scheduler (src/distserve/single_stage_engine.py,    *)
(* worker.py), with the arithmetic of config.py and rom_config.py.         *)
(*                                                                         *)
(* What a worker's method does is atomic: the engines look at nothing      *)
(* before all of its calls are over.  asyncio.wait, after which exceptions *)
(* go unseen, and asyncio.gather, which raises them, are told apart.       *)
(***************************************************************************)
EXTENDS Integers, Sequences, FiniteSets, FiniteSetsExt

CONSTANTS
  Models,        \* the ModelConfigs: records [layers, hidden, heads, kvHeads, multiQuery, vocab,
                 \*   maxLens, dtype], where kvHeads = 0 for a model without num_key_value_heads
                 \*   and maxLens are the lengths found under the names that models use for it
  SchedPolicies, \* the policies of both scheduler configurations
  Parallel,      \* the DisaggParallelConfigs: records [pp, tp] of functions of the stage
  Environments,  \* the ROM_* variables: functions from the fields of ROMConfig that are set
  Cluster,       \* the free GPUs of each node
  GpuMemory, Utilization, CpuSwapSpace, BlockSize,   \* Utilization in percent
  Earlier        \* what the actor rom_local_scheduler may have before: the workers that an
                 \*   earlier engine registered, none when there is no actor yet

Stages  == {"context", "decoding"}
Default == [policy |-> "rom", numLayers |-> 32, numKvHeads |-> 32, headDim |-> 128, dtypeBytes |-> 2]

ASSUME StartupAssumption ==
  /\ \A m \in Models :
       /\ {m.layers, m.hidden, m.heads, m.vocab} \cup m.maxLens \subseteq Nat \ {0}
       /\ IsFiniteSet(m.maxLens) /\ m.kvHeads \in Nat /\ m.multiQuery \in BOOLEAN
  /\ \A p \in Parallel : {p.pp, p.tp} \subseteq [Stages -> Nat \ {0}]
  /\ \A e \in Environments : DOMAIN e \subseteq DOMAIN Default
  /\ \A node \in DOMAIN Cluster : Cluster[node] \in Nat
  /\ {GpuMemory, CpuSwapSpace} \subseteq Nat /\ BlockSize \in Nat \ {0} /\ Utilization \in 0 .. 100
  /\ \A known \in Earlier : known \subseteq Nat

VARIABLES
  model, parallel, policy, env,
  pc,          \* of LLMEngine: "configs", "groups", "rom", "starting", "scheduler", "initialized", "raised"
  groups,      \* the placement groups created so far: the node of each
  rom,         \* rom_config
  stage,       \* [Stages -> "workers", "models", "profile", "caches", "scheduling", "done"]
  alive,       \* workers whose actor was made
  loaded,      \* workers whose init_model returned
  numBlocks,   \* [Stages -> [gpu, cpu]]: what _init_kvcache was told
  cache,       \* the workers with a k/v cache and a swap space, and the shapes of both
  mapped,      \* decoding workers that opened the context stage's caches
  registered   \* the workers that the actor rom_local_scheduler has, whoever made it

startVars == <<model, parallel, policy, env, pc, groups, rom, stage, alive, loaded, numBlocks, cache,
          mapped, registered>>

-----------------------------------------------------------------------------
(* ModelConfig (config.py)                                                 *)

VerifyArgs   == model.dtype \in {"fp16", "fp32"}
GetDtypeSize == IF model.dtype = "fp16" THEN 2 ELSE 4

(* get_num_layers and get_num_heads assert that the division is exact, the
   second one only for a model with neither multi_query nor num_key_value_heads. *)

LayersDivide(s) == model.layers % parallel.pp[s] = 0
HeadsDivide(s)  == model.kvHeads = 0 /\ ~model.multiQuery => model.heads % parallel.tp[s] = 0

KvHeads         == IF model.multiQuery THEN 1
                   ELSE IF model.kvHeads = 0 THEN model.heads ELSE model.kvHeads
GetNumLayers(s) == model.layers \div parallel.pp[s]
GetNumHeads(s)  == IF model.multiQuery THEN 1 ELSE KvHeads \div parallel.tp[s]
GetHeadSize     == model.hidden \div model.heads

(* The least of them; without any it is infinite, no memory is left, and
   the number of blocks is not a number. *)
GetMaxModelLen == Min(model.maxLens)

(* get_model_size_in_bytes, times tensor_parallel_size *)
ModelSizeTimesTp(s) ==
  (12 * GetNumLayers(s) * model.hidden * model.hidden
     + (model.vocab + GetMaxModelLen + 5 * GetNumLayers(s)) * model.hidden * parallel.tp[s])
    * GetDtypeSize

(* ParaWorker._get_block_size_in_bytes, _profile_num_available_blocks: one
   percent of the memory is set aside, and there may be no block at all. *)
GetBlockSizeInBytes(s) ==
  2 * GetNumLayers(s) * GetNumHeads(s) * BlockSize * GetHeadSize * GetDtypeSize

ProfileNumAvailableBlocks(s) ==
  [gpu |-> Max({0, (GpuMemory * (Utilization - 1) * parallel.tp[s] - 100 * ModelSizeTimesTp(s))
                     \div (100 * parallel.tp[s] * GetBlockSizeInBytes(s))}),
   cpu |-> CpuSwapSpace \div GetBlockSizeInBytes(s)]

(* init_kvcache_and_swap: the shape of k_cache and v_cache, or k_swap and v_swap *)
CacheShape(s, blocks) == <<blocks, GetNumLayers(s), GetNumHeads(s), BlockSize, GetHeadSize>>

-----------------------------------------------------------------------------
(* Placement: _init_placement_groups, and _init_workers for the stages.    *)

Lcm(a, b) == Min({k \in 1 .. a * b : k % a = 0 /\ k % b = 0})
LayersPerGroup == Lcm(GetNumLayers("context"), GetNumLayers("decoding"))
WorkersPerGroup ==
  (LayersPerGroup \div GetNumLayers("context")) * parallel.tp["context"]
    + (LayersPerGroup \div GetNumLayers("decoding")) * parallel.tp["decoding"]
NumGroups == model.layers \div LayersPerGroup

Workers(s) == {s} \X (0 .. parallel.pp[s] - 1) \X (0 .. parallel.tp[s] - 1)

(* Mutant: the pipeline stages of a group counted from the context stage's layers. *)
PpOfContext(s) == (model.layers \div Len(groups)) \div GetNumLayers("context")

(* The group of a pipeline stage, from the number of groups there are *)
PpPerGroup(s) == (model.layers \div Len(groups)) \div GetNumLayers(s)
GroupOf(s, i) == i \div PpPerGroup(s) + 1

InGroup(g) == {w \in UNION {Workers(s) : s \in Stages} : GroupOf(w[1], w[2]) = g}
LayersOf(s, i) == i * GetNumLayers(s) .. (i + 1) * GetNumLayers(s) - 1

FreeGpus(node) ==
  Cluster[node] - WorkersPerGroup * Cardinality({g \in DOMAIN groups : groups[g] = node})

-----------------------------------------------------------------------------
(* ROMConfig (rom_config.py), for the fields that later decisions use.     *)

FromEnv == [field \in DOMAIN Default |-> IF field \in DOMAIN env THEN env[field] ELSE Default[field]]
Validates(config) ==
  /\ config.policy \in {"rom", "always_migrate", "always_recompute"}
  /\ config.numLayers > 0 /\ config.numKvHeads > 0 /\ config.headDim > 0
  /\ config.dtypeBytes \in {1, 2, 4}
(* apply_model_config_to_rom: the model's numbers, but not its dtype *)
UpdateFromModelConfig(config) ==
  [config EXCEPT !.numLayers = model.layers, !.numKvHeads = KvHeads, !.headDim = GetHeadSize]

-----------------------------------------------------------------------------

StartInit ==
  /\ model \in Models /\ parallel \in Parallel /\ policy \in SchedPolicies /\ env \in Environments
  /\ pc = "configs"
  /\ groups = <<>>
  /\ rom = Default
  /\ stage = [s \in Stages |-> "workers"]
  /\ alive = {} /\ loaded = {} /\ mapped = {} /\ registered \in Earlier
  /\ numBlocks = [s \in Stages |-> [gpu |-> 0, cpu |-> 0]]
  /\ cache = [w \in {} |-> 0]

inputs == <<model, parallel, policy, env>>

Raise == pc' = "raised" /\ UNCHANGED <<inputs, groups, rom, stage, alive, loaded, numBlocks, cache,
                                       mapped, registered>>

(* ContextStageSchedConfig, DecodingStageSchedConfig: what they assert *)
SchedConfigIsValid(s) ==
  policy[s] \in IF s = "context" THEN {"fcfs"} ELSE {"fcfs", "srpt", "mlfq", "sj-mlfq"}

ConfigsAreValid == VerifyArgs /\ \A s \in Stages : SchedConfigIsValid(s)

MakeConfigs ==
  /\ pc = "configs" /\ ConfigsAreValid
  /\ pc' = "groups"
  /\ UNCHANGED <<inputs, groups, rom, stage, alive, loaded, numBlocks, cache, mapped, registered>>

(* An assertion, or a model whose configuration cannot be loaded *)
ConfigsFail == pc = "configs" /\ Raise

GroupsAssertion ==
  NumGroups * WorkersPerGroup = parallel.pp["context"] * parallel.tp["context"]
                                  + parallel.pp["decoding"] * parallel.tp["decoding"]

CanPlace ==
  /\ \A s \in Stages : LayersDivide(s)
  /\ GroupsAssertion
  /\ \E node \in DOMAIN Cluster : FreeGpus(node) >= WorkersPerGroup

(* A placement group with STRICT_PACK gets its GPUs on one node. *)
PlaceGroup ==
  /\ pc = "groups" /\ CanPlace
  /\ \E node \in DOMAIN Cluster :
       FreeGpus(node) >= WorkersPerGroup /\ groups' = Append(groups, node)
  /\ pc' = IF Len(groups') = NumGroups THEN "rom" ELSE "groups"
  /\ UNCHANGED <<inputs, rom, stage, alive, loaded, numBlocks, cache, mapped, registered>>

(* An assertion, or the timeout of placement_group.ready() *)
PlacementFails == pc = "groups" /\ ~CanPlace /\ Raise

(* _rom_init; with get_if_exists the actor may be that of an earlier engine. *)
RomInit ==
  /\ pc = "rom" /\ Validates(FromEnv)
  /\ rom' = UpdateFromModelConfig(FromEnv)
  /\ pc' = "starting"
  /\ UNCHANGED <<inputs, groups, stage, alive, loaded, numBlocks, cache, mapped, registered>>

RomInitFails == pc = "rom" /\ ~Validates(FromEnv) /\ Raise

(* _init_workers: every actor takes one GPU of its group, or waits for one
   for ever.  asyncio.wait does not tell which of them failed. *)
InitWorkers(s) ==
  /\ pc = "starting" /\ stage[s] = "workers"
  /\ \A g \in DOMAIN groups : Cardinality(InGroup(g)) <= WorkersPerGroup
  /\ \E made \in SUBSET Workers(s) : alive' = alive \cup made
  /\ stage' = [stage EXCEPT ![s] = "models"]
  /\ UNCHANGED <<inputs, pc, groups, rom, loaded, numBlocks, cache, mapped, registered>>

(* _init_model, with asyncio.wait as well *)
InitModel(s) ==
  /\ pc = "starting" /\ stage[s] = "models"
  /\ \E ok \in SUBSET (Workers(s) \cap alive) : loaded' = loaded \cup ok
  /\ stage' = [stage EXCEPT ![s] = "profile"]
  /\ UNCHANGED <<inputs, pc, groups, rom, alive, numBlocks, cache, mapped, registered>>

(* The head of _init_kvcache: the first worker speaks for all of its stage. *)
CanProfile(s) == <<s, 0, 0>> \in alive /\ HeadsDivide(s)
                    /\ GetBlockSizeInBytes(s) > 0 /\ model.maxLens # {}

Profile(s) ==
  /\ pc = "starting" /\ stage[s] = "profile" /\ CanProfile(s)
  /\ numBlocks' = [numBlocks EXCEPT ![s] =
                     IF s = "context" THEN [ProfileNumAvailableBlocks(s) EXCEPT !.cpu = 1]
                     ELSE ProfileNumAvailableBlocks(s)]
  /\ stage' = [stage EXCEPT ![s] = "caches"]
  /\ UNCHANGED <<inputs, pc, groups, rom, alive, loaded, cache, mapped, registered>>

ProfileFails(s) == pc = "starting" /\ stage[s] = "profile" /\ ~CanProfile(s) /\ Raise

WithCaches(s, ok) ==
  [w \in ok \cup DOMAIN cache |->
     IF w \in ok THEN [kv   |-> CacheShape(s, numBlocks[s].gpu),
                       swap |-> CacheShape(s, numBlocks[s].cpu)]
     ELSE cache[w]]

(* Mutant: asyncio.wait here as well. *)
InitKvCacheUnseen(s) ==
  /\ pc = "starting" /\ stage[s] = "caches"
  /\ \E ok \in SUBSET (Workers(s) \cap alive) :
       cache' = WithCaches(s, ok)
  /\ stage' = [stage EXCEPT ![s] = "scheduling"]
  /\ UNCHANGED <<inputs, pc, groups, rom, alive, loaded, numBlocks, mapped, registered>>

(* The rest of _init_kvcache: asyncio.gather raises what any worker raised.
   (worker.py:133 keeps a name, handles, that is nowhere defined: taken here
   for the two handles that the method returns.) *)
InitKvCache(s) ==
  /\ pc = "starting" /\ stage[s] = "caches"
  /\ \E ok \in SUBSET (Workers(s) \cap alive) :
       /\ cache' = WithCaches(s, ok)
       /\ IF ok = Workers(s) THEN stage' = [stage EXCEPT ![s] = "scheduling"] /\ UNCHANGED pc
                             ELSE pc' = "raised" /\ UNCHANGED stage
  /\ UNCHANGED <<inputs, groups, rom, alive, loaded, numBlocks, mapped, registered>>

(* get_context_stage_scheduler and get_decoding_stage_scheduler know one
   policy, fewer than the configuration accepts. *)
SchedulerExists(s) == policy[s] = "fcfs"

MakeScheduler(s) ==
  /\ pc = "starting" /\ stage[s] = "scheduling" /\ SchedulerExists(s)
  /\ stage' = [stage EXCEPT ![s] = "done"]
  /\ UNCHANGED <<inputs, pc, groups, rom, alive, loaded, numBlocks, cache, mapped, registered>>

SchedulerFails(s) ==
  pc = "starting" /\ stage[s] = "scheduling" /\ ~SchedulerExists(s) /\ Raise

(* register_kvcache_mem_handles, with asyncio.wait *)
RegisterMemHandles ==
  /\ pc = "starting" /\ \A s \in Stages : stage[s] = "done"
  /\ \E ok \in SUBSET Workers("decoding") : mapped' = ok
  /\ pc' = "scheduler"
  /\ UNCHANGED <<inputs, groups, rom, stage, alive, loaded, numBlocks, cache, registered>>

(* _build_worker_index and _register_rom_workers: one call for each pipeline
   stage; asyncio.gather raises when the actor is gone for any of them. *)
RegisterRomWorkers ==
  /\ pc = "scheduler"
  /\ \E known \in SUBSET (0 .. parallel.pp["decoding"] - 1) :
       /\ registered' = registered \cup known
       /\ pc' = IF known = 0 .. parallel.pp["decoding"] - 1 THEN "initialized" ELSE "raised"
  /\ UNCHANGED <<inputs, groups, rom, stage, alive, loaded, numBlocks, cache, mapped>>

StartNext ==
  \/ MakeConfigs \/ ConfigsFail \/ PlaceGroup \/ PlacementFails \/ RomInit \/ RomInitFails
  \/ \E s \in Stages :
       InitWorkers(s) \/ InitModel(s) \/ Profile(s) \/ ProfileFails(s) \/ InitKvCache(s)
       \/ MakeScheduler(s) \/ SchedulerFails(s)
  \/ RegisterMemHandles \/ RegisterRomWorkers

StartSpec == StartInit /\ [][StartNext]_startVars

-----------------------------------------------------------------------------

StartTypeOK ==
  /\ model \in Models /\ parallel \in Parallel /\ policy \in SchedPolicies /\ env \in Environments
  /\ pc \in {"configs", "groups", "rom", "starting", "scheduler", "initialized", "raised"}
  /\ groups \in Seq(DOMAIN Cluster)
  /\ DOMAIN rom = DOMAIN Default
  /\ stage \in [Stages -> {"workers", "models", "profile", "caches", "scheduling", "done"}]
  /\ \A s \in Stages : {numBlocks[s].gpu, numBlocks[s].cpu} \subseteq Nat
  /\ loaded \cup DOMAIN cache \subseteq alive
  /\ alive \subseteq UNION {Workers(s) : s \in Stages} /\ mapped \subseteq Workers("decoding")
  /\ registered \subseteq Nat

(* "aligned" in the words of _init_placement_groups: the context and the   *)
(* decoding workers of a layer are on one node, as the migration of its    *)
(* blocks through CUDA's shared memory needs.  Each group has as many      *)
(* workers of both stages as GPUs, so no actor waits for a GPU that never  *)
(* comes, and the assertion on their number never fails.                   *)
LayersAreAligned ==
  /\ StartTypeOK
  /\ (\A s \in Stages : LayersDivide(s)) => GroupsAssertion
  /\ pc \notin {"configs", "groups", "raised"} =>
       /\ \A g \in DOMAIN groups : Cardinality(InGroup(g)) = WorkersPerGroup
       /\ \A i \in 0 .. parallel.pp["context"] - 1, j \in 0 .. parallel.pp["decoding"] - 1 :
            LayersOf("context", i) \cap LayersOf("decoding", j) # {}
              => groups[GroupOf("context", i)] = groups[GroupOf("decoding", j)]

(* The bytes that the ROM cost model counts for the caches of one token    *)
(* are what the workers of a stage allocate for it, but for the ratio of   *)
(* the two element sizes: that of the ROM configuration is never taken     *)
(* from the model.  The division of the key/value heads must be exact,     *)
(* which the code asserts only for models without num_key_value_heads.     *)
EstimateIsAllocation(s) ==
  KvHeads % parallel.tp[s] = 0 =>
    BlockSize * 2 * rom.numLayers * rom.numKvHeads * rom.headDim * rom.dtypeBytes * GetDtypeSize
      = parallel.pp[s] * parallel.tp[s] * GetBlockSizeInBytes(s) * rom.dtypeBytes

(* The bytes of a shape, for keys and values *)
Bytes(shape) == 2 * shape[1] * shape[2] * shape[3] * shape[4] * shape[5] * GetDtypeSize

(* What a worker puts on its GPU, the model and both caches, is within the *)
(* share of the memory it may use, unless the model alone is not; and the  *)
(* swap space of a decoding worker is within its limit.                    *)
AllocationFits(w) ==
  /\ cache[w].kv[1] > 0 =>
       100 * (ModelSizeTimesTp(w[1]) + parallel.tp[w[1]] * Bytes(cache[w].kv))
         <= GpuMemory * Utilization * parallel.tp[w[1]]
  /\ w[1] = "decoding" => Bytes(cache[w].swap) <= CpuSwapSpace

(* Three of the four calls to all workers (ready, init_model and           *)
(* register_kvcache_mem_handles) swallow what the workers raise.  The one  *)
(* that does not, for the caches, is enough for this: an engine that calls *)
(* itself initialized has every worker, each with caches that fit and have *)
(* as many blocks as the block manager of its stage hands out, and the ROM *)
(* scheduler knows all of the pipeline.  It is not enough for the models   *)
(* and for the handles of the context stage: see InitializedIsReady.       *)
StartedWithCaches ==
  pc = "initialized" =>
    /\ \A s \in Stages : \A w \in Workers(s) :
         /\ w \in alive /\ w \in DOMAIN cache /\ AllocationFits(w)
         /\ cache[w].kv[1] = numBlocks[s].gpu /\ cache[w].swap[1] = numBlocks[s].cpu
    /\ {w[2] : w \in Workers("decoding")} \subseteq registered
    /\ \A s \in Stages : EstimateIsAllocation(s)

(* What initialize says that it does (single_stage_engine.py:116):         *)
(* "Initialize workers, load models and initialize k/v cache", and         *)
(* register_kvcache_mem_handles after it: "workers will register those     *)
(* handles".  An initialized engine has loaded every model and its         *)
(* decoding workers can read the context stage's caches.                   *)
InitializedIsReady ==
  pc = "initialized" =>
    loaded = UNION {Workers(s) : s \in Stages} /\ mapped = Workers("decoding")
=============================================================================
