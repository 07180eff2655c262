----------------------------- MODULE MCStartup ------------------------------
(***************************************************************************)
(* An engine that starts and then answers queries for ROM decisions:       *)
(* Startup followed by RomQueries, and, while its models are loaded,       *)
(* Weights.  The queries see nothing of the start but that it is over:     *)
(* their configuration is any that ROMConfig.validate lets through.        *)
(***************************************************************************)
EXTENDS MCRomQueries, Startup, Weights

Shape(cpp, ctp, dpp, dtp) == [pp |-> [context |-> cpp, decoding |-> dpp],
                              tp |-> [context |-> ctp, decoding |-> dtp]]
TheModel(heads, kvHeads, multiQuery, maxLens, type) ==
  [layers |-> 12, hidden |-> 8, heads |-> heads, kvHeads |-> kvHeads, multiQuery |-> multiQuery,
   vocab |-> 5, maxLens |-> maxLens, dtype |-> type]

OptLike == TheModel(2, 0, FALSE, {4}, "fp16")
Unusual == {TheModel(4, 0, TRUE, {4}, "fp16"), TheModel(2, 0, FALSE, {}, "fp16"),
            TheModel(2, 0, FALSE, {4}, "fp8")}
MCModels   == {OptLike, TheModel(4, 2, FALSE, {4, 6}, "fp32")} \cup Unusual
Fcfs       == [context |-> "fcfs", decoding |-> "fcfs"]
MCPolicies == {Fcfs, [Fcfs EXCEPT !["context"] = "srpt"], [Fcfs EXCEPT !["decoding"] = "srpt"],
               [Fcfs EXCEPT !["decoding"] = "sjf"]}
MCParallel == {Shape(1, 1, 1, 1), Shape(2, 1, 2, 1), Shape(1, 4, 1, 1), Shape(3, 1, 2, 1),
               Shape(4, 1, 2, 1), Shape(5, 1, 1, 1)}
MCEnvironments == {[field \in {} |-> 0], "policy" :> "never",
                   "policy" :> "always_migrate" @@ "numLayers" :> 7 @@ "dtypeBytes" :> 4}
MCEarlier == {{}, {0, 3}}     \* of an engine with another parallelism
MCCluster == "node1" :> 3 @@ "node2" :> 5

(* OPT and GPT-2 with twelve heads, which eight pieces do not divide; llama
   with grouped heads; and what cannot be converted: a name on the hub, a
   folder without *.bin, an unknown type, heads that cannot be told apart,
   a dimension that eight does not divide, and a tensor that no table knows. *)
File(type, hidden, kvSize, ffn) ==
  [type |-> type, isLocal |-> TRUE, bins |-> TRUE, layers |-> 1, hidden |-> hidden,
   kvSize |-> kvSize, ffn |-> ffn, extras |-> {}]
Opt   == [File("opt", 768, 768, 3072) EXCEPT !.extras = {<<"lm_head.weight", -1>>}]
Dummy == [Opt EXCEPT !.type = "dummy"]
Llama == [File("llama", 1024, 256, 2752) EXCEPT !.extras = {<<"rotary_emb.inv_freq", 0>>}]
MCCheckpoints ==
  {Dummy, Opt, File("gpt2", 768, 768, 3072), Llama,
   [Llama EXCEPT !.isLocal = FALSE], [Opt EXCEPT !.bins = FALSE], [Opt EXCEPT !.type = "bloom"],
   File("llama", 64, 64, 176), File("opt", 768, 700, 3072), [Llama EXCEPT !.ffn = 2750],
   [Llama EXCEPT !.extras = {<<"score.weight", -1>>}]}

(* The parts do not share state: one of them varies at a time, and the
   smallest engine loads its models and answers the queries. *)
Smallest == parallel = Shape(1, 1, 1, 1) /\ model = OptLike /\ policy = Fcfs

(* An engine with use_dummy_weights loads none. *)
UseDummyWeights == checkpoint = Dummy

EngineInit ==
  /\ StartInit
  /\ Init /\ promptLen = 0 /\ bandwidth = 0
  /\ policy # Fcfs => parallel = Shape(1, 1, 1, 1) /\ model = OptLike
  /\ model \in Unusual => parallel \in {Shape(1, 1, 1, 1), Shape(2, 1, 2, 1)}
  /\ registered # {} => parallel = Shape(2, 1, 2, 1) /\ policy = Fcfs
  /\ WeightsInit
  /\ \/ Smallest
     \/ config = CHOOSE c \in MCConfigs : TRUE
  /\ \/ UseDummyWeights /\ \A c \in Callers : dtype[c] = "fp16"
     \/ ~UseDummyWeights /\ Smallest /\ env = [field \in {} |-> 0] /\ config = CHOOSE c \in MCConfigs : TRUE

ModelsAreLoaded ==
  /\ ~UseDummyWeights /\ alive = UNION {Workers(s) : s \in Stages}
  /\ \A s \in Stages : stage[s] = "models"

EngineNext ==
  \/ /\ StartNext /\ UNCHANGED <<vars, weightVars>>
     /\ UseDummyWeights \/ \A s \in Stages : stage'[s] \in {"workers", "models"}
  \/ ModelsAreLoaded /\ WeightsNext /\ UNCHANGED <<vars, startVars>>
  \/ pc = "initialized" /\ Smallest /\ Next /\ UNCHANGED <<startVars, weightVars>>

EngineSpec == EngineInit /\ [][EngineNext]_<<vars, startVars, weightVars>>
=============================================================================
