------------------------------ MODULE Weights -------------------------------
(***************************************************************************)
(* How the workers of one machine come by the weights of a model           *)
(* (src/distserve/downloader): under a file lock, the first of them        *)
(* converts a checkpoint to the files that the model is loaded from, and   *)
(* marks their folder with an empty file, done, that the others look for.  *)
(*                                                                         *)
(* The folder of one model: another name has another folder.  A process    *)
(* may die at any moment; the operating system then releases its lock.     *)
(***************************************************************************)
EXTENDS Integers, FiniteSets

CONSTANTS
  Callers,     \* the workers that load the model, each in a process of its own
  Checkpoints, \* what the name stands for: records [type, isLocal, bins, layers, hidden, kvSize,
               \*   ffn, extras]: bins is whether the folder holds *.bin files, extras are tensors
               \*   beyond those of Standard
  Dtypes,      \* the dtypes of their configurations
  MaxCalls,    \* bound: how many workers call again, for an engine that is started later
  MaxDeaths    \* bound: how many of the processes die

Nobody == "nobody"
NoLayer == -1

ASSUME WeightsAssumption ==
  /\ Nobody \notin Callers /\ {MaxCalls, MaxDeaths} \subseteq Nat
  /\ \A k \in Checkpoints :
       /\ {k.layers, k.hidden} \subseteq Nat \ {0} /\ {k.kvSize, k.ffn} \subseteq Nat
       /\ k.isLocal \in BOOLEAN /\ k.bins \in BOOLEAN

VARIABLES
  checkpoint,
  dtype,   \* of each worker's configuration
  at,      \* of each worker: "outside", "locked", "writing", "returned" or "failed"
  calls,   \* how many have called again
  deaths,  \* how many have died
  lock,    \* who holds the file lock
  left,    \* the tensors that the holder has still to save
  folder,  \* the files of the storage folder: their dtype, "torn" for half a file, and their heads
  done     \* whether the file done is there

weightVars == <<checkpoint, dtype, at, calls, deaths, lock, left, folder, done>>

-----------------------------------------------------------------------------
(* A tensor is <<part, layer>>.  The prefix "model." that some checkpoints
   have on every name is taken off by preprocessors and translators alike. *)

QkvWeights == {"q_proj.weight", "k_proj.weight", "v_proj.weight"}
QkvBiases  == {"q_proj.bias", "k_proj.bias", "v_proj.bias"}
OutputProjection == "decoder.output_projection.weight"

(* external: the tensors in the checkpoints of each architecture *)
StandardOfLayer(type) ==
  CASE type = "opt" ->
         QkvWeights \cup QkvBiases
           \cup {"out_proj.weight", "out_proj.bias", "self_attn_layer_norm.weight",
                 "self_attn_layer_norm.bias", "fc1.weight", "fc1.bias", "fc2.weight", "fc2.bias",
                 "final_layer_norm.weight", "final_layer_norm.bias"}
    [] type = "llama" ->
         QkvWeights \cup {"o_proj.weight", "gate_proj.weight", "down_proj.weight", "up_proj.weight",
                          "input_layernorm.weight", "post_attention_layernorm.weight"}
    [] OTHER ->
         {"attn.c_attn.weight", "attn.c_attn.bias", "attn.c_proj.weight", "attn.c_proj.bias",
          "ln_1.weight", "ln_1.bias", "mlp.c_fc.weight", "mlp.c_fc.bias", "mlp.c_proj.weight",
          "mlp.c_proj.bias", "ln_2.weight", "ln_2.bias"}

StandardOutside(type) ==
  CASE type = "opt"   -> {"decoder.embed_tokens.weight", "decoder.embed_positions.weight",
                          "decoder.final_layer_norm.weight", "decoder.final_layer_norm.bias"}
    [] type = "llama" -> {"embed_tokens.weight", "lm_head.weight", "norm.weight"}
    [] OTHER          -> {"wte.weight", "wpe.weight", "ln_f.weight", "ln_f.bias"}

LayerIds == 0 .. checkpoint.layers - 1

StateDict ==
  (StandardOfLayer(checkpoint.type) \X LayerIds)
    \cup (StandardOutside(checkpoint.type) \X {NoLayer}) \cup checkpoint.extras

(* preprocess_opt, preprocess_llama2, preprocess_gpt2: q, k and v become one
   tensor, and where it is tied to the embedding, the output projection is
   added.  What they transpose and cut is left out. *)
Preprocessed ==
  CASE checkpoint.type = "opt" ->
         (StateDict \ ((QkvWeights \cup QkvBiases) \X LayerIds))
           \cup ({"qkv_proj.weight", "qkv_proj.bias"} \X LayerIds) \cup {<<OutputProjection, NoLayer>>}
    [] checkpoint.type = "llama" ->
         (StateDict \ (QkvWeights \X LayerIds)) \cup ({"attention.wqkv.weight"} \X LayerIds)
    [] OTHER -> StateDict \cup {<<OutputProjection, NoLayer>>}

HeadDim ==
  IF checkpoint.type = "llama" THEN 128
  ELSE IF checkpoint.ffn <= 8192 THEN 64 ELSE IF checkpoint.ffn = 10240 THEN 80 ELSE 128
NumQHeads  == checkpoint.hidden \div HeadDim
QkvSize    == checkpoint.hidden + 2 * checkpoint.kvSize
NumKvHeads == (QkvSize \div HeadDim - NumQHeads) \div 2

-----------------------------------------------------------------------------
(* The name translators: the name in the folder of each part, for the parts *)
(* they know and do not ignore.                                             *)

Ignored(type) ==
  CASE type = "opt" -> {"lm_head.weight"}
    [] type = "llama" -> {"rotary_emb.inv_freq"}
    [] OTHER -> {"attn.bias"}

optNameTranslator(part) ==
  CASE part = "decoder.final_layer_norm.weight" -> "decoder.layer_norm.weight"
    [] part = "decoder.final_layer_norm.bias"   -> "decoder.layer_norm.bias"
    [] OTHER -> part

llama2NameTranslator(part) ==
  CASE part = "o_proj.weight"                   -> "out_proj.weight"
    [] part = "gate_proj.weight"                -> "fc1.weight"
    [] part = "down_proj.weight"                -> "fc2.weight"
    [] part = "up_proj.weight"                  -> "fc3.weight"
    [] part = "input_layernorm.weight"          -> "self_attn_layer_norm.weight"
    [] part = "post_attention_layernorm.weight" -> "final_layer_norm.weight"
    [] part = "attention.wqkv.weight"           -> "qkv_proj.weight"
    [] part = "embed_tokens.weight"             -> "decoder.embed_tokens.weight"
    [] part = "lm_head.weight"                  -> OutputProjection
    [] part = "norm.weight"                     -> "decoder.layer_norm.weight"
    [] OTHER -> "none"

gpt2NameTranslator(part) ==
  CASE part = "attn.c_proj.weight" -> "out_proj.weight"
    [] part = "attn.c_proj.bias"   -> "out_proj.bias"
    [] part = "ln_1.weight"        -> "self_attn_layer_norm.weight"
    [] part = "ln_1.bias"          -> "self_attn_layer_norm.bias"
    [] part = "mlp.c_fc.weight"    -> "fc1.weight"
    [] part = "mlp.c_fc.bias"      -> "fc1.bias"
    [] part = "mlp.c_proj.weight"  -> "fc2.weight"
    [] part = "mlp.c_proj.bias"    -> "fc2.bias"
    [] part = "ln_2.weight"        -> "final_layer_norm.weight"
    [] part = "ln_2.bias"          -> "final_layer_norm.bias"
    [] part = "attn.c_attn.weight" -> "qkv_proj.weight"
    [] part = "attn.c_attn.bias"   -> "qkv_proj.bias"
    [] part = "wte.weight"         -> "decoder.embed_tokens.weight"
    [] part = "wpe.weight"         -> "decoder.embed_positions.weight"
    [] part = "ln_f.weight"        -> "decoder.layer_norm.weight"
    [] part = "ln_f.bias"          -> "decoder.layer_norm.bias"
    [] part = OutputProjection     -> OutputProjection
    [] OTHER -> "none"

NewName(part) ==
  CASE checkpoint.type = "opt"   -> optNameTranslator(part)
    [] checkpoint.type = "llama" -> llama2NameTranslator(part)
    [] OTHER -> gpt2NameTranslator(part)

-----------------------------------------------------------------------------
(* divideWeightAndSave                                                     *)

NumPieces == 8
Qkv     == {"qkv_proj.weight", "qkv_proj.bias"}
Divided == {"fc1.weight", "fc1.bias", "fc3.weight", "out_proj.weight", "fc2.weight"}
Whole   == {"decoder.embed_tokens.weight", "decoder.embed_positions.weight", OutputProjection,
            "decoder.layer_norm.weight", "decoder.layer_norm.bias", "self_attn_layer_norm.weight",
            "self_attn_layer_norm.bias", "final_layer_norm.weight", "final_layer_norm.bias",
            "out_proj.bias", "fc2.bias"}

(* The heads of piece i out of n: the last piece has what the division leaves. *)
HeadsOf(n, i) ==
  LET each == n \div NumPieces IN
  i * each .. (IF i < NumPieces - 1 THEN (i + 1) * each ELSE n) - 1

FilesOf(t) ==
  LET name == NewName(t[1]) IN
  IF t[1] \in Ignored(checkpoint.type) THEN {}
  ELSE IF name \in Whole THEN {<<name, t[2], NumPieces>>}
  ELSE {<<name, t[2], i>> : i \in 0 .. NumPieces - 1}

(* A tensor that no table knows, or that cannot be divided or taken apart into heads *)
CanSave(t) ==
  LET name == NewName(t[1]) IN
  \/ t[1] \in Ignored(checkpoint.type)
  \/ name \in Whole
  \/ name \in Qkv /\ QkvSize % HeadDim = 0 /\ NumKvHeads > 0
  \/ /\ name \in Divided
     /\ (IF name = "out_proj.weight" THEN checkpoint.hidden ELSE checkpoint.ffn) % NumPieces = 0

Content(f, d) ==
  [dtype |-> d,
   heads |-> IF f[1] \in Qkv THEN [q |-> HeadsOf(NumQHeads, f[3]), kv |-> HeadsOf(NumKvHeads, f[3])]
             ELSE [q |-> {}, kv |-> {}]]

(* saveTensorToFile, for each of a set of files *)
WithFiles(files, d) ==
  [f \in files \cup DOMAIN folder |-> IF f \in files THEN Content(f, d) ELSE folder[f]]

-----------------------------------------------------------------------------

WeightsInit ==
  /\ checkpoint \in Checkpoints
  /\ dtype \in [Callers -> Dtypes]
  /\ at = [c \in Callers |-> "outside"]
  /\ calls = 0 /\ deaths = 0
  /\ lock = Nobody
  /\ left = {}
  /\ folder = [f \in {} |-> 0]
  /\ done = FALSE

(* get_lock, and the acquisition *)
Acquire(c) ==
  /\ at[c] = "outside" /\ lock = Nobody
  /\ at' = [at EXCEPT ![c] = "locked"] /\ lock' = c
  /\ UNCHANGED <<checkpoint, dtype, calls, deaths, left, folder, done>>

(* Leaving the block of the lock, by return, exception or exit *)
Release(c, outcome) ==
  /\ at' = [at EXCEPT ![c] = outcome]
  /\ lock' = Nobody
  /\ left' = {}

Accepts(c) == dtype[c] \in {"fp16", "fp32"} /\ checkpoint.type \in {"opt", "llama", "gpt2"}

FindCached(c) ==
  /\ at[c] = "locked" /\ Accepts(c) /\ done
  /\ Release(c, "returned")
  /\ UNCHANGED <<checkpoint, dtype, calls, deaths, folder, done>>

(* Of a name on the hub, convert_weights is given the pattern of the files
   instead of their folder, finds none, and exits.  The preprocessors assert
   that there is a head. *)
CanConvert == checkpoint.isLocal /\ checkpoint.bins /\ NumQHeads > 0

Refuse(c) ==
  /\ at[c] = "locked" /\ ~(Accepts(c) /\ (done \/ CanConvert))
  /\ Release(c, "failed")
  /\ UNCHANGED <<checkpoint, dtype, calls, deaths, folder, done>>

(* Mutant: the folder is marked when its conversion begins. *)
BeginMarked(c) ==
  /\ at[c] = "locked" /\ Accepts(c) /\ ~done /\ CanConvert
  /\ at' = [at EXCEPT ![c] = "writing"]
  /\ left' = Preprocessed /\ done' = TRUE
  /\ UNCHANGED <<checkpoint, dtype, calls, deaths, lock, folder>>

BeginConversion(c) ==
  /\ at[c] = "locked" /\ Accepts(c) /\ ~done /\ CanConvert
  /\ at' = [at EXCEPT ![c] = "writing"]
  /\ left' = Preprocessed
  /\ UNCHANGED <<checkpoint, dtype, calls, deaths, lock, folder, done>>

(* The next tensor in the order of the dictionary, whichever that is *)
NextTensor == CHOOSE t \in left : TRUE

SaveTensor(c) ==
  /\ at[c] = "writing" /\ left # {} /\ CanSave(NextTensor)
  /\ folder' = WithFiles(FilesOf(NextTensor), dtype[c])
  /\ left' = left \ {NextTensor}
  /\ UNCHANGED <<checkpoint, dtype, at, calls, deaths, lock, done>>

(* An assertion or a view that cannot be had, in the middle of the conversion *)
SaveFails(c) ==
  /\ at[c] = "writing" /\ left # {} /\ ~CanSave(NextTensor)
  /\ Release(c, "failed")
  /\ UNCHANGED <<checkpoint, dtype, calls, deaths, folder, done>>

MarkDone(c) ==
  /\ at[c] = "writing" /\ left = {}
  /\ done' = TRUE
  /\ Release(c, "returned")
  /\ UNCHANGED <<checkpoint, dtype, calls, deaths, folder>>

(* The process dies, or its disk is full: of the tensor it was saving some
   pieces are written, and one is torn. *)
Die(c) ==
  /\ at[c] \in {"locked", "writing"} /\ deaths < MaxDeaths
  /\ deaths' = deaths + 1
  /\ \/ UNCHANGED folder
     \/ /\ at[c] = "writing" /\ left # {} /\ CanSave(NextTensor)
        /\ \E f \in FilesOf(NextTensor) :
             LET before == {g \in FilesOf(NextTensor) : g[3] < f[3]} IN
             folder' = [WithFiles(before \cup {f}, dtype[c]) EXCEPT ![f].dtype = "torn"]
  /\ Release(c, "failed")
  /\ UNCHANGED <<checkpoint, dtype, calls, done>>

(* The next engine that is started for this model, with any dtype *)
CallAgain(c) ==
  /\ at[c] \in {"returned", "failed"} /\ calls < MaxCalls
  /\ at' = [at EXCEPT ![c] = "outside"]
  /\ calls' = calls + 1
  /\ \E d \in Dtypes : dtype' = [dtype EXCEPT ![c] = d]
  /\ UNCHANGED <<checkpoint, deaths, lock, left, folder, done>>

WeightsNext ==
  \E c \in Callers :
    Acquire(c) \/ FindCached(c) \/ Refuse(c) \/ BeginConversion(c) \/ SaveTensor(c) \/ SaveFails(c)
    \/ MarkDone(c) \/ Die(c) \/ CallAgain(c)

WeightsSpec == WeightsInit /\ [][WeightsNext]_weightVars

-----------------------------------------------------------------------------

(* The names of the files that a model of each type is loaded from: the
   tables in the comments of converter.py, and for llama, which has none,
   the new names in its translator *)
LayerNames(type) ==
  IF type = "llama"
  THEN {"out_proj.weight", "fc1.weight", "fc2.weight", "fc3.weight", "self_attn_layer_norm.weight",
        "final_layer_norm.weight", "qkv_proj.weight"}
  ELSE {"out_proj.weight", "out_proj.bias", "self_attn_layer_norm.weight", "self_attn_layer_norm.bias",
        "fc1.weight", "fc1.bias", "fc2.weight", "fc2.bias", "final_layer_norm.weight",
        "final_layer_norm.bias", "qkv_proj.weight", "qkv_proj.bias"}

OutsideNames(type) ==
  {"decoder.embed_tokens.weight", OutputProjection, "decoder.layer_norm.weight"}
    \cup (IF type = "llama" THEN {}
          ELSE {"decoder.embed_positions.weight", "decoder.layer_norm.bias"})

PiecesOf(name) == IF name \in Whole THEN {NumPieces} ELSE 0 .. NumPieces - 1

NeededFiles ==
  {f \in (LayerNames(checkpoint.type) \X LayerIds \X (0 .. NumPieces))
           \cup (OutsideNames(checkpoint.type) \X {NoLayer} \X (0 .. NumPieces)) :
     f[3] \in PiecesOf(f[1])}

(* Whoever is told that the weights are there, by the file done, finds     *)
(* every file of the model, whole, all of the same dtype, and each head in *)
(* exactly one of the pieces of its layer: also when two workers called at *)
(* once, or processes died in the middle of earlier conversions, of        *)
(* another dtype.                                                          *)
WeightsAreComplete ==
  /\ (\E c \in Callers : at[c] = "returned") => done
  /\ done =>
       /\ \E d \in {"fp16", "fp32"} :
            \A f \in NeededFiles : f \in DOMAIN folder /\ folder[f].dtype = d
       /\ \A f \in NeededFiles : f[1] \in Qkv =>
            /\ \A h \in 0 .. NumQHeads - 1 :
                 \E i \in 0 .. NumPieces - 1 : \A j \in 0 .. NumPieces - 1 :
                   h \in folder[<<f[1], f[2], j>>].heads.q <=> i = j
            /\ \A h \in 0 .. NumKvHeads - 1 :
                 \E i \in 0 .. NumPieces - 1 : \A j \in 0 .. NumPieces - 1 :
                   h \in folder[<<f[1], f[2], j>>].heads.kv <=> i = j
=============================================================================
