------------------------------ MODULE Serving -------------------------------
(***************************************************************************)
(* A request from the client that issues it to the last token it reads:    *)
(* LLMEngine.generate and its tables (src/distserve/engine.py), the tokens *)
(* and lifetime events that the event loops of both stages hand to its     *)
(* callbacks (src/distserve/single_stage_engine.py, request.py), and the   *)
(* clients: the API server over AsyncLLM, or OfflineLLM.generate           *)
(* (src/distserve/api_server/distserve_api_server.py, llm.py).             *)
(*                                                                         *)
(* Everything runs on asyncio, so an action is what happens between two    *)
(* awaits.  Which requests a stage takes is up to its scheduler, modelled  *)
(* in ContextStage and DecodingStage: here a step takes some requests from *)
(* the front, or none.                                                     *)
(*                                                                         *)
(* An asyncio.run makes an event loop: the server has one, OfflineLLM one  *)
(* for each call of generate, over the same engine.                        *)
(***************************************************************************)
EXTENDS Queues

CONSTANTS
  Requests,
  PromptLen,      \* get_input_len()
  TokenIds,       \* the requests whose prompt is given as token ids
  SpecialTokens,  \* what tokenizer.encode adds to what tokenizer.tokenize returns
  Sampling,       \* sampling_params: records [n, bestOf, penalties, temperature, topP, topK, beam,
                  \*   stop, ignoreEos, maxTokens, logprobs], with numbers in hundredths
  Streaming,      \* the requests of clients that ask for a stream
  Resending,      \* the requests of 2-benchmark-serving.py, which sends a refused one again
  Calls,          \* the requests issued in each asyncio.run
  Server,         \* TRUE for AsyncLLM behind the API server
  PipelineSize    \* parallel_config.pipeline_parallel_size

None == "None"

ASSUME ServingAssumption ==
  /\ IsFiniteSet(Requests) /\ None \notin Requests /\ Streaming \subseteq Requests
  /\ Resending \subseteq Requests \ Streaming
  /\ TokenIds \subseteq Requests /\ (Server => TokenIds = {})
  /\ PromptLen \in [Requests -> Nat \ {0}] /\ SpecialTokens \in Nat
  /\ \A r \in Requests \ TokenIds : PromptLen[r] >= SpecialTokens
  /\ DOMAIN Sampling = Requests /\ \A r \in Requests : Sampling[r].maxTokens \in Int
  /\ Calls \in Seq(SUBSET Requests) /\ Len(Calls) > 0
  /\ \A i, j \in DOMAIN Calls : i # j => Calls[i] \cap Calls[j] = {}
  /\ Server \in BOOLEAN /\ (Server => Len(Calls) = 1)
  /\ PipelineSize \in Nat \ {0}

Stages  == {"context", "decoding"}
NoQueue == <<"none">>                   \* a request id that is not in request_outputs
NoLoop  == 0

VARIABLES
  call,          \* the asyncio.run under way, or the last one
  at,            \* the await that the event loop of a stage's _step is at
  pipeline,      \* batches_in_pipeline of a stage; an empty batch has no future
  boundTo,       \* the event loop bridge_queue took at its first waiting get()
  loop1,         \* the decoding engine's event_loop1, which empties bridge_queue
  waiting,       \* requests in the context stage's waiting queue
  bridge,        \* bridge_queue
  unaccepted,    \* requests in the decoding stage's unaccepted queue
  decoding,      \* requests migrated to the decoding stage and not finished
  finished,      \* is_finished
  outputLen,     \* get_output_len()
  slots,         \* the positions whose keys and values have been computed
  outputs,       \* request_outputs: for each StepOutput, its is_finished
  events,        \* request_lifetime_events
  promptLenMap,  \* _prompt_len_map
  client,        \* "absent", "refused", "reading", "done", or "gone" before the last output
  received       \* history: the tokens that the client was given

engineVars  == <<at, pipeline, waiting, unaccepted, decoding>>
bridgeVars  == <<boundTo, loop1, bridge>>
requestVars == <<finished, outputLen, slots>>
clientVars  == <<client, received>>
tableVars   == <<outputs, events, promptLenMap>>
vars == <<call, engineVars, bridgeVars, requestVars, tableVars, clientVars>>

InPipeline(s) == UNION {Range(pipeline[s][i]) : i \in DOMAIN pipeline[s]}

(* Mutant: the index of the token to come, not of the last one. *)
IndexAfterLastToken(r) == IF outputLen[r] = 0 THEN 0 ELSE PromptLen[r] + outputLen[r]

(* Request.get_first_new_token_index, get_num_input_tokens *)
GetFirstNewTokenIndex(r) == IF outputLen[r] = 0 THEN 0 ELSE PromptLen[r] + outputLen[r] - 1
GetNumInputTokens(r)     == IF outputLen[r] = 0 THEN PromptLen[r] ELSE 1

(* SamplingParams: its constructor raises what these do not allow. *)
VerifyArgs(p) ==
  /\ p.n >= 1 /\ p.bestOf >= p.n
  /\ \A penalty \in p.penalties : penalty \in -200 .. 200
  /\ p.temperature >= 0 /\ p.topP \in 1 .. 100 /\ (p.topK = -1 \/ p.topK >= 1)
  /\ p.maxTokens >= 1 /\ p.logprobs >= 0

TakesTheBest(p) == p.temperature = 0 /\ p.topP = 100 /\ p.topK = -1
VerifyBeamSearch(p)     == p.bestOf # 1 /\ TakesTheBest(p)
VerifyGreedySampling(p) == p.bestOf <= 1 /\ TakesTheBest(p)

IsValid(p) ==
  /\ VerifyArgs(p)
  /\ IF p.beam THEN VerifyBeamSearch(p) ELSE p.temperature = 0 => VerifyGreedySampling(p)

(* What send_request of the benchmark asks for *)
BenchmarkParams(output, bestOf, beam) ==
  [n |-> 1, bestOf |-> bestOf, penalties |-> {0}, temperature |-> IF beam THEN 0 ELSE 100,
   topP |-> 100, topK |-> -1, beam |-> beam, stop |-> FALSE, ignoreEos |-> TRUE,
   maxTokens |-> output, logprobs |-> 0]

(* _on_new_lifetime_event_callback, without and with dont_add_if_dup *)
Log(rs, event)  == [r \in Requests |-> IF r \in rs THEN Append(events[r], event) ELSE events[r]]
LogAgain(rs, event) == Log(rs, event)       \* Mutant: dont_add_if_dup ignored
LogNew(rs, event) == Log({r \in rs : events[r] = <<>> \/ events[r][Len(events[r])] # event}, event)

Init ==
  /\ call = 0
  /\ at = [s \in Stages |-> "stopped"]
  /\ pipeline = [s \in Stages |-> <<>>]
  /\ boundTo = NoLoop /\ loop1 = "stopped"
  /\ waiting = <<>> /\ bridge = <<>> /\ unaccepted = <<>> /\ decoding = <<>>
  /\ finished = {} /\ promptLenMap = [key \in {} |-> 0]
  /\ outputLen = [r \in Requests |-> 0] /\ received = [r \in Requests |-> 0]
  /\ slots = [r \in Requests |-> {}]
  /\ outputs = [r \in Requests |-> NoQueue]
  /\ events = [r \in Requests |-> <<>>]
  /\ client = [r \in Requests |-> "absent"]

-----------------------------------------------------------------------------
(* The client's side.                                                      *)

Answered(rs) == \A r \in rs : client[r] \in {"refused", "done", "gone"}

(* asyncio.run: the next call of OfflineLLM.generate, or the server's only one.
   The loops of the call before were cancelled wherever they were. *)
NextCall ==
  /\ call < Len(Calls)
  /\ call > 0 => Answered(Calls[call])
  /\ call' = call + 1
  /\ at' = [s \in Stages |-> "stopped"]
  /\ loop1' = "stopped"
  /\ UNCHANGED <<pipeline, waiting, unaccepted, decoding, boundTo, bridge,
                 requestVars, tableVars, clientVars>>

(* The key under which generate records the prompt length: its argument
   request_id, which OfflineLLM does not give.  The request has an id of its
   own then, but the length does not get it. *)
PromptLenKey(r) == IF Server THEN r ELSE None

(* ... and the length, which has not got what tokenizer.encode adds. *)
PromptLenValue(r) == IF r \in TokenIds THEN PromptLen[r] ELSE PromptLen[r] - SpecialTokens

Comes(r) == call > 0 /\ r \in Calls[call] /\ client[r] = "absent"

(* The parameters are looked at before anything else. *)
Refuse(r) ==
  /\ Comes(r) /\ ~IsValid(Sampling[r])
  /\ client' = [client EXCEPT ![r] = "refused"]
  /\ UNCHANGED <<call, engineVars, bridgeVars, requestVars, tableVars, received>>

(* send_request takes the answer for one that it failed to parse, and goes
   round its loop. *)
Resend(r) ==
  /\ r \in Resending /\ client[r] = "refused"
  /\ client' = [client EXCEPT ![r] = "absent"]
  /\ UNCHANGED <<call, engineVars, bridgeVars, requestVars, tableVars, received>>

(* LLMEngine.generate up to its first await *)
Issue(r) ==
  /\ Comes(r) /\ IsValid(Sampling[r])
  /\ client' = [client EXCEPT ![r] = "reading"]
  /\ outputs' = [outputs EXCEPT ![r] = <<>>]
  /\ events' = [events EXCEPT ![r] = <<"issued">>]
  /\ waiting' = Append(waiting, r)
  /\ promptLenMap' = [key \in DOMAIN promptLenMap \cup {PromptLenKey(r)} |->
                       IF key = PromptLenKey(r) THEN PromptLenValue(r) ELSE promptLenMap[key]]
  /\ UNCHANGED <<call, at, pipeline, unaccepted, decoding, bridgeVars, requestVars, received>>

(* start_all_event_loops: OfflineLLM makes a task of it after the tasks of
   its requests, which therefore get to their first await before it. *)
StartEventLoops ==
  /\ call > 0 /\ \A s \in Stages : at[s] = "stopped"
  /\ Server \/ \A r \in Calls[call] : client[r] # "absent"
  /\ at' = [s \in Stages |-> "top"]
  /\ loop1' = "running"
  /\ UNCHANGED <<call, pipeline, waiting, unaccepted, decoding, boundTo, bridge,
                 requestVars, tableVars, clientVars>>

(* The end of generate, when the output it yielded was the last one *)
Forget(r) ==
  /\ outputs' = [outputs EXCEPT ![r] = NoQueue]
  /\ promptLenMap' = [key \in DOMAIN promptLenMap \ {r} |-> promptLenMap[key]]

Reads(r) == client[r] = "reading" /\ outputs[r] # <<>>

(* Mutant: a reader that finds several outputs takes them for one. *)
ReadNewest(r) ==
  /\ Reads(r) /\ outputs[r][Len(outputs[r])] = "more"
  /\ outputs' = [outputs EXCEPT ![r] = <<>>]
  /\ received' = [received EXCEPT ![r] = @ + 1]
  /\ UNCHANGED <<call, engineVars, bridgeVars, requestVars, events, promptLenMap, client>>

(* generate yields an output and the client goes on to the next *)
ReadToken(r) ==
  /\ Reads(r) /\ Head(outputs[r]) = "more"
  /\ outputs' = [outputs EXCEPT ![r] = Tail(@)]
  /\ received' = [received EXCEPT ![r] = @ + 1]
  /\ UNCHANGED <<call, engineVars, bridgeVars, requestVars, events, promptLenMap, client>>

(* ... or it was the last: a response that is no stream takes the lifetime
   events out of their table (get_and_pop_request_lifetime_events) *)
ReadLast(r) ==
  /\ Reads(r) /\ Head(outputs[r]) = "last"
  /\ Forget(r)
  /\ received' = [received EXCEPT ![r] = @ + 1]
  /\ client' = [client EXCEPT ![r] = "done"]
  /\ events' = IF Server /\ r \notin Streaming THEN [events EXCEPT ![r] = <<>>] ELSE events
  /\ UNCHANGED <<call, engineVars, bridgeVars, requestVars>>

(* Mutant: a client that leaves takes its entries out of the tables. *)
DisconnectAndForget(r) ==
  /\ Server /\ client[r] = "reading" /\ (r \in Streaming \/ Reads(r))
  /\ Forget(r)
  /\ client' = [client EXCEPT ![r] = "gone"]
  /\ UNCHANGED <<call, engineVars, bridgeVars, requestVars, events, received>>

(* A disconnected client: the handler of a stream is cancelled in its get();
   the other one looks at each output, and returns 499.  Both leave the
   tables as they are, and abort does nothing. *)
Disconnect(r) ==
  /\ Server /\ client[r] = "reading"
  /\ IF r \in Streaming
       THEN UNCHANGED outputs
       ELSE Reads(r) /\ outputs' = [outputs EXCEPT ![r] = Tail(@)]
  /\ client' = [client EXCEPT ![r] = "gone"]
  /\ UNCHANGED <<call, engineVars, bridgeVars, requestVars, events, promptLenMap, received>>

(* GET /v1/rom/decision, up to the decision, which is RomQueries *)
RomDecision(r) ==
  IF r \in DOMAIN promptLenMap THEN [status |-> 200, promptLen |-> promptLenMap[r]]
                               ELSE [status |-> 404]

(* POST /v1/rom/recover.  Neither way to recover returns: the workers have no
   pull_kv_blocks_for_request, the engine no recover_via_recompute. *)
RomRecover(r, force) ==
  IF force \notin {None, "migrate", "recompute"} THEN [status |-> 400]
  ELSE IF r \in DOMAIN promptLenMap THEN [status |-> 200, triggered |-> FALSE]
  ELSE [status |-> 404]

-----------------------------------------------------------------------------
(* The event loops of the two stages.                                      *)

(* A batch at the back of the pipeline.  One that is longer than
   PipelineSize never gets shorter again: what else is put in it does not
   matter, and is left out. *)
Push(s, batch) ==
  IF Len(pipeline[s]) > PipelineSize THEN pipeline[s] ELSE Append(pipeline[s], batch)

(* _step from there to its next await: when the pipeline is full it waits for
   the result of the oldest batch, or drops it if it was empty.  The lines of
   the two engines (349-357 and 839-846) differ in what follows only. *)
GoesOn(s, batches) ==
  LET full == Len(batches) = PipelineSize
      none == Head(batches) = <<>>
  IN  /\ pipeline' = [pipeline EXCEPT ![s] = IF full /\ none THEN Tail(batches) ELSE batches]
      /\ at' = [at EXCEPT ![s] = IF full /\ ~none THEN "result"
                                ELSE IF s = "context" THEN "top" ELSE "post"]

(* An empty batch is put in the pipeline before the loop sleeps. *)
StepEmpty(s) ==
  /\ at[s] = "top"
  /\ pipeline' = [pipeline EXCEPT ![s] = Push(s, <<>>)]
  /\ at' = [at EXCEPT ![s] = "sleep"]
  /\ UNCHANGED <<call, waiting, unaccepted, decoding, bridgeVars, requestVars, tableVars, clientVars>>

(* The sleep after an empty batch (318 or 800) is over, in either stage. *)
Wake(s) ==
  /\ at[s] = "sleep"
  /\ GoesOn(s, pipeline[s])
  /\ UNCHANGED <<call, waiting, unaccepted, decoding, bridgeVars, requestVars, tableVars, clientVars>>

(* The workers compute the keys and values of the input tokens. *)
Forward(rs) ==
  slots' = [r \in Requests |->
              IF r \in rs THEN slots[r] \cup (GetFirstNewTokenIndex(r) ..
                                              GetFirstNewTokenIndex(r) + GetNumInputTokens(r) - 1)
              ELSE slots[r]]

StepContext ==
  /\ at["context"] = "top"
  /\ \E k \in 1 .. Len(waiting) :
       LET batch == SubSeq(waiting, 1, k) IN
         /\ waiting' = SubSeq(waiting, k + 1, Len(waiting))
         /\ events' = Log(Range(batch), "context_begin")
         /\ Forward(Range(batch))
         /\ GoesOn("context", Push("context", batch))
  /\ UNCHANGED <<call, unaccepted, decoding, bridgeVars, finished, outputLen,
                 outputs, promptLenMap, clientVars>>

(* Any part of the requests that no batch has: one that stays swapped out, or
   whose turn is not yet, does not keep a younger one from its batch. *)
StepDecoding ==
  /\ at["decoding"] = "top"
  /\ \E batch \in Subsequences(decoding) \ {<<>>} :
       /\ Range(batch) \cap InPipeline("decoding") = {}
       /\ events' = LogNew(Range(batch), "decoding_begin")
       /\ Forward(Range(batch))
       /\ GoesOn("decoding", Push("decoding", batch))
  /\ UNCHANGED <<call, waiting, unaccepted, decoding, bridgeVars, finished, outputLen,
                 outputs, promptLenMap, clientVars>>

(* Request._check_finish_condition, for a token that is a stop string or not *)
CanStop(r) == Sampling[r].stop /\ ~Sampling[r].ignoreEos
CheckFinishCondition(r, length, stops) == length >= Sampling[r].maxTokens \/ stops

(* BatchedRequests.finish_one_iteration; `stopped` met a stop string. *)
Generate(batch, stopped) ==
  /\ outputLen' = [r \in Requests |-> outputLen[r] + (IF r \in batch THEN 1 ELSE 0)]
  /\ finished' = finished \cup
                   {r \in batch : CheckFinishCondition(r, outputLen'[r], r \in stopped)}

(* Mutant: StepOutput made before the request's is_finished is set. *)
PutOutputsEarly(batch) ==
  outputs' = [r \in Requests |->
                IF r \in batch THEN Append(outputs[r], IF r \in finished THEN "last" ELSE "more")
                ELSE outputs[r]]

(* _on_new_step_output_callback for every request of the batch *)
PutOutputs(batch) ==
  outputs' = [r \in Requests |->
                IF r \in batch THEN Append(outputs[r], IF r \in finished' THEN "last" ELSE "more")
                ELSE outputs[r]]

(* The oldest batch of the context stage returned *)
ContextResult ==
  /\ at["context"] = "result"
  /\ LET batch == Head(pipeline["context"]) IN
     \E stopped \in SUBSET {r \in Range(batch) : CanStop(r)} :
       /\ Generate(Range(batch), stopped)
       /\ events' = Log(Range(batch), "context_end")
       /\ PutOutputs(Range(batch))
       /\ \E kept \in Subsequences(batch) :
            /\ Range(kept) = Range(batch) \ finished'
            /\ bridge' = bridge \o kept
  /\ pipeline' = [pipeline EXCEPT !["context"] = Tail(@)]
  /\ at' = [at EXCEPT !["context"] = "top"]
  /\ UNCHANGED <<call, waiting, unaccepted, decoding, boundTo, loop1, slots,
                 promptLenMap, clientVars>>

(* The oldest batch of the decoding stage returned *)
DecodingResult ==
  /\ at["decoding"] = "result"
  /\ LET batch == Range(Head(pipeline["decoding"])) IN
     \E stopped \in SUBSET {r \in batch : CanStop(r)} :
       /\ Generate(batch, stopped)
       /\ events' = Log(batch \cap finished', "decoding_end")
       /\ PutOutputs(batch)
  /\ \E left \in Subsequences(decoding) :
       /\ Range(left) = Range(decoding) \ finished'
       /\ decoding' = left
  /\ pipeline' = [pipeline EXCEPT !["decoding"] = Tail(@)]
  /\ at' = [at EXCEPT !["decoding"] = "post"]
  /\ UNCHANGED <<call, waiting, unaccepted, bridgeVars, slots, promptLenMap, clientVars>>

(* scheduler.post_process: accept a request, and migrate its blocks *)
Accept ==
  /\ at["decoding"] = "post" /\ unaccepted # <<>>
  /\ events' = Log({Head(unaccepted)}, "migration_begin")
  /\ at' = [at EXCEPT !["decoding"] = "migrate"]
  /\ UNCHANGED <<call, pipeline, waiting, unaccepted, decoding, bridgeVars, requestVars,
                 outputs, promptLenMap, clientVars>>

Migrated ==
  /\ at["decoding"] = "migrate"
  /\ events' = Log({Head(unaccepted)}, "migration_end")
  /\ unaccepted' = Tail(unaccepted)
  /\ decoding' = Append(decoding, Head(unaccepted))
  /\ at' = [at EXCEPT !["decoding"] = "post"]
  /\ UNCHANGED <<call, pipeline, waiting, bridgeVars, requestVars, outputs, promptLenMap, clientVars>>

(* should_accept said no, or there is none *)
PostDone ==
  /\ at["decoding"] = "post"
  /\ at' = [at EXCEPT !["decoding"] = "top"]
  /\ UNCHANGED <<call, pipeline, waiting, unaccepted, decoding, bridgeVars, requestVars,
                 tableVars, clientVars>>

(* bridge_queue.get() and scheduler.add_request *)
TakeFromBridge ==
  /\ loop1 = "running" /\ bridge # <<>>
  /\ bridge' = Tail(bridge)
  /\ unaccepted' = Append(unaccepted, Head(bridge))
  /\ UNCHANGED <<call, at, pipeline, waiting, decoding, boundTo, loop1, requestVars,
                 tableVars, clientVars>>

(* get() of an empty asyncio.Queue needs a future of the running event loop:
   the queue takes the first loop that asks and raises for any other.  The
   exception ends event_loop1 and, through gather, the task that started the
   loops; the other loops go on. *)
WaitOnBridge ==
  /\ loop1 = "running" /\ bridge = <<>> /\ boundTo # call
  /\ IF boundTo = NoLoop
       THEN boundTo' = call /\ UNCHANGED loop1
       ELSE loop1' = "raised" /\ UNCHANGED boundTo
  /\ UNCHANGED <<call, engineVars, bridge, requestVars, tableVars, clientVars>>

Next ==
  \/ NextCall \/ StartEventLoops
  \/ \E r \in Requests : Refuse(r) \/ Resend(r) \/ Issue(r) \/ ReadToken(r) \/ ReadLast(r) \/ Disconnect(r)
  \/ \E s \in Stages : StepEmpty(s) \/ Wake(s)
  \/ StepContext \/ ContextResult \/ StepDecoding \/ DecodingResult
  \/ Accept \/ Migrated \/ PostDone \/ TakeFromBridge \/ WaitOnBridge

(* asyncio runs every task that is ready.  That a stage whose queue is not
   empty does not take empty batches for ever, nor the decoding stage refuse
   what it was brought for ever, is what ContextStage and DecodingStage
   check.  Nobody has to issue requests or to disconnect. *)
Fairness ==
  /\ WF_vars(StartEventLoops)
  /\ \A r \in Requests : WF_vars(~Server /\ Issue(r)) /\ WF_vars(ReadToken(r) \/ ReadLast(r))
  /\ \A s \in Stages : WF_vars(StepEmpty(s)) /\ WF_vars(Wake(s))
  /\ SF_vars(StepContext) /\ SF_vars(StepDecoding) /\ SF_vars(Accept)
  /\ WF_vars(ContextResult) /\ WF_vars(DecodingResult) /\ WF_vars(Migrated) /\ WF_vars(PostDone)
  /\ WF_vars(TakeFromBridge) /\ WF_vars(WaitOnBridge)

Spec == Init /\ [][Next]_vars /\ Fairness

-----------------------------------------------------------------------------

TypeOK ==
  /\ call \in 0 .. Len(Calls) /\ boundTo \in 0 .. call
  /\ at \in [Stages -> {"stopped", "top", "sleep", "result", "post", "migrate"}]
  /\ loop1 \in {"stopped", "running", "raised"}
  /\ \A s \in Stages : pipeline[s] \in Seq(Seq(Requests)) /\ Len(pipeline[s]) <= PipelineSize
  /\ {waiting, bridge, unaccepted, decoding} \subseteq Seq(Requests)
  /\ finished \subseteq Requests 
  /\ DOMAIN promptLenMap \subseteq Requests \cup {None} /\ Range(promptLenMap) \subseteq Nat
  /\ {outputLen, received} \subseteq [Requests -> Nat]
  /\ \A r \in Requests : outputs[r] = NoQueue \/ outputs[r] \in Seq({"more", "last"})
  /\ client \in [Requests -> {"absent", "refused", "reading", "done", "gone"}]

InFlight(r) == client[r] \notin {"absent", "refused"} /\ r \notin finished

(* The places a request is at: it is at one while it is in flight, and at
   none before and after. *)
Places(r) == {p \in {<<"waiting", waiting>>, <<"bridge", bridge>>, <<"unaccepted", unaccepted>>,
                     <<"decoding", decoding>>} : r \in Range(p[2])}
               \cup (IF r \in InPipeline("context") THEN {<<"context", pipeline["context"]>>} ELSE {})

(* As long as a request is in flight, every table that the event loops'    *)
(* callbacks look its id up in has it, and it has tokens left to generate: *)
(* no callback raises a KeyError and add_generated_token no ValueError,    *)
(* which would end the loops and with them the server.  Both endpoints of  *)
(* the server know a request in flight, with the length of its own prompt, *)
(* and do not know one that was refused or answered.                       *)
InFlightIsKnown ==
  \A r \in Requests :
    /\ Cardinality(Places(r)) = IF InFlight(r) THEN 1 ELSE 0
    /\ InFlight(r) => /\ outputs[r] # NoQueue /\ events[r] # <<>>
                      /\ outputLen[r] < Sampling[r].maxTokens
    /\ Server /\ InFlight(r) =>
         /\ RomDecision(r) = [status |-> 200, promptLen |-> PromptLen[r] - SpecialTokens]
         /\ RomRecover(r, None).status = 200
    /\ client[r] \in {"refused", "done"} =>
         RomDecision(r).status = 404 /\ RomRecover(r, None).status = 404

Consistent == TypeOK /\ InFlightIsKnown

(* A client gets every token that was generated, once: what it has read    *)
(* and what is queued for it is all there is, and when generate returns it *)
(* has read it all.                                                        *)
NoTokenLost ==
  \A r \in Requests :
    /\ client[r] = "reading" => received[r] + Len(outputs[r]) = outputLen[r]
    /\ client[r] = "done"    => received[r] = outputLen[r] /\ r \in finished

(* The position a step computes for its input token (first_token_indexes)  *)
(* continues where the step before ended, over the hand-over from one      *)
(* stage to the other: the cache of a request has no gap, and at the end   *)
(* lacks the last token only.                                              *)
SlotsAreTiled ==
  \A r \in Requests :
    LET computing == r \in InPipeline("context") \cup InPipeline("decoding")
        done == IF outputLen[r] = 0 THEN 0 ELSE PromptLen[r] + outputLen[r] - 1
    IN  slots[r] = 0 .. done + (IF computing THEN GetNumInputTokens(r) ELSE 0) - 1

(* The stages of a request's life in the order lifetime.py draws them      *)
FullLife  == <<"issued", "context_begin", "context_end", "migration_begin", "migration_end",
               "decoding_begin", "decoding_end">>
ShortLife == SubSeq(FullLife, 1, 3)

(* The lifetime events that a response carries are complete when its last  *)
(* token is read: each of them once, in order, the last one included.      *)
LifetimeIsComplete ==
  [][\A r \in Requests :
       client[r] = "reading" /\ client'[r] = "done"
         => events[r] = IF outputLen[r] = 1 THEN ShortLife ELSE FullLife]_vars

(* A client that goes on reading gets its last token: generate returns.    *)
EveryClientAnswered ==
  \A r \in Requests : client[r] = "reading" ~> client[r] \in {"done", "gone"}
=============================================================================
