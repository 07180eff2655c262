----------------------------- MODULE SimWorker ------------------------------
(***************************************************************************)
(* The discrete-event simulator, src/simdistserve: the workers of a        *)
(* cluster, the scheduler that feeds them and the requests that pass       *)
(* through (base/worker.py, base/scheduler.py, base/request.py,            *)
(* clusters/disagg.py, clusters/vllm.py), with the logs from which         *)
(* base/organize_data.py computes their latencies.                         *)
(*                                                                         *)
(* A worker is a simpy process.  Simulated processes hold control from one *)
(* yield to the next, so `control` names the worker that is between two    *)
(* yields and nobody else moves meanwhile.  Delays come from profiled      *)
(* data: any positive delay, so any order of the workers' timeouts.        *)
(* Counted down from the first request, put_request_at_time wakes in the   *)
(* order of the arrivals.                                                  *)
(*                                                                         *)
(* The cluster and the scheduling mode are drawn at the start (config): an *)
(* instance checks several of them.                                        *)
(***************************************************************************)
EXTENDS Queues

CONSTANTS
  N,                   \* requests are 1 .. N, in the order of their arrival
  PrefillLens,         \* Request.prefill_lens
  OutputLens,          \* Request.output_lens
  Configs,             \* records [backend, chunked, instances, pp]
  PrefillMaxBatchSize,
  PrefillMaxTokens,
  DecodeMaxTokens,
  DecodeCap,           \* the 50000 tokens of _enter_decodes
  BackPressureAt       \* int(decode_max_batch_size * decode_back_pressure)

Requests == 1 .. N
NoWorker == <<"none", 0, 0>>
NoChunk  == 0

ASSUME SizesAssumption ==
  /\ N \in Nat
  /\ PrefillLens \in [Requests -> Nat \ {0}] /\ OutputLens \in [Requests -> Nat]
  /\ {PrefillMaxBatchSize, PrefillMaxTokens, DecodeMaxTokens} \subseteq Nat \ {0}
  /\ DecodeCap \in Nat /\ BackPressureAt \in Nat

ASSUME ConfigsAssumption ==
  \A c \in Configs :
     /\ c.backend \in {"distserve", "vllm"} /\ c.chunked \in BOOLEAN
     /\ DOMAIN c.pp = IF c.backend = "vllm" THEN {"both"} ELSE {"prefill", "decode"}
     /\ DOMAIN c.instances = DOMAIN c.pp
     /\ Range(c.pp) \cup Range(c.instances) \subseteq Nat \ {0}

VARIABLES
  config,
  arrived,        \* requests 1 .. arrived have been put
  prefillQueue,   \* Worker.prefill_queue
  decodeQueue,    \* Worker.decode_queue
  batch,          \* the prefill_items and decode_reqs of the running iteration
  pc,             \* "start", "top" (of run's loop), "asleep", "woken" or "busy"
  control,        \* the worker between two yields
  counter,        \* Request.counter
  remain,         \* Request.remain_prefill_lens
  current,        \* Request.current_prefill_lens
  chunk,          \* Request.chunk_id, the first request of the chunk for a fresh uuid
  exited,         \* requests with _terminated
  log             \* Request.log: the events, in the order of their times

requestVars == <<counter, remain, current, chunk, exited, log>>
simVars == <<config, arrived, prefillQueue, decodeQueue, batch, pc, control, requestVars>>

-----------------------------------------------------------------------------
(* The clusters *)

Workers(c) ==
  UNION {{<<stage, i, k>> : i \in 1 .. c.instances[stage], k \in 1 .. c.pp[stage]} :
           stage \in DOMAIN c.pp}

IsFirst(w) == w[3] = 1
IsLast(w)  == w[3] = config.pp[w[1]]

(* set_next_worker chains an instance's workers into a ring. *)
NextWorker(w) == <<w[1], w[2], IF IsLast(w) THEN 1 ELSE w[3] + 1>>

(* The last worker of a prefill instance hands requests to the scheduler.  *)
ShouldRequestStay(w) == ~ (w[1] = "prefill" /\ IsLast(w))

PrefillHeads == LET stage == IF config.backend = "vllm" THEN "both" ELSE "prefill"
                IN  [i \in 1 .. config.instances[stage] |-> <<stage, i, 1>>]
DecodeHeads  == LET stage == IF config.backend = "vllm" THEN "both" ELSE "decode"
                IN  [i \in 1 .. config.instances[stage] |-> <<stage, i, 1>>]

-----------------------------------------------------------------------------
(* Request *)

AtLeastZero(n) == IF n < 0 THEN 0 ELSE n
Smaller(m, n)  == IF m < n THEN m ELSE n
CurrentContextLen(r) == PrefillLens[r] + AtLeastZero(counter[r])

(* Request._log_event, for requests whose next events are entries[r]       *)
Logged(entries) == [r \in Requests |-> IF r \in exited THEN log[r] ELSE log[r] \o entries[r]]

HasBackPressure(w) ==
  Total([r \in Requests |-> CurrentContextLen(r)], Range(decodeQueue[w])) > BackPressureAt

-----------------------------------------------------------------------------
(* wakeup() succeeds the event a worker may be waiting for and puts a      *)
(* fresh one in its place.                                                 *)

Awakened(receivers) ==
  [w \in DOMAIN pc |-> IF w \in receivers /\ pc[w] = "asleep" THEN "woken" ELSE pc[w]]

(* min of _find_best_worker_and_queue: the first of those with least load. *)
IsBest(heads, load, w) ==
  \E i \in DOMAIN heads :
    /\ heads[i] = w
    /\ \A j \in DOMAIN heads : load[w] <= load[heads[j]]
    /\ \A j \in 1 .. i - 1 : load[w] < load[heads[j]]

-----------------------------------------------------------------------------
(* The arrival of the next request: put_request_at_time, schedule_new_req. *)

Arrive(w) ==
  LET r == arrived + 1
      load == [v \in Range(PrefillHeads) |-> Len(batch[v].prefill) + Len(prefillQueue[v])]
  IN  /\ control = NoWorker /\ r \in Requests
      /\ w \in Range(PrefillHeads) /\ IsBest(PrefillHeads, load, w)
      /\ arrived' = r
      /\ prefillQueue' = [prefillQueue EXCEPT ![w] = Append(@, r)]
      /\ pc' = Awakened({w})
      /\ log' = [log EXCEPT ![r] = <<"init">>]
      /\ UNCHANGED <<config, decodeQueue, batch, control, counter, remain, current, chunk, exited>>

(* simpy starts the worker's process. *)
Start(w) ==
  /\ control = NoWorker /\ pc[w] = "start"
  /\ pc' = [pc EXCEPT ![w] = "top"] /\ control' = w
  /\ UNCHANGED <<config, arrived, prefillQueue, decodeQueue, batch, requestVars>>

Sleep(w) ==
  /\ control = w /\ prefillQueue[w] = <<>> /\ decodeQueue[w] = <<>>
  /\ pc' = [pc EXCEPT ![w] = "asleep"] /\ control' = NoWorker
  /\ UNCHANGED <<config, arrived, prefillQueue, decodeQueue, batch, requestVars>>

(* The loop goes on past its yield: at once, or when the event is handled. *)
Proceeds(w) ==
  \/ control = w /\ (prefillQueue[w] # <<>> \/ decodeQueue[w] # <<>>)
  \/ control = NoWorker /\ pc[w] = "woken"

-----------------------------------------------------------------------------
(* _enter_prefill and _enter_decodes take from the head of a queue, as long *)
(* as what they take fits.                                                  *)

Before(queue, i) == Range(SubSeq(queue, 1, i - 1))
IsLongest(n, limit, fitting) ==
  n \in 0 .. limit /\ 1 .. n \subseteq fitting /\ (n < limit => n + 1 \notin fitting)

(* The first worker takes whole prompts or, with chunked prefill, as much   *)
(* of each as there is room: then the limit shrinks while the chunk grows,  *)
(* so that every token counts twice.                                        *)
Part(w, i) ==
  LET queue == prefillQueue[w] IN
  IF config.chunked THEN Smaller(remain[queue[i]], PrefillMaxTokens - 2 * Total(remain, Before(queue, i)))
  ELSE remain[queue[i]]

(* Mutant: a prompt that fills the batch does not fit. *)
PartFitsBelow(w, i) ==
  IF config.chunked THEN Part(w, i) > 0
  ELSE Total(remain, Before(prefillQueue[w], i)) + Part(w, i) < PrefillMaxTokens

PartFits(w, i) ==
  IF config.chunked THEN Part(w, i) > 0
  ELSE Total(remain, Before(prefillQueue[w], i)) + Part(w, i) <= PrefillMaxTokens

(* The later workers take the requests of the first one's chunk. *)
SameChunk(w, i) == chunk[prefillQueue[w][i]] = chunk[prefillQueue[w][1]]

IsPrefillCount(w, n) ==
  LET limit == Smaller(PrefillMaxBatchSize, Len(prefillQueue[w])) IN
  IsLongest(n, limit, {i \in 1 .. limit : IF IsFirst(w) THEN PartFits(w, i) ELSE SameChunk(w, i)})

IsDecodeCount(w, n, remainingTokens) ==
  LET limit == AtLeastZero(Smaller(remainingTokens, Len(decodeQueue[w])))
      need  == [r \in Requests |-> CurrentContextLen(r) + 1]
  IN  IsLongest(n, limit, {i \in 1 .. limit : Total(need, Before(decodeQueue[w], i + 1)) <= DecodeCap})

(* Both branches yield a timeout with the batch in hand. *)
Begins(w, prefills, decodes) ==
  /\ batch' = [batch EXCEPT ![w] = [prefill |-> prefills, decode |-> decodes]]
  /\ decodeQueue' = [decodeQueue EXCEPT ![w] = SubSeq(@, Len(decodes) + 1, Len(@))]
  /\ log' = Logged([r \in Requests |-> IF r \in Range(prefills) THEN <<"do_prefill">>
                                        ELSE IF r \in Range(decodes) THEN <<"do_decode">>
                                        ELSE <<>>])
  /\ pc' = [pc EXCEPT ![w] = "busy"] /\ control' = NoWorker
  /\ UNCHANGED <<config, arrived, counter, exited>>

TakePrefills(w, n) ==
  LET queue == prefillQueue[w]
      taken == SubSeq(queue, 1, n)
      cut   == IF IsFirst(w) THEN Range(taken) ELSE {}
      part  == [r \in cut |-> Part(w, PositionIn(queue, r))]
  IN  /\ prefillQueue' = [prefillQueue EXCEPT ![w] = SubSeq(@, n + 1, Len(@))]
      /\ current' = [r \in Requests |-> IF r \in cut THEN part[r] ELSE current[r]]
      /\ remain' = [r \in Requests |-> IF r \in cut THEN remain[r] - part[r] ELSE remain[r]]
      /\ chunk' = [r \in Requests |-> IF r \in cut THEN Head(taken) ELSE chunk[r]]

DoPrefill(w) ==
  /\ Proceeds(w)
  /\ prefillQueue[w] # <<>> /\ ~HasBackPressure(w)
  /\ \E n \in 0 .. Len(prefillQueue[w]), m \in 0 .. Len(decodeQueue[w]) :
       LET taken == SubSeq(prefillQueue[w], 1, n) IN
       /\ IsPrefillCount(w, n) /\ TakePrefills(w, n)
       /\ IF config.chunked THEN IsDecodeCount(w, m, PrefillMaxTokens - Total(current', Range(taken)))
          ELSE m = 0
       /\ Begins(w, taken, SubSeq(decodeQueue[w], 1, m))

DoDecode(w) ==
  /\ Proceeds(w)
  /\ prefillQueue[w] = <<>> \/ HasBackPressure(w)
  /\ \E m \in 0 .. Len(decodeQueue[w]) :
       IsDecodeCount(w, m, DecodeMaxTokens) /\ Begins(w, <<>>, SubSeq(decodeQueue[w], 1, m))
  /\ UNCHANGED <<prefillQueue, remain, current, chunk>>

-----------------------------------------------------------------------------
(* The timeout is over: _exit_prefill, _exit_decode, then the loop again.  *)

(* Mutant: every worker of the pipeline counts a round. *)
CounterAfterEveryStage(w, r) ==
  IF r \in Range(batch[w].decode) THEN counter[r] + 1
  ELSE IF IsLast(w) /\ r \in Range(batch[w].prefill) /\ remain[r] = 0 THEN 0
  ELSE counter[r]

(* finish_prefill and finish_decode at the last worker of a pipeline.      *)
CounterAfter(w, r) ==
  IF ~IsLast(w) THEN counter[r]
  ELSE IF r \in Range(batch[w].decode) THEN counter[r] + 1
  ELSE IF r \in Range(batch[w].prefill) /\ remain[r] = 0 THEN 0
  ELSE counter[r]

ShouldFinish(w, r) == CounterAfter(w, r) >= OutputLens[r]

(* The rest of the prompt, or the next worker of the pipeline, is due. *)
GoesOn(w, r) == ~IsLast(w) \/ remain[r] > 0

(* Mutant: no `continue` after the prefill is forwarded. *)
TurnsToDecodeAlways(w, r) == ~ShouldFinish(w, r)

TurnsToDecode(w, r) == ~GoesOn(w, r) /\ ~ShouldFinish(w, r)

Those(queue, S) == {out \in Subsequences(queue) : Range(out) = S}

(* Who gets the requests that turn to decode, as the sequence that each is *)
(* given: forward_decode hands them to the next worker, or one by one to   *)
(* the scheduler, who counts those it placed before.                       *)
Targets(w) == IF ShouldRequestStay(w) THEN {NextWorker(w)} ELSE Range(DecodeHeads)

Shares(w) ==
  LET prefills == batch[w].prefill
      turning == {r \in Range(prefills) : TurnsToDecode(w, r)}
      load(share, r) ==
        [v \in Targets(w) |->
           Len(batch[v].prefill) + Len(decodeQueue[v])
             + Cardinality({q \in Range(share[v]) : PositionIn(prefills, q) < PositionIn(prefills, r)})]
  IN  {share \in [Targets(w) -> Subsequences(prefills)] :
         /\ UNION {Range(share[v]) : v \in Targets(w)} = turning
         /\ \A u, v \in Targets(w) : u # v => Range(share[u]) \cap Range(share[v]) = {}
         /\ ShouldRequestStay(w) \/
            \A v \in Targets(w) : \A r \in Range(share[v]) : IsBest(DecodeHeads, load(share, r), v)}

(* What finish_prefill and finish_decode log for a request of the batch,   *)
(* and wait_decode of the scheduler that a prefill worker hands it to.     *)
EntriesAtExit(w, r) ==
  LET prefilling == r \in Range(batch[w].prefill) IN
    IF prefilling /\ (~IsLast(w) \/ remain[r] > 0) THEN <<"wait_prefill">>
    ELSE IF ShouldFinish(w, r) THEN <<"wait_decode", "exit_system">>
    ELSE IF prefilling /\ ~ShouldRequestStay(w) THEN <<"wait_decode", "wait_decode">>
    ELSE <<"wait_decode">>

(* Mutant: the next worker is not woken for a decode. *)
ReceiversOfPrefill(w, onward, share, rounds) ==
  (IF onward = <<>> THEN {} ELSE {NextWorker(w)}) \cup {v \in Targets(w) : share[v] # <<>>}

(* forward_prefill, forward_decode and the scheduler wake whom they give   *)
(* something.                                                              *)
Receivers(w, onward, share, rounds) ==
  {v \in Targets(w) : share[v] # <<>>}
    \cup (IF onward = <<>> /\ rounds = <<>> THEN {} ELSE {NextWorker(w)})

Forwards(w, onward, share, rounds) ==
  /\ prefillQueue' = [prefillQueue EXCEPT ![NextWorker(w)] = @ \o onward]
  /\ decodeQueue' = [v \in DOMAIN decodeQueue |->
                       decodeQueue[v] \o (IF v \in Targets(w) THEN share[v] ELSE <<>>)
                                      \o (IF v = NextWorker(w) THEN rounds ELSE <<>>)]
  /\ pc' = [Awakened(Receivers(w, onward, share, rounds)) EXCEPT ![w] = "top"]

Finish(w) ==
  LET prefills == batch[w].prefill
      decodes == batch[w].decode
      served == Range(prefills) \cup Range(decodes)
      done == IF IsLast(w) THEN Range(prefills) ELSE {}
  IN  /\ control = NoWorker /\ pc[w] = "busy"
      /\ \E onward \in Those(prefills, {r \in Range(prefills) : GoesOn(w, r)}),
            rounds \in Those(decodes, {r \in Range(decodes) : ~ShouldFinish(w, r)}),
            share  \in Shares(w) : Forwards(w, onward, share, rounds)
      /\ control' = w
      /\ batch' = [batch EXCEPT ![w] = [prefill |-> <<>>, decode |-> <<>>]]
      /\ counter' = [r \in Requests |-> CounterAfter(w, r)]
      /\ chunk' = [r \in Requests |-> IF r \in done THEN NoChunk ELSE chunk[r]]
      /\ current' = [r \in Requests |-> IF r \in done THEN 0 ELSE current[r]]
      /\ log' = Logged([r \in Requests |-> IF r \in served THEN EntriesAtExit(w, r) ELSE <<>>])
      /\ exited' = exited \cup {r \in served : ShouldFinish(w, r)}
      /\ UNCHANGED <<config, arrived, remain>>

-----------------------------------------------------------------------------
SimInit ==
  /\ config \in Configs
  /\ arrived = 0
  /\ prefillQueue = [w \in Workers(config) |-> <<>>]
  /\ decodeQueue = [w \in Workers(config) |-> <<>>]
  /\ batch = [w \in Workers(config) |-> [prefill |-> <<>>, decode |-> <<>>]]
  /\ pc = [w \in Workers(config) |-> "start"]
  /\ control = NoWorker
  /\ counter = [r \in Requests |-> -1]
  /\ remain = PrefillLens
  /\ current = [r \in Requests |-> 0]
  /\ chunk = [r \in Requests |-> NoChunk] 
  /\ exited = {}
  /\ log = [r \in Requests |-> <<>>]

(* env.run ends when no event is left: every worker sleeps. *)
Ended ==
  /\ arrived = N /\ control = NoWorker /\ \A w \in DOMAIN pc : pc[w] = "asleep"
  /\ UNCHANGED simVars

SimNext ==
  \/ \E w \in DOMAIN pc :
       Arrive(w) \/ Start(w) \/ Sleep(w) \/ DoPrefill(w) \/ DoDecode(w) \/ Finish(w)
  \/ Ended

(* simpy handles every event in its queue: arrivals are all scheduled at   *)
(* the start, and delays are finite and positive.                          *)
WorkerStep(w) == Start(w) \/ Sleep(w) \/ DoPrefill(w) \/ DoDecode(w) \/ Finish(w)

SimFairness ==
  /\ WF_simVars(\E w \in DOMAIN pc : Arrive(w))
  /\ \A w \in UNION {Workers(c) : c \in Configs} : WF_simVars(w \in DOMAIN pc /\ WorkerStep(w))

SimSpec == SimInit /\ [][SimNext]_simVars /\ SimFairness

-----------------------------------------------------------------------------
SimTypeOK ==
  /\ config \in Configs /\ arrived \in 0 .. N
  /\ DOMAIN prefillQueue = Workers(config) /\ DOMAIN decodeQueue = Workers(config)
  /\ DOMAIN batch = Workers(config)
  /\ pc \in [Workers(config) -> {"start", "top", "asleep", "woken", "busy"}]
  /\ control \in Workers(config) \cup {NoWorker}
  /\ \A r \in Requests :
       /\ counter[r] \in -1 .. OutputLens[r] /\ remain[r] \in 0 .. PrefillLens[r]
       /\ current[r] \in 0 .. PrefillLens[r] /\ chunk[r] \in Requests \cup {NoChunk}
  /\ exited \subseteq Requests

(* A worker that sleeps has nothing to do: nobody puts a request in its    *)
(* queues without waking it, and no wake-up falls between its look at the  *)
(* queues and its sleep (run, wakeup).                                     *)
NoLostWakeup ==
  \A w \in DOMAIN pc : pc[w] = "asleep" => prefillQueue[w] = <<>> /\ decodeQueue[w] = <<>>

At(r, seqs, place) ==
  UNION {{<<place, w, i>> : i \in {j \in DOMAIN seqs[w] : seqs[w][j] = r}} : w \in DOMAIN pc}
Places(r) ==
  At(r, prefillQueue, "prefill queue") \cup At(r, decodeQueue, "decode queue")
    \cup At(r, [w \in DOMAIN pc |-> batch[w].prefill], "prefilling")
    \cup At(r, [w \in DOMAIN pc |-> batch[w].decode], "decoding")

ChunksStayTogether ==
  \A w \in DOMAIN pc : \A r \in Range(batch[w].prefill) :
     {q \in Requests : chunk[q] = chunk[r]} = Range(batch[w].prefill)

(* A request is in one queue or one running batch from its arrival to its  *)
(* exit: forwarding between workers and through the scheduler neither      *)
(* loses nor duplicates one (_exit_prefill, _exit_decode, Scheduler).  And *)
(* the requests one worker batched for prefill stay one batch at every     *)
(* later worker of the pipeline, though they are forwarded one by one and  *)
(* other chunks queue behind them.                                         *)
Consistent ==
  /\ SimTypeOK
  /\ \A r \in Requests :
       Cardinality(Places(r)) = IF r <= arrived /\ r \notin exited THEN 1 ELSE 0
  /\ ChunksStayTogether

(* calculate_per_request_latency: the events its latencies start and end   *)
(* at, as positions in the log (the times grow with them).                 *)
Entries(r, event) == {i \in DOMAIN log[r] : log[r][i] = event}
FirstTokenAt(r)   == CHOOSE i \in Entries(r, "wait_decode") :
                       \A j \in Entries(r, "wait_decode") : i <= j
LatencyIsDefined(r) ==
  /\ Entries(r, "init") = {1} /\ Entries(r, "exit_system") = {Len(log[r])}
  /\ Entries(r, "wait_decode") # {}

(* The log of a request that left shows the work it was due, on the right  *)
(* side of its first token: all of the prefill before, once per worker of  *)
(* its pipeline (and per chunk), and after it output_lens rounds through   *)
(* all workers of its decode pipeline, so that the latencies computed from *)
(* the log split into prefill and decode (organize_data.py).               *)
PPof(stage) == config.pp[IF config.backend = "vllm" THEN "both" ELSE stage]
LogsShowAllTheWork ==
  \A r \in exited :
     /\ counter[r] = OutputLens[r] /\ remain[r] = 0
     /\ LatencyIsDefined(r)
     /\ \A i \in Entries(r, "do_prefill") : i < FirstTokenAt(r)
     /\ \A i \in Entries(r, "do_decode") : i > FirstTokenAt(r)
     /\ Cardinality(Entries(r, "do_decode")) = OutputLens[r] * PPof("decode")
     /\ LET prefills == Cardinality(Entries(r, "do_prefill"))
        IN  IF config.chunked THEN prefills % PPof("prefill") = 0 /\ prefills > 0
            ELSE prefills = PPof("prefill")

(* Every simulation ends with all requests served, when every prompt fits  *)
(* a prefill batch and every context a decode batch.                       *)
EveryRequestExits == <>[](exited = Requests)
=============================================================================
