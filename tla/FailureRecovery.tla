-------------------------- MODULE FailureRecovery --------------------------
(***************************************************************************)
(* Failures of decoding workers and RoM's answer to them                   *)
(* (src/distserve/single_stage_engine.py:472-712): a monitor task pings    *)
(* every worker; when one is dead it asks, for each request that was       *)
(* running, whether to migrate or to recompute, and carries that out.      *)
(* Meanwhile the engine's step loop goes on, or fails on the dead worker.  *)
(*                                                                         *)
(* The monitor is one asyncio task.  pc is the await it is at: "sleep",    *)
(* "ping" (of the lowest worker left in round), "target" (the scheduler's  *)
(* answer), "bandwidth" (the same, once per request) and "pull" (the       *)
(* target worker fetching the blocks of one request).                      *)
(*                                                                         *)
(* A worker is the first tensor-parallel rank of a pipeline stage, the one *)
(* that is pinged.  Batches are sets of requests in the decoding stage;    *)
(* how they are chosen is the subject of DecodingStage.                    *)
(***************************************************************************)
EXTENDS LocalScheduler

CONSTANTS
  Requests,      \* requests in the decoding stage
  PromptLen,     \* [Requests -> Nat \ {0}]: what generate() puts in _prompt_len_map
  RomConfig,     \* rom_config
  BuiltInLoop    \* LLMEngine is constructed inside of the event loop that will run it

ASSUME RecoveryAssumption ==
  /\ IsFiniteSet(Requests)
  /\ PromptLen \in [Requests -> Nat \ {0}]
  /\ RomConfig.policy \in Policies
  /\ BuiltInLoop \in BOOLEAN

VARIABLES
  \* workers and the step loop
  alive,         \* workers that have not died
  running,       \* requests that have not finished
  pipeline,      \* batches_in_pipeline, oldest first: [requests, sound]
  tracked,       \* _worker_request_ids
  loops,         \* the event loops run (no exception has ended them)
  up,            \* the process runs
  \* the monitor
  pc,
  round,         \* workers this round of the monitor has still to ping
  deadWorkers,   \* _dead_workers
  failed,        \* worker_idx of _handle_decode_worker_failure
  target,        \* target_worker_idx
  affected,      \* requests of the failed worker not recovered yet
  pulling,       \* the request of _recover_one_request, while it is at "pull"
  \* the log
  recoveries,    \* log_recovery records, with the last way that was tried as path
  snapshot       \* the affected requests of each log_worker_failure record

engineVars  == <<alive, running, pipeline, tracked, loops, up>>
monitorVars == <<pc, round, deadWorkers, failed, target, affected, pulling,
                 recoveries, snapshot>>
vars == <<localVars, engineVars, monitorVars>>

Batches == [requests : SUBSET Requests, sound : BOOLEAN]
Recoveries == [worker : Workers, request : Requests,
               path : {"migrate", "recompute"}, success : BOOLEAN]

Init ==
  /\ LocalInit
  /\ alive       = Workers
  /\ running     = Requests
  /\ pipeline    = <<>>
  /\ tracked     = [w \in Workers |-> {}]
  /\ loops       = TRUE
  /\ up          = TRUE
  /\ pc          = "sleep"
  /\ round       = {}
  /\ deadWorkers = {}
  /\ failed      = None
  /\ target      = None
  /\ affected    = {}
  /\ pulling     = {}
  /\ recoveries  = <<>>
  /\ snapshot    = [w \in Workers |-> {}]

(***************************************************************************)
(* Workers and the step loop                                               *)
(***************************************************************************)
LastWorker == NumWorkers - 1
InPipeline == UNION {pipeline[i].requests : i \in DOMAIN pipeline}

WorkerDies(w) ==
  /\ up
  /\ w \in alive
  /\ alive' = alive \ {w}
  /\ UNCHANGED <<localVars, monitorVars, running, pipeline, tracked, loops, up>>

(* _step pushes a batch: every worker is charged with all of its requests. *)
(* A batch that is pushed to a pipeline with a dead worker never returns.  *)
StepBegins(batch) ==
  /\ up /\ loops
  /\ Len(pipeline) < NumWorkers
  /\ batch \subseteq running \ InPipeline
  /\ batch # {}
  /\ pipeline' = Append(pipeline, [requests |-> batch, sound |-> alive = Workers])
  /\ tracked'  = [w \in Workers |-> tracked[w] \cup batch]
  /\ UNCHANGED <<localVars, monitorVars, alive, running, loops, up>>

(* mutant: only the workers that are alive forget the finished requests *)
MutUncharge(finished) == [w \in Workers |-> IF w \in deadWorkers THEN tracked[w]
                                            ELSE tracked[w] \ finished]

(* Finished requests are discarded from the sets of all workers. *)
Uncharge(finished) == [w \in Workers |-> tracked[w] \ finished]

(* _step after its await: the oldest batch returns, and some requests of it*)
(* finish.  With empty batches behind it, it need not find the pipeline    *)
(* full of batches that are not.                                           *)
StepReturns(finished) ==
  /\ up /\ loops
  /\ pipeline # <<>>
  /\ Head(pipeline).sound
  /\ finished \subseteq Head(pipeline).requests
  /\ pipeline' = Tail(pipeline)
  /\ running'  = running \ finished
  /\ tracked'  = Uncharge(finished)
  /\ UNCHANGED <<localVars, monitorVars, alive, loops, up>>

(* The future that _step awaits is one of the last stage's worker: if that *)
(* is dead it raises, and the gathered event loops end.                    *)
StepRaises ==
  /\ up /\ loops
  /\ pipeline # <<>>
  /\ LastWorker \notin alive
  /\ loops' = FALSE
  /\ UNCHANGED <<localVars, monitorVars, alive, running, pipeline, tracked, up>>

(* Whoever awaits the event loops may then end the process, as the API     *)
(* server does.                                                            *)
ProcessExits ==
  /\ up /\ ~loops
  /\ up' = FALSE
  /\ UNCHANGED <<localVars, monitorVars, alive, running, pipeline, tracked, loops>>

Engine ==
  \/ \E w \in Workers : WorkerDies(w)
  \/ \E batch \in SUBSET Requests : StepBegins(batch) \/ StepReturns(batch)
  \/ StepRaises
  \/ ProcessExits

(***************************************************************************)
(* The monitor                                                             *)
(***************************************************************************)
Pinged == CHOOSE w \in round : \A v \in round : w <= v

(* mutant: workers that are known to be dead are pinged again *)
MutToPing(workers, dead) == workers

(* The loop skips the workers that are known to be dead. *)
ToPing(workers, dead) == workers \ dead

(* On to the next worker of the round, or to sleep; the local variables of *)
(* the handlers are gone.                                                  *)
NextWorker(dead) ==
  /\ failed' = None /\ target' = None /\ pulling' = {}
  /\ round' = ToPing(round \ {Pinged}, dead)
  /\ pc' = IF round' = {} THEN "sleep" ELSE "ping"

(* mutant: the monitor ends with the other event loops *)
MutMonitorRuns == up /\ BuiltInLoop /\ loops

(* The monitor task runs if its loop does: asyncio.ensure_future, called   *)
(* outside of any running loop, ties it to a loop of its own, and          *)
(* asyncio.run starts another one.                                         *)
MonitorRuns == up /\ BuiltInLoop

Tick ==
  /\ MonitorRuns
  /\ pc = "sleep"
  /\ round' = ToPing(Workers, deadWorkers)
  /\ pc' = IF round' = {} THEN "sleep" ELSE "ping"
  /\ UNCHANGED <<localVars, engineVars, deadWorkers, failed, target, affected, pulling,
                 recoveries, snapshot>>

(* ping returns, or fails in another way than with a RayActorError. *)
PingReturns ==
  /\ MonitorRuns
  /\ pc = "ping"
  /\ Pinged \in alive
  /\ NextWorker(deadWorkers)
  /\ UNCHANGED <<localVars, engineVars, deadWorkers, affected, recoveries, snapshot>>

(* _handle_decode_worker_failure up to its first await.  The calls to the  *)
(* scheduler arrive in order, so the target is found after the worker was  *)
(* removed; without the actor there is no target and nothing to wait for.  *)
PingFails ==
  /\ MonitorRuns
  /\ pc = "ping"
  /\ Pinged \notin alive
  /\ deadWorkers' = deadWorkers \cup {Pinged}
  /\ affected'    = tracked[Pinged]
  /\ snapshot'    = [snapshot EXCEPT ![Pinged] = @ \cup tracked[Pinged]]
  /\ candidates'  = Deregister(Pinged)
  /\ \/ /\ tracked[Pinged] = {}
        /\ NextWorker(deadWorkers')
     \/ /\ tracked[Pinged] # {}
        /\ failed' = Pinged
        /\ target' = BestDecodeWorker(candidates', {Pinged})
        /\ pc' = IF schedulerUp THEN "target" ELSE "bandwidth"
        /\ UNCHANGED <<round, pulling>>
  /\ UNCHANGED <<engineVars, estimate, measured, fresh, schedulerUp, recoveries>>

(* The answer arrives, or an exception if the actor died first. *)
TargetArrives ==
  /\ MonitorRuns
  /\ pc = "target"
  /\ target' \in {target} \cup (IF schedulerUp THEN {} ELSE {None})
  /\ pc' = "bandwidth"
  /\ UNCHANGED <<localVars, engineVars, round, deadWorkers, failed, affected, pulling,
                 recoveries, snapshot>>

(* mutant: a failed recovery ends the loop over the affected requests *)
MutAfter(r) == {}

(* The requests that are still to be recovered after r. *)
After(r) == affected \ {r}

(* The end of _recover_one_request: an exception of the recovery is only   *)
(* logged, and the loop over the affected requests goes on.                *)
Log(r, path, success) ==
  /\ recoveries' = Append(recoveries, [worker |-> failed, request |-> r,
                                       path |-> path, success |-> success])
  /\ affected' = After(r)
  /\ \/ /\ affected' = {}
        /\ NextWorker(deadWorkers)
     \/ /\ affected' # {}
        /\ pc' = "bandwidth"
        /\ pulling' = {}
        /\ UNCHANGED <<round, failed, target>>

(* _prompt_len_map.get(request_id, 0); generate() removes the entry when it*)
(* has seen the last output, some time after the request has finished.     *)
PromptLens(r) == IF r \in running THEN {PromptLen[r]} ELSE {0, PromptLen[r]}

(* The bandwidth arrives, for a request r: the decision is made.  Migrating*)
(* needs a target, and asserts that r still has a block table; recomputing *)
(* calls recover_via_recompute, which no class defines.                    *)
BandwidthArrives(r) ==
  /\ MonitorRuns
  /\ pc = "bandwidth"
  /\ r \in affected
  /\ \E len \in PromptLens(r) :
       LET migrate == /\ MakeDecision(len, GetBandwidth, RomConfig) = "migrate"
                      /\ target # None
       IN \/ /\ migrate /\ r \in running
             /\ pc' = "pull"
             /\ pulling' = {r}
             /\ UNCHANGED <<round, failed, target, affected, recoveries>>
          \/ migrate /\ r \notin running /\ Log(r, "migrate", FALSE)
          \/ ~migrate /\ Log(r, "recompute", FALSE)
  /\ UNCHANGED <<localVars, engineVars, deadWorkers, snapshot>>

(* pull_kv_blocks_for_request always raises: the target is dead, or all    *)
(* sources are, or there are none, or the first source that is alive is    *)
(* asked, and _call_migrate_blocks hands migrate_blocks arguments that are *)
(* not its own.                                                            *)
PullFails ==
  /\ MonitorRuns
  /\ pc = "pull"
  /\ \E r \in pulling : Log(r, "migrate", FALSE)
  /\ UNCHANGED <<localVars, engineVars, deadWorkers, snapshot>>

Monitor ==
  \/ Tick
  \/ PingReturns
  \/ PingFails
  \/ TargetArrives
  \/ \E r \in Requests : BandwidthArrives(r)
  \/ PullFails

LocalStep == up /\ Local /\ UNCHANGED <<engineVars, monitorVars>>

Next == LocalStep \/ Engine \/ Monitor

(* The monitor task is run when it can run, and the calls it awaits are    *)
(* answered or fail.                                                       *)
Spec == Init /\ [][Next]_vars /\ WF_vars(Monitor)

-----------------------------------------------------------------------------

EngineTypeOK ==
  /\ alive \subseteq Workers
  /\ running \subseteq Requests
  /\ pipeline \in Seq(Batches) /\ Len(pipeline) <= NumWorkers
  /\ tracked \in [Workers -> SUBSET Requests]
  /\ loops \in BOOLEAN /\ up \in BOOLEAN

MonitorTypeOK ==
  /\ pc \in {"sleep", "ping", "target", "bandwidth", "pull"}
  /\ round \subseteq Workers
  /\ deadWorkers \subseteq Workers
  /\ failed \in Workers \cup {None}
  /\ target \in Workers \cup {None}
  /\ affected \subseteq Requests
  /\ pulling \subseteq affected
  /\ pc = "ping" => round # {}
  /\ pc \in {"target", "bandwidth", "pull"} => affected # {}
  /\ recoveries \in Seq(Recoveries)
  /\ snapshot \in [Workers -> SUBSET Requests]

TypeOK == LocalTypeOK /\ EngineTypeOK /\ MonitorTypeOK

(* A recovery is never directed to a worker that the monitor knows to be   *)
(* dead, although the target is chosen once, by another process, and only  *)
(* the worker that failed last is excluded in the call.                    *)
TargetNotKnownDead == pc \in {"bandwidth", "pull"} => target \notin deadWorkers

(* The average stays between the lowest and the highest of what has been   *)
(* measured or configured.                                                 *)
EstimateWithinMeasurements ==
  LET values == Measurements \cup {SimBandwidth}
  IN \A low, high \in values :
       (\A b \in values : low <= b /\ b <= high) =>
         AtMost(Fraction(low, 1), estimate) /\ AtMost(estimate, Fraction(high, 1))

(* Every worker is charged with the requests in the pipeline, and none with*)
(* one that has finished: the failure of any of them affects exactly the   *)
(* requests that were begun and have not finished.                         *)
ChargedWithRunning ==
  \A w \in Workers : InPipeline \subseteq tracked[w] /\ tracked[w] \subseteq running

(* The failure of one worker leads to at most one recovery per request.    *)
OneRecoveryPerFailure ==
  \A i, j \in DOMAIN recoveries :
    /\ recoveries[i].worker = recoveries[j].worker
    /\ recoveries[i].request = recoveries[j].request
    => i = j

(* When the monitor sleeps, every request that a failure affected has had  *)
(* its recovery, however the recoveries before it ended.                   *)
EveryAffectedIsTried ==
  pc = "sleep" =>
    \A w \in deadWorkers : \A r \in snapshot[w] :
      \E i \in DOMAIN recoveries : recoveries[i].worker = w /\ recoveries[i].request = r

(* A dead worker is noticed unless the process ends.  The endpoint         *)
(* POST /v1/rom/recover calls this the normal operation                    *)
(* (src/distserve/api_server/distserve_api_server.py:209-210).             *)
DeathIsDetected ==
  \A w \in Workers : w \notin alive ~> w \in deadWorkers \/ ~up
=============================================================================
