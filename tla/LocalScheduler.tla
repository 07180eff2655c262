--------------------------- MODULE LocalScheduler ---------------------------
(***************************************************************************)
(* The Ray actor LocalScheduler (src/distserve/rom_local_scheduler.py), as *)
(* LLMEngine and DecodingStageLLMEngine use it: an average of the measured *)
(* bandwidth, and the workers a recovery may move requests to.  An actor   *)
(* runs one method at a time, and all its callers live in the engine's     *)
(* process, so calls take effect in the order in which they are made.      *)
(*                                                                         *)
(* Queue lengths are left out: they are all 0 for ever.  The only caller   *)
(* of update_queue_length, the end of DecodingStageLLMEngine._step, asks   *)
(* its scheduler for a method that the scheduler does not have, and drops  *)
(* the exception (src/distserve/single_stage_engine.py:891-905).           *)
(***************************************************************************)
EXTENDS RomDecision, Sequences, FiniteSets

CONSTANTS
  NumWorkers,        \* decoding workers, one per pipeline stage: 0 .. NumWorkers - 1
  SimBandwidth,      \* rom_config.sim_bandwidth_mbps
  Measurements,      \* what _probe_bandwidth may measure
  MaxMeasurements    \* bound on the number of probes

ASSUME SchedulerAssumption ==
  /\ NumWorkers \in Nat \ {0}
  /\ SimBandwidth \in Nat \ {0}
  /\ Measurements \subseteq Nat \ {0}
  /\ MaxMeasurements \in Nat

Workers == 0 .. NumWorkers - 1
None == NumWorkers                 \* no worker

VARIABLES
  estimate,          \* _bandwidth_mbps, exactly: [num, den]
  measured,          \* how often update_bandwidth was called
  fresh,             \* the last measurement is at most 60 s old
  candidates,        \* the keys of _queue_lengths
  schedulerUp        \* the actor can be found

localVars == <<estimate, measured, fresh, candidates, schedulerUp>>

(* After LLMEngine.initialize, which awaits every register_worker.         *)
LocalInit ==
  /\ estimate = Fraction(SimBandwidth, 1)
  /\ measured = 0
  /\ fresh = FALSE
  /\ candidates = Workers
  /\ schedulerUp = TRUE

(* mutant: the old average keeps its whole weight *)
MutAverage(m) == Fraction(m * estimate.den + 5 * estimate.num, 5 * estimate.den)

(* 0.2 * bandwidth_mbps + (1 - 0.2) * _bandwidth_mbps *)
Average(m) == Fraction(m * estimate.den + 4 * estimate.num, 5 * estimate.den)

(* _probe_bandwidth calls update_bandwidth. *)
UpdateBandwidth(m) ==
  /\ schedulerUp
  /\ measured < MaxMeasurements
  /\ estimate' = Average(m)
  /\ measured' = measured + 1
  /\ fresh' = TRUE
  /\ UNCHANGED <<candidates, schedulerUp>>

(* 60 seconds pass without a measurement. *)
MeasurementAges ==
  /\ fresh
  /\ fresh' = FALSE
  /\ UNCHANGED <<estimate, measured, candidates, schedulerUp>>

SchedulerDies ==
  /\ schedulerUp
  /\ schedulerUp' = FALSE
  /\ UNCHANGED <<estimate, measured, fresh, candidates>>

(* What a caller has of get_bandwidth: its own default if there is no actor. *)
GetBandwidth == IF schedulerUp /\ fresh THEN estimate ELSE Fraction(SimBandwidth, 1)

(* mutant: the failed worker stays among the candidates *)
MutDeregister(w) == candidates

(* deregister_worker *)
Deregister(w) == IF schedulerUp THEN candidates \ {w} ELSE candidates

(* get_best_decode_worker: among equal queue lengths the worker registered *)
(* first, and workers are registered in the order of their rank.           *)
BestDecodeWorker(registered, exclude) ==
  IF ~schedulerUp \/ registered \subseteq exclude THEN None
  ELSE CHOOSE w \in registered \ exclude : \A v \in registered \ exclude : w <= v

Local == \/ \E m \in Measurements : UpdateBandwidth(m)
         \/ MeasurementAges
         \/ SchedulerDies

LocalTypeOK ==
  /\ estimate \in [num : Nat, den : Nat \ {0}]
  /\ measured \in 0 .. MaxMeasurements
  /\ fresh \in BOOLEAN /\ schedulerUp \in BOOLEAN
  /\ candidates \subseteq Workers
=============================================================================
