------------------------------- MODULE Search -------------------------------
(***************************************************************************)
(* The search for the best simulated configuration, src/simdistserve:      *)
(* which configurations are tried (benchmarks/search_configs.py), the      *)
(* bisection of the request rate one process does for each                 *)
(* (benchmarks/search_binary.py), and the drivers: serial_bisect.py, one   *)
(* bisection after the other, and two that keep a bounded pool of          *)
(* processes, parallel_bisect.py, which collects the results, and          *)
(* simulate_multi.py, which runs one command per configuration and rate.   *)
(*                                                                         *)
(* Rates are counted in a unit that makes every bound of a bisection a     *)
(* whole number.  An experiment (a whole simulation, SimWorker) is         *)
(* abstracted to how it ends: the targets are met or not, it raises, or it *)
(* never returns.  A setting is what the search is asked for.              *)
(***************************************************************************)
EXTENDS Integers, Sequences, FiniteSets

CONSTANTS
  Layers, Heads,   \* model_hyperparams of the model
  MaxRate,         \* max_per_gpu_rate
  Esp,             \* the tolerance of the bisection
  Settings,        \* records [driver, backend, nodes, gpus, high, cpus]
  MultiRates,      \* --per-gpu-rate of simulate_multi
  Profiled         \* the (tp, pp) with an entry in max_num_tokens.csv

Positive == Nat \ {0}
Drivers  == {"serial_bisect", "parallel_bisect", "simulate_multi"}

ASSUME SearchAssumption ==
  /\ {Layers, Heads, MaxRate, Esp} \subseteq Positive
  /\ MultiRates \subseteq Positive /\ Profiled \subseteq Positive \X Positive
  /\ \A s \in Settings :
       /\ s.driver \in Drivers /\ s.backend \in {"distserve", "vllm"}
       /\ s.nodes \in Positive /\ s.gpus \in Positive /\ s.cpus \in Positive
       /\ s.high \in BOOLEAN

-----------------------------------------------------------------------------
(* get_model_possible_tp, get_model_possible_pp: the divisors.             *)
PossibleTP == {tp \in 1 .. Heads : Heads % tp = 0}
PossiblePP == {pp \in 1 .. Layers : Layers % pp = 0}

(* num_gpu of run_binary_search: c is (pp_cross, tp_prefill, pp_prefill,   *)
(* tp_decode, pp_decode).                                                  *)
GpuPerSegment(c) == c[2] * c[3] + c[4] * c[5]
NumGpu(c)        == c[1] * GpuPerSegment(c)

GetDistserveConfigs(nodes, gpus, high) ==
  LET total == nodes * gpus
      limit == IF high THEN total ELSE gpus
      tps   == {tp \in PossibleTP : tp <= limit}
      pps   == {pp \in PossiblePP : pp <= limit}
      cpps  == IF high THEN {1} ELSE {pp \in PossiblePP : pp <= nodes}
  IN  {c \in cpps \X tps \X pps \X tps \X pps :
         /\ high \/ GpuPerSegment(c) <= gpus
         /\ NumGpu(c) <= total
         /\ c[1] * c[3] \in PossiblePP
         /\ c[1] * c[5] \in PossiblePP}

GetVllmConfig(total) == {c \in PossibleTP \X PossiblePP : c[1] * c[2] <= total}

(* The commands of simulate_multi: a configuration that fits and a rate.   *)
Commands(total) ==
  {c \in PossibleTP \X PossiblePP \X PossibleTP \X PossiblePP \X MultiRates :
     c[1] * c[2] + c[3] * c[4] <= total}

Jobs(s) ==
  IF s.driver = "simulate_multi" THEN Commands(s.nodes * s.gpus)
  ELSE IF s.backend = "vllm" THEN GetVllmConfig(s.nodes * s.gpus)
  ELSE GetDistserveConfigs(s.nodes, s.gpus, s.high)

(* is_model_runnable for the prefill workers, and the look-up of the decode
   workers' limit: run_experiment raises for a stage without an entry. *)
Runnable(s, c) ==
  IF s.backend = "vllm" THEN c \in Profiled
  ELSE {<<c[2], c[1] * c[3]>>, <<c[4], c[1] * c[5]>>} \subseteq Profiled

(* MAX_CPU_COUNT and MAX_CONCURRENT_PROCS: neither is bounded below.       *)
AtMost32(n) == IF n < 32 THEN n ELSE 32
MaxProcs(s) == CASE s.driver = "serial_bisect"   -> 1
                 [] s.driver = "parallel_bisect" -> AtMost32(s.cpus - 2)
                 [] s.driver = "simulate_multi"  -> AtMost32(s.cpus) - 1

-----------------------------------------------------------------------------
VARIABLES
  setting,
  main,        \* "running" or "returned"
  processes,   \* the drivers' list of started processes, as a set
  proc,        \* job -> "new", "running", "stuck" or "ended"
  low, high,   \* the bounds of each job's bisection
  best,        \* best_per_gpu_rate
  met, missed, \* job -> rates whose experiment met, or missed, the targets
  raised,      \* jobs whose experiment raised
  result       \* job -> the rate returned (serial_bisect drops it), or NoResult

searchVars == <<low, high, best, met, missed, raised, result>>
vars == <<setting, main, processes, proc, searchVars>>

NoResult == -1
Rates    == 0 .. MaxRate
JobSet   == Jobs(setting)

-----------------------------------------------------------------------------
(* Mutant: a process is joined but stays in the list. *)
ReapNothing(j) ==
  /\ main = "running" /\ \E k \in JobSet : proc[k] = "new"
  /\ Cardinality(processes) >= MaxProcs(setting)
  /\ j \in processes /\ proc[j] = "ended"
  /\ UNCHANGED vars

(* Mutant: nobody waits for the last processes. *)
ReturnAtOnce ==
  /\ main = "running" /\ \A j \in JobSet : proc[j] # "new"
  /\ main' = "returned"
  /\ UNCHANGED <<setting, processes, proc, searchVars>>

(* The drivers.  The order of the jobs is that of itertools.product; any   *)
(* order stands for it.                                                    *)

Spawn(j) ==
  /\ main = "running" /\ proc[j] = "new"
  /\ Cardinality(processes) < MaxProcs(setting)
  /\ processes' = processes \cup {j}
  /\ proc' = [proc EXCEPT ![j] = "running"]
  /\ UNCHANGED <<setting, main, searchVars>>

(* The list is full and a job is left: one that has ended is taken out.    *)
(* The scan goes on while processes end, so it may be any of them.         *)
Reap(j) ==
  /\ main = "running" /\ \E k \in JobSet : proc[k] = "new"
  /\ Cardinality(processes) >= MaxProcs(setting)
  /\ j \in processes /\ proc[j] = "ended"
  /\ processes' = processes \ {j}
  /\ UNCHANGED <<setting, main, proc, searchVars>>

(* Once every job is started parallel_bisect joins the processes that are  *)
(* left; simulate_multi prints that all is done.  serial_bisect's calls    *)
(* are over when they return.                                              *)
Return ==
  /\ main = "running" /\ \A j \in JobSet : proc[j] # "new"
  /\ setting.driver # "simulate_multi" => \A j \in processes : proc[j] = "ended"
  /\ main' = "returned"
  /\ UNCHANGED <<setting, processes, proc, searchVars>>

-----------------------------------------------------------------------------
(* run_binary_search, one process or call per job *)

ThisRate(j) == (low[j] + high[j]) \div 2
Searching(j) ==
  proc[j] = "running" /\ setting.driver # "simulate_multi" /\ high[j] - low[j] > Esp

TargetsMet(j) ==
  /\ Searching(j) /\ Runnable(setting, j)
  /\ low' = [low EXCEPT ![j] = ThisRate(j)]
  /\ best' = [best EXCEPT ![j] = ThisRate(j)]
  /\ met' = [met EXCEPT ![j] = @ \cup {ThisRate(j)}]
  /\ UNCHANGED <<setting, main, processes, proc, high, missed, raised, result>>

(* Mutant: no `continue` after a failure. *)
TargetsMissedFallsThrough(j) ==
  /\ Searching(j) /\ Runnable(setting, j)
  /\ high' = [high EXCEPT ![j] = ThisRate(j)]
  /\ best' = [best EXCEPT ![j] = ThisRate(j)]
  /\ missed' = [missed EXCEPT ![j] = @ \cup {ThisRate(j)}]
  /\ UNCHANGED <<setting, main, processes, proc, low, met, raised, result>>

TargetsMissed(j) ==
  /\ Searching(j) /\ Runnable(setting, j)
  /\ high' = [high EXCEPT ![j] = ThisRate(j)]
  /\ missed' = [missed EXCEPT ![j] = @ \cup {ThisRate(j)}]
  /\ UNCHANGED <<setting, main, processes, proc, low, best, met, raised, result>>

(* "This may not be a real error": None is returned, and the configuration *)
(* gets no result.                                                         *)
Raises(j) ==
  /\ Searching(j)
  /\ proc' = [proc EXCEPT ![j] = "ended"] /\ raised' = raised \cup {j}
  /\ UNCHANGED <<setting, main, processes, low, high, best, met, missed, result>>

(* A prompt of the workload is longer than a prefill batch of this         *)
(* configuration: env.run() never returns.                                 *)
Hangs(j) ==
  /\ Searching(j) /\ Runnable(setting, j)
  /\ proc' = [proc EXCEPT ![j] = "stuck"]
  /\ UNCHANGED <<setting, main, processes, searchVars>>

Found(j) ==
  /\ proc[j] = "running" /\ setting.driver # "simulate_multi"
  /\ ~(high[j] - low[j] > Esp)
  /\ result' = [result EXCEPT ![j] = best[j]]
  /\ proc' = [proc EXCEPT ![j] = "ended"]
  /\ UNCHANGED <<setting, main, processes, low, high, best, met, missed, raised>>

(* A command of simulate_multi runs one simulation. *)
CommandEnds(j) ==
  /\ proc[j] = "running" /\ setting.driver = "simulate_multi"
  /\ proc' = [proc EXCEPT ![j] = "ended"]
  /\ UNCHANGED <<setting, main, processes, searchVars>>

-----------------------------------------------------------------------------
Init ==
  /\ setting \in Settings
  /\ main = "running" /\ processes = {}
  /\ proc = [j \in JobSet |-> "new"]
  /\ low = [j \in JobSet |-> 0] /\ high = [j \in JobSet |-> MaxRate]
  /\ best = [j \in JobSet |-> 0]
  /\ met = [j \in JobSet |-> {}] /\ missed = [j \in JobSet |-> {}]
  /\ raised = {} /\ result = [j \in JobSet |-> NoResult]

DriverStep == Return \/ \E j \in JobSet : Spawn(j) \/ Reap(j)
ExperimentEnds(j) ==
  TargetsMet(j) \/ TargetsMissed(j) \/ Raises(j) \/ Found(j) \/ CommandEnds(j)

Next == DriverStep \/ \E j \in JobSet : ExperimentEnds(j) \/ Hangs(j)

(* The driver polls for ever; a process whose simulation ends goes on.     *)
Fairness ==
  /\ WF_vars(DriverStep)
  /\ \A j \in UNION {Jobs(s) : s \in Settings} : WF_vars(j \in JobSet /\ ExperimentEnds(j))

Spec == Init /\ [][Next]_vars /\ Fairness

-----------------------------------------------------------------------------
TypeOK ==
  /\ setting \in Settings /\ main \in {"running", "returned"}
  /\ processes \subseteq JobSet /\ raised \subseteq JobSet
  /\ proc \in [JobSet -> {"new", "running", "stuck", "ended"}]
  /\ low \in [JobSet -> Rates] /\ high \in [JobSet -> Rates] /\ best \in [JobSet -> Rates]
  /\ \A j \in JobSet : low[j] < high[j]
  /\ met \in [JobSet -> SUBSET Rates] /\ missed \in [JobSet -> SUBSET Rates]
  /\ result \in [JobSet -> Rates \cup {NoResult}]

(* The rate a search reports is 0 or one whose experiment met the targets, *)
(* and within the tolerance above it an experiment missed them or the      *)
(* range searched ends: no rate was reported that was not simulated, and   *)
(* no better one skipped (low, high and best of run_binary_search).  And   *)
(* nothing is reported of a configuration that cannot be simulated.        *)
ResultIsSharp ==
  \A j \in JobSet : result[j] # NoResult =>
     /\ MaxRate > Esp => Runnable(setting, j)
     /\ result[j] = 0 \/ result[j] \in met[j]
     /\ \E h \in missed[j] \cup {MaxRate} : h > result[j] /\ h <= result[j] + Esp

Running == {j \in JobSet : proc[j] \in {"running", "stuck"}}
(* No more processes run at a time than the pool has, and none with fewer  *)
(* processors than the drivers leave free: Spawn then waits for ever.  And *)
(* when a bisecting driver returns it has a rate for every configuration   *)
(* whose simulations did not raise: none is still running, none left out.  *)
PoolIsConsistent ==
  /\ TypeOK
  /\ Running \subseteq processes
  /\ Running # {} => Cardinality(processes) <= MaxProcs(setting)
  /\ main = "returned" /\ setting.driver # "simulate_multi" =>
       \A j \in JobSet : proc[j] = "ended" /\ (result[j] = NoResult <=> j \in raised)

(* The search returns, unless a simulation never ends or the pool has no   *)
(* room for a single process.                                              *)
SearchReturns ==
  <>(main = "returned" \/ MaxProcs(setting) <= 0 \/ \E j \in JobSet : proc[j] = "stuck")
=============================================================================
