---------------------------- MODULE MCSimulator -----------------------------
(***************************************************************************)
(* The simulator on small instances: SimWorker, then what searches for the *)
(* best configuration with it, Search and GridSearch.  An experiment of a  *)
(* search sees nothing of its simulation but how it ended.                 *)
(***************************************************************************)
EXTENDS SimWorker, Search, GridSearch

(* Four requests: two or three prompts fit one prefill batch of four       *)
(* tokens; one fills it, one wants no output, one wants two rounds.        *)
Prompts == <<2, 1, 3, 4>>
Outputs == <<1, 0, 2, 1>>

Disagg(chunked, prefillPP, prefillInstances, decodePP, decodeInstances) ==
  [backend |-> "distserve", chunked |-> chunked,
   instances |-> [prefill |-> prefillInstances, decode |-> decodeInstances],
   pp |-> [prefill |-> prefillPP, decode |-> decodePP]]
VLLM(chunked, pp) ==
  [backend |-> "vllm", chunked |-> chunked,
   instances |-> [both |-> 1], pp |-> [both |-> pp]]

Clusters ==
  {Disagg(FALSE, 2, 1, 2, 1), Disagg(FALSE, 1, 2, 1, 2), Disagg(TRUE, 2, 1, 1, 1),
   VLLM(FALSE, 1), VLLM(FALSE, 2), VLLM(TRUE, 2)}

Setting(driver, backend, nodes, gpus, highAffinity, cpus) ==
  [driver |-> driver, backend |-> backend, nodes |-> nodes, gpus |-> gpus,
   high |-> highAffinity, cpus |-> cpus]

(* No entry for two ranks without a pipeline. *)
SomeProfiled == {<<1, 1>>, <<1, 2>>, <<2, 2>>}

(* Two low-affinity configurations, three of vllm, one of high affinity,   *)
(* with room for one or two processes at a time; pools without room, the   *)
(* last two for what is enumerated on larger clusters.                     *)
SmallSettings ==
  {Setting("parallel_bisect", "distserve", 2, 2, FALSE, 3),
   Setting("parallel_bisect", "vllm", 1, 2, TRUE, 4),
   Setting("parallel_bisect", "distserve", 1, 2, TRUE, 2),
   Setting("serial_bisect", "distserve", 1, 2, TRUE, 1),
   Setting("serial_bisect", "vllm", 1, 2, TRUE, 1),
   Setting("simulate_multi", "distserve", 1, 3, TRUE, 3),
   Setting("simulate_multi", "distserve", 1, 2, TRUE, 1),
   Setting("parallel_bisect", "distserve", 2, 4, FALSE, 2),
   Setting("parallel_bisect", "distserve", 4, 8, FALSE, 1)}

TwoSizes == <<1, 2>>

-----------------------------------------------------------------------------
(* The three share no state, so one of them varies at a time: every        *)
(* cluster is simulated beside a setting in which no process is ever       *)
(* started, and the searches run when the smallest one has been, in that   *)
(* setting the grid.  Every variant of a search follows the whole of one   *)
(* simulation, and no step of any is left out.                             *)
NoProcess == Setting("parallel_bisect", "distserve", 1, 2, TRUE, 2)
Smallest  == VLLM(FALSE, 1)

SimulatorInit ==
  /\ SimInit /\ Init /\ GridInit
  /\ config = Smallest \/ setting = NoProcess

Simulated == config = Smallest /\ arrived = N /\ control = NoWorker
               /\ \A w \in DOMAIN pc : pc[w] = "asleep"

SimulatorNext ==
  \/ SimNext /\ UNCHANGED <<vars, gridVars>>
  \/ Simulated /\ Next /\ UNCHANGED <<simVars, gridVars>>
  \/ Simulated /\ setting = NoProcess /\ GridNext /\ UNCHANGED <<simVars, vars>>

SearchFairness ==
  /\ WF_vars(Simulated /\ DriverStep)
  /\ \A j \in UNION {Jobs(s) : s \in Settings} :
       WF_vars(Simulated /\ j \in JobSet /\ ExperimentEnds(j))

SimulatorSpec ==
  SimulatorInit /\ [][SimulatorNext]_<<simVars, vars, gridVars>> /\ SimFairness /\ SearchFairness
=============================================================================
