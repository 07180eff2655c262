----------------------------- MODULE GridSearch -----------------------------
(***************************************************************************)
(* The serial grid search in src/simdistserve/benchmarks/simulate_dist.py: *)
(* one simulation after the other over a grid of rates and parallelisms,   *)
(* from the lowest rate up, without those that cannot be better than what  *)
(* was found already.                                                      *)
(*                                                                         *)
(* Goodputs are fractions, compared by cross-multiplication.  A simulation *)
(* contains the latencies it should or does not, or it raises, which ends  *)
(* the whole search.                                                       *)
(***************************************************************************)
EXTENDS Naturals, Sequences

CONSTANTS Sizes,     \* the sizes of pipelines and of tensor parallelism, increasing
          TopRate,   \* rates go from 1 to it
          MaxGpus    \* configurations of more GPUs are left out

ASSUME GridAssumption ==
  /\ Sizes \in Seq(Nat \ {0}) /\ Len(Sizes) > 0
  /\ TopRate \in Nat \ {0} /\ MaxGpus \in Nat \ {0}

VARIABLES
  position,    \* of the configuration that comes next
  bestConfig,  \* best_config, or NoConfig
  gridState,   \* "running", "returned" or "raised"
  contained,   \* history: positions whose simulation contained its latencies
  exceeded     \* history: positions whose simulation did not

gridVars == <<position, bestConfig, gridState, contained, exceeded>>

(* config_list, the last index running fastest *)
GridSize == TopRate * Len(Sizes) * Len(Sizes) * Len(Sizes) * Len(Sizes)
Grid == [i \in 1 .. GridSize |->
  LET k == Len(Sizes)
      digit(d) == Sizes[(((i - 1) \div d) % k) + 1]
  IN  [rate |-> ((i - 1) \div (k * k * k * k)) + 1,
       ppPrefill |-> digit(k * k * k), ppDecode |-> digit(k * k),
       tpPrefill |-> digit(k), tpDecode |-> digit(1)]]

NoConfig == [rate |-> 0, ppPrefill |-> 1, ppDecode |-> 1, tpPrefill |-> 1, tpDecode |-> 1]
GridGpus(c) == c.ppPrefill * c.tpPrefill + c.ppDecode * c.tpDecode

(* The goodput of c, its rate per GPU, is less than that of d.             *)
Worse(c, d) == c.rate * GridGpus(d) < d.rate * GridGpus(c)

Config  == Grid[position]
InLoop  == gridState = "running" /\ position <= GridSize
Skips   == GridGpus(Config) > MaxGpus \/ Worse(Config, bestConfig)

GridInit ==
  /\ position = 1 /\ bestConfig = NoConfig /\ gridState = "running"
  /\ contained = {} /\ exceeded = {}

Skip ==
  /\ InLoop /\ Skips
  /\ position' = position + 1
  /\ UNCHANGED <<bestConfig, gridState, contained, exceeded>>

Contained ==
  /\ InLoop /\ ~Skips
  /\ position' = position + 1
  /\ contained' = contained \cup {position}
  /\ bestConfig' = IF Worse(bestConfig, Config) THEN Config ELSE bestConfig
  /\ UNCHANGED <<gridState, exceeded>>

(* Mutant: no `break` when the latencies are not contained. *)
ExceededFallsThrough ==
  /\ InLoop /\ ~Skips
  /\ position' = position + 1
  /\ exceeded' = exceeded \cup {position}
  /\ bestConfig' = IF Worse(bestConfig, Config) THEN Config ELSE bestConfig
  /\ UNCHANGED <<gridState, contained>>

Exceeded ==
  /\ InLoop /\ ~Skips
  /\ position' = position + 1
  /\ exceeded' = exceeded \cup {position}
  /\ UNCHANGED <<bestConfig, gridState, contained>>

(* main raises for a configuration the model was not profiled for. *)
SimulationRaises ==
  /\ InLoop /\ ~Skips
  /\ gridState' = "raised"
  /\ UNCHANGED <<position, bestConfig, contained, exceeded>>

(* The summary; there is none without a best configuration. *)
Summary ==
  /\ gridState = "running" /\ position > GridSize
  /\ gridState' = IF bestConfig = NoConfig THEN "raised" ELSE "returned"
  /\ UNCHANGED <<position, bestConfig, contained, exceeded>>

GridNext == Skip \/ Contained \/ Exceeded \/ SimulationRaises \/ Summary
GridSpec == GridInit /\ [][GridNext]_gridVars

-----------------------------------------------------------------------------
GridTypeOK ==
  /\ position \in 1 .. GridSize + 1 /\ gridState \in {"running", "returned", "raised"}
  /\ bestConfig \in {NoConfig} \cup {Grid[i] : i \in 1 .. GridSize}
  /\ contained \cup exceeded \subseteq 1 .. position - 1 /\ contained \cap exceeded = {}

(* The configuration that the grid search reports contained its latencies, *)
(* no other one that did is better, and every better one within the limit  *)
(* was simulated and did not: the pruning loses nothing.                   *)
ReportIsBest ==
  /\ GridTypeOK
  /\ gridState = "returned" =>
       /\ \E i \in contained : bestConfig = Grid[i]
       /\ \A i \in 1 .. GridSize :
            GridGpus(Grid[i]) <= MaxGpus /\ Worse(bestConfig, Grid[i]) => i \in exceeded
=============================================================================
