--------------------------- MODULE Simulator_proofs ----------------------------
(***************************************************************************)
(* For every model, tolerance, setting and number of configurations: the   *)
(* rates that are reported are sharp, and the pools stay within their      *)
(* size and leave no configuration out.  The grid search loses nothing by  *)
(* the configurations it leaves out, for every grid, every limit and       *)
(* whatever the simulations say.  And for every set of clusters, every     *)
(* number of requests and all lengths: the workers of the simulator lose   *)
(* no wake-up and no request, break up no chunk, and log all the work.     *)
(***************************************************************************)
EXTENDS Search, GridSearch, SimWorker, QueueLemmas, FiniteSetTheorems, TLAPS

LEMMA Middle ==
  ASSUME NEW l \in Nat, NEW h \in Nat, NEW e \in Nat \ {0}, h - l > e
  PROVE  (l + h) \div 2 \in Nat /\ l < (l + h) \div 2 /\ (l + h) \div 2 < h
  OBVIOUS

LEMMA ConstantsType == MaxRate \in Nat \ {0} /\ Esp \in Nat \ {0} /\ MaxRate \in Rates /\ 0 \in Rates
  BY SearchAssumption DEF Positive, Rates

LEMMA MaxProcsType ==
  ASSUME setting \in Settings
  PROVE  MaxProcs(setting) \in Int
  <1>1. setting.cpus \in Int /\ setting.driver \in Drivers
    BY SearchAssumption DEF Positive
  <1>2. AtMost32(setting.cpus - 2) \in Int /\ AtMost32(setting.cpus) \in Int
    BY <1>1 DEF AtMost32
  <1>3. CASE setting.driver = "serial_bisect"
    BY <1>3 DEF MaxProcs
  <1>4. CASE setting.driver = "parallel_bisect"
    BY <1>2, <1>4 DEF MaxProcs
  <1>5. CASE setting.driver = "simulate_multi"
    BY <1>2, <1>5 DEF MaxProcs
  <1> QED BY <1>1, <1>3, <1>4, <1>5 DEF Drivers

(***************************************************************************)
(* The bisection.                                                          *)
(***************************************************************************)
BoundsTried ==
  \A j \in JobSet :
    /\ best[j] = low[j] /\ (low[j] = 0 \/ low[j] \in met[j])
    /\ high[j] \in missed[j] \cup {MaxRate}

TriedIsRunnable ==
  \A j \in JobSet :
    \/ Runnable(setting, j)
    \/ low[j] = 0 /\ high[j] = MaxRate

ResultsAreBest ==
  \A j \in JobSet : result[j] # NoResult =>
    proc[j] = "ended" /\ result[j] = best[j] /\ high[j] - low[j] <= Esp

(***************************************************************************)
(* The pool.                                                               *)
(***************************************************************************)
PoolIsBounded ==
  /\ IsFiniteSet(processes) /\ Running \subseteq processes
  /\ processes = {} \/ Cardinality(processes) <= MaxProcs(setting)

EndsOneWay ==
  setting.driver # "simulate_multi" =>
    \A j \in JobSet :
      IF proc[j] = "ended" THEN result[j] = NoResult <=> j \in raised
                           ELSE result[j] = NoResult /\ j \notin raised

AllEnded ==
  main = "returned" /\ setting.driver # "simulate_multi" => \A j \in JobSet : proc[j] = "ended"

Bisection == BoundsTried /\ TriedIsRunnable /\ ResultsAreBest
Pool      == PoolIsBounded /\ EndsOneWay /\ AllEnded
SearchIInv == TypeOK /\ Bisection /\ Pool

LEMMA InitSearchIInv == Init => SearchIInv
  <1> SUFFICES ASSUME Init PROVE SearchIInv
    OBVIOUS
  <1> USE DEF Init
  <1>1. TypeOK
    BY ConstantsType DEF TypeOK, NoResult
  <1>2. Bisection
    BY ConstantsType DEF Bisection, BoundsTried, TriedIsRunnable, ResultsAreBest
  <1>3. Pool
    <2>1. IsFiniteSet({})
      BY FS_EmptySet
    <2>2. Running = {}
      BY DEF Running
    <2> QED BY <2>1, <2>2 DEF Pool, PoolIsBounded, EndsOneWay, AllEnded
  <1> QED BY <1>1, <1>2, <1>3 DEF SearchIInv

(* Where the middle of a bisection that goes on is *)
LEMMA ThisRateType ==
  ASSUME TypeOK, NEW j \in JobSet, Searching(j)
  PROVE  /\ ThisRate(j) \in Rates /\ ThisRate(j) # 0
         /\ low[j] < ThisRate(j) /\ ThisRate(j) < high[j]
  <1>1. low[j] \in Rates /\ high[j] \in Rates /\ high[j] - low[j] > Esp
    BY DEF TypeOK, Searching
  <1> QED BY <1>1, Middle, ConstantsType DEF ThisRate, Rates

(* What a step that starts, ends and reaps nothing keeps of the pool *)
LEMMA PoolKept ==
  ASSUME Pool, UNCHANGED <<setting, main, processes, proc, raised, result>>
  PROVE  Pool'
  BY DEF Pool, PoolIsBounded, EndsOneWay, AllEnded, Running, JobSet

LEMMA BisectionKept ==
  ASSUME Bisection, UNCHANGED <<setting, proc, searchVars>>
  PROVE  Bisection'
  BY DEF Bisection, BoundsTried, TriedIsRunnable, ResultsAreBest, searchVars, JobSet

LEMMA TargetsMetIInv ==
  ASSUME SearchIInv, NEW j \in JobSet, TargetsMet(j)
  PROVE  SearchIInv'
  <1> USE DEF SearchIInv
  <1>1. JobSet' = JobSet /\ proc[j] = "running"
    BY DEF TargetsMet, JobSet, Searching
  <1>2. /\ ThisRate(j) \in Rates /\ ThisRate(j) < high[j]
    BY ThisRateType DEF TargetsMet
  <1>3. TypeOK'
    BY <1>1, <1>2 DEF TypeOK, TargetsMet
  <1>4. BoundsTried'
    BY <1>1 DEF TargetsMet, TypeOK, Bisection, BoundsTried
  <1>5. TriedIsRunnable'
    BY <1>1 DEF TargetsMet, TypeOK, Bisection, TriedIsRunnable
  <1>6. ResultsAreBest'
    BY <1>1 DEF TargetsMet, TypeOK, Bisection, ResultsAreBest
  <1>7. Pool'
    BY PoolKept DEF TargetsMet
  <1> QED BY <1>3, <1>4, <1>5, <1>6, <1>7 DEF Bisection

LEMMA TargetsMissedIInv ==
  ASSUME SearchIInv, NEW j \in JobSet, TargetsMissed(j)
  PROVE  SearchIInv'
  <1> USE DEF SearchIInv
  <1>1. JobSet' = JobSet /\ proc[j] = "running"
    BY DEF TargetsMissed, JobSet, Searching
  <1>2. /\ ThisRate(j) \in Rates /\ low[j] < ThisRate(j)
    BY ThisRateType DEF TargetsMissed
  <1>3. TypeOK'
    BY <1>1, <1>2 DEF TypeOK, TargetsMissed
  <1>4. BoundsTried'
    BY <1>1 DEF TargetsMissed, TypeOK, Bisection, BoundsTried
  <1>5. TriedIsRunnable'
    BY <1>1 DEF TargetsMissed, TypeOK, Bisection, TriedIsRunnable
  <1>6. ResultsAreBest'
    BY <1>1 DEF TargetsMissed, TypeOK, Bisection, ResultsAreBest
  <1>7. Pool'
    BY PoolKept DEF TargetsMissed
  <1> QED BY <1>3, <1>4, <1>5, <1>6, <1>7 DEF Bisection

(* A job that stops running: no other one changes, and none starts. *)
LEMMA Stops ==
  ASSUME SearchIInv, NEW j \in JobSet, NEW how \in {"ended", "stuck"}, proc[j] = "running",
         proc' = [proc EXCEPT ![j] = how], UNCHANGED <<setting, main, processes>>
  PROVE  /\ JobSet' = JobSet
         /\ proc' \in [JobSet -> {"new", "running", "stuck", "ended"}]
         /\ \A k \in JobSet : k # j => proc'[k] = proc[k]
         /\ proc'[j] = how
         /\ PoolIsBounded' /\ AllEnded'
  <1> USE DEF SearchIInv
  <1>1. JobSet' = JobSet
    BY DEF JobSet
  <1>2. proc \in [JobSet -> {"new", "running", "stuck", "ended"}]
    BY DEF TypeOK
  <1>3. /\ proc' \in [JobSet -> {"new", "running", "stuck", "ended"}]
        /\ \A k \in JobSet : k # j => proc'[k] = proc[k]
        /\ proc'[j] = how
    BY <1>2
  <1>4. Running' \subseteq Running
    BY <1>1, <1>3 DEF Running
  <1>5. PoolIsBounded'
    BY <1>4 DEF Pool, PoolIsBounded
  <1>6. AllEnded'
    BY <1>1 DEF Pool, AllEnded
  <1> QED BY <1>1, <1>3, <1>5, <1>6

LEMMA RaisesIInv ==
  ASSUME SearchIInv, NEW j \in JobSet, Raises(j)
  PROVE  SearchIInv'
  <1> USE DEF SearchIInv
  <1>0. /\ proc[j] = "running" /\ setting.driver # "simulate_multi"
        /\ result \in [JobSet -> Rates \cup {NoResult}]
    BY DEF Raises, Searching, TypeOK
  <1>1. /\ JobSet' = JobSet /\ PoolIsBounded' /\ AllEnded'
        /\ proc' \in [JobSet -> {"new", "running", "stuck", "ended"}]
        /\ \A k \in JobSet : k # j => proc'[k] = proc[k]
        /\ proc'[j] = "ended"
    BY <1>0, Stops DEF Raises
  <1>2. TypeOK'
    BY <1>1 DEF TypeOK, Raises
  <1>3. Bisection'
    <2>1. BoundsTried' /\ TriedIsRunnable'
      BY <1>1 DEF Raises, Bisection, BoundsTried, TriedIsRunnable
    <2>2. ResultsAreBest'
      BY <1>0, <1>1 DEF Raises, Bisection, ResultsAreBest
    <2> QED BY <2>1, <2>2 DEF Bisection
  <1>4. EndsOneWay'
    <2>1. result[j] = NoResult
      BY <1>0 DEF Pool, EndsOneWay
    <2> QED BY <1>0, <1>1, <2>1 DEF Raises, Pool, EndsOneWay
  <1> QED BY <1>1, <1>2, <1>3, <1>4 DEF Pool

LEMMA HangsIInv ==
  ASSUME SearchIInv, NEW j \in JobSet, Hangs(j)
  PROVE  SearchIInv'
  <1> USE DEF SearchIInv
  <1>0. proc[j] = "running"
    BY DEF Hangs, Searching
  <1>1. /\ JobSet' = JobSet /\ PoolIsBounded' /\ AllEnded'
        /\ proc' \in [JobSet -> {"new", "running", "stuck", "ended"}]
        /\ \A k \in JobSet : k # j => proc'[k] = proc[k]
        /\ proc'[j] = "stuck"
    BY <1>0, Stops DEF Hangs
  <1>2. TypeOK'
    BY <1>1 DEF TypeOK, Hangs, searchVars
  <1>3. Bisection'
    <2>1. BoundsTried' /\ TriedIsRunnable'
      BY <1>1 DEF Hangs, Bisection, BoundsTried, TriedIsRunnable, searchVars
    <2>2. ResultsAreBest'
      BY <1>0, <1>1 DEF Hangs, Bisection, ResultsAreBest, searchVars
    <2> QED BY <2>1, <2>2 DEF Bisection
  <1>4. EndsOneWay'
    BY <1>0, <1>1 DEF Hangs, Pool, EndsOneWay, searchVars
  <1> QED BY <1>1, <1>2, <1>3, <1>4 DEF Pool

LEMMA CommandEndsIInv ==
  ASSUME SearchIInv, NEW j \in JobSet, CommandEnds(j)
  PROVE  SearchIInv'
  <1> USE DEF SearchIInv
  <1>0. proc[j] = "running"
    BY DEF CommandEnds
  <1>1. /\ JobSet' = JobSet /\ PoolIsBounded' /\ AllEnded'
        /\ proc' \in [JobSet -> {"new", "running", "stuck", "ended"}]
        /\ \A k \in JobSet : k # j => proc'[k] = proc[k]
        /\ proc'[j] = "ended"
    BY <1>0, Stops DEF CommandEnds
  <1>2. TypeOK'
    BY <1>1 DEF TypeOK, CommandEnds, searchVars
  <1>3. Bisection'
    <2>1. BoundsTried' /\ TriedIsRunnable'
      BY <1>1 DEF CommandEnds, Bisection, BoundsTried, TriedIsRunnable, searchVars
    <2>2. ResultsAreBest'
      BY <1>0, <1>1 DEF CommandEnds, Bisection, ResultsAreBest, searchVars
    <2> QED BY <2>1, <2>2 DEF Bisection
  <1>4. EndsOneWay'
    BY DEF CommandEnds, EndsOneWay
  <1> QED BY <1>1, <1>2, <1>3, <1>4 DEF Pool

LEMMA FoundIInv ==
  ASSUME SearchIInv, NEW j \in JobSet, Found(j)
  PROVE  SearchIInv'
  <1> USE DEF SearchIInv
  <1>0. /\ proc[j] = "running" /\ setting.driver # "simulate_multi"
        /\ best[j] \in Rates /\ best[j] # NoResult
        /\ high[j] - low[j] <= Esp
        /\ result \in [JobSet -> Rates \cup {NoResult}]
    BY ConstantsType DEF Found, TypeOK, Rates, NoResult
  <1>1. /\ JobSet' = JobSet /\ PoolIsBounded' /\ AllEnded'
        /\ proc' \in [JobSet -> {"new", "running", "stuck", "ended"}]
        /\ \A k \in JobSet : k # j => proc'[k] = proc[k]
        /\ proc'[j] = "ended"
    BY <1>0, Stops DEF Found
  <1>2. /\ result' \in [JobSet -> Rates \cup {NoResult}]
        /\ \A k \in JobSet : k # j => result'[k] = result[k]
        /\ result'[j] = best[j]
    BY <1>0 DEF Found
  <1>3. TypeOK'
    BY <1>1, <1>2 DEF TypeOK, Found
  <1>4. BoundsTried' /\ TriedIsRunnable'
    BY <1>1 DEF Found, Bisection, BoundsTried, TriedIsRunnable
  <1>5. ResultsAreBest'
    BY <1>0, <1>1, <1>2 DEF Found, Bisection, ResultsAreBest
  <1>6. EndsOneWay'
    <2>1. j \notin raised
      BY <1>0 DEF Pool, EndsOneWay
    <2> QED BY <1>0, <1>1, <1>2, <2>1 DEF Found, Pool, EndsOneWay
  <1> QED BY <1>1, <1>3, <1>4, <1>5, <1>6 DEF Bisection, Pool

LEMMA SpawnIInv ==
  ASSUME SearchIInv, NEW j \in JobSet, Spawn(j)
  PROVE  SearchIInv'
  <1> USE DEF SearchIInv
  <1>1. /\ JobSet' = JobSet /\ proc[j] = "new"
        /\ proc' \in [JobSet -> {"new", "running", "stuck", "ended"}]
        /\ \A k \in JobSet : k # j => proc'[k] = proc[k]
        /\ proc'[j] = "running"
    BY DEF Spawn, JobSet, TypeOK
  <1>2. TypeOK'
    BY <1>1 DEF TypeOK, Spawn, searchVars
  <1>3. Bisection'
    <2>1. BoundsTried' /\ TriedIsRunnable'
      BY <1>1 DEF Spawn, Bisection, BoundsTried, TriedIsRunnable, searchVars
    <2>2. ResultsAreBest'
      BY <1>1 DEF Spawn, Bisection, ResultsAreBest, searchVars
    <2> QED BY <2>1, <2>2 DEF Bisection
  <1>4. PoolIsBounded'
    <2>1. IsFiniteSet(processes) /\ Cardinality(processes) \in Nat
      BY FS_CardinalityType DEF Pool, PoolIsBounded
    <2>2. /\ IsFiniteSet(processes \cup {j})
          /\ Cardinality(processes \cup {j}) \in Nat
          /\ Cardinality(processes \cup {j}) <= Cardinality(processes) + 1
      <3>1. IsFiniteSet(processes \cup {j})
        BY <2>1, FS_AddElement
      <3>2. Cardinality(processes \cup {j}) =
              IF j \in processes THEN Cardinality(processes) ELSE Cardinality(processes) + 1
        BY <2>1, FS_AddElement
      <3> QED BY <2>1, <3>1, <3>2
    <2>3. Cardinality(processes \cup {j}) <= MaxProcs(setting)
      <3>1. Cardinality(processes) < MaxProcs(setting) /\ MaxProcs(setting) \in Int
        BY MaxProcsType DEF Spawn, TypeOK
      <3> QED BY <2>1, <2>2, <3>1
    <2>4. Running' \subseteq processes \cup {j}
      BY <1>1 DEF Running, Pool, PoolIsBounded
    <2> QED BY <2>2, <2>3, <2>4 DEF Spawn, PoolIsBounded
  <1>5. EndsOneWay'
    BY <1>1 DEF Spawn, Pool, EndsOneWay, searchVars
  <1>6. AllEnded'
    BY DEF Spawn, AllEnded
  <1> QED BY <1>2, <1>3, <1>4, <1>5, <1>6 DEF Pool

LEMMA ReapIInv ==
  ASSUME SearchIInv, NEW j \in JobSet, Reap(j)
  PROVE  SearchIInv'
  <1> USE DEF SearchIInv
  <1>1. JobSet' = JobSet
    BY DEF Reap, JobSet
  <1>2. TypeOK'
    BY <1>1 DEF TypeOK, Reap, searchVars
  <1>3. Bisection'
    BY BisectionKept DEF Reap
  <1>4. PoolIsBounded'
    <2>1. IsFiniteSet(processes) /\ j \in processes /\ Running \subseteq processes
      BY DEF Reap, Pool, PoolIsBounded
    <2>2. /\ IsFiniteSet(processes \ {j})
          /\ Cardinality(processes \ {j}) = Cardinality(processes) - 1
      BY <2>1, FS_RemoveElement
    <2>3. Cardinality(processes \ {j}) <= MaxProcs(setting)
      <3>1. Cardinality(processes) \in Nat
        BY <2>1, FS_CardinalityType
      <3>2. MaxProcs(setting) \in Int /\ Cardinality(processes) <= MaxProcs(setting)
        BY <2>1, MaxProcsType DEF Pool, PoolIsBounded, TypeOK
      <3> QED BY <2>2, <3>1, <3>2
    <2>4. Running' \subseteq processes \ {j}
      BY <1>1, <2>1 DEF Reap, Running
    <2> QED BY <2>2, <2>3, <2>4 DEF Reap, PoolIsBounded
  <1>5. EndsOneWay' /\ AllEnded'
    BY <1>1 DEF Reap, Pool, EndsOneWay, AllEnded, searchVars
  <1> QED BY <1>2, <1>3, <1>4, <1>5 DEF Pool

LEMMA ReturnIInv ==
  ASSUME SearchIInv, Return
  PROVE  SearchIInv'
  <1> USE DEF SearchIInv
  <1>1. JobSet' = JobSet
    BY DEF Return, JobSet
  <1>2. TypeOK'
    BY <1>1 DEF TypeOK, Return, searchVars
  <1>3. Bisection'
    BY BisectionKept DEF Return
  <1>4. PoolIsBounded' /\ EndsOneWay'
    BY <1>1 DEF Return, Pool, PoolIsBounded, EndsOneWay, Running, searchVars
  <1>5. AllEnded'
    <2>1. ASSUME setting.driver # "simulate_multi", NEW j \in JobSet
          PROVE  proc[j] = "ended"
      <3>1. proc[j] \in {"running", "stuck", "ended"}
        BY DEF Return, TypeOK
      <3>2. proc[j] \in {"running", "stuck"} => j \in processes
        BY DEF Pool, PoolIsBounded, Running
      <3> QED BY <2>1, <3>1, <3>2 DEF Return
    <2> QED BY <1>1, <2>1 DEF Return, AllEnded
  <1> QED BY <1>2, <1>3, <1>4, <1>5 DEF Pool

LEMMA StutterIInv ==
  ASSUME SearchIInv, UNCHANGED vars
  PROVE  SearchIInv'
  <1>1. TypeOK'
    BY DEF SearchIInv, TypeOK, vars, searchVars, JobSet
  <1> QED BY <1>1, BisectionKept, PoolKept DEF SearchIInv, vars, searchVars

LEMMA SearchInvariance == Spec => []SearchIInv
  <1>1. SearchIInv /\ [Next]_vars => SearchIInv'
    BY TargetsMetIInv, TargetsMissedIInv, RaisesIInv, HangsIInv, CommandEndsIInv, FoundIInv,
       SpawnIInv, ReapIInv, ReturnIInv, StutterIInv
       DEF Next, DriverStep, ExperimentEnds
  <1> QED BY InitSearchIInv, <1>1, PTL DEF Spec

(* A rate that is reported was simulated and met the targets, or is 0, and *)
(* above it, within the tolerance, they were missed or the range ends.     *)
THEOREM Sharp == Spec => []ResultIsSharp
  <1>1. SearchIInv => ResultIsSharp
    <2> SUFFICES ASSUME SearchIInv, NEW j \in JobSet, result[j] # NoResult
                 PROVE  /\ MaxRate > Esp => Runnable(setting, j)
                        /\ result[j] = 0 \/ result[j] \in met[j]
                        /\ \E h \in missed[j] \cup {MaxRate} : h > result[j] /\ h <= result[j] + Esp
      BY DEF ResultIsSharp
    <2>1. /\ result[j] = low[j] /\ (low[j] = 0 \/ low[j] \in met[j])
          /\ high[j] \in missed[j] \cup {MaxRate} /\ high[j] - low[j] <= Esp
      BY DEF SearchIInv, Bisection, BoundsTried, ResultsAreBest
    <2>2. low[j] \in Nat /\ high[j] \in Nat /\ low[j] < high[j] /\ Esp \in Nat
      BY ConstantsType DEF SearchIInv, TypeOK, Rates
    <2>3. MaxRate > Esp => ~(low[j] = 0 /\ high[j] = MaxRate)
      BY <2>1, <2>2, ConstantsType
    <2>4. MaxRate > Esp => Runnable(setting, j)
      BY <2>3 DEF SearchIInv, Bisection, TriedIsRunnable
    <2>5. high[j] > result[j] /\ high[j] <= result[j] + Esp
      BY <2>1, <2>2
    <2> QED BY <2>1, <2>4, <2>5
  <1> QED BY <1>1, SearchInvariance, PTL

(* The pool is never exceeded, and a driver that bisects returns with a    *)
(* rate for every configuration whose simulations did not raise.           *)
THEOREM PoolConsistent == Spec => []PoolIsConsistent
  <1>1. SearchIInv => PoolIsConsistent
    <2> SUFFICES ASSUME SearchIInv PROVE PoolIsConsistent
      OBVIOUS
    <2>1. Running # {} => Cardinality(processes) <= MaxProcs(setting)
      BY DEF SearchIInv, Pool, PoolIsBounded
    <2> QED BY <2>1 DEF SearchIInv, Pool, PoolIsBounded, EndsOneWay, AllEnded, PoolIsConsistent
  <1> QED BY <1>1, SearchInvariance, PTL

(***************************************************************************)
(* The goodput of a configuration is a fraction.                           *)
(***************************************************************************)
LEMMA TimesLess ==
  ASSUME NEW a \in Nat, NEW b \in Nat, NEW c \in Nat \ {0}
  PROVE  a < b <=> a * c < b * c
  OBVIOUS

LEMMA FractionsTransitive ==
  ASSUME NEW r \in Nat, NEW s \in Nat, NEW t \in Nat,
         NEW g \in Nat \ {0}, NEW h \in Nat \ {0}, NEW k \in Nat \ {0},
         r * h < s * g, s * k < t * h
  PROVE  r * k < t * g
  <1>1. /\ r * h \in Nat /\ s * g \in Nat /\ s * k \in Nat
        /\ t * h \in Nat /\ r * k \in Nat /\ t * g \in Nat
    OBVIOUS
  <1>2. (r * h) * k < (s * g) * k
    BY <1>1, TimesLess
  <1>3. (s * k) * g < (t * h) * g
    BY <1>1, TimesLess
  <1>4. (r * h) * k = (r * k) * h /\ (s * g) * k = (s * k) * g /\ (t * h) * g = (t * g) * h
    OBVIOUS
  <1>5. (r * k) * h < (t * g) * h
    <2>1. /\ (r * k) * h \in Nat /\ (s * k) * g \in Nat /\ (t * g) * h \in Nat
      BY <1>1
    <2> QED BY <1>2, <1>3, <1>4, <2>1
  <1> QED BY <1>1, <1>5, TimesLess

Configuration ==
  [rate : Nat, ppPrefill : Nat \ {0}, ppDecode : Nat \ {0},
   tpPrefill : Nat \ {0}, tpDecode : Nat \ {0}]

LEMMA GpusType ==
  ASSUME NEW c \in Configuration
  PROVE  GridGpus(c) \in Nat \ {0} /\ c.rate \in Nat
  <1>1. c.ppPrefill * c.tpPrefill \in Nat \ {0} /\ c.ppDecode * c.tpDecode \in Nat \ {0}
    BY DEF Configuration
  <1> QED BY <1>1 DEF Configuration, GridGpus

LEMMA WorseIsAnOrder ==
  ASSUME NEW c \in Configuration, NEW d \in Configuration, NEW e \in Configuration
  PROVE  /\ ~Worse(c, c)
         /\ Worse(c, d) => ~Worse(d, c)
         /\ Worse(c, d) /\ Worse(d, e) => Worse(c, e)
  <1>1. /\ GridGpus(c) \in Nat \ {0} /\ c.rate \in Nat
        /\ GridGpus(d) \in Nat \ {0} /\ d.rate \in Nat
        /\ GridGpus(e) \in Nat \ {0} /\ e.rate \in Nat
    BY GpusType
  <1>2. c.rate * GridGpus(c) \in Nat /\ c.rate * GridGpus(d) \in Nat /\ d.rate * GridGpus(c) \in Nat
    BY <1>1
  <1>3. Worse(c, d) /\ Worse(d, e) => Worse(c, e)
    BY <1>1, FractionsTransitive DEF Worse
  <1> QED BY <1>2, <1>3 DEF Worse

(***************************************************************************)
(* The grid.                                                               *)
(***************************************************************************)
LEMMA DivisionType ==
  ASSUME NEW n \in Nat, NEW d \in Nat \ {0}
  PROVE  n \div d \in Nat
  OBVIOUS

LEMMA SizeType ==
  ASSUME NEW n \in Nat, NEW d \in Nat \ {0}
  PROVE  Sizes[((n \div d) % Len(Sizes)) + 1] \in Nat \ {0}
  <1>1. n \div d \in Nat
    BY DivisionType
  <1>2. Sizes \in Seq(Nat \ {0}) /\ Len(Sizes) \in Nat \ {0}
    BY GridAssumption
  <1>3. ((n \div d) % Len(Sizes)) + 1 \in 1 .. Len(Sizes)
    BY <1>1, <1>2
  <1> QED BY <1>2, <1>3

LEMMA GridType ==
  /\ GridSize \in Nat
  /\ \A i \in 1 .. GridSize : Grid[i] \in Configuration
  /\ NoConfig \in Configuration
  <1> DEFINE k == Len(Sizes)
  <1>1. k \in Nat \ {0} /\ TopRate \in Nat \ {0}
    BY GridAssumption
  <1>2. k * k \in Nat \ {0}
    BY <1>1
  <1>3. k * k * k \in Nat \ {0}
    BY <1>1, <1>2
  <1>4. k * k * k * k \in Nat \ {0}
    BY <1>1, <1>3
  <1>5. GridSize \in Nat
    <2>1. TopRate * k \in Nat
      BY <1>1
    <2>2. TopRate * k * k \in Nat
      BY <1>1, <2>1
    <2>3. TopRate * k * k * k \in Nat
      BY <1>1, <2>2
    <2>4. TopRate * k * k * k * k \in Nat
      BY <1>1, <2>3
    <2> QED BY <2>4 DEF GridSize
  <1>6. ASSUME NEW i \in 1 .. GridSize
        PROVE  Grid[i] \in Configuration
    <2>1. i - 1 \in Nat
      BY <1>5
    <2> DEFINE digit(d) == Sizes[(((i - 1) \div d) % k) + 1]
    <2>2. ((i - 1) \div (k * k * k * k)) + 1 \in Nat
      BY <1>4, <2>1, DivisionType
    <2>3. 1 \in Nat \ {0}
      OBVIOUS
    <2>4. /\ digit(k * k * k) \in Nat \ {0} /\ digit(k * k) \in Nat \ {0}
          /\ digit(k) \in Nat \ {0} /\ digit(1) \in Nat \ {0}
      <3>1. digit(k * k * k) \in Nat \ {0}
        BY <1>3, <2>1, SizeType
      <3>2. digit(k * k) \in Nat \ {0}
        BY <1>2, <2>1, SizeType
      <3>3. digit(k) \in Nat \ {0}
        BY <1>1, <2>1, SizeType
      <3>4. digit(1) \in Nat \ {0}
        BY <2>1, <2>3, SizeType
      <3> QED BY <3>1, <3>2, <3>3, <3>4
    <2>5. Grid[i] = [rate |-> ((i - 1) \div (k * k * k * k)) + 1,
                     ppPrefill |-> digit(k * k * k), ppDecode |-> digit(k * k),
                     tpPrefill |-> digit(k), tpDecode |-> digit(1)]
      BY DEF Grid
    <2> QED BY <2>2, <2>4, <2>5 DEF Configuration
  <1>7. NoConfig \in Configuration
    BY DEF NoConfig, Configuration
  <1> QED BY <1>5, <1>6, <1>7

(***************************************************************************)
(* The invariant: every configuration that came before and is better than  *)
(* the best one was simulated, and did not contain its latencies.          *)
(***************************************************************************)
BestIsContained == bestConfig = NoConfig \/ \E i \in contained : bestConfig = Grid[i]

BetterExceeded ==
  \A i \in 1 .. position - 1 :
    GridGpus(Grid[i]) <= MaxGpus /\ Worse(bestConfig, Grid[i]) => i \in exceeded

ReturnedAtTheEnd ==
  gridState = "returned" => position > GridSize /\ bestConfig # NoConfig

GridIInv == GridTypeOK /\ BestIsContained /\ BetterExceeded /\ ReturnedAtTheEnd

LEMMA TypeFacts ==
  ASSUME GridTypeOK
  PROVE  /\ position \in Nat \ {0} /\ bestConfig \in Configuration
         /\ GridSize \in Nat /\ contained \subseteq 1 .. position - 1
  BY GridType DEF GridTypeOK

LEMMA ConfigType ==
  ASSUME GridTypeOK, InLoop
  PROVE  position \in 1 .. GridSize /\ Config \in Configuration
  <1>1. position \in 1 .. GridSize
    BY GridType DEF GridTypeOK, InLoop
  <1> QED BY <1>1, GridType DEF Config

LEMMA InitGridIInv == GridInit => GridIInv
  <1> SUFFICES ASSUME GridInit PROVE GridIInv
    OBVIOUS
  <1> USE DEF GridInit
  <1>1. GridTypeOK
    BY GridType DEF GridTypeOK
  <1> QED BY <1>1 DEF GridIInv, BestIsContained, BetterExceeded, ReturnedAtTheEnd

(* What is before the next position is what was before this one, and this. *)
LEMMA Advance ==
  ASSUME GridTypeOK, InLoop, position' = position + 1
  PROVE  /\ position' \in 1 .. GridSize + 1
         /\ \A i \in 1 .. position' - 1 : i \in 1 .. position - 1 \/ i = position
         /\ 1 .. position - 1 \subseteq 1 .. position' - 1
         /\ position \in 1 .. position' - 1 /\ position \notin 1 .. position - 1
  BY GridType, ConfigType

LEMMA SkipIInv ==
  ASSUME GridIInv, Skip
  PROVE  GridIInv'
  <1> USE DEF GridIInv, Skip
  <1>1. GridTypeOK'
    BY Advance DEF GridTypeOK
  <1>2. BestIsContained'
    BY DEF BestIsContained
  <1>3. ~(GridGpus(Config) <= MaxGpus /\ Worse(bestConfig, Config))
    <2>1. GridGpus(Config) \in Nat /\ MaxGpus \in Nat
      BY ConfigType, GpusType, GridAssumption
    <2>2. Worse(Config, bestConfig) => ~Worse(bestConfig, Config)
      BY ConfigType, TypeFacts, WorseIsAnOrder
    <2> QED BY <2>1, <2>2 DEF Skips
  <1>4. BetterExceeded'
    BY <1>3, Advance DEF BetterExceeded, Config
  <1>5. ReturnedAtTheEnd'
    BY DEF ReturnedAtTheEnd, InLoop
  <1> QED BY <1>1, <1>2, <1>4, <1>5

LEMMA ContainedIInv ==
  ASSUME GridIInv, Contained
  PROVE  GridIInv'
  <1> USE DEF GridIInv, Contained
  <1>1. GridTypeOK'
    <2>1. bestConfig' \in {NoConfig} \cup {Grid[i] : i \in 1 .. GridSize}
      BY ConfigType DEF GridTypeOK, Config
    <2>2. contained' \cup exceeded \subseteq 1 .. position' - 1 /\ contained' \cap exceeded = {}
      BY Advance DEF GridTypeOK
    <2> QED BY <2>1, <2>2, Advance DEF GridTypeOK
  <1>2. BestIsContained'
    BY DEF BestIsContained, Config
  <1>3. /\ bestConfig' \in Configuration /\ bestConfig \in Configuration
        /\ Config \in Configuration
    BY ConfigType, TypeFacts
  <1>4. ~Worse(bestConfig', Config)
    BY <1>3, WorseIsAnOrder
  <1>5. ASSUME NEW i \in 1 .. position - 1, Worse(bestConfig', Grid[i])
        PROVE  Worse(bestConfig, Grid[i])
    <2>1. Grid[i] \in Configuration
      BY GridType, ConfigType
    <2> QED BY <1>3, <1>5, <2>1, WorseIsAnOrder
  <1>6. BetterExceeded'
    BY <1>4, <1>5, Advance DEF BetterExceeded, Config
  <1>7. ReturnedAtTheEnd'
    BY DEF ReturnedAtTheEnd, InLoop
  <1> QED BY <1>1, <1>2, <1>6, <1>7

LEMMA ExceededIInv ==
  ASSUME GridIInv, Exceeded
  PROVE  GridIInv'
  <1> USE DEF GridIInv, Exceeded
  <1>1. GridTypeOK'
    <2>1. contained \cup exceeded' \subseteq 1 .. position' - 1 /\ contained \cap exceeded' = {}
      BY Advance DEF GridTypeOK
    <2> QED BY <2>1, Advance DEF GridTypeOK
  <1>2. BestIsContained'
    BY DEF BestIsContained
  <1>3. BetterExceeded'
    BY Advance DEF BetterExceeded
  <1>4. ReturnedAtTheEnd'
    BY DEF ReturnedAtTheEnd, InLoop
  <1> QED BY <1>1, <1>2, <1>3, <1>4

LEMMA StayIInv ==
  ASSUME GridIInv, SimulationRaises \/ Summary \/ UNCHANGED gridVars
  PROVE  GridIInv'
  <1>1. UNCHANGED <<position, bestConfig, contained, exceeded>>
    BY DEF SimulationRaises, Summary, gridVars
  <1>2. GridTypeOK'
    BY <1>1 DEF GridIInv, GridTypeOK, SimulationRaises, Summary, gridVars
  <1>3. BestIsContained' /\ BetterExceeded'
    BY <1>1 DEF GridIInv, BestIsContained, BetterExceeded
  <1>4. ReturnedAtTheEnd'
    BY <1>1 DEF GridIInv, ReturnedAtTheEnd, SimulationRaises, Summary, gridVars
  <1> QED BY <1>2, <1>3, <1>4 DEF GridIInv

LEMMA GridInvariance == GridSpec => []GridIInv
  <1>1. GridIInv /\ [GridNext]_gridVars => GridIInv'
    BY SkipIInv, ContainedIInv, ExceededIInv, StayIInv DEF GridNext
  <1> QED BY InitGridIInv, <1>1, PTL DEF GridSpec

(* The configuration that is reported met its targets, and whatever is     *)
(* better and within the limit was simulated and did not.                  *)
THEOREM Report == GridSpec => []ReportIsBest
  <1>1. GridIInv => ReportIsBest
    <2> SUFFICES ASSUME GridIInv PROVE ReportIsBest
      OBVIOUS
    <2> USE DEF GridIInv
    <2>1. gridState = "returned" => 1 .. GridSize \subseteq 1 .. position - 1
      BY TypeFacts DEF ReturnedAtTheEnd
    <2> QED BY <2>1 DEF ReportIsBest, BestIsContained, BetterExceeded, ReturnedAtTheEnd
  <1> QED BY <1>1, GridInvariance, PTL


(***************************************************************************)
(* The workers of the simulator.                                           *)
(***************************************************************************)
PrefillStages == {"prefill", "both"}
DecodeStages  == {"decode", "both"}

LEMMA WorkerElements ==
  ASSUME NEW c
  PROVE  \A w : w \in Workers(c) <=>
           \E stage \in DOMAIN c.pp :
             \E i \in 1 .. c.instances[stage], k \in 1 .. c.pp[stage] : w = <<stage, i, k>>
  <1> DEFINE Of(stage) == {<<stage, i, k>> : i \in 1 .. c.instances[stage], k \in 1 .. c.pp[stage]}
  <1>1. Workers(c) = UNION {Of(stage) : stage \in DOMAIN c.pp}
    BY DEF Workers
  <1>2. \A w : \A stage : w \in Of(stage) <=>
          \E i \in 1 .. c.instances[stage], k \in 1 .. c.pp[stage] : w = <<stage, i, k>>
    OBVIOUS
  <1> HIDE DEF Of
  <1>3. \A w : w \in Workers(c) <=> \E stage \in DOMAIN c.pp : w \in Of(stage)
    BY <1>1
  <1> QED BY <1>2, <1>3

LEMMA Cluster ==
  ASSUME NEW c \in Configs
  PROVE  /\ DOMAIN c.instances = DOMAIN c.pp
         /\ DOMAIN c.pp = IF c.backend = "vllm" THEN {"both"} ELSE {"prefill", "decode"}
         /\ \A stage \in DOMAIN c.pp : c.pp[stage] \in Nat \ {0} /\ c.instances[stage] \in Nat \ {0}
  BY ConfigsAssumption DEF Range

LEMMA WorkerFacts ==
  ASSUME config \in Configs, NEW w \in Workers(config)
  PROVE  /\ w = <<w[1], w[2], w[3]>> /\ w # NoWorker
         /\ w[1] \in DOMAIN config.pp /\ w[1] \in {"prefill", "decode", "both"}
         /\ w[1] = "both" <=> config.backend = "vllm"
         /\ w[3] \in 1 .. config.pp[w[1]] /\ config.pp[w[1]] \in Nat \ {0}
         /\ NextWorker(w) \in Workers(config) /\ NextWorker(w)[1] = w[1]
         /\ IsLast(w) => IsFirst(NextWorker(w))
         /\ ~IsLast(w) => NextWorker(w)[3] = w[3] + 1 /\ ~IsFirst(NextWorker(w))
  <1>1. PICK stage \in DOMAIN config.pp :
          \E i \in 1 .. config.instances[stage], k \in 1 .. config.pp[stage] : w = <<stage, i, k>>
    BY WorkerElements
  <1>2. PICK i \in 1 .. config.instances[stage], k \in 1 .. config.pp[stage] : w = <<stage, i, k>>
    BY <1>1
  <1>3. w[1] = stage /\ w[2] = i /\ w[3] = k
    BY <1>2
  <1>4. config.pp[stage] \in Nat \ {0} /\ stage \in {"prefill", "decode", "both"}
        /\ (stage = "both" <=> config.backend = "vllm")
    BY Cluster
  <1> DEFINE k2 == IF k = config.pp[stage] THEN 1 ELSE k + 1
  <1>5. k2 \in 1 .. config.pp[stage]
    BY <1>4
  <1>6. NextWorker(w) = <<stage, i, k2>>
    BY <1>3 DEF NextWorker, IsLast
  <1>7. NextWorker(w) \in Workers(config)
    BY <1>5, <1>6, WorkerElements
  <1>8. /\ IsLast(w) => IsFirst(NextWorker(w))
        /\ ~IsLast(w) => NextWorker(w)[3] = w[3] + 1 /\ ~IsFirst(NextWorker(w))
    BY <1>2, <1>3, <1>4, <1>6 DEF IsFirst, IsLast
  <1>9. w # NoWorker
    BY <1>2, <1>4 DEF NoWorker
  <1> QED BY <1>2, <1>3, <1>4, <1>6, <1>7, <1>8, <1>9

LEMMA HeadsFacts ==
  ASSUME config \in Configs
  PROVE  /\ \A w \in Range(PrefillHeads) : w \in Workers(config) /\ w[1] \in PrefillStages /\ IsFirst(w)
         /\ \A w \in Range(DecodeHeads) : w \in Workers(config) /\ w[1] \in DecodeStages /\ IsFirst(w)
  <1>1. ASSUME NEW stage \in DOMAIN config.pp, NEW i \in 1 .. config.instances[stage]
        PROVE  <<stage, i, 1>> \in Workers(config)
    <2>1. 1 \in 1 .. config.pp[stage]
      BY Cluster
    <2> QED BY <2>1, WorkerElements
  <1>2. DOMAIN config.pp = IF config.backend = "vllm" THEN {"both"} ELSE {"prefill", "decode"}
    BY Cluster
  <1>3. ASSUME NEW w \in Range(PrefillHeads)
        PROVE  w \in Workers(config) /\ w[1] \in PrefillStages /\ IsFirst(w)
    <2> DEFINE stage == IF config.backend = "vllm" THEN "both" ELSE "prefill"
    <2>1. PICK i \in 1 .. config.instances[stage] : w = <<stage, i, 1>>
      BY <1>3 DEF Range, PrefillHeads
    <2>2. stage \in DOMAIN config.pp /\ stage \in PrefillStages
      BY <1>2 DEF PrefillStages
    <2> QED BY <1>1, <2>1, <2>2 DEF IsFirst
  <1>4. ASSUME NEW w \in Range(DecodeHeads)
        PROVE  w \in Workers(config) /\ w[1] \in DecodeStages /\ IsFirst(w)
    <2> DEFINE stage == IF config.backend = "vllm" THEN "both" ELSE "decode"
    <2>1. PICK i \in 1 .. config.instances[stage] : w = <<stage, i, 1>>
      BY <1>4 DEF Range, DecodeHeads
    <2>2. stage \in DOMAIN config.pp /\ stage \in DecodeStages
      BY <1>2 DEF DecodeStages
    <2> QED BY <1>1, <2>1, <2>2 DEF IsFirst
  <1> QED BY <1>3, <1>4

LEMMA TargetsFacts ==
  ASSUME config \in Configs, NEW w \in Workers(config)
  PROVE  /\ Targets(w) \subseteq Workers(config)
         /\ IsLast(w) => \A v \in Targets(w) : IsFirst(v) /\ v[1] \in DecodeStages
  <1>1. CASE ShouldRequestStay(w)
    <2>1. Targets(w) = {NextWorker(w)}
      BY <1>1 DEF Targets
    <2>2. IsLast(w) => w[1] # "prefill"
      BY <1>1 DEF ShouldRequestStay
    <2> QED BY <2>1, <2>2, WorkerFacts DEF DecodeStages
  <1>2. CASE ~ShouldRequestStay(w)
    BY <1>2, HeadsFacts DEF Targets
  <1> QED BY <1>1, <1>2

(***************************************************************************)
(* The types, and what the place of a worker in its loop says of it.       *)
(***************************************************************************)
Empty == [prefill |-> <<>>, decode |-> <<>>]

SimShape ==
  /\ config \in Configs /\ arrived \in 0 .. N
  /\ prefillQueue \in [Workers(config) -> Seq(Requests)]
  /\ decodeQueue \in [Workers(config) -> Seq(Requests)]
  /\ batch \in [Workers(config) -> [prefill : Seq(Requests), decode : Seq(Requests)]]
  /\ pc \in [Workers(config) -> {"start", "top", "asleep", "woken", "busy"}]
  /\ control \in Workers(config) \cup {NoWorker}
  /\ \A w \in Workers(config) : pc[w] # "busy" => batch[w] = Empty
  /\ \A w \in Workers(config) : control = w => pc[w] = "top"
  /\ counter \in [Requests -> Int] /\ remain \in [Requests -> Nat] /\ current \in [Requests -> Int]
  /\ chunk \in [Requests -> Requests \cup {NoChunk}]
  /\ exited \subseteq Requests
  /\ NoLostWakeup

LEMMA AwakenedType ==
  ASSUME SimShape, NEW S
  PROVE  /\ Awakened(S) \in [Workers(config) -> {"start", "top", "asleep", "woken", "busy"}]
         /\ \A w \in Workers(config) : /\ Awakened(S)[w] = "busy" <=> pc[w] = "busy"
                                       /\ pc[w] = "top" => Awakened(S)[w] = "top"
                                       /\ Awakened(S)[w] = "asleep" => pc[w] = "asleep" /\ w \notin S
  BY DEF SimShape, Awakened

LEMMA PartType ==
  ASSUME SimShape, NEW w \in Workers(config), NEW i \in DOMAIN prefillQueue[w]
  PROVE  Part(w, i) \in Int /\ Part(w, i) <= remain[prefillQueue[w][i]]
         /\ (~config.chunked => Part(w, i) = remain[prefillQueue[w][i]])
  <1> DEFINE q == prefillQueue[w]
  <1>1. q \in Seq(Requests) /\ remain \in [Requests -> Nat] /\ config \in Configs
    BY DEF SimShape
  <1>2. remain[q[i]] \in Nat
    BY <1>1
  <1>3. Before(q, i) \subseteq Requests
    BY <1>1, SubSeqProperties DEF Before, Range
  <1>4. IsFiniteSet(Requests)
    BY SizesAssumption, FS_Interval DEF Requests
  <1>5. Total(remain, Before(q, i)) \in Nat
    BY <1>1, <1>3, <1>4, TotalType
  <1>6. PrefillMaxTokens - 2 * Total(remain, Before(q, i)) \in Int
    BY <1>5, SizesAssumption
  <1> QED BY <1>2, <1>6 DEF Part, Smaller

LEMMA ShareType ==
  ASSUME SimShape, NEW w \in Workers(config), NEW share \in Shares(w)
  PROVE  /\ \A v \in Targets(w) : /\ share[v] \in Seq(Requests) /\ Distinct(share[v])
                                  /\ Range(share[v]) \subseteq {r \in Range(batch[w].prefill) : TurnsToDecode(w, r)}
         /\ \A r \in Range(batch[w].prefill) : TurnsToDecode(w, r) => \E v \in Targets(w) : r \in Range(share[v])
         /\ \A u, v \in Targets(w) : u # v => Range(share[u]) \cap Range(share[v]) = {}
  <1>1. /\ share \in [Targets(w) -> Subsequences(batch[w].prefill)]
        /\ UNION {Range(share[v]) : v \in Targets(w)} = {r \in Range(batch[w].prefill) : TurnsToDecode(w, r)}
        /\ \A u, v \in Targets(w) : u # v => Range(share[u]) \cap Range(share[v]) = {}
    BY DEF Shares
  <1>2. batch[w].prefill \in Seq(Requests)
    BY DEF SimShape
  <1>3. \A v \in Targets(w) : share[v] \in Subsequences(batch[w].prefill)
    BY <1>1
  <1>4. \A v \in Targets(w) : share[v] \in Seq(Requests) /\ Distinct(share[v])
    BY <1>2, <1>3, SubsequenceFacts
  <1>5. \A v \in Targets(w) : Range(share[v]) \subseteq {r \in Range(batch[w].prefill) : TurnsToDecode(w, r)}
    BY <1>1
  <1>6. \A r \in Range(batch[w].prefill) : TurnsToDecode(w, r) => \E v \in Targets(w) : r \in Range(share[v])
    BY <1>1
  <1> QED BY <1>1, <1>4, <1>5, <1>6

LEMMA ThoseType ==
  ASSUME NEW queue \in Seq(Requests), NEW S, NEW out \in Those(queue, S)
  PROVE  out \in Seq(Requests) /\ Distinct(out) /\ Range(out) = S /\ Len(out) <= Len(queue)
  <1>1. out \in Subsequences(queue) /\ Range(out) = S
    BY DEF Those
  <1>2. PICK k \in 0 .. Len(queue) : out \in [1 .. k -> Range(queue)]
    BY <1>1 DEF Subsequences
  <1> QED BY <1>1, <1>2, SubsequenceFacts

LEMMA InitShape == SimInit => SimShape
  <1> SUFFICES ASSUME SimInit PROVE SimShape
    OBVIOUS
  <1>1. remain \in [Requests -> Nat]
    BY SizesAssumption DEF SimInit
  <1>2. NoLostWakeup
    BY DEF SimInit, NoLostWakeup
  <1>3. \A w \in Workers(config) : control # w
    BY WorkerFacts DEF SimInit
  <1> QED BY <1>1, <1>2, <1>3, SizesAssumption DEF SimInit, SimShape, Empty, NoChunk

LEMMA ArriveShape ==
  ASSUME SimShape, NEW w \in DOMAIN pc, Arrive(w)
  PROVE  SimShape'
  <1>1. w \in Workers(config) /\ arrived + 1 \in Requests
    BY DEF SimShape, Arrive
  <1>2. /\ prefillQueue' = [prefillQueue EXCEPT ![w] = Append(@, arrived + 1)]
        /\ pc' = Awakened({w}) /\ control = NoWorker
        /\ UNCHANGED <<config, decodeQueue, batch, control, counter, remain, current, chunk, exited>>
    BY DEF Arrive
  <1>3. prefillQueue' \in [Workers(config) -> Seq(Requests)]
    BY <1>1, <1>2 DEF SimShape
  <1>4. arrived' \in 0 .. N
    BY <1>1, SizesAssumption DEF Arrive, Requests, SimShape
  <1>5. NoLostWakeup'
    <2> SUFFICES ASSUME NEW v \in DOMAIN pc', pc'[v] = "asleep"
                 PROVE  prefillQueue'[v] = <<>> /\ decodeQueue'[v] = <<>>
      BY DEF NoLostWakeup
    <2>1. v \in Workers(config) /\ v # w /\ pc[v] = "asleep"
      BY <1>2, AwakenedType
    <2> QED BY <1>2, <2>1 DEF SimShape, NoLostWakeup
  <1> QED BY <1>1, <1>2, <1>3, <1>4, <1>5, AwakenedType, WorkerFacts DEF SimShape

LEMMA StartShape ==
  ASSUME SimShape, NEW w \in DOMAIN pc, Start(w)
  PROVE  SimShape'
  <1>1. /\ pc[w] = "start" /\ pc' = [pc EXCEPT ![w] = "top"] /\ control' = w /\ w \in Workers(config)
        /\ UNCHANGED <<config, arrived, prefillQueue, decodeQueue, batch, requestVars>>
    BY DEF Start, SimShape
  <1>2. NoLostWakeup'
    BY <1>1 DEF NoLostWakeup, SimShape
  <1> QED BY <1>1, <1>2 DEF SimShape, requestVars

LEMMA SleepShape ==
  ASSUME SimShape, NEW w \in DOMAIN pc, Sleep(w)
  PROVE  SimShape'
  <1>1. /\ pc[w] = "top" /\ pc' = [pc EXCEPT ![w] = "asleep"] /\ control' = NoWorker /\ w \in Workers(config)
        /\ prefillQueue[w] = <<>> /\ decodeQueue[w] = <<>>
        /\ UNCHANGED <<config, arrived, prefillQueue, decodeQueue, batch, requestVars>>
    BY DEF Sleep, SimShape
  <1>2. NoLostWakeup'
    BY <1>1 DEF NoLostWakeup, SimShape
  <1>3. \A v \in Workers(config) : v # NoWorker
    BY WorkerFacts DEF SimShape
  <1> QED BY <1>1, <1>2, <1>3 DEF SimShape, requestVars

(* Both ways to begin an iteration: the first n requests that wait for their
   prefill and the first m that wait for their decode go into the batch. *)
Taking(w, n, m) ==
  /\ pc[w] # "busy"
  /\ Begins(w, SubSeq(prefillQueue[w], 1, n), SubSeq(decodeQueue[w], 1, m))
  /\ prefillQueue' = [prefillQueue EXCEPT ![w] = SubSeq(@, n + 1, Len(@))]
  /\ \/ n = 0 /\ UNCHANGED <<remain, current, chunk>>
     \/ IsPrefillCount(w, n) /\ TakePrefills(w, n)

LEMMA BeginsTaking ==
  ASSUME SimShape, NEW w \in DOMAIN pc, DoPrefill(w) \/ DoDecode(w)
  PROVE  w \in Workers(config) /\
         \E n \in 0 .. Len(prefillQueue[w]), m \in 0 .. Len(decodeQueue[w]) : Taking(w, n, m)
  <1>1. w \in Workers(config) /\ (Proceeds(w) => pc[w] # "busy")
    BY DEF SimShape, Proceeds
  <1>2. prefillQueue[w] \in Seq(Requests) /\ prefillQueue \in [Workers(config) -> Seq(Requests)]
    BY <1>1 DEF SimShape
  <1>3. CASE DoPrefill(w)
    <2>1. PICK n \in 0 .. Len(prefillQueue[w]), m \in 0 .. Len(decodeQueue[w]) :
            /\ IsPrefillCount(w, n) /\ TakePrefills(w, n)
            /\ Begins(w, SubSeq(prefillQueue[w], 1, n), SubSeq(decodeQueue[w], 1, m))
      BY <1>3 DEF DoPrefill
    <2>2. prefillQueue' = [prefillQueue EXCEPT ![w] = SubSeq(@, n + 1, Len(@))]
      BY <2>1 DEF TakePrefills
    <2>3. Proceeds(w)
      BY <1>3 DEF DoPrefill
    <2> QED BY <1>1, <2>1, <2>2, <2>3 DEF Taking
  <1>4. CASE DoDecode(w)
    <2>1. PICK m \in 0 .. Len(decodeQueue[w]) : Begins(w, <<>>, SubSeq(decodeQueue[w], 1, m))
      BY <1>4 DEF DoDecode
    <2>2. Proceeds(w) /\ UNCHANGED <<prefillQueue, remain, current, chunk>>
      BY <1>4 DEF DoDecode
    <2>3. /\ SubSeq(prefillQueue[w], 1, 0) = <<>>
          /\ SubSeq(prefillQueue[w], 0 + 1, Len(prefillQueue[w])) = prefillQueue[w]
      BY <1>2
    <2>4. prefillQueue' = [prefillQueue EXCEPT ![w] = SubSeq(@, 0 + 1, Len(@))]
      BY <1>1, <1>2, <2>2, <2>3
    <2>5. Taking(w, 0, m)
      BY <1>1, <2>1, <2>2, <2>3, <2>4 DEF Taking
    <2>6. 0 \in 0 .. Len(prefillQueue[w])
      BY <1>2
    <2> QED BY <1>1, <2>5, <2>6
  <1> QED BY <1>3, <1>4

(* What is left of the prompts that a first worker takes from *)
LEMMA TakenValues ==
  ASSUME SimShape, NEW w \in Workers(config), NEW n \in 0 .. Len(prefillQueue[w]),
         NEW m \in 0 .. Len(decodeQueue[w]), Taking(w, n, m)
  PROVE  LET P == Range(SubSeq(prefillQueue[w], 1, n))
         IN  /\ remain' \in [Requests -> Nat] /\ current' \in [Requests -> Int]
             /\ chunk' \in [Requests -> Requests \cup {NoChunk}]
             /\ ~IsFirst(w) => UNCHANGED <<remain, current, chunk>>
             /\ \A r \in Requests \ P : remain'[r] = remain[r] /\ current'[r] = current[r] /\ chunk'[r] = chunk[r]
             /\ IsFirst(w) => \A r \in P : chunk'[r] = prefillQueue[w][1]
             /\ IsFirst(w) => \A r \in P : \E i \in DOMAIN prefillQueue[w] :
                  /\ prefillQueue[w][i] = r
                  /\ current'[r] = Part(w, i) /\ remain'[r] = remain[r] - Part(w, i)
  <1> DEFINE q == prefillQueue[w]  taken == SubSeq(q, 1, n)  P == Range(taken)
  <1>1. q \in Seq(Requests) /\ remain \in [Requests -> Nat] /\ current \in [Requests -> Int]
        /\ chunk \in [Requests -> Requests \cup {NoChunk}]
    BY DEF SimShape
  <1>2. /\ Len(taken) = n /\ DOMAIN taken = 1 .. n /\ DOMAIN q = 1 .. Len(q)
        /\ \A i \in 1 .. n : taken[i] = q[i]
    BY <1>1
  <1>3. \A r \in P : r \in Requests /\ \E i \in DOMAIN q : q[i] = r
    BY <1>1, <1>2 DEF Range
  <1>4. P # {} => Head(taken) = q[1] /\ q[1] \in Requests
    <2>1. P # {} => 1 \in 1 .. n
      BY <1>2 DEF Range
    <2>2. n # 0 => Head(taken) = taken[1]
      BY <1>2
    <2> QED BY <1>1, <1>2, <2>1, <2>2
  <1>5. \A r \in P : /\ PositionIn(q, r) \in DOMAIN q /\ q[PositionIn(q, r)] = r
                     /\ Part(w, PositionIn(q, r)) \in Int
                     /\ Part(w, PositionIn(q, r)) <= remain[r]
    <2> SUFFICES ASSUME NEW r \in P
                 PROVE  /\ PositionIn(q, r) \in DOMAIN q /\ q[PositionIn(q, r)] = r
                        /\ Part(w, PositionIn(q, r)) \in Int
                        /\ Part(w, PositionIn(q, r)) <= remain[r]
      OBVIOUS
    <2>1. PositionIn(q, r) \in DOMAIN q /\ q[PositionIn(q, r)] = r
      BY <1>3 DEF PositionIn
    <2> QED BY <2>1, PartType
  <1>6. CASE n = 0 /\ UNCHANGED <<remain, current, chunk>>
    <2>1. P = {}
      BY <1>2, <1>6 DEF Range
    <2> QED BY <1>1, <1>6, <2>1
  <1>7. CASE TakePrefills(w, n)
    <2> DEFINE cut == IF IsFirst(w) THEN P ELSE {}
               part == [r \in cut |-> Part(w, PositionIn(q, r))]
    <2>1. /\ current' = [r \in Requests |-> IF r \in cut THEN part[r] ELSE current[r]]
          /\ remain' = [r \in Requests |-> IF r \in cut THEN remain[r] - part[r] ELSE remain[r]]
          /\ chunk' = [r \in Requests |-> IF r \in cut THEN Head(taken) ELSE chunk[r]]
      BY <1>7 DEF TakePrefills
    <2>2. \A r \in cut : /\ part[r] = Part(w, PositionIn(q, r)) /\ r \in P
                         /\ part[r] \in Int /\ part[r] <= remain[r] /\ remain[r] \in Nat
                         /\ Head(taken) = q[1] /\ q[1] \in Requests
      BY <1>1, <1>3, <1>4, <1>5
    <2> HIDE DEF part, P, taken
    <2>3. remain' \in [Requests -> Nat] /\ current' \in [Requests -> Int]
          /\ chunk' \in [Requests -> Requests \cup {NoChunk}]
      <3> HIDE DEF cut
      <3>1. remain' \in [Requests -> Nat]
        <4>1. \A r \in Requests : remain[r] \in Nat /\ (r \in cut => remain[r] - part[r] \in Nat)
          BY <1>1, <2>2
        <4> QED BY <2>1, <4>1
      <3>2. current' \in [Requests -> Int]
        BY <1>1, <2>1, <2>2
      <3>3. chunk' \in [Requests -> Requests \cup {NoChunk}]
        BY <1>1, <2>1, <2>2
      <3> QED BY <3>1, <3>2, <3>3
    <2>4. ~IsFirst(w) => UNCHANGED <<remain, current, chunk>>
      BY <1>1, <2>1
    <2>5. \A r \in Requests \ P : remain'[r] = remain[r] /\ current'[r] = current[r] /\ chunk'[r] = chunk[r]
      BY <2>1
    <2>6. IsFirst(w) => \A r \in P : chunk'[r] = q[1]
      BY <1>3, <2>1, <2>2
    <2>7. ASSUME IsFirst(w), NEW r \in P
          PROVE  \E i \in DOMAIN q : /\ q[i] = r
                                     /\ current'[r] = Part(w, i) /\ remain'[r] = remain[r] - Part(w, i)
      <3>1. r \in cut /\ r \in Requests
        BY <1>3, <2>7
      <3>2. current'[r] = Part(w, PositionIn(q, r)) /\ remain'[r] = remain[r] - Part(w, PositionIn(q, r))
        BY <2>1, <2>2, <3>1
      <3> QED BY <1>5, <3>2
    <2> QED BY <2>3, <2>4, <2>5, <2>6, <2>7 DEF P, taken
  <1> QED BY <1>6, <1>7 DEF Taking

LEMMA TakingShape ==
  ASSUME SimShape, NEW w \in Workers(config), NEW n \in 0 .. Len(prefillQueue[w]),
         NEW m \in 0 .. Len(decodeQueue[w]), Taking(w, n, m)
  PROVE  SimShape'
  <1> DEFINE P == SubSeq(prefillQueue[w], 1, n)  D == SubSeq(decodeQueue[w], 1, m)
  <1>1. /\ prefillQueue' = [prefillQueue EXCEPT ![w] = SubSeq(@, n + 1, Len(@))]
        /\ batch' = [batch EXCEPT ![w] = [prefill |-> P, decode |-> D]]
        /\ decodeQueue' = [decodeQueue EXCEPT ![w] = SubSeq(@, Len(D) + 1, Len(@))]
        /\ pc' = [pc EXCEPT ![w] = "busy"] /\ control' = NoWorker
        /\ UNCHANGED <<config, arrived, counter, exited>>
    BY DEF Taking, Begins
  <1>2. prefillQueue[w] \in Seq(Requests) /\ decodeQueue[w] \in Seq(Requests)
    BY DEF SimShape
  <1>3. P \in Seq(Requests) /\ D \in Seq(Requests) /\ Len(D) = m
    BY <1>2
  <1>4. /\ SubSeq(prefillQueue[w], n + 1, Len(prefillQueue[w])) \in Seq(Requests)
        /\ SubSeq(decodeQueue[w], Len(D) + 1, Len(decodeQueue[w])) \in Seq(Requests)
    BY <1>2, <1>3
  <1> HIDE DEF P, D
  <1>5. prefillQueue' \in [Workers(config) -> Seq(Requests)] /\ decodeQueue' \in [Workers(config) -> Seq(Requests)]
    BY <1>1, <1>4 DEF SimShape
  <1>6. batch' \in [Workers(config) -> [prefill : Seq(Requests), decode : Seq(Requests)]]
    BY <1>1, <1>3 DEF SimShape
  <1>7. pc' \in [Workers(config) -> {"start", "top", "asleep", "woken", "busy"}]
    BY <1>1 DEF SimShape
  <1>8. NoLostWakeup'
    BY <1>1 DEF NoLostWakeup, SimShape
  <1>9. \A v \in Workers(config) : v # NoWorker
    BY WorkerFacts DEF SimShape
  <1>10. \A v \in Workers(config) : pc'[v] # "busy" => batch'[v] = Empty
    BY <1>1 DEF SimShape
  <1> QED BY <1>1, <1>5, <1>6, <1>7, <1>8, <1>9, <1>10, TakenValues DEF SimShape

(* What Finish hands on: the prompts that go on, the requests that turn to
   their decode, and the rounds that are not the last. *)
Given(w, share, v)  == IF v \in Targets(w) THEN share[v] ELSE <<>>
Turned(w, rounds, v) == IF v = NextWorker(w) THEN rounds ELSE <<>>

Ending(w, onward, rounds, share) ==
  LET prefills == batch[w].prefill
      decodes  == batch[w].decode
  IN  /\ onward \in Those(prefills, {r \in Range(prefills) : GoesOn(w, r)})
      /\ rounds \in Those(decodes, {r \in Range(decodes) : ~ShouldFinish(w, r)})
      /\ share \in Shares(w)
      /\ prefillQueue' = [prefillQueue EXCEPT ![NextWorker(w)] = @ \o onward]
      /\ decodeQueue' = [v \in Workers(config) |-> decodeQueue[v] \o Given(w, share, v) \o Turned(w, rounds, v)]
      /\ pc' = [Awakened(Receivers(w, onward, share, rounds)) EXCEPT ![w] = "top"]

LEMMA FinishEnding ==
  ASSUME SimShape, NEW w \in DOMAIN pc, Finish(w)
  PROVE  w \in Workers(config) /\
         \E onward, rounds, share : Ending(w, onward, rounds, share)
  <1>1. w \in Workers(config) /\ DOMAIN decodeQueue = Workers(config)
    BY DEF SimShape
  <1>2. PICK onward \in Those(batch[w].prefill, {r \in Range(batch[w].prefill) : GoesOn(w, r)}),
             rounds \in Those(batch[w].decode, {r \in Range(batch[w].decode) : ~ShouldFinish(w, r)}),
             share \in Shares(w) : Forwards(w, onward, share, rounds)
    BY DEF Finish
  <1>3. Ending(w, onward, rounds, share)
    BY <1>1, <1>2 DEF Forwards, Ending, Given, Turned
  <1> QED BY <1>1, <1>3

LEMMA EndingTypes ==
  ASSUME SimShape, NEW w \in Workers(config), NEW onward, NEW rounds, NEW share,
         Ending(w, onward, rounds, share)
  PROVE  /\ onward \in Seq(Requests) /\ Distinct(onward)
         /\ Range(onward) = {r \in Range(batch[w].prefill) : GoesOn(w, r)}
         /\ Len(onward) <= Len(batch[w].prefill)
         /\ rounds \in Seq(Requests) /\ Distinct(rounds)
         /\ Range(rounds) = {r \in Range(batch[w].decode) : ~ShouldFinish(w, r)}
         /\ \A v \in Workers(config) :
              /\ Given(w, share, v) \in Seq(Requests) /\ Distinct(Given(w, share, v))
              /\ Range(Given(w, share, v)) \subseteq {r \in Range(batch[w].prefill) : TurnsToDecode(w, r)}
              /\ Turned(w, rounds, v) \in Seq(Requests) /\ Distinct(Turned(w, rounds, v))
              /\ Range(Turned(w, rounds, v)) = IF v = NextWorker(w) THEN Range(rounds) ELSE {}
         /\ \A r \in Range(batch[w].prefill) : TurnsToDecode(w, r) =>
              \E v \in Targets(w) : r \in Range(Given(w, share, v))
         /\ \A u, v \in Workers(config) : u # v => Range(Given(w, share, u)) \cap Range(Given(w, share, v)) = {}
         /\ \A v \in Workers(config) : Range(Given(w, share, v)) # {} => v \in Targets(w)
  <1>1. batch[w].prefill \in Seq(Requests) /\ batch[w].decode \in Seq(Requests)
    BY DEF SimShape
  <1>2. /\ onward \in Those(batch[w].prefill, {r \in Range(batch[w].prefill) : GoesOn(w, r)})
        /\ rounds \in Those(batch[w].decode, {r \in Range(batch[w].decode) : ~ShouldFinish(w, r)})
        /\ share \in Shares(w)
    BY DEF Ending
  <1>3. <<>> \in Seq(Requests) /\ Distinct(<<>>) /\ Range(<<>>) = {}
    BY DEF Distinct, Range
  <1>4. /\ onward \in Seq(Requests) /\ Distinct(onward)
        /\ Range(onward) = {r \in Range(batch[w].prefill) : GoesOn(w, r)}
        /\ Len(onward) <= Len(batch[w].prefill)
        /\ rounds \in Seq(Requests) /\ Distinct(rounds)
        /\ Range(rounds) = {r \in Range(batch[w].decode) : ~ShouldFinish(w, r)}
    BY <1>1, <1>2, ThoseType
  <1>5. \A v \in Workers(config) :
          /\ Turned(w, rounds, v) \in Seq(Requests) /\ Distinct(Turned(w, rounds, v))
          /\ Range(Turned(w, rounds, v)) = IF v = NextWorker(w) THEN Range(rounds) ELSE {}
    BY <1>3, <1>4 DEF Turned
  <1>6. \A v \in Workers(config) :
          /\ Given(w, share, v) \in Seq(Requests) /\ Distinct(Given(w, share, v))
          /\ Range(Given(w, share, v)) \subseteq {r \in Range(batch[w].prefill) : TurnsToDecode(w, r)}
          /\ Range(Given(w, share, v)) # {} => v \in Targets(w)
    BY <1>2, <1>3, ShareType DEF Given
  <1>7. \A r \in Range(batch[w].prefill) : TurnsToDecode(w, r) =>
          \E v \in Targets(w) : r \in Range(Given(w, share, v))
    BY <1>2, ShareType DEF Given
  <1>8. \A u, v \in Workers(config) : u # v => Range(Given(w, share, u)) \cap Range(Given(w, share, v)) = {}
    BY <1>2, <1>3, ShareType DEF Given
  <1> QED BY <1>4, <1>5, <1>6, <1>7, <1>8

LEMMA ConcatRange ==
  ASSUME NEW S, NEW s \in Seq(S), NEW t \in Seq(S)
  PROVE  s \o t \in Seq(S) /\ Range(s \o t) = Range(s) \cup Range(t)
  <1>1. /\ s \o t \in Seq(S) /\ Len(s \o t) = Len(s) + Len(t)
        /\ \A i \in 1 .. Len(s) : (s \o t)[i] = s[i]
        /\ \A i \in 1 .. Len(t) : (s \o t)[Len(s) + i] = t[i]
    BY ConcatProperties
  <1>2. \A i \in 1 .. Len(s \o t) : i \in 1 .. Len(s) \/ \E j \in 1 .. Len(t) : i = Len(s) + j
    <2> SUFFICES ASSUME NEW i \in 1 .. Len(s) + Len(t), i \notin 1 .. Len(s)
                 PROVE  \E j \in 1 .. Len(t) : i = Len(s) + j
      BY <1>1
    <2>1. i - Len(s) \in 1 .. Len(t) /\ i = Len(s) + (i - Len(s))
      OBVIOUS
    <2> QED BY <2>1
  <1>3. /\ \A i \in 1 .. Len(s) : i \in 1 .. Len(s \o t)
        /\ \A i \in 1 .. Len(t) : Len(s) + i \in 1 .. Len(s \o t)
    BY <1>1
  <1>4. DOMAIN s = 1 .. Len(s) /\ DOMAIN t = 1 .. Len(t) /\ DOMAIN (s \o t) = 1 .. Len(s \o t)
    BY <1>1
  <1>5. \A x \in Range(s) : x \in Range(s \o t)
    BY <1>1, <1>3, <1>4 DEF Range
  <1>6. \A x \in Range(t) : x \in Range(s \o t)
    BY <1>1, <1>3, <1>4 DEF Range
  <1>7. \A x \in Range(s \o t) : x \in Range(s) \/ x \in Range(t)
    BY <1>1, <1>2, <1>4 DEF Range
  <1> QED BY <1>1, <1>5, <1>6, <1>7

LEMMA FinishShape ==
  ASSUME SimShape, NEW w \in DOMAIN pc, Finish(w)
  PROVE  SimShape'
  <1>1. w \in Workers(config)
    BY FinishEnding
  <1>2. PICK onward, rounds, share : Ending(w, onward, rounds, share)
    BY FinishEnding
  <1> DEFINE next == NextWorker(w)  given(v) == Given(w, share, v)  turned(v) == Turned(w, rounds, v)
             receivers == Receivers(w, onward, share, rounds)
  <1>3. /\ onward \in Seq(Requests) /\ rounds \in Seq(Requests)
        /\ \A v \in Workers(config) : given(v) \in Seq(Requests) /\ turned(v) \in Seq(Requests)
    BY <1>1, <1>2, EndingTypes
  <1>4. /\ prefillQueue' = [prefillQueue EXCEPT ![next] = @ \o onward]
        /\ decodeQueue' = [v \in Workers(config) |-> decodeQueue[v] \o given(v) \o turned(v)]
        /\ pc' = [Awakened(receivers) EXCEPT ![w] = "top"]
    BY <1>2 DEF Ending
  <1>5. /\ control = NoWorker /\ pc[w] = "busy" /\ control' = w
        /\ batch' = [batch EXCEPT ![w] = [prefill |-> <<>>, decode |-> <<>>]]
        /\ UNCHANGED <<config, arrived, remain>>
        /\ counter' = [r \in Requests |-> CounterAfter(w, r)]
        /\ \A r \in Requests : chunk'[r] \in {NoChunk, chunk[r]}
        /\ \A r \in Requests : current'[r] \in {0, current[r]}
        /\ DOMAIN chunk' = Requests /\ DOMAIN current' = Requests
        /\ chunk' = [r \in Requests |-> chunk'[r]] /\ current' = [r \in Requests |-> current'[r]]
    BY DEF Finish
  <1>6. next \in Workers(config) /\ config \in Configs
    BY <1>1, WorkerFacts DEF SimShape
  <1>7. prefillQueue' \in [Workers(config) -> Seq(Requests)]
    <2>1. prefillQueue[next] \in Seq(Requests)
      BY <1>6 DEF SimShape
    <2>2. prefillQueue[next] \o onward \in Seq(Requests)
      BY <1>3, <2>1
    <2> HIDE DEF next
    <2> QED BY <1>4, <2>2 DEF SimShape
  <1>8. \A v \in Workers(config) : /\ decodeQueue[v] \in Seq(Requests)
                                   /\ decodeQueue[v] \o given(v) \o turned(v) \in Seq(Requests)
    BY <1>3 DEF SimShape
  <1>9. decodeQueue' \in [Workers(config) -> Seq(Requests)]
    BY <1>4, <1>8
  <1>10. batch' \in [Workers(config) -> [prefill : Seq(Requests), decode : Seq(Requests)]]
    <2>1. [prefill |-> <<>>, decode |-> <<>>] \in [prefill : Seq(Requests), decode : Seq(Requests)]
      OBVIOUS
    <2> QED BY <1>5, <2>1 DEF SimShape
  <1>11. pc' \in [Workers(config) -> {"start", "top", "asleep", "woken", "busy"}]
    BY <1>4, AwakenedType
  <1>12. \A v \in Workers(config) : pc'[v] # "busy" => batch'[v] = Empty
    BY <1>1, <1>4, <1>5, AwakenedType DEF SimShape, Empty
  <1>13. \A v \in Workers(config) : control' = v => pc'[v] = "top"
    BY <1>1, <1>4, <1>5, AwakenedType
  <1>14. counter' \in [Requests -> Int]
    <2>1. \A r \in Requests : counter[r] \in Int
      BY DEF SimShape
    <2>2. \A r \in Requests : CounterAfter(w, r) \in Int
      BY <2>1 DEF CounterAfter
    <2> QED BY <1>5, <2>2
  <1>15. chunk' \in [Requests -> Requests \cup {NoChunk}] /\ current' \in [Requests -> Int]
    <2>1. /\ \A r \in Requests : chunk[r] \in Requests \cup {NoChunk} /\ current[r] \in Int
      BY DEF SimShape
    <2>2. /\ \A r \in Requests : chunk'[r] \in Requests \cup {NoChunk} /\ current'[r] \in Int
      BY <1>5, <2>1
    <2> QED BY <1>5, <2>2
  <1>16. exited' \subseteq Requests
    <2>1. Range(batch[w].prefill) \subseteq Requests /\ Range(batch[w].decode) \subseteq Requests
      BY <1>1, RangeOfSeq DEF SimShape
    <2> QED BY <2>1 DEF Finish, SimShape
  <1>17. NoLostWakeup'
    <2> SUFFICES ASSUME NEW v \in Workers(config), pc'[v] = "asleep"
                 PROVE  prefillQueue'[v] = <<>> /\ decodeQueue'[v] = <<>>
      BY <1>11 DEF NoLostWakeup
    <2>1. v # w /\ pc[v] = "asleep" /\ v \notin receivers
      BY <1>1, <1>4, AwakenedType
    <2>2. prefillQueue[v] = <<>> /\ decodeQueue[v] = <<>>
      BY <2>1 DEF NoLostWakeup, SimShape
    <2>3. given(v) = <<>>
      BY <2>1 DEF Receivers, Given
    <2>4. turned(v) = <<>> /\ (v = next => onward = <<>>)
      BY <2>1 DEF Receivers, Turned
    <2>5. prefillQueue'[v] = <<>>
      <3>1. CASE v = next
        BY <1>4, <1>6, <2>2, <2>4, <3>1 DEF SimShape
      <3>2. CASE v # next
        BY <1>4, <1>6, <2>2, <3>2 DEF SimShape
      <3> QED BY <3>1, <3>2
    <2>6. decodeQueue'[v] = <<>>
      BY <1>4, <2>2, <2>3, <2>4
    <2> QED BY <2>5, <2>6
  <1> HIDE DEF next, given, turned, receivers
  <1> QED BY <1>5, <1>6, <1>7, <1>9, <1>10, <1>11, <1>12, <1>13, <1>14, <1>15, <1>16, <1>17 DEF SimShape

LEMMA NextShape ==
  ASSUME SimShape, [SimNext]_simVars
  PROVE  SimShape'
  <1>1. ASSUME NEW w \in DOMAIN pc, Arrive(w) PROVE SimShape'
    BY <1>1, ArriveShape
  <1>2. ASSUME NEW w \in DOMAIN pc, Start(w) PROVE SimShape'
    BY <1>2, StartShape
  <1>3. ASSUME NEW w \in DOMAIN pc, Sleep(w) PROVE SimShape'
    BY <1>3, SleepShape
  <1>4. ASSUME NEW w \in DOMAIN pc, DoPrefill(w) \/ DoDecode(w) PROVE SimShape'
    BY <1>4, BeginsTaking, TakingShape
  <1>5. ASSUME NEW w \in DOMAIN pc, Finish(w) PROVE SimShape'
    BY <1>5, FinishShape
  <1>6. ASSUME UNCHANGED simVars PROVE SimShape'
    BY <1>6 DEF SimShape, simVars, requestVars, NoLostWakeup
  <1> QED BY <1>1, <1>2, <1>3, <1>4, <1>5, <1>6 DEF SimNext, Ended

LEMMA ShapeInvariance == SimSpec => []SimShape
  BY InitShape, NextShape, PTL DEF SimSpec

(* A worker that sleeps has an empty prefill queue and an empty decode      *)
(* queue, in every cluster and mode: each request that is put into a queue  *)
(* of a sleeping worker wakes it (run, wakeup).                             *)
THEOREM WakeupsAreKept == SimSpec => []NoLostWakeup
  <1>1. SimShape => NoLostWakeup
    BY DEF SimShape
  <1> QED BY <1>1, ShapeInvariance, PTL

(***************************************************************************)
(* Where the requests are, and what that says of them.                     *)
(***************************************************************************)
PQ(w) == Range(prefillQueue[w])
DQ(w) == Range(decodeQueue[w])
BP(w) == Range(batch[w].prefill)
BD(w) == Range(batch[w].decode)

Live(r) == r <= arrived /\ r \notin exited

Kinds == {"prefill queue", "decode queue", "prefilling", "decoding"}

Housed(home) ==
  /\ \A r \in Requests : Live(r) => home[r] \in Kinds \X Workers(config)
  /\ \A w \in Workers(config), r \in Requests :
       /\ r \in PQ(w) <=> Live(r) /\ home[r] = <<"prefill queue", w>>
       /\ r \in DQ(w) <=> Live(r) /\ home[r] = <<"decode queue", w>>
       /\ r \in BP(w) <=> Live(r) /\ home[r] = <<"prefilling", w>>
       /\ r \in BD(w) <=> Live(r) /\ home[r] = <<"decoding", w>>

OneHome ==
  /\ exited \subseteq 1 .. arrived
  /\ \A w \in Workers(config) : /\ Distinct(prefillQueue[w]) /\ Distinct(decodeQueue[w])
                                /\ Distinct(batch[w].prefill) /\ Distinct(batch[w].decode)
  /\ \E home : Housed(home)

(* Before its prefill is done a request has no token; while it decodes it
   has some and not all. *)
Prefills(w, r) == w[1] \in PrefillStages /\ counter[r] = -1
Decodes(w, r) ==
  /\ w[1] \in DecodeStages /\ counter[r] \in 0 .. OutputLens[r] - 1
  /\ remain[r] = 0 /\ chunk[r] = NoChunk

Values ==
  /\ \A r \in Requests : remain[r] <= PrefillLens[r] /\ current[r] \in 0 .. PrefillLens[r]
  /\ \A r \in Requests : r > arrived =>
       counter[r] = -1 /\ remain[r] = PrefillLens[r] /\ chunk[r] = NoChunk
  /\ \A r \in exited : counter[r] = OutputLens[r] /\ remain[r] = 0 /\ chunk[r] = NoChunk
  /\ \A w \in Workers(config) :
       /\ \A r \in PQ(w) : /\ Prefills(w, r)
                           /\ IF IsFirst(w) THEN remain[r] > 0 /\ chunk[r] = NoChunk
                              ELSE chunk[r] # NoChunk
       /\ \A r \in BP(w) : Prefills(w, r) /\ chunk[r] # NoChunk
       /\ \A r \in DQ(w) \cup BD(w) : Decodes(w, r)

LEMMA RangesType ==
  ASSUME SimShape, NEW w \in Workers(config)
  PROVE  /\ PQ(w) \subseteq Requests /\ DQ(w) \subseteq Requests
         /\ BP(w) \subseteq Requests /\ BD(w) \subseteq Requests
         /\ pc[w] # "busy" => BP(w) = {} /\ BD(w) = {}
  <1>1. /\ prefillQueue[w] \in Seq(Requests) /\ decodeQueue[w] \in Seq(Requests)
        /\ batch[w].prefill \in Seq(Requests) /\ batch[w].decode \in Seq(Requests)
    BY DEF SimShape
  <1>2. pc[w] # "busy" => batch[w].prefill = <<>> /\ batch[w].decode = <<>>
    BY DEF SimShape, Empty
  <1>3. Range(<<>>) = {}
    BY DEF Range
  <1> QED BY <1>1, <1>2, <1>3, RangeOfSeq DEF PQ, DQ, BP, BD

LEMMA PlacesDiffer ==
  /\ \A v, w : <<"prefill queue", v>> # <<"decode queue", w>> /\ <<"prefill queue", v>> # <<"prefilling", w>>
  /\ \A v, w : <<"prefill queue", v>> # <<"decoding", w>> /\ <<"decode queue", v>> # <<"prefilling", w>>
  /\ \A v, w : <<"decode queue", v>> # <<"decoding", w>> /\ <<"prefilling", v>> # <<"decoding", w>>
  /\ \A kind, v, w : <<kind, v>> = <<kind, w>> => v = w
  OBVIOUS

(* Nobody is at two places. *)
LEMMA Apart ==
  ASSUME OneHome, NEW v \in Workers(config), NEW w \in Workers(config), NEW r \in Requests
  PROVE  /\ r \in PQ(v) => r \notin DQ(w) \cup BP(w) \cup BD(w) /\ (v # w => r \notin PQ(w))
         /\ r \in DQ(v) => r \notin PQ(w) \cup BP(w) \cup BD(w) /\ (v # w => r \notin DQ(w))
         /\ r \in BP(v) => r \notin PQ(w) \cup DQ(w) \cup BD(w) /\ (v # w => r \notin BP(w))
         /\ r \in BD(v) => r \notin PQ(w) \cup DQ(w) \cup BP(w) /\ (v # w => r \notin BD(w))
         /\ r \in PQ(v) \cup DQ(v) \cup BP(v) \cup BD(v) => Live(r)
  <1>1. PICK home : Housed(home)
    BY DEF OneHome
  <1> DEFINE h == home[r]
             a(u) == <<"prefill queue", u>>  b(u) == <<"decode queue", u>>
             c(u) == <<"prefilling", u>>     d(u) == <<"decoding", u>>
  <1>2. \A u \in Workers(config) : /\ r \in PQ(u) <=> Live(r) /\ h = a(u)
                                   /\ r \in DQ(u) <=> Live(r) /\ h = b(u)
                                   /\ r \in BP(u) <=> Live(r) /\ h = c(u)
                                   /\ r \in BD(u) <=> Live(r) /\ h = d(u)
    BY <1>1 DEF Housed
  <1>3. /\ a(v) # b(w) /\ a(v) # c(w) /\ a(v) # d(w) /\ b(v) # c(w) /\ b(v) # d(w) /\ c(v) # d(w)
        /\ a(w) # b(v) /\ a(w) # c(v) /\ a(w) # d(v) /\ b(w) # c(v) /\ b(w) # d(v) /\ c(w) # d(v)
        /\ v # w => a(v) # a(w) /\ b(v) # b(w) /\ c(v) # c(w) /\ d(v) # d(w)
    OBVIOUS
  <1> HIDE DEF h, a, b, c, d
  <1> QED BY <1>2, <1>3

LEMMA InitHome == SimInit => OneHome /\ Values
  <1> SUFFICES ASSUME SimInit PROVE OneHome /\ Values
    OBVIOUS
  <1>1. \A r \in Requests : r > arrived /\ ~Live(r)
    BY DEF SimInit, Requests, Live
  <1>2. \A w \in Workers(config) : PQ(w) = {} /\ DQ(w) = {} /\ BP(w) = {} /\ BD(w) = {}
    BY DEF SimInit, PQ, DQ, BP, BD, Range
  <1>3. Distinct(<<>>)
    BY DEF Distinct
  <1>4. Housed([r \in Requests |-> 0])
    BY <1>1, <1>2 DEF Housed
  <1>5. OneHome
    BY <1>3, <1>4 DEF OneHome, SimInit
  <1>6. \A r \in Requests : PrefillLens[r] \in Nat \ {0}
    BY SizesAssumption
  <1>7. Values
    BY <1>1, <1>2, <1>6 DEF Values, SimInit
  <1> QED BY <1>5, <1>7

(* A step that moves nobody *)
LEMMA NobodyMoves ==
  ASSUME OneHome, Values,
         UNCHANGED <<config, arrived, prefillQueue, decodeQueue, batch, counter, remain, current, chunk, exited>>
  PROVE  OneHome' /\ Values'
  <1>1. /\ \A w : PQ(w)' = PQ(w) /\ DQ(w)' = DQ(w) /\ BP(w)' = BP(w) /\ BD(w)' = BD(w)
        /\ \A r : Live(r)' <=> Live(r)
        /\ \A w, r : (Prefills(w, r)' <=> Prefills(w, r)) /\ (Decodes(w, r)' <=> Decodes(w, r))
    BY DEF PQ, DQ, BP, BD, Live, Prefills, Decodes
  <1>2. OneHome'
    <2>1. PICK home : Housed(home)
      BY DEF OneHome
    <2>2. Housed(home)'
      BY <1>1, <2>1 DEF Housed
    <2> QED BY <2>2 DEF OneHome
  <1>3. Values'
    BY <1>1 DEF Values
  <1> QED BY <1>2, <1>3

LEMMA ArriveHome ==
  ASSUME SimShape, OneHome, Values, NEW w \in DOMAIN pc, Arrive(w)
  PROVE  OneHome' /\ Values'
  <1> DEFINE a == arrived + 1
  <1>1. w \in Workers(config) /\ a \in Requests /\ arrived' = a /\ w \in Range(PrefillHeads)
    BY DEF SimShape, Arrive
  <1>2. /\ prefillQueue' = [prefillQueue EXCEPT ![w] = Append(@, a)]
        /\ UNCHANGED <<config, decodeQueue, batch, counter, remain, current, chunk, exited>>
    BY DEF Arrive
  <1>3. w[1] \in PrefillStages /\ IsFirst(w)
    BY <1>1, HeadsFacts DEF SimShape
  <1>4. a \notin exited /\ a > arrived /\ arrived \in Nat
    BY DEF OneHome, SimShape
  <1>5. \A v \in Workers(config) : a \notin PQ(v) \cup DQ(v) \cup BP(v) \cup BD(v)
    BY <1>1, <1>4, Apart DEF Live
  <1>6. prefillQueue[w] \in Seq(Requests) /\ prefillQueue \in [Workers(config) -> Seq(Requests)]
    BY <1>1 DEF SimShape
  <1>7. /\ PQ(w)' = PQ(w) \cup {a}
        /\ \A v \in Workers(config) : v # w => PQ(v)' = PQ(v)
        /\ \A v \in Workers(config) : DQ(v)' = DQ(v) /\ BP(v)' = BP(v) /\ BD(v)' = BD(v)
    BY <1>1, <1>2, <1>6, AppendRange DEF PQ, DQ, BP, BD
  <1>8. Distinct(Append(prefillQueue[w], a))
    BY <1>1, <1>5, <1>6, AppendDistinct DEF PQ, OneHome
  <1>9. \A r \in Requests : Live(r)' <=> Live(r) \/ r = a
    BY <1>1, <1>2, <1>4 DEF Live, Requests
  <1>10. OneHome'
    <2>1. PICK home : Housed(home)
      BY DEF OneHome
    <2> DEFINE moved == [r \in Requests |-> IF r = a THEN <<"prefill queue", w>> ELSE home[r]]
    <2>2. PICK f : f = moved
      OBVIOUS
    <2>3. \A r \in Requests : f[r] = IF r = a THEN <<"prefill queue", w>> ELSE home[r]
      BY <2>2
    <2> HIDE DEF a, moved
    <2>4. \A r \in Requests : Live(r)' => f[r] \in Kinds \X Workers(config)
      <3>1. <<"prefill queue", w>> \in Kinds \X Workers(config)
        BY <1>1 DEF Kinds
      <3> QED BY <1>9, <2>1, <2>3, <3>1 DEF Housed
    <2>5. ASSUME NEW v \in Workers(config), NEW r \in Requests
          PROVE  /\ r \in PQ(v)' <=> Live(r)' /\ f[r] = <<"prefill queue", v>>
                 /\ r \in DQ(v)' <=> Live(r)' /\ f[r] = <<"decode queue", v>>
                 /\ r \in BP(v)' <=> Live(r)' /\ f[r] = <<"prefilling", v>>
                 /\ r \in BD(v)' <=> Live(r)' /\ f[r] = <<"decoding", v>>
      <3>1. CASE r = a
        <4>1. Live(r)' /\ f[r] = <<"prefill queue", w>>
          BY <1>9, <2>3, <3>1
        <4>2. (r \in PQ(v)' <=> v = w) /\ r \notin DQ(v)' /\ r \notin BP(v)' /\ r \notin BD(v)'
          BY <1>1, <1>5, <1>7, <3>1
        <4> QED BY <4>1, <4>2, PlacesDiffer
      <3>2. CASE r # a
        <4>1. (Live(r)' <=> Live(r)) /\ f[r] = home[r]
          BY <1>9, <2>3, <3>2
        <4>2. /\ r \in PQ(v)' <=> r \in PQ(v)
              /\ r \in DQ(v)' <=> r \in DQ(v)
              /\ r \in BP(v)' <=> r \in BP(v)
              /\ r \in BD(v)' <=> r \in BD(v)
          BY <1>7, <3>2
        <4> QED BY <4>1, <4>2, <2>1 DEF Housed
      <3> QED BY <3>1, <3>2
    <2>6. Housed(f)'
      <3>1. Workers(config)' = Workers(config)
        BY <1>2
      <3>2. \A r \in Requests : Live(r)' => f[r] \in Kinds \X Workers(config)'
        BY <2>4, <3>1
      <3>3. \A v \in Workers(config)', r \in Requests :
                 /\ r \in PQ(v)' <=> Live(r)' /\ f[r] = <<"prefill queue", v>>
                 /\ r \in DQ(v)' <=> Live(r)' /\ f[r] = <<"decode queue", v>>
                 /\ r \in BP(v)' <=> Live(r)' /\ f[r] = <<"prefilling", v>>
                 /\ r \in BD(v)' <=> Live(r)' /\ f[r] = <<"decoding", v>>
        BY <2>5, <3>1
      <3> QED BY <3>2, <3>3 DEF Housed
    <2>7. exited' \subseteq 1 .. arrived'
      BY <1>1, <1>2, <1>4 DEF OneHome, a
    <2>8. \A v \in Workers(config) : Distinct(prefillQueue'[v])
      BY <1>1, <1>2, <1>6, <1>8 DEF OneHome
    <2> QED BY <1>2, <2>6, <2>7, <2>8 DEF OneHome
  <1>11. Values'
    <2>1. \A v, r : (Prefills(v, r)' <=> Prefills(v, r)) /\ (Decodes(v, r)' <=> Decodes(v, r))
      BY <1>2 DEF Prefills, Decodes
    <2>2. Prefills(w, a) /\ remain[a] > 0 /\ chunk[a] = NoChunk
      BY <1>1, <1>3, <1>4, SizesAssumption DEF Values, Prefills
    <2>3. \A r \in Requests : r > arrived' => r > arrived
      BY <1>1, <1>4 DEF Requests
    <2>4. \A v : IsFirst(v)' <=> IsFirst(v)
      BY DEF IsFirst
    <2> HIDE DEF a
    <2>5. \A v \in Workers(config) : \A r \in PQ(v)' :
             /\ Prefills(v, r)'
             /\ IF IsFirst(v) THEN remain'[r] > 0 /\ chunk'[r] = NoChunk ELSE chunk'[r] # NoChunk
      BY <1>1, <1>2, <1>3, <1>7, <2>1, <2>2 DEF Values
    <2>6. \A v \in Workers(config) : /\ \A r \in BP(v)' : Prefills(v, r)' /\ chunk'[r] # NoChunk
                                     /\ \A r \in DQ(v)' \cup BD(v)' : Decodes(v, r)'
      BY <1>2, <1>7, <2>1 DEF Values
    <2> QED BY <1>2, <2>3, <2>4, <2>5, <2>6 DEF Values
  <1> QED BY <1>10, <1>11

LEMMA TakingSets ==
  ASSUME SimShape, OneHome, NEW w \in Workers(config), NEW n \in 0 .. Len(prefillQueue[w]),
         NEW m \in 0 .. Len(decodeQueue[w]), Taking(w, n, m)
  PROVE  LET P == Range(SubSeq(prefillQueue[w], 1, n))
             D == Range(SubSeq(decodeQueue[w], 1, m))
         IN  /\ P \subseteq PQ(w) /\ D \subseteq DQ(w) /\ BP(w) = {} /\ BD(w) = {}
             /\ PQ(w)' = PQ(w) \ P /\ DQ(w)' = DQ(w) \ D /\ BP(w)' = P /\ BD(w)' = D
             /\ \A v \in Workers(config) : v # w =>
                  PQ(v)' = PQ(v) /\ DQ(v)' = DQ(v) /\ BP(v)' = BP(v) /\ BD(v)' = BD(v)
             /\ \A v \in Workers(config) : /\ Distinct(prefillQueue'[v]) /\ Distinct(decodeQueue'[v])
                                           /\ Distinct(batch'[v].prefill) /\ Distinct(batch'[v].decode)
             /\ UNCHANGED <<config, arrived, counter, exited>>
  <1> DEFINE p == SubSeq(prefillQueue[w], 1, n)
             d == SubSeq(decodeQueue[w], 1, m)
             restP == SubSeq(prefillQueue[w], n + 1, Len(prefillQueue[w]))
             restD == SubSeq(decodeQueue[w], m + 1, Len(decodeQueue[w]))
  <1>1. /\ prefillQueue[w] \in Seq(Requests) /\ decodeQueue[w] \in Seq(Requests)
        /\ Distinct(prefillQueue[w]) /\ Distinct(decodeQueue[w])
    BY DEF SimShape, OneHome
  <1>2. /\ p \in Seq(Requests) /\ restP \in Seq(Requests)
        /\ Range(prefillQueue[w]) = Range(p) \cup Range(restP) /\ Range(p) \cap Range(restP) = {}
        /\ Distinct(p) /\ Distinct(restP)
    BY <1>1, SplitSeq
  <1>3. /\ d \in Seq(Requests) /\ restD \in Seq(Requests) /\ Len(d) = m
        /\ Range(decodeQueue[w]) = Range(d) \cup Range(restD) /\ Range(d) \cap Range(restD) = {}
        /\ Distinct(d) /\ Distinct(restD)
    BY <1>1, SplitSeq
  <1>4. /\ pc[w] # "busy" /\ UNCHANGED <<config, arrived, counter, exited>>
        /\ prefillQueue' = [prefillQueue EXCEPT ![w] = restP]
        /\ batch' = [batch EXCEPT ![w] = [prefill |-> p, decode |-> d]]
        /\ decodeQueue' = [decodeQueue EXCEPT ![w] = SubSeq(@, Len(d) + 1, Len(@))]
    BY DEF Taking, Begins
  <1>5. decodeQueue' = [decodeQueue EXCEPT ![w] = restD]
    BY <1>3, <1>4
  <1>6. BP(w) = {} /\ BD(w) = {}
    BY <1>4, RangesType
  <1> HIDE DEF p, d, restP, restD
  <1>7. /\ prefillQueue'[w] = restP /\ decodeQueue'[w] = restD
        /\ batch'[w].prefill = p /\ batch'[w].decode = d
        /\ \A v \in Workers(config) : v # w =>
             /\ prefillQueue'[v] = prefillQueue[v] /\ decodeQueue'[v] = decodeQueue[v]
             /\ batch'[v] = batch[v]
    BY <1>4, <1>5 DEF SimShape
  <1>8. /\ PQ(w)' = PQ(w) \ Range(p) /\ DQ(w)' = DQ(w) \ Range(d)
        /\ BP(w)' = Range(p) /\ BD(w)' = Range(d)
        /\ Range(p) \subseteq PQ(w) /\ Range(d) \subseteq DQ(w)
    BY <1>2, <1>3, <1>7 DEF PQ, DQ, BP, BD
  <1>9. \A v \in Workers(config) : v # w =>
          PQ(v)' = PQ(v) /\ DQ(v)' = DQ(v) /\ BP(v)' = BP(v) /\ BD(v)' = BD(v)
    BY <1>7 DEF PQ, DQ, BP, BD
  <1>10. \A v \in Workers(config) : /\ Distinct(prefillQueue'[v]) /\ Distinct(decodeQueue'[v])
                                    /\ Distinct(batch'[v].prefill) /\ Distinct(batch'[v].decode)
    BY <1>2, <1>3, <1>7 DEF OneHome
  <1> QED BY <1>4, <1>6, <1>8, <1>9, <1>10 DEF p, d

LEMMA TakingHome ==
  ASSUME SimShape, OneHome, NEW w \in Workers(config), NEW n \in 0 .. Len(prefillQueue[w]),
         NEW m \in 0 .. Len(decodeQueue[w]), Taking(w, n, m)
  PROVE  OneHome'
  <1> DEFINE P == Range(SubSeq(prefillQueue[w], 1, n))  D == Range(SubSeq(decodeQueue[w], 1, m))
  <1>1. /\ P \subseteq PQ(w) /\ D \subseteq DQ(w) /\ BP(w) = {} /\ BD(w) = {}
        /\ PQ(w)' = PQ(w) \ P /\ DQ(w)' = DQ(w) \ D /\ BP(w)' = P /\ BD(w)' = D
        /\ \A v \in Workers(config) : v # w =>
             PQ(v)' = PQ(v) /\ DQ(v)' = DQ(v) /\ BP(v)' = BP(v) /\ BD(v)' = BD(v)
        /\ \A v \in Workers(config) : /\ Distinct(prefillQueue'[v]) /\ Distinct(decodeQueue'[v])
                                      /\ Distinct(batch'[v].prefill) /\ Distinct(batch'[v].decode)
        /\ UNCHANGED <<config, arrived, counter, exited>>
    BY TakingSets
  <1> HIDE DEF P, D
  <1>2. PICK home : Housed(home)
    BY DEF OneHome
  <1>3. PICK f : f = [r \in Requests |-> IF r \in P THEN <<"prefilling", w>>
                                        ELSE IF r \in D THEN <<"decoding", w>> ELSE home[r]]
    OBVIOUS
  <1>4. \A r \in Requests : f[r] = IF r \in P THEN <<"prefilling", w>>
                                  ELSE IF r \in D THEN <<"decoding", w>> ELSE home[r]
    BY <1>3
  <1>5. \A r : Live(r)' <=> Live(r)
    BY <1>1 DEF Live
  <1>6. Workers(config)' = Workers(config)
    BY <1>1
  <1>7. \A r \in Requests : Live(r)' => f[r] \in Kinds \X Workers(config)'
    <2>1. <<"prefilling", w>> \in Kinds \X Workers(config) /\ <<"decoding", w>> \in Kinds \X Workers(config)
      BY DEF Kinds
    <2> QED BY <1>2, <1>4, <1>5, <1>6, <2>1 DEF Housed
  <1>8. ASSUME NEW v \in Workers(config), NEW r \in Requests
        PROVE  /\ r \in PQ(v)' <=> Live(r)' /\ f[r] = <<"prefill queue", v>>
               /\ r \in DQ(v)' <=> Live(r)' /\ f[r] = <<"decode queue", v>>
               /\ r \in BP(v)' <=> Live(r)' /\ f[r] = <<"prefilling", v>>
               /\ r \in BD(v)' <=> Live(r)' /\ f[r] = <<"decoding", v>>
    <2>1. CASE r \in P
      <3>1. Live(r)' /\ f[r] = <<"prefilling", w>> /\ r \in PQ(w)
        BY <1>1, <1>4, <1>5, <2>1, Apart
      <3>2. r \notin DQ(w) /\ (v # w => r \notin PQ(v) \cup DQ(v) \cup BP(v) \cup BD(v))
        BY <3>1, Apart
      <3>3. r \notin PQ(v)' /\ r \notin DQ(v)' /\ r \notin BD(v)' /\ (r \in BP(v)' <=> v = w)
        BY <1>1, <2>1, <3>1, <3>2
      <3> QED BY <3>1, <3>3, PlacesDiffer
    <2>2. CASE r \in D
      <3>1. r \in DQ(w) /\ r \notin PQ(w) /\ Live(r)'
        BY <1>1, <1>5, <2>2, Apart
      <3>2. f[r] = <<"decoding", w>>
        BY <1>1, <1>4, <2>2, <3>1
      <3>3. v # w => r \notin PQ(v) \cup DQ(v) \cup BP(v) \cup BD(v)
        BY <3>1, Apart
      <3>4. r \notin PQ(v)' /\ r \notin DQ(v)' /\ r \notin BP(v)' /\ (r \in BD(v)' <=> v = w)
        BY <1>1, <2>2, <3>1, <3>3
      <3> QED BY <3>1, <3>2, <3>4, PlacesDiffer
    <2>3. CASE r \notin P /\ r \notin D
      <3>1. f[r] = home[r] /\ (Live(r)' <=> Live(r))
        BY <1>4, <1>5, <2>3
      <3>2. /\ r \in PQ(v)' <=> r \in PQ(v)
            /\ r \in DQ(v)' <=> r \in DQ(v)
            /\ r \in BP(v)' <=> r \in BP(v)
            /\ r \in BD(v)' <=> r \in BD(v)
        BY <1>1, <2>3
      <3> QED BY <1>2, <3>1, <3>2 DEF Housed
    <2> QED BY <2>1, <2>2, <2>3
  <1>9. \A v \in Workers(config)', r \in Requests :
               /\ r \in PQ(v)' <=> Live(r)' /\ f[r] = <<"prefill queue", v>>
               /\ r \in DQ(v)' <=> Live(r)' /\ f[r] = <<"decode queue", v>>
               /\ r \in BP(v)' <=> Live(r)' /\ f[r] = <<"prefilling", v>>
               /\ r \in BD(v)' <=> Live(r)' /\ f[r] = <<"decoding", v>>
    BY <1>6, <1>8
  <1>10. Housed(f)'
    BY <1>7, <1>9 DEF Housed
  <1> QED BY <1>1, <1>10 DEF OneHome

LEMMA TakenParts ==
  ASSUME SimShape, OneHome, NEW w \in Workers(config), NEW n \in 0 .. Len(prefillQueue[w]),
         NEW m \in 0 .. Len(decodeQueue[w]), Taking(w, n, m)
  PROVE  \A r \in Requests : /\ remain'[r] <= remain[r]
                             /\ current'[r] = current[r] \/ current'[r] \in 0 .. remain[r]
                             /\ remain'[r] # remain[r] \/ current'[r] # current[r] =>
                                  r \in Range(SubSeq(prefillQueue[w], 1, n))
                             /\ r \in Range(SubSeq(prefillQueue[w], 1, n)) /\ IsFirst(w) /\ ~config.chunked =>
                                  remain'[r] = 0
  <1> DEFINE q == prefillQueue[w]  P == Range(SubSeq(q, 1, n))
  <1>1. /\ \A r \in Requests \ P : remain'[r] = remain[r] /\ current'[r] = current[r]
        /\ ~IsFirst(w) => remain' = remain /\ current' = current
        /\ IsFirst(w) => \A r \in P : \E i \in DOMAIN q :
             q[i] = r /\ current'[r] = Part(w, i) /\ remain'[r] = remain[r] - Part(w, i)
    BY TakenValues
  <1>2. \A r \in Requests : remain[r] \in Nat
    BY DEF SimShape
  <1>3. ASSUME NEW r \in P, IsFirst(w)
        PROVE  /\ remain'[r] <= remain[r] /\ current'[r] \in 0 .. remain[r] /\ r \in Requests
               /\ ~config.chunked => remain'[r] = 0
    <2>1. q \in Seq(Requests) /\ Distinct(q)
      BY DEF SimShape, OneHome
    <2>2. PICK i \in DOMAIN q : q[i] = r /\ current'[r] = Part(w, i) /\ remain'[r] = remain[r] - Part(w, i)
      BY <1>1, <1>3
    <2>3. PICK j \in 1 .. n : q[j] = r
      BY <2>1 DEF Range
    <2>4. i = j /\ n # 0 /\ r \in Requests
      BY <2>1, <2>2, <2>3 DEF Distinct
    <2>5. IsPrefillCount(w, n)
      BY <2>4 DEF Taking
    <2>6. PartFits(w, j)
      BY <1>3, <2>5 DEF IsPrefillCount, IsLongest
    <2>7. Part(w, i) \in Int /\ Part(w, i) <= remain[r] /\ (~config.chunked => Part(w, i) = remain[r])
      BY <2>2, PartType
    <2>8. Part(w, i) >= 0
      BY <1>2, <2>4, <2>6, <2>7 DEF PartFits
    <2>9. remain[r] \in Nat
      BY <1>2, <2>4
    <2> QED BY <2>2, <2>4, <2>7, <2>8, <2>9
  <1> HIDE DEF P, q
  <1>4. ASSUME NEW r \in Requests
        PROVE  /\ remain'[r] <= remain[r]
               /\ current'[r] = current[r] \/ current'[r] \in 0 .. remain[r]
               /\ remain'[r] # remain[r] \/ current'[r] # current[r] => r \in P
               /\ r \in P /\ IsFirst(w) /\ ~config.chunked => remain'[r] = 0
    <2>1. remain[r] <= remain[r]
      BY <1>2
    <2> QED BY <1>1, <1>3, <2>1
  <1> QED BY <1>4 DEF P, q

LEMMA TakingKeepsValues ==
  ASSUME SimShape, OneHome, Values, NEW w \in Workers(config), NEW n \in 0 .. Len(prefillQueue[w]),
         NEW m \in 0 .. Len(decodeQueue[w]), Taking(w, n, m)
  PROVE  Values'
  <1> DEFINE P == Range(SubSeq(prefillQueue[w], 1, n))  D == Range(SubSeq(decodeQueue[w], 1, m))
  <1>1. /\ P \subseteq PQ(w) /\ D \subseteq DQ(w)
        /\ PQ(w)' = PQ(w) \ P /\ DQ(w)' = DQ(w) \ D /\ BP(w)' = P /\ BD(w)' = D
        /\ \A v \in Workers(config) : v # w =>
             PQ(v)' = PQ(v) /\ DQ(v)' = DQ(v) /\ BP(v)' = BP(v) /\ BD(v)' = BD(v)
        /\ UNCHANGED <<config, arrived, counter, exited>>
    BY TakingSets
  <1>2. /\ \A r \in Requests \ P : remain'[r] = remain[r] /\ chunk'[r] = chunk[r]
        /\ ~IsFirst(w) => chunk' = chunk
        /\ IsFirst(w) => \A r \in P : chunk'[r] = prefillQueue[w][1]
    BY TakenValues
  <1>3. \A r \in Requests : /\ remain'[r] <= remain[r]
                            /\ current'[r] = current[r] \/ current'[r] \in 0 .. remain[r]
    BY TakenParts
  <1>4. P # {} => prefillQueue[w][1] # NoChunk
    <2>1. prefillQueue[w] \in Seq(Requests)
      BY DEF SimShape
    <2>2. P # {} => 1 \in DOMAIN prefillQueue[w]
      BY <2>1 DEF Range
    <2>3. \A r \in Requests : r # NoChunk
      BY DEF Requests, NoChunk
    <2> QED BY <2>1, <2>2, <2>3
  <1> HIDE DEF P, D
  <1>5. \A v, r : Prefills(v, r)' <=> Prefills(v, r)
    BY <1>1 DEF Prefills
  <1>6. \A v \in Workers(config) : \A r \in PQ(v) \cup DQ(v) \cup BP(v) \cup BD(v) : r \in Requests /\ Live(r)
    BY RangesType, Apart
  <1>7. ASSUME NEW r \in Requests
        PROVE  remain'[r] <= PrefillLens[r] /\ current'[r] \in 0 .. PrefillLens[r]
    <2>1. remain[r] <= PrefillLens[r] /\ current[r] \in 0 .. PrefillLens[r] /\ PrefillLens[r] \in Nat
      BY SizesAssumption DEF Values
    <2>2. remain[r] \in Nat /\ remain'[r] \in Nat
      BY TakingShape DEF SimShape
    <2> QED BY <1>3, <2>1, <2>2
  <1>8. \A r \in P : r \in Requests /\ r <= arrived /\ r \notin exited
    BY <1>1, <1>6 DEF Live
  <1>9. \A r \in Requests : r > arrived' =>
          counter'[r] = -1 /\ remain'[r] = PrefillLens[r] /\ chunk'[r] = NoChunk
    <2>1. \A r \in Requests : r > arrived => r \notin P
      BY <1>8 DEF SimShape, Requests
    <2> QED BY <1>1, <1>2, <2>1 DEF Values
  <1>10. \A r \in exited' : counter'[r] = OutputLens[r] /\ remain'[r] = 0 /\ chunk'[r] = NoChunk
    BY <1>1, <1>2, <1>8 DEF Values, SimShape
  <1>11. \A v : IsFirst(v)' <=> IsFirst(v)
    BY DEF IsFirst
  <1>12. ASSUME NEW v \in Workers(config), NEW r \in PQ(v)'
         PROVE  /\ Prefills(v, r)'
                /\ IF IsFirst(v) THEN remain'[r] > 0 /\ chunk'[r] = NoChunk ELSE chunk'[r] # NoChunk
    <2>1. r \in PQ(v) /\ r \notin P /\ r \in Requests
      <3>1. r \in PQ(v) /\ (v = w => r \notin P)
        BY <1>1, <1>12
      <3>2. r \in Requests
        BY <1>6, <3>1
      <3> QED BY <1>1, <3>1, <3>2, Apart
    <2> QED BY <1>2, <1>5, <2>1 DEF Values
  <1>13. ASSUME NEW v \in Workers(config), NEW r \in BP(v)'
         PROVE  Prefills(v, r)' /\ chunk'[r] # NoChunk
    <2>1. CASE v = w
      <3>1. r \in P /\ r \in PQ(w)
        BY <1>1, <1>13, <2>1
      <3>2. Prefills(v, r)' /\ (~IsFirst(w) => chunk[r] # NoChunk)
        BY <1>5, <2>1, <3>1 DEF Values
      <3>3. chunk'[r] # NoChunk
        BY <1>2, <1>4, <3>1, <3>2
      <3> QED BY <3>2, <3>3
    <2>2. CASE v # w
      <3>1. r \in BP(v) /\ r \in Requests
        BY <1>1, <1>6, <1>13, <2>2
      <3>2. r \notin P
        BY <1>1, <3>1, Apart
      <3> QED BY <1>2, <1>5, <3>1, <3>2 DEF Values
    <2> QED BY <2>1, <2>2
  <1>14. ASSUME NEW v \in Workers(config), NEW r \in DQ(v)' \cup BD(v)'
         PROVE  Decodes(v, r)'
    <2>1. r \in DQ(v) \cup BD(v)
      BY <1>1, <1>14
    <2>2. r \in Requests /\ r \notin P
      BY <1>1, <1>6, <2>1, Apart
    <2>3. Decodes(v, r)
      BY <2>1 DEF Values
    <2> QED BY <1>1, <1>2, <2>2, <2>3 DEF Decodes
  <1> QED BY <1>1, <1>7, <1>9, <1>10, <1>11, <1>12, <1>13, <1>14 DEF Values

(* The counters after an iteration: whoever goes on with its prefill has no
   token yet, and only the last worker of a pipeline gives one. *)
LEMMA CounterFacts ==
  ASSUME SimShape, OneHome, Values, NEW w \in Workers(config)
  PROVE  /\ \A r \in Requests : r \notin BP(w) \cup BD(w) => CounterAfter(w, r) = counter[r]
         /\ \A r \in BP(w) : GoesOn(w, r) => CounterAfter(w, r) = -1 /\ ~ShouldFinish(w, r)
         /\ \A r \in BP(w) : ~GoesOn(w, r) => IsLast(w) /\ remain[r] = 0 /\ CounterAfter(w, r) = 0
         /\ \A r \in BD(w) : CounterAfter(w, r) = IF IsLast(w) THEN counter[r] + 1 ELSE counter[r]
         /\ \A r \in BP(w) \cup BD(w) : ShouldFinish(w, r) => IsLast(w) /\ CounterAfter(w, r) = OutputLens[r]
         /\ \A r \in BP(w) \cup BD(w) : ~ShouldFinish(w, r) => CounterAfter(w, r) < OutputLens[r]
  <1>1. \A r \in Requests : /\ counter[r] \in Int /\ remain[r] \in Nat /\ OutputLens[r] \in Nat
                            /\ CounterAfter(w, r) \in Int
    <2>1. \A r \in Requests : counter[r] \in Int /\ remain[r] \in Nat /\ OutputLens[r] \in Nat
      BY SizesAssumption DEF SimShape
    <2> QED BY <2>1 DEF CounterAfter
  <1>2. \A r \in BP(w) : r \in Requests /\ counter[r] = -1 /\ r \notin BD(w)
    BY RangesType, Apart DEF Values, Prefills
  <1>3. \A r \in BD(w) : r \in Requests /\ counter[r] \in 0 .. OutputLens[r] - 1 /\ r \notin BP(w)
    BY RangesType, Apart DEF Values, Decodes
  <1>4. \A r : CounterAfter(w, r) = IF ~IsLast(w) THEN counter[r]
                                    ELSE IF r \in BD(w) THEN counter[r] + 1
                                    ELSE IF r \in BP(w) /\ remain[r] = 0 THEN 0
                                    ELSE counter[r]
    BY DEF CounterAfter, BP, BD
  <1>5. \A r \in Requests : r \notin BP(w) \cup BD(w) => CounterAfter(w, r) = counter[r]
    BY <1>4
  <1>6. \A r \in BP(w) : GoesOn(w, r) => CounterAfter(w, r) = -1
    BY <1>1, <1>2, <1>4 DEF GoesOn
  <1>7. \A r \in BP(w) : ~GoesOn(w, r) => IsLast(w) /\ remain[r] = 0 /\ CounterAfter(w, r) = 0
    BY <1>1, <1>2, <1>4 DEF GoesOn
  <1>8. \A r \in BD(w) : CounterAfter(w, r) = IF IsLast(w) THEN counter[r] + 1 ELSE counter[r]
    BY <1>4
  <1>9. \A r \in BP(w) : GoesOn(w, r) => ~ShouldFinish(w, r)
    BY <1>1, <1>2, <1>6 DEF ShouldFinish
  <1>10. ASSUME NEW r \in BP(w)
         PROVE  /\ ShouldFinish(w, r) => IsLast(w) /\ CounterAfter(w, r) = OutputLens[r]
                /\ ~ShouldFinish(w, r) => CounterAfter(w, r) < OutputLens[r]
    BY <1>1, <1>2, <1>7, <1>9 DEF ShouldFinish
  <1>11. ASSUME NEW r \in BD(w)
         PROVE  /\ ShouldFinish(w, r) => IsLast(w) /\ CounterAfter(w, r) = OutputLens[r]
                /\ ~ShouldFinish(w, r) => CounterAfter(w, r) < OutputLens[r]
    BY <1>1, <1>3, <1>8 DEF ShouldFinish
  <1> QED BY <1>5, <1>6, <1>7, <1>8, <1>9, <1>10, <1>11

LEMMA FinishSets ==
  ASSUME SimShape, OneHome, Values, NEW w \in Workers(config), Finish(w),
         NEW onward, NEW rounds, NEW share, Ending(w, onward, rounds, share)
  PROVE  LET next == NextWorker(w)
             O == Range(onward)  R == Range(rounds)  G(v) == Range(Given(w, share, v))
         IN  /\ O = {r \in BP(w) : GoesOn(w, r)} /\ R = {r \in BD(w) : ~ShouldFinish(w, r)}
             /\ \A v \in Workers(config) :
                  /\ G(v) \subseteq {r \in BP(w) : TurnsToDecode(w, r)}
                  /\ G(v) # {} => v \in Targets(w)
                  /\ PQ(v)' = PQ(v) \cup (IF v = next THEN O ELSE {})
                  /\ DQ(v)' = DQ(v) \cup G(v) \cup (IF v = next THEN R ELSE {})
                  /\ BP(v)' = IF v = w THEN {} ELSE BP(v)
                  /\ BD(v)' = IF v = w THEN {} ELSE BD(v)
                  /\ Distinct(prefillQueue'[v]) /\ Distinct(decodeQueue'[v])
                  /\ Distinct(batch'[v].prefill) /\ Distinct(batch'[v].decode)
             /\ \A r \in BP(w) : TurnsToDecode(w, r) => \E v \in Workers(config) : r \in G(v)
             /\ \A u, v \in Workers(config) : u # v => G(u) \cap G(v) = {}
             /\ exited' = exited \cup {r \in BP(w) \cup BD(w) : ShouldFinish(w, r)}
             /\ UNCHANGED <<config, arrived, remain>>
             /\ next \in Workers(config)
  <1> DEFINE next == NextWorker(w)
             O == Range(onward)  R == Range(rounds)
             given(v) == Given(w, share, v)  turned(v) == Turned(w, rounds, v)
             G(v) == Range(given(v))  T(v) == Range(turned(v))
  <1>1. next \in Workers(config) /\ Targets(w) \subseteq Workers(config)
    BY WorkerFacts, TargetsFacts DEF SimShape
  <1>2. /\ onward \in Seq(Requests) /\ Distinct(onward) /\ O = {r \in BP(w) : GoesOn(w, r)}
        /\ rounds \in Seq(Requests) /\ Distinct(rounds) /\ R = {r \in BD(w) : ~ShouldFinish(w, r)}
        /\ \A v \in Workers(config) :
              /\ given(v) \in Seq(Requests) /\ Distinct(given(v))
              /\ G(v) \subseteq {r \in BP(w) : TurnsToDecode(w, r)}
              /\ turned(v) \in Seq(Requests) /\ Distinct(turned(v))
              /\ T(v) = IF v = next THEN R ELSE {}
        /\ \A r \in BP(w) : TurnsToDecode(w, r) => \E v \in Targets(w) : r \in G(v)
        /\ \A u, v \in Workers(config) : u # v => G(u) \cap G(v) = {}
        /\ \A v \in Workers(config) : G(v) # {} => v \in Targets(w)
    BY EndingTypes DEF BP, BD
  <1>3. /\ prefillQueue' = [prefillQueue EXCEPT ![next] = @ \o onward]
        /\ decodeQueue' = [v \in Workers(config) |-> decodeQueue[v] \o given(v) \o turned(v)]
    BY DEF Ending
  <1>4. /\ batch' = [batch EXCEPT ![w] = [prefill |-> <<>>, decode |-> <<>>]]
        /\ exited' = exited \cup {r \in BP(w) \cup BD(w) : ShouldFinish(w, r)}
        /\ UNCHANGED <<config, arrived, remain>>
    BY DEF Finish, BP, BD
  <1> HIDE DEF O, R, G, T, given, turned, next
  <1>5. ASSUME NEW v \in Workers(config)
        PROVE  /\ PQ(v)' = PQ(v) \cup (IF v = next THEN O ELSE {})
               /\ Distinct(prefillQueue'[v])
    <2>1. prefillQueue[v] \in Seq(Requests) /\ Distinct(prefillQueue[v])
      BY DEF SimShape, OneHome
    <2>2. CASE v # next
      <3>1. prefillQueue'[v] = prefillQueue[v]
        BY <1>3, <2>2 DEF SimShape
      <3> QED BY <2>1, <2>2, <3>1 DEF PQ
    <2>3. CASE v = next
      <3>1. prefillQueue'[v] = prefillQueue[v] \o onward
        BY <1>1, <1>3, <2>3 DEF SimShape
      <3>2. Range(prefillQueue[v]) \cap Range(onward) = {}
        <4>1. \A r \in Range(prefillQueue[v]) : r \in Requests /\ r \notin BP(w)
          BY RangesType, Apart DEF PQ
        <4>2. \A r \in Range(onward) : r \in BP(w)
          BY <1>2 DEF O
        <4> QED BY <4>1, <4>2
      <3>3. /\ Distinct(prefillQueue[v] \o onward)
            /\ Range(prefillQueue[v] \o onward) = Range(prefillQueue[v]) \cup Range(onward)
        BY <1>2, <2>1, <3>2, ConcatDistinct
      <3> QED BY <2>3, <3>1, <3>3 DEF PQ, O
    <2> QED BY <2>2, <2>3
  <1>6. ASSUME NEW v \in Workers(config)
        PROVE  /\ DQ(v)' = DQ(v) \cup G(v) \cup (IF v = next THEN R ELSE {})
               /\ Distinct(decodeQueue'[v])
    <2>1. decodeQueue[v] \in Seq(Requests) /\ Distinct(decodeQueue[v])
      BY DEF SimShape, OneHome
    <2>2. \A r \in DQ(v) : r \in Requests /\ r \notin BP(w) /\ r \notin BD(w)
      BY RangesType, Apart
    <2>3. \A r \in BP(w) : r \in Requests /\ r \notin BD(w)
      BY RangesType, Apart
    <2>4. G(v) \subseteq BP(w) /\ T(v) \subseteq BD(w)
      BY <1>2
    <2>5. Range(decodeQueue[v]) \cap Range(given(v)) = {}
      BY <2>2, <2>4 DEF DQ, G
    <2>6. /\ decodeQueue[v] \o given(v) \in Seq(Requests) /\ Distinct(decodeQueue[v] \o given(v))
          /\ Range(decodeQueue[v] \o given(v)) = Range(decodeQueue[v]) \cup Range(given(v))
      BY <1>2, <2>1, <2>5, ConcatDistinct
    <2>7. Range(decodeQueue[v] \o given(v)) \cap Range(turned(v)) = {}
      BY <2>2, <2>3, <2>4, <2>6 DEF DQ, G, T
    <2>8. /\ Distinct(decodeQueue[v] \o given(v) \o turned(v))
          /\ Range(decodeQueue[v] \o given(v) \o turned(v)) = DQ(v) \cup G(v) \cup T(v)
      <3> DEFINE s == decodeQueue[v] \o given(v)
      <3>1. s \in Seq(Requests) /\ Distinct(s) /\ Range(s) = DQ(v) \cup G(v) /\ Range(s) \cap Range(turned(v)) = {}
        BY <2>6, <2>7 DEF DQ, G
      <3>2. turned(v) \in Seq(Requests) /\ Distinct(turned(v))
        BY <1>2
      <3> HIDE DEF s
      <3>3. Distinct(s \o turned(v)) /\ Range(s \o turned(v)) = Range(s) \cup Range(turned(v))
        BY <3>1, <3>2, ConcatDistinct
      <3> QED BY <3>1, <3>3 DEF s, T
    <2>9. decodeQueue'[v] = decodeQueue[v] \o given(v) \o turned(v)
      BY <1>3
    <2>10. T(v) = IF v = next THEN R ELSE {}
      BY <1>2
    <2> QED BY <2>8, <2>9, <2>10 DEF DQ
  <1>7. ASSUME NEW v \in Workers(config)
        PROVE  /\ BP(v)' = IF v = w THEN {} ELSE BP(v)
               /\ BD(v)' = IF v = w THEN {} ELSE BD(v)
               /\ Distinct(batch'[v].prefill) /\ Distinct(batch'[v].decode)
    <2>1. Range(<<>>) = {} /\ Distinct(<<>>)
      BY DEF Range, Distinct
    <2>2. CASE v = w
      <3>1. batch'[v].prefill = <<>> /\ batch'[v].decode = <<>>
        BY <1>4, <2>2 DEF SimShape
      <3> QED BY <2>1, <2>2, <3>1 DEF BP, BD
    <2>3. CASE v # w
      <3>1. batch'[v] = batch[v]
        BY <1>4, <2>3 DEF SimShape
      <3> QED BY <2>3, <3>1 DEF BP, BD, OneHome
    <2> QED BY <2>2, <2>3
  <1> QED BY <1>1, <1>2, <1>4, <1>5, <1>6, <1>7 DEF O, R, G, T, given, turned, next

LEMMA FinishHome ==
  ASSUME SimShape, OneHome, Values, NEW w \in Workers(config), Finish(w),
         NEW onward, NEW rounds, NEW share, Ending(w, onward, rounds, share)
  PROVE  OneHome'
  <1> DEFINE next == NextWorker(w)
             O == Range(onward)  R == Range(rounds)  G(v) == Range(Given(w, share, v))
             Out == {r \in BP(w) \cup BD(w) : ShouldFinish(w, r)}
  <1>1. /\ O = {r \in BP(w) : GoesOn(w, r)} /\ R = {r \in BD(w) : ~ShouldFinish(w, r)}
        /\ \A v \in Workers(config) :
             /\ G(v) \subseteq {r \in BP(w) : TurnsToDecode(w, r)}
             /\ PQ(v)' = PQ(v) \cup (IF v = next THEN O ELSE {})
             /\ DQ(v)' = DQ(v) \cup G(v) \cup (IF v = next THEN R ELSE {})
             /\ BP(v)' = IF v = w THEN {} ELSE BP(v)
             /\ BD(v)' = IF v = w THEN {} ELSE BD(v)
             /\ Distinct(prefillQueue'[v]) /\ Distinct(decodeQueue'[v])
             /\ Distinct(batch'[v].prefill) /\ Distinct(batch'[v].decode)
        /\ \A r \in BP(w) : TurnsToDecode(w, r) => \E v \in Workers(config) : r \in G(v)
        /\ \A u, v \in Workers(config) : u # v => G(u) \cap G(v) = {}
        /\ exited' = exited \cup Out
        /\ UNCHANGED <<config, arrived, remain>>
        /\ next \in Workers(config)
    BY FinishSets
  <1>2. /\ \A r \in BP(w) : GoesOn(w, r) => ~ShouldFinish(w, r)
        /\ \A r \in BP(w) : r \in Requests /\ Live(r) /\ r \notin BD(w)
        /\ \A r \in BD(w) : r \in Requests /\ Live(r) /\ r \notin BP(w)
        /\ \A r \in BP(w) : TurnsToDecode(w, r) <=> ~GoesOn(w, r) /\ ~ShouldFinish(w, r)
    BY CounterFacts, RangesType, Apart DEF TurnsToDecode
  <1>3. /\ Out \subseteq BP(w) \cup BD(w)
        /\ \A r \in BP(w) \cup BD(w) : r \in Out <=> ShouldFinish(w, r)
    OBVIOUS
  <1> HIDE DEF O, R, G, Out, next
  <1>4. PICK home : Housed(home)
    BY DEF OneHome
  <1>5. PICK f : f = [r \in Requests |->
                        IF r \in O THEN <<"prefill queue", next>>
                        ELSE IF r \in R THEN <<"decode queue", next>>
                        ELSE IF \E v \in Workers(config) : r \in G(v)
                             THEN <<"decode queue", CHOOSE v \in Workers(config) : r \in G(v)>>
                        ELSE home[r]]
    OBVIOUS
  <1>6. \A r \in Requests : f[r] = IF r \in O THEN <<"prefill queue", next>>
                        ELSE IF r \in R THEN <<"decode queue", next>>
                        ELSE IF \E v \in Workers(config) : r \in G(v)
                             THEN <<"decode queue", CHOOSE v \in Workers(config) : r \in G(v)>>
                        ELSE home[r]
    BY <1>5
  <1>7. \A r \in Requests : Live(r)' <=> Live(r) /\ r \notin Out
    BY <1>1 DEF Live
  <1>8. Workers(config)' = Workers(config)
    BY <1>1
  <1> DEFINE Put(r, v) == /\ r \in PQ(v)' <=> Live(r)' /\ f[r] = <<"prefill queue", v>>
                          /\ r \in DQ(v)' <=> Live(r)' /\ f[r] = <<"decode queue", v>>
                          /\ r \in BP(v)' <=> Live(r)' /\ f[r] = <<"prefilling", v>>
                          /\ r \in BD(v)' <=> Live(r)' /\ f[r] = <<"decoding", v>>
             Good(r) == Live(r)' => f[r] \in Kinds \X Workers(config)
  <1>9. /\ \A v \in Workers(config) : /\ <<"prefill queue", v>> \in Kinds \X Workers(config)
                                      /\ <<"decode queue", v>> \in Kinds \X Workers(config)
    BY DEF Kinds
  <1>10. ASSUME NEW r \in BP(w), NEW v \in Workers(config)
         PROVE Put(r, v) /\ Good(r)
    <2>1. /\ r \in Requests /\ Live(r) /\ r \notin BD(w) /\ r \notin R
          /\ r \notin PQ(v) /\ r \notin DQ(v) /\ r \notin BD(v) /\ (v # w => r \notin BP(v))
      BY <1>1, <1>2, Apart
    <2>2. r \notin BP(v)' /\ r \notin BD(v)'
      BY <1>1, <2>1
    <2>3. CASE r \in O
      <3>1. Live(r)' /\ f[r] = <<"prefill queue", next>> /\ r \notin G(v)
        BY <1>1, <1>2, <1>3, <1>6, <1>7, <2>1, <2>3
      <3>2. (r \in PQ(v)' <=> v = next) /\ r \notin DQ(v)'
        BY <1>1, <2>1, <2>3, <3>1
      <3> QED BY <1>1, <1>9, <2>2, <3>1, <3>2, PlacesDiffer
    <2>4. CASE r \notin O /\ ~ShouldFinish(w, r)
      <3>1. TurnsToDecode(w, r)
        BY <1>1, <1>2, <2>4
      <3>2. PICK u \in Workers(config) : r \in G(u)
        BY <1>1, <3>1
      <3>3. \A x \in Workers(config) : r \in G(x) <=> x = u
        BY <1>1, <3>2
      <3>4. u = CHOOSE x \in Workers(config) : r \in G(x)
        BY <3>2, <3>3
      <3>5. Live(r)' /\ f[r] = <<"decode queue", u>>
        BY <1>3, <1>6, <1>7, <2>1, <2>4, <3>2, <3>4
      <3>6. (r \in DQ(v)' <=> v = u) /\ r \notin PQ(v)'
        BY <1>1, <2>1, <2>4, <3>3
      <3> QED BY <1>9, <2>2, <3>5, <3>6, PlacesDiffer
    <2>5. CASE ShouldFinish(w, r)
      <3>1. r \notin O /\ r \notin G(v) /\ ~Live(r)'
        BY <1>1, <1>2, <1>3, <1>7, <2>1, <2>5
      <3> QED BY <1>1, <2>1, <2>2, <3>1
    <2> QED BY <2>3, <2>4, <2>5
  <1>11. ASSUME NEW r \in BD(w), NEW v \in Workers(config)
         PROVE Put(r, v) /\ Good(r)
    <2>1. /\ r \in Requests /\ Live(r) /\ r \notin BP(w)
          /\ r \notin PQ(v) /\ r \notin DQ(v) /\ r \notin BP(v) /\ (v # w => r \notin BD(v))
      BY <1>2, Apart
    <2>2. r \notin BP(v)' /\ r \notin BD(v)' /\ r \notin O /\ r \notin G(v)
      BY <1>1, <2>1
    <2>3. CASE r \in R
      <3>1. Live(r)' /\ f[r] = <<"decode queue", next>>
        BY <1>1, <1>3, <1>6, <1>7, <2>1, <2>2, <2>3
      <3>2. (r \in DQ(v)' <=> v = next) /\ r \notin PQ(v)'
        BY <1>1, <2>1, <2>2, <2>3
      <3> QED BY <1>1, <1>9, <2>2, <3>1, <3>2, PlacesDiffer
    <2>4. CASE r \notin R
      <3>1. ~Live(r)'
        BY <1>1, <1>3, <1>7, <2>1, <2>4
      <3> QED BY <1>1, <2>1, <2>2, <2>4, <3>1
    <2> QED BY <2>3, <2>4
  <1>12. ASSUME NEW r \in Requests, r \notin BP(w) \cup BD(w), NEW v \in Workers(config)
         PROVE Put(r, v) /\ Good(r)
    <2>1. r \notin O /\ r \notin R /\ r \notin Out /\ \A u \in Workers(config) : r \notin G(u)
      BY <1>1, <1>3, <1>12
    <2>2. f[r] = home[r] /\ (Live(r)' <=> Live(r))
      BY <1>6, <1>7, <2>1
    <2>3. /\ r \in PQ(v)' <=> r \in PQ(v)
          /\ r \in DQ(v)' <=> r \in DQ(v)
          /\ r \in BP(v)' <=> r \in BP(v)
          /\ r \in BD(v)' <=> r \in BD(v)
      BY <1>1, <1>12, <2>1
    <2> QED BY <1>4, <2>2, <2>3 DEF Housed
  <1>13. \A r \in Requests, v \in Workers(config) : Put(r, v) /\ Good(r)
    BY <1>10, <1>11, <1>12
  <1>14. Housed(f)'
    <2>1. \A r \in Requests : Live(r)' => f[r] \in Kinds \X Workers(config)'
      BY <1>8, <1>13
    <2>2. \A v \in Workers(config)', r \in Requests : Put(r, v)
      BY <1>8, <1>13
    <2> QED BY <2>1, <2>2 DEF Housed
  <1>15. exited' \subseteq 1 .. arrived'
    <2>1. \A r \in BP(w) \cup BD(w) : r \in 1 .. arrived
      BY <1>2 DEF Live, Requests, SimShape
    <2> QED BY <1>1, <1>3, <2>1 DEF OneHome
  <1> QED BY <1>1, <1>14, <1>15 DEF OneHome

LEMMA FinishKeepsValues ==
  ASSUME SimShape, OneHome, Values, NEW w \in Workers(config), Finish(w),
         NEW onward, NEW rounds, NEW share, Ending(w, onward, rounds, share)
  PROVE  Values'
  <1> DEFINE next == NextWorker(w)
             O == Range(onward)  R == Range(rounds)  G(v) == Range(Given(w, share, v))
             done == IF IsLast(w) THEN BP(w) ELSE {}
  <1>1. /\ O = {r \in BP(w) : GoesOn(w, r)} /\ R = {r \in BD(w) : ~ShouldFinish(w, r)}
        /\ \A v \in Workers(config) :
             /\ G(v) \subseteq {r \in BP(w) : TurnsToDecode(w, r)}
             /\ G(v) # {} => v \in Targets(w)
             /\ PQ(v)' = PQ(v) \cup (IF v = next THEN O ELSE {})
             /\ DQ(v)' = DQ(v) \cup G(v) \cup (IF v = next THEN R ELSE {})
             /\ BP(v)' = IF v = w THEN {} ELSE BP(v)
             /\ BD(v)' = IF v = w THEN {} ELSE BD(v)
        /\ exited' = exited \cup {r \in BP(w) \cup BD(w) : ShouldFinish(w, r)}
        /\ UNCHANGED <<config, arrived, remain>>
    BY FinishSets
  <1>2. /\ counter' = [r \in Requests |-> CounterAfter(w, r)]
        /\ chunk' = [r \in Requests |-> IF r \in done THEN NoChunk ELSE chunk[r]]
        /\ current' = [r \in Requests |-> IF r \in done THEN 0 ELSE current[r]]
    BY DEF Finish, BP
  <1>3. /\ \A r \in Requests : r \notin BP(w) \cup BD(w) => CounterAfter(w, r) = counter[r]
        /\ \A r \in BP(w) : GoesOn(w, r) => CounterAfter(w, r) = -1 /\ ~ShouldFinish(w, r)
        /\ \A r \in BP(w) : ~GoesOn(w, r) => IsLast(w) /\ remain[r] = 0 /\ CounterAfter(w, r) = 0
        /\ \A r \in BD(w) : CounterAfter(w, r) = IF IsLast(w) THEN counter[r] + 1 ELSE counter[r]
        /\ \A r \in BP(w) \cup BD(w) : ShouldFinish(w, r) => IsLast(w) /\ CounterAfter(w, r) = OutputLens[r]
        /\ \A r \in BP(w) \cup BD(w) : ~ShouldFinish(w, r) => CounterAfter(w, r) < OutputLens[r]
    BY CounterFacts
  <1>4. \A v \in Workers(config) : \A r \in PQ(v) \cup DQ(v) \cup BP(v) \cup BD(v) : r \in Requests /\ Live(r)
    BY RangesType, Apart
  <1>5. /\ \A r \in Requests \ (BP(w) \cup BD(w)) : counter'[r] = counter[r] /\ chunk'[r] = chunk[r]
        /\ \A r \in Requests \ BP(w) : chunk'[r] = chunk[r]
        /\ \A r \in BP(w) \cup BD(w) : counter'[r] = CounterAfter(w, r)
        /\ \A r \in BP(w) : chunk'[r] = IF IsLast(w) THEN NoChunk ELSE chunk[r]
    BY <1>2, <1>3, <1>4
  <1>6. /\ next \in Workers(config) /\ next[1] = w[1]
        /\ IsLast(w) => IsFirst(next)
        /\ ~IsLast(w) => ~IsFirst(next)
        /\ IsLast(w) => \A v \in Targets(w) : v[1] \in DecodeStages
        /\ \A v : IsFirst(v)' <=> IsFirst(v)
    BY WorkerFacts, TargetsFacts DEF SimShape, IsFirst
  <1>7. /\ \A r \in BP(w) : Prefills(w, r) /\ chunk[r] # NoChunk
        /\ \A r \in BD(w) : Decodes(w, r)
    BY DEF Values
  <1>8. \A r \in Requests : /\ counter[r] \in Int /\ OutputLens[r] \in Nat /\ remain[r] \in Nat
                            /\ PrefillLens[r] \in Nat
    BY SizesAssumption DEF SimShape
  <1> HIDE DEF O, R, G, done, next
  <1>9. \A r \in Requests : remain'[r] <= PrefillLens[r] /\ current'[r] \in 0 .. PrefillLens[r]
    BY <1>1, <1>2, <1>8 DEF Values
  <1>10. \A r \in Requests : r > arrived' =>
           counter'[r] = -1 /\ remain'[r] = PrefillLens[r] /\ chunk'[r] = NoChunk
    <2>1. \A r \in Requests : r > arrived => r \notin BP(w) \cup BD(w)
      BY <1>4 DEF Live, SimShape, Requests
    <2> QED BY <1>1, <1>5, <2>1 DEF Values
  <1>11. ASSUME NEW r \in exited'
         PROVE  counter'[r] = OutputLens[r] /\ remain'[r] = 0 /\ chunk'[r] = NoChunk
    <2>1. CASE r \in exited
      <3>1. r \in Requests /\ r \notin BP(w) \cup BD(w)
        BY <1>4, <2>1 DEF Live, SimShape
      <3> QED BY <1>1, <1>5, <2>1, <3>1 DEF Values
    <2>2. CASE r \in BP(w) /\ ShouldFinish(w, r)
      BY <1>1, <1>3, <1>5, <2>2
    <2>3. CASE r \in BD(w) /\ ShouldFinish(w, r)
      <3>1. r \in Requests /\ r \notin BP(w) /\ remain[r] = 0 /\ chunk[r] = NoChunk
        BY <1>4, <1>7, <2>3, Apart DEF Decodes
      <3> QED BY <1>1, <1>3, <1>5, <2>3, <3>1
    <2> QED BY <1>1, <1>11, <2>1, <2>2, <2>3
  <1>12. ASSUME NEW v \in Workers(config), NEW r \in PQ(v)'
         PROVE  /\ Prefills(v, r)'
                /\ IF IsFirst(v) THEN remain'[r] > 0 /\ chunk'[r] = NoChunk ELSE chunk'[r] # NoChunk
    <2>1. CASE r \in PQ(v)
      <3>1. r \in Requests /\ r \notin BP(w) \cup BD(w)
        BY <1>4, <2>1, Apart
      <3>2. counter'[r] = counter[r] /\ chunk'[r] = chunk[r] /\ remain'[r] = remain[r]
        BY <1>1, <1>5, <3>1
      <3> QED BY <2>1, <3>2 DEF Values, Prefills
    <2>2. CASE r \in O /\ v = next
      <3>1. r \in BP(w) /\ GoesOn(w, r) /\ counter'[r] = -1 /\ v[1] \in PrefillStages /\ remain[r] \in Nat
        BY <1>1, <1>3, <1>4, <1>5, <1>6, <1>7, <1>8, <2>2 DEF Prefills
      <3>2. IF IsFirst(v) THEN remain'[r] > 0 /\ chunk'[r] = NoChunk ELSE chunk'[r] # NoChunk
        BY <1>1, <1>5, <1>6, <1>7, <2>2, <3>1 DEF GoesOn
      <3> QED BY <3>1, <3>2 DEF Prefills
    <2> QED BY <1>1, <1>12, <2>1, <2>2
  <1>13. ASSUME NEW v \in Workers(config), NEW r \in BP(v)'
         PROVE  Prefills(v, r)' /\ chunk'[r] # NoChunk
    <2>1. v # w /\ r \in BP(v)
      BY <1>1, <1>13
    <2>2. r \in Requests /\ r \notin BP(w) \cup BD(w)
      BY <1>4, <2>1, Apart
    <2>3. counter'[r] = counter[r] /\ chunk'[r] = chunk[r]
      BY <1>5, <2>2
    <2> QED BY <2>1, <2>3 DEF Values, Prefills
  <1>14. ASSUME NEW v \in Workers(config), NEW r \in DQ(v)' \cup BD(v)'
         PROVE  Decodes(v, r)'
    <2>1. CASE r \in DQ(v) \/ (v # w /\ r \in BD(v))
      <3>1. r \in Requests /\ r \notin BP(w) \cup BD(w)
        BY <1>4, <2>1, Apart
      <3>2. counter'[r] = counter[r] /\ chunk'[r] = chunk[r] /\ remain'[r] = remain[r]
        BY <1>1, <1>5, <3>1
      <3> QED BY <2>1, <3>2 DEF Values, Decodes
    <2>2. CASE r \in G(v)
      <3>1. r \in BP(w) /\ ~GoesOn(w, r) /\ ~ShouldFinish(w, r) /\ v \in Targets(w) /\ r \in Requests
        BY <1>1, <1>4, <2>2 DEF TurnsToDecode
      <3>2. IsLast(w) /\ remain[r] = 0 /\ counter'[r] = 0 /\ 0 < OutputLens[r] /\ chunk'[r] = NoChunk
        BY <1>3, <1>5, <3>1
      <3>3. v[1] \in DecodeStages
        BY <1>6, <3>1, <3>2
      <3> QED BY <1>1, <1>8, <3>1, <3>2, <3>3 DEF Decodes
    <2>3. CASE r \in R /\ v = next
      <3>1. r \in BD(w) /\ ~ShouldFinish(w, r) /\ r \in Requests /\ r \notin BP(w)
        BY <1>1, <1>4, <2>3, Apart
      <3>2. /\ w[1] \in DecodeStages /\ counter[r] \in 0 .. OutputLens[r] - 1 /\ remain[r] = 0 /\ chunk[r] = NoChunk
        BY <1>7, <3>1 DEF Decodes
      <3>3. counter'[r] \in 0 .. OutputLens[r] - 1
        BY <1>3, <1>5, <1>8, <3>1, <3>2
      <3> QED BY <1>1, <1>5, <1>6, <2>3, <3>1, <3>2, <3>3 DEF Decodes
    <2> QED BY <1>1, <1>14, <2>1, <2>2, <2>3
  <1> QED BY <1>1, <1>6, <1>9, <1>10, <1>11, <1>12, <1>13, <1>14 DEF Values

LEMMA NextHome ==
  ASSUME SimShape, OneHome, Values, [SimNext]_simVars
  PROVE  OneHome' /\ Values'
  <1>1. ASSUME NEW w \in DOMAIN pc, Arrive(w) PROVE OneHome' /\ Values'
    BY <1>1, ArriveHome
  <1>2. ASSUME NEW w \in DOMAIN pc, Start(w) \/ Sleep(w) PROVE OneHome' /\ Values'
    BY <1>2, NobodyMoves DEF Start, Sleep, requestVars
  <1>3. ASSUME NEW w \in DOMAIN pc, DoPrefill(w) \/ DoDecode(w) PROVE OneHome' /\ Values'
    <2>1. w \in Workers(config)
      BY <1>3, BeginsTaking
    <2>2. PICK n \in 0 .. Len(prefillQueue[w]), m \in 0 .. Len(decodeQueue[w]) : Taking(w, n, m)
      BY <1>3, BeginsTaking
    <2> QED BY <2>1, <2>2, TakingHome, TakingKeepsValues
  <1>4. ASSUME NEW w \in DOMAIN pc, Finish(w) PROVE OneHome' /\ Values'
    <2>1. w \in Workers(config)
      BY <1>4, FinishEnding
    <2>2. PICK onward, rounds, share : Ending(w, onward, rounds, share)
      BY <1>4, FinishEnding
    <2> QED BY <1>4, <2>1, <2>2, FinishHome, FinishKeepsValues
  <1>5. ASSUME UNCHANGED simVars PROVE OneHome' /\ Values'
    BY <1>5, NobodyMoves DEF simVars, requestVars
  <1> QED BY <1>1, <1>2, <1>3, <1>4, <1>5 DEF SimNext, Ended

(***************************************************************************)
(* The chunks.  A chunk has the name of one of its members.  It is one     *)
(* running batch, or lies in one queue behind the first worker: side by    *)
(* side, all of it, and no longer than a batch, so that the next worker    *)
(* takes exactly the chunk at the head.                                    *)
(***************************************************************************)
SideBySide(q) ==
  \A i, j, k \in DOMAIN q :
    i <= k /\ k <= j /\ chunk[q[i]] = chunk[q[j]] => chunk[q[k]] = chunk[q[i]]
NoLongerThanABatch(q) ==
  \A i \in DOMAIN q : i + PrefillMaxBatchSize \in DOMAIN q =>
    chunk[q[i + PrefillMaxBatchSize]] # chunk[q[i]]
AllOf(S) == \A r \in S, x \in Requests : chunk[x] = chunk[r] => x \in S

Chunks ==
  /\ \A r \in Requests : chunk[r] # NoChunk => chunk[chunk[r]] = chunk[r]
  /\ \A w \in Workers(config) :
       /\ Len(batch[w].prefill) <= PrefillMaxBatchSize
       /\ AllOf(BP(w)) /\ \A r, x \in BP(w) : chunk[x] = chunk[r]
       /\ ~IsFirst(w) => /\ SideBySide(prefillQueue[w]) /\ NoLongerThanABatch(prefillQueue[w])
                         /\ AllOf(PQ(w))

(* Steps that leave alone what a chunk is seen by *)
LEMMA ChunksStay ==
  ASSUME Chunks, UNCHANGED <<config, chunk, batch>>,
         \A w \in Workers(config) : ~IsFirst(w) => prefillQueue'[w] = prefillQueue[w]
  PROVE  Chunks'
  <1>1. \A w : BP(w)' = BP(w) /\ (IsFirst(w)' <=> IsFirst(w))
    BY DEF BP, IsFirst
  <1>2. \A w \in Workers(config) : ~IsFirst(w) =>
          PQ(w)' = PQ(w) /\ SideBySide(prefillQueue[w])' = SideBySide(prefillQueue[w])
    BY DEF PQ, SideBySide
  <1>3. \A S : AllOf(S)' <=> AllOf(S)
    BY DEF AllOf
  <1>4. \A w \in Workers(config) : /\ (AllOf(BP(w)))' <=> AllOf(BP(w))
                                   /\ ~IsFirst(w) => ((AllOf(PQ(w)))' <=> AllOf(PQ(w)))
    BY <1>1, <1>2 DEF AllOf
  <1> QED BY <1>1, <1>2, <1>4 DEF Chunks, SideBySide, NoLongerThanABatch

LEMMA InitChunks == SimInit => Chunks
  <1> SUFFICES ASSUME SimInit PROVE Chunks
    OBVIOUS
  <1>1. \A w \in Workers(config) : /\ PQ(w) = {} /\ BP(w) = {} /\ Len(batch[w].prefill) = 0
                                   /\ DOMAIN prefillQueue[w] = {}
    BY DEF SimInit, PQ, BP, Range
  <1>2. \A r \in Requests : chunk[r] = NoChunk
    BY DEF SimInit
  <1> QED BY <1>1, <1>2, SizesAssumption DEF Chunks, SideBySide, NoLongerThanABatch, AllOf

(* The requests that a later worker takes are the whole chunk. *)
LEMMA WholeChunk ==
  ASSUME SimShape, OneHome, Chunks, NEW w \in Workers(config), ~IsFirst(w),
         NEW n \in 1 .. Len(prefillQueue[w]), IsPrefillCount(w, n)
  PROVE  LET P == Range(SubSeq(prefillQueue[w], 1, n))
         IN  AllOf(P) /\ \A r, x \in P : chunk[x] = chunk[r]
  <1> DEFINE q == prefillQueue[w]  P == Range(SubSeq(q, 1, n))
             limit == Smaller(PrefillMaxBatchSize, Len(q))
  <1>1. q \in Seq(Requests) /\ Len(q) \in Nat /\ DOMAIN q = 1 .. Len(q)
    BY DEF SimShape
  <1>2. PrefillMaxBatchSize \in Nat \ {0}
    BY SizesAssumption
  <1>3. /\ n \in 0 .. limit
        /\ \A i \in 1 .. n : SameChunk(w, i)
        /\ n < limit => ~SameChunk(w, n + 1) \/ n + 1 \notin 1 .. limit
    BY DEF IsPrefillCount, IsLongest
  <1>4. limit \in Nat /\ limit <= PrefillMaxBatchSize /\ limit <= Len(q)
        /\ (limit = PrefillMaxBatchSize \/ limit = Len(q))
    BY <1>1, <1>2 DEF Smaller
  <1>5. \A r \in P : \E i \in 1 .. n : r = q[i]
    BY <1>1 DEF Range
  <1>6. \A i \in 1 .. n : q[i] \in P
    <2> SUFFICES ASSUME NEW i \in 1 .. n PROVE q[i] \in P
      OBVIOUS
    <2>1. i \in DOMAIN SubSeq(q, 1, n) /\ SubSeq(q, 1, n)[i] = q[i]
      BY <1>1
    <2> QED BY <2>1 DEF Range
  <1> HIDE DEF P, limit
  <1>7. \A r \in P : chunk[r] = chunk[q[1]]
    BY <1>3, <1>5 DEF SameChunk
  <1>8. ASSUME NEW x \in Requests, chunk[x] = chunk[q[1]]
        PROVE  x \in P
    <2>1. 1 \in 1 .. n /\ 1 \in DOMAIN q
      BY <1>1
    <2>2. q[1] \in PQ(w) /\ AllOf(PQ(w)) /\ SideBySide(q) /\ NoLongerThanABatch(q)
      BY <2>1 DEF Chunks, PQ, Range
    <2>3. x \in PQ(w)
      BY <1>8, <2>2 DEF AllOf
    <2>4. PICK j \in 1 .. Len(q) : q[j] = x
      BY <1>1, <2>3 DEF PQ, Range
    <2>5. CASE j <= n
      BY <1>6, <2>4, <2>5
    <2>6. CASE j > n
      <3>1. n + 1 \in DOMAIN q /\ 1 <= n + 1 /\ n + 1 <= j /\ j \in DOMAIN q
        BY <1>1, <2>4, <2>6
      <3>2. chunk[q[n + 1]] = chunk[q[1]]
        BY <1>8, <2>1, <2>2, <2>4, <3>1 DEF SideBySide
      <3>3. n = limit
        BY <1>3, <1>4, <3>2 DEF SameChunk
      <3>4. n = PrefillMaxBatchSize
        BY <1>1, <1>4, <3>1, <3>3
      <3>5. 1 + PrefillMaxBatchSize = n + 1
        BY <1>2, <3>4
      <3> QED BY <2>1, <2>2, <3>1, <3>2, <3>5 DEF NoLongerThanABatch
    <2> QED BY <2>4, <2>5, <2>6
  <1>9. AllOf(P) /\ \A r, x \in P : chunk[x] = chunk[r]
    BY <1>7, <1>8 DEF AllOf
  <1> QED BY <1>9 DEF P

LEMMA RestOfQueue ==
  ASSUME NEW S, NEW q \in Seq(S), NEW n \in 0 .. Len(q)
  PROVE  LET rest == SubSeq(q, n + 1, Len(q))
         IN  /\ rest \in Seq(S) /\ DOMAIN rest = 1 .. Len(q) - n
             /\ \A i \in 1 .. Len(q) - n : rest[i] = q[n + i] /\ n + i \in DOMAIN q
  OBVIOUS

LEMMA TakingChunks ==
  ASSUME SimShape, OneHome, Values, Chunks, NEW w \in Workers(config),
         NEW n \in 0 .. Len(prefillQueue[w]), NEW m \in 0 .. Len(decodeQueue[w]), Taking(w, n, m)
  PROVE  Chunks'
  <1> DEFINE q == prefillQueue[w]  taken == SubSeq(q, 1, n)  P == Range(taken)
             rest == SubSeq(q, n + 1, Len(q))
  <1>1. /\ P \subseteq PQ(w) /\ PQ(w)' = PQ(w) \ P /\ BP(w)' = P
        /\ \A v \in Workers(config) : v # w => PQ(v)' = PQ(v) /\ BP(v)' = BP(v)
        /\ config' = config
    BY TakingSets
  <1>2. q \in Seq(Requests) /\ Len(q) \in Nat /\ DOMAIN q = 1 .. Len(q)
    BY DEF SimShape
  <1>3. /\ Len(taken) = n /\ \A i \in 1 .. n : taken[i] = q[i]
        /\ DOMAIN taken = 1 .. n
    BY <1>2
  <1>4. /\ batch'[w].prefill = taken /\ prefillQueue'[w] = rest
        /\ \A v \in Workers(config) : v # w =>
             batch'[v].prefill = batch[v].prefill /\ prefillQueue'[v] = prefillQueue[v]
    BY DEF Taking, Begins, SimShape
  <1>5. n <= PrefillMaxBatchSize
    <2>1. CASE n = 0
      BY <2>1, SizesAssumption
    <2>2. CASE IsPrefillCount(w, n)
      BY <1>2, <2>2, SizesAssumption DEF IsPrefillCount, IsLongest, Smaller
    <2> QED BY <2>1, <2>2 DEF Taking
  <1>6. \A v \in Workers(config) : Len(batch'[v].prefill) <= PrefillMaxBatchSize
    BY <1>3, <1>4, <1>5 DEF Chunks
  <1>7. /\ \A r \in Requests \ P : chunk'[r] = chunk[r]
        /\ ~IsFirst(w) => chunk' = chunk
        /\ IsFirst(w) => \A r \in P : chunk'[r] = q[1]
    BY TakenValues
  <1>8. \A v : IsFirst(v)' <=> IsFirst(v)
    BY DEF IsFirst
  <1>9. P \subseteq Requests
    BY <1>1, RangesType
  <1> HIDE DEF taken, rest, P
  <1>10. CASE ~IsFirst(w)
    <2>1. chunk' = chunk
      BY <1>7, <1>10
    <2>2. AllOf(P) /\ \A r, x \in P : chunk[x] = chunk[r]
      <3>1. CASE n = 0
        BY <1>3, <3>1 DEF P, Range, AllOf
      <3>2. CASE n # 0
        <4>1. IsPrefillCount(w, n) /\ n \in 1 .. Len(q)
          BY <1>2, <3>2 DEF Taking
        <4> QED BY <1>10, <4>1, WholeChunk DEF P, taken
      <3> QED BY <3>1, <3>2
    <2>3. \A S : AllOf(S) => \A T : T = S => \A r \in T, x \in Requests : chunk'[x] = chunk'[r] => x \in T
      BY <2>1 DEF AllOf
    <2>4. AllOf(PQ(w) \ P)
      <3> SUFFICES ASSUME NEW r \in PQ(w) \ P, NEW x \in Requests, chunk[x] = chunk[r]
                   PROVE  x \in PQ(w) \ P
        BY DEF AllOf
      <3>1. x \in PQ(w)
        BY <1>10 DEF Chunks, AllOf
      <3>2. r \in Requests
        BY RangesType
      <3> QED BY <2>2, <3>1, <3>2 DEF AllOf
    <2>5. /\ rest \in Seq(Requests) /\ DOMAIN rest = 1 .. Len(q) - n
          /\ \A i \in 1 .. Len(q) - n : rest[i] = q[n + i] /\ n + i \in DOMAIN q
      BY <1>2, RestOfQueue DEF rest
    <2>6. SideBySide(q) /\ NoLongerThanABatch(q)
      BY <1>10 DEF Chunks
    <2>7. SideBySide(rest)
      <3> SUFFICES ASSUME NEW i \in DOMAIN rest, NEW j \in DOMAIN rest, NEW k \in DOMAIN rest,
                          i <= k, k <= j, chunk[rest[i]] = chunk[rest[j]]
                   PROVE  chunk[rest[k]] = chunk[rest[i]]
        BY DEF SideBySide
      <3>1. /\ rest[i] = q[n + i] /\ rest[j] = q[n + j] /\ rest[k] = q[n + k]
            /\ n + i \in DOMAIN q /\ n + j \in DOMAIN q /\ n + k \in DOMAIN q
        BY <2>5
      <3>2. n + i <= n + k /\ n + k <= n + j
        BY <2>5
      <3> QED BY <2>6, <3>1, <3>2 DEF SideBySide
    <2>8. NoLongerThanABatch(rest)
      <3> SUFFICES ASSUME NEW i \in DOMAIN rest, i + PrefillMaxBatchSize \in DOMAIN rest
                   PROVE  chunk[rest[i + PrefillMaxBatchSize]] # chunk[rest[i]]
        BY DEF NoLongerThanABatch
      <3>1. /\ rest[i] = q[n + i] /\ n + i \in DOMAIN q
            /\ rest[i + PrefillMaxBatchSize] = q[n + (i + PrefillMaxBatchSize)]
            /\ n + (i + PrefillMaxBatchSize) \in DOMAIN q
        BY <2>5
      <3>2. n + (i + PrefillMaxBatchSize) = (n + i) + PrefillMaxBatchSize
        BY <2>5, SizesAssumption
      <3> QED BY <2>6, <3>1, <3>2 DEF NoLongerThanABatch
    <2>9. /\ (AllOf(BP(w)))' /\ \A r, x \in BP(w)' : chunk'[x] = chunk'[r]
          /\ (AllOf(PQ(w)))' /\ SideBySide(prefillQueue[w])' /\ NoLongerThanABatch(prefillQueue[w])'
      <3>1. (AllOf(BP(w)))' /\ (AllOf(PQ(w)))'
        BY <1>1, <2>1, <2>2, <2>4 DEF AllOf
      <3>2. SideBySide(prefillQueue[w])' /\ NoLongerThanABatch(prefillQueue[w])'
        BY <1>4, <2>1, <2>7, <2>8 DEF SideBySide, NoLongerThanABatch
      <3> QED BY <1>1, <2>1, <2>2, <3>1, <3>2
    <2>10. ASSUME NEW v \in Workers(config), v # w
           PROVE  /\ (AllOf(BP(v)))' /\ \A r, x \in BP(v)' : chunk'[x] = chunk'[r]
                  /\ ~IsFirst(v) => /\ (AllOf(PQ(v)))' /\ SideBySide(prefillQueue[v])'
                                    /\ NoLongerThanABatch(prefillQueue[v])'
      BY <1>1, <1>4, <2>1, <2>10 DEF Chunks, AllOf, SideBySide, NoLongerThanABatch
    <2>11. \A r \in Requests : chunk'[r] # NoChunk => chunk'[chunk'[r]] = chunk'[r]
      BY <2>1 DEF Chunks
    <2> QED BY <1>1, <1>6, <1>8, <2>9, <2>10, <2>11 DEF Chunks
  <1>11. CASE IsFirst(w)
    <2> DEFINE c == q[1]
    <2>1. P # {} => c \in P /\ c \in Requests /\ c # NoChunk
      <3>1. P # {} => 1 \in 1 .. n
        BY <1>3 DEF P, Range
      <3>2. 1 \in 1 .. n => c \in P
        BY <1>3 DEF P, Range
      <3>3. \A r \in Requests : r # NoChunk
        BY DEF Requests, NoChunk
      <3> QED BY <1>9, <3>1, <3>2, <3>3
    <2>2. \A r \in P : chunk[r] = NoChunk /\ chunk'[r] = c
      BY <1>1, <1>7, <1>11 DEF Values
    <2>3. \A r \in Requests : chunk[r] # NoChunk => chunk[chunk[r]] = chunk[r] /\ chunk[r] \in Requests
      BY DEF Chunks, SimShape
    <2>4. \A r \in Requests : P # {} => chunk[r] # c
      BY <2>1, <2>2, <2>3
    <2> HIDE DEF c
    <2>5. ASSUME NEW r \in Requests, chunk'[r] # NoChunk
          PROVE  chunk'[chunk'[r]] = chunk'[r]
      <3>1. CASE r \in P
        BY <2>1, <2>2, <3>1
      <3>2. CASE r \notin P
        <4>1. chunk'[r] = chunk[r] /\ chunk[r] \in Requests /\ chunk[chunk[r]] = chunk[r]
          BY <1>7, <2>3, <2>5, <3>2
        <4>2. chunk[r] \notin P
          BY <2>2, <2>5, <4>1
        <4> QED BY <1>7, <4>1, <4>2
      <3> QED BY <3>1, <3>2
    <2>6. (AllOf(BP(w)))' /\ \A r, x \in BP(w)' : chunk'[x] = chunk'[r]
      <3>1. \A r, x \in P : chunk'[x] = chunk'[r]
        BY <2>2
      <3>2. ASSUME NEW r \in P, NEW x \in Requests, chunk'[x] = chunk'[r], x \notin P
            PROVE  FALSE
        BY <1>7, <2>2, <2>4, <3>2
      <3> QED BY <1>1, <3>1, <3>2 DEF AllOf
    <2>7. ASSUME NEW S, S \subseteq Requests, AllOf(S), \A r \in S : r \notin P /\ chunk[r] # NoChunk
          PROVE  /\ \A r \in S : chunk'[r] = chunk[r]
                 /\ \A r \in S, x \in Requests : chunk'[x] = chunk'[r] => x \in S
      <3>1. \A r \in S : chunk'[r] = chunk[r]
        BY <1>7, <2>7
      <3>2. ASSUME NEW r \in S, NEW x \in Requests, chunk'[x] = chunk'[r]
            PROVE  x \in S
        <4>1. x \notin P
          BY <2>2, <2>4, <2>7, <3>1, <3>2
        <4>2. chunk[x] = chunk[r]
          BY <1>7, <3>1, <3>2, <4>1
        <4> QED BY <2>7, <4>2 DEF AllOf
      <3> QED BY <3>1, <3>2
    <2>8. ASSUME NEW v \in Workers(config), v # w
          PROVE  /\ (AllOf(BP(v)))' /\ \A r, x \in BP(v)' : chunk'[x] = chunk'[r]
                 /\ ~IsFirst(v) => /\ (AllOf(PQ(v)))' /\ SideBySide(prefillQueue[v])'
                                   /\ NoLongerThanABatch(prefillQueue[v])'
      <3>1. \A r \in BP(v) : r \in Requests /\ r \notin P /\ chunk[r] # NoChunk
        BY <1>1, RangesType, Apart DEF Values
      <3>2. /\ \A r \in BP(v) : chunk'[r] = chunk[r]
            /\ \A r \in BP(v), x \in Requests : chunk'[x] = chunk'[r] => x \in BP(v)
        BY <2>7, <3>1 DEF Chunks
      <3>3. (AllOf(BP(v)))' /\ \A r, x \in BP(v)' : chunk'[x] = chunk'[r]
        BY <1>1, <2>8, <3>2 DEF AllOf, Chunks
      <3>4. ASSUME ~IsFirst(v)
            PROVE  /\ (AllOf(PQ(v)))' /\ SideBySide(prefillQueue[v])'
                   /\ NoLongerThanABatch(prefillQueue[v])'
        <4>1. \A r \in PQ(v) : r \in Requests /\ r \notin P /\ chunk[r] # NoChunk
          BY <1>1, <2>8, <3>4, RangesType, Apart DEF Values
        <4>2. /\ \A r \in PQ(v) : chunk'[r] = chunk[r]
              /\ \A r \in PQ(v), x \in Requests : chunk'[x] = chunk'[r] => x \in PQ(v)
          BY <2>7, <3>4, <4>1 DEF Chunks
        <4>3. (AllOf(PQ(v)))'
          BY <1>1, <2>8, <4>2 DEF AllOf
        <4>4. prefillQueue'[v] = prefillQueue[v] /\ SideBySide(prefillQueue[v]) /\ NoLongerThanABatch(prefillQueue[v])
          BY <1>4, <2>8, <3>4 DEF Chunks
        <4>5. \A i \in DOMAIN prefillQueue[v] : chunk'[prefillQueue[v][i]] = chunk[prefillQueue[v][i]]
          BY <4>2 DEF PQ, Range
        <4> QED BY <4>3, <4>4, <4>5 DEF SideBySide, NoLongerThanABatch
      <3> QED BY <3>3, <3>4
    <2> QED BY <1>1, <1>6, <1>8, <1>11, <2>5, <2>6, <2>8 DEF Chunks
  <1> QED BY <1>10, <1>11

(* The queue of the next worker, when a chunk joins it *)
LEMMA ChunkJoins ==
  ASSUME chunk \in [Requests -> Requests \cup {NoChunk}],
         NEW q \in Seq(Requests), NEW t \in Seq(Requests), Len(t) <= PrefillMaxBatchSize,
         SideBySide(q), NoLongerThanABatch(q),
         \A r, x \in Range(t) : chunk[x] = chunk[r],
         \A r \in Range(t), x \in Range(q) : chunk[x] # chunk[r]
  PROVE  SideBySide(q \o t) /\ NoLongerThanABatch(q \o t)
  <1> DEFINE u == q \o t
  <1>1. /\ Len(u) = Len(q) + Len(t) /\ Len(q) \in Nat /\ Len(t) \in Nat
        /\ DOMAIN u = 1 .. Len(q) + Len(t) /\ DOMAIN q = 1 .. Len(q) /\ DOMAIN t = 1 .. Len(t)
        /\ \A i \in 1 .. Len(q) : u[i] = q[i]
        /\ \A i \in Len(q) + 1 .. Len(q) + Len(t) : u[i] = t[i - Len(q)] /\ i - Len(q) \in 1 .. Len(t)
    OBVIOUS
  <1> HIDE DEF u
  <1>2. /\ \A i \in DOMAIN q : u[i] = q[i] /\ u[i] \in Range(q)
        /\ \A i \in DOMAIN u : i \notin DOMAIN q => u[i] \in Range(t)
    <2>1. \A i \in DOMAIN q : q[i] \in Range(q)
      BY DEF Range
    <2>2. \A i \in DOMAIN t : t[i] \in Range(t)
      BY DEF Range
    <2>3. \A i \in DOMAIN u : i \notin DOMAIN q => i \in Len(q) + 1 .. Len(q) + Len(t)
      BY <1>1
    <2> QED BY <1>1, <2>1, <2>2, <2>3
  <1>3. SideBySide(u)
    <2> SUFFICES ASSUME NEW i \in DOMAIN u, NEW j \in DOMAIN u, NEW k \in DOMAIN u,
                        i <= k, k <= j, chunk[u[i]] = chunk[u[j]]
                 PROVE  chunk[u[k]] = chunk[u[i]]
      BY DEF SideBySide
    <2>1. CASE i \in DOMAIN q /\ j \in DOMAIN q
      <3>1. k \in DOMAIN q
        BY <1>1, <2>1
      <3> QED BY <1>2, <2>1, <3>1 DEF SideBySide
    <2>2. CASE i \in DOMAIN q /\ j \notin DOMAIN q
      BY <1>2, <2>2
    <2>3. CASE i \notin DOMAIN q
      <3>1. k \notin DOMAIN q
        BY <1>1, <2>3
      <3> QED BY <1>2, <2>3, <3>1
    <2> QED BY <2>1, <2>2, <2>3
  <1>4. NoLongerThanABatch(u)
    <2> SUFFICES ASSUME NEW i \in DOMAIN u, i + PrefillMaxBatchSize \in DOMAIN u
                 PROVE  chunk[u[i + PrefillMaxBatchSize]] # chunk[u[i]]
      BY DEF NoLongerThanABatch
    <2>1. PrefillMaxBatchSize \in Nat
      BY SizesAssumption
    <2>2. i \in DOMAIN q
      BY <1>1, <2>1
    <2>3. CASE i + PrefillMaxBatchSize \in DOMAIN q
      BY <1>2, <2>2, <2>3 DEF NoLongerThanABatch
    <2>4. CASE i + PrefillMaxBatchSize \notin DOMAIN q
      BY <1>2, <2>2, <2>4
    <2> QED BY <2>3, <2>4
  <1> QED BY <1>3, <1>4 DEF u

LEMMA FinishChunks ==
  ASSUME SimShape, OneHome, Values, Chunks, NEW w \in Workers(config), Finish(w),
         NEW onward, NEW rounds, NEW share, Ending(w, onward, rounds, share)
  PROVE  Chunks'
  <1> DEFINE next == NextWorker(w)  O == Range(onward)  done == IF IsLast(w) THEN BP(w) ELSE {}
  <1>1. /\ O = {r \in BP(w) : GoesOn(w, r)} /\ next \in Workers(config) /\ config' = config
        /\ \A v \in Workers(config) : /\ PQ(v)' = PQ(v) \cup (IF v = next THEN O ELSE {})
                                      /\ BP(v)' = IF v = w THEN {} ELSE BP(v)
    BY FinishSets
  <1>2. chunk' = [r \in Requests |-> IF r \in done THEN NoChunk ELSE chunk[r]]
    BY DEF Finish, BP
  <1>3. /\ onward \in Seq(Requests) /\ Len(onward) <= Len(batch[w].prefill)
        /\ prefillQueue' = [prefillQueue EXCEPT ![next] = @ \o onward]
    <2>1. prefillQueue' = [prefillQueue EXCEPT ![next] = @ \o onward]
      BY DEF Ending
    <2> QED BY <2>1, EndingTypes
  <1>4. \A v \in Workers(config) : Len(batch'[v].prefill) <= PrefillMaxBatchSize
    <2>1. batch' = [batch EXCEPT ![w] = [prefill |-> <<>>, decode |-> <<>>]]
      BY DEF Finish
    <2> QED BY <2>1, SizesAssumption DEF SimShape, Chunks
  <1>5. \A v : IsFirst(v)' <=> IsFirst(v)
    BY DEF IsFirst
  <1>6. /\ AllOf(BP(w)) /\ \A r, x \in BP(w) : chunk[x] = chunk[r]
        /\ BP(w) \subseteq Requests
        /\ \A r \in BP(w) : chunk[r] # NoChunk
        /\ chunk \in [Requests -> Requests \cup {NoChunk}]
    BY RangesType DEF Chunks, Values, SimShape
  <1>7. \A r \in Requests : chunk'[r] = IF r \in done THEN NoChunk ELSE chunk[r]
    BY <1>2
  <1>8. /\ IsLast(w) => done = BP(w) /\ IsFirst(next)
        /\ ~IsLast(w) => done = {} /\ O = BP(w)
    BY <1>1, WorkerFacts DEF GoesOn, SimShape
  <1>9. done \subseteq BP(w) /\ AllOf(done)
    BY <1>6 DEF AllOf
  <1> HIDE DEF O, done, next
  <1>10. \A r \in Requests : chunk'[r] # NoChunk => chunk'[chunk'[r]] = chunk'[r]
    <2> SUFFICES ASSUME NEW r \in Requests, chunk'[r] # NoChunk
                 PROVE  chunk'[chunk'[r]] = chunk'[r]
      OBVIOUS
    <2>1. r \notin done /\ chunk'[r] = chunk[r] /\ chunk[r] \in Requests /\ chunk[chunk[r]] = chunk[r]
      BY <1>6, <1>7 DEF Chunks
    <2>2. chunk[r] \notin done
      BY <1>9, <2>1 DEF AllOf
    <2> QED BY <1>7, <2>1, <2>2
  <1>11. ASSUME NEW S, S \subseteq Requests, AllOf(S), \A r \in S : r \notin BP(w) /\ chunk[r] # NoChunk
         PROVE  /\ \A r \in S : chunk'[r] = chunk[r]
                /\ \A r \in S, x \in Requests : chunk'[x] = chunk'[r] => x \in S
    BY <1>7, <1>9, <1>11 DEF AllOf
  <1>12. ASSUME NEW v \in Workers(config)
         PROVE  (AllOf(BP(v)))' /\ \A r, x \in BP(v)' : chunk'[x] = chunk'[r]
    <2>1. CASE v = w
      BY <1>1, <2>1 DEF AllOf
    <2>2. CASE v # w
      <3>1. BP(v) \subseteq Requests /\ \A r \in BP(v) : r \notin BP(w) /\ chunk[r] # NoChunk
        BY <2>2, RangesType, Apart DEF Values
      <3>2. AllOf(BP(v)) /\ \A r, x \in BP(v) : chunk[x] = chunk[r]
        BY DEF Chunks
      <3>3. /\ \A r \in BP(v) : chunk'[r] = chunk[r]
            /\ \A r \in BP(v), x \in Requests : chunk'[x] = chunk'[r] => x \in BP(v)
        BY <1>11, <3>1, <3>2
      <3>4. BP(v)' = BP(v)
        BY <1>1, <2>2
      <3> QED BY <3>2, <3>3, <3>4 DEF AllOf
    <2> QED BY <2>1, <2>2
  <1>13. ASSUME NEW v \in Workers(config), ~IsFirst(v)
         PROVE  /\ (AllOf(PQ(v)))' /\ SideBySide(prefillQueue[v])' /\ NoLongerThanABatch(prefillQueue[v])'
    <2>1. /\ PQ(v) \subseteq Requests /\ \A r \in PQ(v) : r \notin BP(w) /\ chunk[r] # NoChunk
          /\ AllOf(PQ(v)) /\ SideBySide(prefillQueue[v]) /\ NoLongerThanABatch(prefillQueue[v])
      BY <1>13, RangesType, Apart DEF Values, Chunks
    <2>2. /\ \A r \in PQ(v) : chunk'[r] = chunk[r]
          /\ \A r \in PQ(v), x \in Requests : chunk'[x] = chunk'[r] => x \in PQ(v)
      BY <1>11, <2>1
    <2>3. CASE v # next
      <3>1. PQ(v)' = PQ(v) /\ prefillQueue'[v] = prefillQueue[v]
        BY <1>1, <1>3, <2>3 DEF SimShape
      <3>2. \A i \in DOMAIN prefillQueue[v] : chunk'[prefillQueue[v][i]] = chunk[prefillQueue[v][i]]
        BY <2>2 DEF PQ, Range
      <3>3. (AllOf(PQ(v)))'
        BY <2>2, <3>1 DEF AllOf
      <3> QED BY <2>1, <3>1, <3>2, <3>3 DEF SideBySide, NoLongerThanABatch
    <2>4. CASE v = next
      <3>1. /\ ~IsLast(w) /\ chunk' = chunk /\ O = BP(w)
        <4>1. ~IsLast(w)
          BY <1>8, <1>13, <2>4
        <4> QED BY <1>2, <1>6, <1>8, <4>1
      <3>2. PQ(v)' = PQ(v) \cup BP(w) /\ prefillQueue'[v] = prefillQueue[v] \o onward
        BY <1>1, <1>3, <2>4, <3>1 DEF SimShape
      <3>3. (AllOf(PQ(v)))'
        BY <1>6, <2>1, <3>1, <3>2 DEF AllOf
      <3>4. /\ \A r, x \in Range(onward) : chunk[x] = chunk[r]
            /\ \A r \in Range(onward), x \in Range(prefillQueue[v]) : chunk[x] # chunk[r]
        BY <1>6, <2>1, <3>1 DEF AllOf, O, PQ
      <3>5. prefillQueue[v] \in Seq(Requests) /\ Len(onward) <= PrefillMaxBatchSize
        <4>1. /\ Len(batch[w].prefill) \in Nat /\ Len(onward) \in Nat
              /\ Len(batch[w].prefill) <= PrefillMaxBatchSize
          BY <1>3 DEF SimShape, Chunks
        <4>2. prefillQueue[v] \in Seq(Requests)
          BY DEF SimShape
        <4> QED BY <1>3, <4>1, <4>2, SizesAssumption
      <3>6. SideBySide(prefillQueue[v] \o onward) /\ NoLongerThanABatch(prefillQueue[v] \o onward)
        BY <1>3, <1>6, <2>1, <3>4, <3>5, ChunkJoins
      <3>7. SideBySide(prefillQueue[v])' /\ NoLongerThanABatch(prefillQueue[v])'
        <4> DEFINE u == prefillQueue[v] \o onward
        <4>1. SideBySide(u) /\ NoLongerThanABatch(u) /\ prefillQueue'[v] = u /\ chunk' = chunk
          BY <3>1, <3>2, <3>6
        <4> HIDE DEF u
        <4>2. SideBySide(prefillQueue[v])'
          BY <4>1 DEF SideBySide
        <4>3. NoLongerThanABatch(prefillQueue[v])'
          BY <4>1 DEF NoLongerThanABatch
        <4> QED BY <4>2, <4>3
      <3> QED BY <3>3, <3>7
    <2> QED BY <2>3, <2>4
  <1> QED BY <1>1, <1>4, <1>5, <1>10, <1>12, <1>13 DEF Chunks

LEMMA NextChunks ==
  ASSUME SimShape, OneHome, Values, Chunks, [SimNext]_simVars
  PROVE  Chunks'
  <1>1. ASSUME NEW w \in DOMAIN pc, Arrive(w) PROVE Chunks'
    <2>1. IsFirst(w) /\ UNCHANGED <<config, chunk, batch>>
          /\ prefillQueue' = [prefillQueue EXCEPT ![w] = Append(@, arrived + 1)]
      BY <1>1, HeadsFacts DEF Arrive, SimShape
    <2>2. \A v \in Workers(config) : ~IsFirst(v) => prefillQueue'[v] = prefillQueue[v]
      BY <2>1 DEF SimShape
    <2> QED BY <2>1, <2>2, ChunksStay
  <1>2. ASSUME NEW w \in DOMAIN pc, Start(w) \/ Sleep(w) PROVE Chunks'
    BY <1>2, ChunksStay DEF Start, Sleep, requestVars
  <1>3. ASSUME NEW w \in DOMAIN pc, DoPrefill(w) \/ DoDecode(w) PROVE Chunks'
    <2>1. w \in Workers(config)
      BY <1>3, BeginsTaking
    <2>2. PICK n \in 0 .. Len(prefillQueue[w]), m \in 0 .. Len(decodeQueue[w]) : Taking(w, n, m)
      BY <1>3, BeginsTaking
    <2> QED BY <2>1, <2>2, TakingChunks
  <1>4. ASSUME NEW w \in DOMAIN pc, Finish(w) PROVE Chunks'
    <2>1. w \in Workers(config)
      BY <1>4, FinishEnding
    <2>2. PICK onward, rounds, share : Ending(w, onward, rounds, share)
      BY <1>4, FinishEnding
    <2> QED BY <1>4, <2>1, <2>2, FinishChunks
  <1>5. ASSUME UNCHANGED simVars PROVE Chunks'
    BY <1>5, ChunksStay DEF simVars, requestVars
  <1> QED BY <1>1, <1>2, <1>3, <1>4, <1>5 DEF SimNext, Ended

LEMMA HomeInvariance == SimSpec => [](SimShape /\ OneHome /\ Values /\ Chunks)
  BY InitShape, NextShape, InitHome, NextHome, InitChunks, NextChunks, PTL DEF SimSpec

LEMMA AtElements ==
  ASSUME NEW r, NEW seqs, NEW place
  PROVE  \A p : p \in At(r, seqs, place) <=>
           \E w \in DOMAIN pc : \E i \in DOMAIN seqs[w] : seqs[w][i] = r /\ p = <<place, w, i>>
  <1> DEFINE In(w) == {<<place, w, i>> : i \in {j \in DOMAIN seqs[w] : seqs[w][j] = r}}
  <1>1. At(r, seqs, place) = UNION {In(w) : w \in DOMAIN pc}
    BY DEF At
  <1>2. \A w, p : p \in In(w) <=> \E i \in DOMAIN seqs[w] : seqs[w][i] = r /\ p = <<place, w, i>>
    OBVIOUS
  <1> HIDE DEF In
  <1>3. \A p : p \in At(r, seqs, place) <=> \E w \in DOMAIN pc : p \in In(w)
    BY <1>1
  <1> QED BY <1>2, <1>3

LEMMA AtOne ==
  ASSUME NEW r, NEW seqs, NEW place
  PROVE  /\ (\A w \in DOMAIN pc : r \notin Range(seqs[w])) => At(r, seqs, place) = {}
         /\ \A w \in DOMAIN pc :
              r \in Range(seqs[w]) /\ Distinct(seqs[w]) /\ (\A v \in DOMAIN pc : v # w => r \notin Range(seqs[v]))
                => Cardinality(At(r, seqs, place)) = 1
  <1>1. ASSUME \A w \in DOMAIN pc : r \notin Range(seqs[w]) PROVE At(r, seqs, place) = {}
    <2>1. \A w \in DOMAIN pc : \A i \in DOMAIN seqs[w] : seqs[w][i] # r
      BY <1>1 DEF Range
    <2> QED BY <2>1, AtElements
  <1>2. ASSUME NEW w \in DOMAIN pc, r \in Range(seqs[w]), Distinct(seqs[w]),
               \A v \in DOMAIN pc : v # w => r \notin Range(seqs[v])
        PROVE  Cardinality(At(r, seqs, place)) = 1
    <2>1. PICK i \in DOMAIN seqs[w] : seqs[w][i] = r
      BY <1>2 DEF Range
    <2>2. \A v \in DOMAIN pc : \A j \in DOMAIN seqs[v] : seqs[v][j] = r => v = w /\ j = i
      BY <1>2, <2>1 DEF Range, Distinct
    <2> DEFINE here == <<place, w, i>>
    <2>3. \A p : p \in At(r, seqs, place) <=> p = here
      BY <2>1, <2>2, AtElements
    <2> HIDE DEF here
    <2>4. At(r, seqs, place) = {here}
      BY <2>3
    <2> QED BY <2>4, FS_Singleton
  <1> QED BY <1>1, <1>2

LEMMA Pairs ==
  ASSUME NEW S, NEW T, NEW p \in S \X T
  PROVE  \E a \in S, b \in T : p = <<a, b>>
  OBVIOUS

LEMMA PlacesCount ==
  ASSUME SimShape, OneHome, NEW r \in Requests
  PROVE  Cardinality(Places(r)) = IF Live(r) THEN 1 ELSE 0
  <1> DEFINE pq == prefillQueue  dq == decodeQueue
             pre == [w \in DOMAIN pc |-> batch[w].prefill]  dec == [w \in DOMAIN pc |-> batch[w].decode]
             A == At(r, pq, "prefill queue")  B == At(r, dq, "decode queue")
             C == At(r, pre, "prefilling")  D == At(r, dec, "decoding")
  <1>1. DOMAIN pc = Workers(config)
    BY DEF SimShape
  <1>2. \A w \in DOMAIN pc : /\ Range(pq[w]) = PQ(w) /\ Range(dq[w]) = DQ(w)
                             /\ Range(pre[w]) = BP(w) /\ Range(dec[w]) = BD(w)
                             /\ Distinct(pq[w]) /\ Distinct(dq[w])
                             /\ Distinct(pre[w]) /\ Distinct(dec[w])
    BY <1>1 DEF PQ, DQ, BP, BD, OneHome
  <1>3. Places(r) = A \cup B \cup C \cup D
    BY DEF Places
  <1> HIDE DEF pq, dq, pre, dec
  <1>4. /\ (\A w \in DOMAIN pc : r \notin PQ(w)) => A = {}
        /\ (\A w \in DOMAIN pc : r \notin DQ(w)) => B = {}
        /\ (\A w \in DOMAIN pc : r \notin BP(w)) => C = {}
        /\ (\A w \in DOMAIN pc : r \notin BD(w)) => D = {}
    BY <1>2, AtOne
  <1>5. \A w \in DOMAIN pc :
          /\ r \in PQ(w) /\ (\A v \in DOMAIN pc : v # w => r \notin PQ(v)) => Cardinality(A) = 1
          /\ r \in DQ(w) /\ (\A v \in DOMAIN pc : v # w => r \notin DQ(v)) => Cardinality(B) = 1
          /\ r \in BP(w) /\ (\A v \in DOMAIN pc : v # w => r \notin BP(v)) => Cardinality(C) = 1
          /\ r \in BD(w) /\ (\A v \in DOMAIN pc : v # w => r \notin BD(v)) => Cardinality(D) = 1
    <2> TAKE w \in DOMAIN pc
    <2>1. ASSUME r \in PQ(w), \A v \in DOMAIN pc : v # w => r \notin PQ(v) PROVE Cardinality(A) = 1
      <3>1. r \in Range(pq[w]) /\ Distinct(pq[w]) /\ \A v \in DOMAIN pc : v # w => r \notin Range(pq[v])
        BY <1>2, <2>1
      <3> QED BY <3>1, AtOne
    <2>2. ASSUME r \in DQ(w), \A v \in DOMAIN pc : v # w => r \notin DQ(v) PROVE Cardinality(B) = 1
      <3>1. r \in Range(dq[w]) /\ Distinct(dq[w]) /\ \A v \in DOMAIN pc : v # w => r \notin Range(dq[v])
        BY <1>2, <2>2
      <3> QED BY <3>1, AtOne
    <2>3. r \in BP(w) /\ (\A v \in DOMAIN pc : v # w => r \notin BP(v)) => Cardinality(C) = 1
      BY <1>2, AtOne
    <2>4. r \in BD(w) /\ (\A v \in DOMAIN pc : v # w => r \notin BD(v)) => Cardinality(D) = 1
      BY <1>2, AtOne
    <2> HIDE DEF A, B, C, D
    <2> QED BY <2>1, <2>2, <2>3, <2>4
  <1> HIDE DEF A, B, C, D
  <1>6. \A w \in DOMAIN pc : r \in PQ(w) \cup DQ(w) \cup BP(w) \cup BD(w) => Live(r)
    BY <1>1, Apart
  <1>7. CASE ~Live(r)
    <2>1. Places(r) = {}
      BY <1>3, <1>4, <1>6, <1>7
    <2> QED BY <1>7, <2>1, FS_EmptySet
  <1>8. CASE Live(r)
    <2>1. PICK home : Housed(home)
      BY DEF OneHome
    <2>2. \E kind \in Kinds, w \in DOMAIN pc : home[r] = <<kind, w>>
      <3>1. home[r] \in Kinds \X DOMAIN pc
        BY <1>1, <1>8, <2>1 DEF Housed
      <3> QED BY <3>1, Pairs
    <2>3. PICK w \in DOMAIN pc : r \in PQ(w) \cup DQ(w) \cup BP(w) \cup BD(w)
      BY <1>1, <1>8, <2>1, <2>2 DEF Housed, Kinds
    <2>4. Cardinality(Places(r)) = 1
      <3>1. ASSUME r \in PQ(w) PROVE Cardinality(A) = 1 /\ B = {} /\ C = {} /\ D = {}
        BY <1>1, <1>4, <1>5, <3>1, Apart
      <3>2. ASSUME r \in DQ(w) PROVE Cardinality(B) = 1 /\ A = {} /\ C = {} /\ D = {}
        BY <1>1, <1>4, <1>5, <3>2, Apart
      <3>3. ASSUME r \in BP(w) PROVE Cardinality(C) = 1 /\ A = {} /\ B = {} /\ D = {}
        BY <1>1, <1>4, <1>5, <3>3, Apart
      <3>4. ASSUME r \in BD(w) PROVE Cardinality(D) = 1 /\ A = {} /\ B = {} /\ C = {}
        BY <1>1, <1>4, <1>5, <3>4, Apart
      <3> QED BY <1>3, <2>3, <3>1, <3>2, <3>3, <3>4
    <2> QED BY <1>8, <2>4
  <1> QED BY <1>7, <1>8

LEMMA TypesFollow ==
  ASSUME SimShape, OneHome, Values
  PROVE  SimTypeOK
  <1>1. ASSUME NEW r \in Requests
        PROVE  counter[r] \in -1 .. OutputLens[r] /\ remain[r] \in 0 .. PrefillLens[r]
    <2>1. OutputLens[r] \in Nat /\ PrefillLens[r] \in Nat /\ remain[r] \in Nat /\ remain[r] <= PrefillLens[r]
      BY SizesAssumption DEF SimShape, Values
    <2>2. CASE r > arrived
      BY <2>1, <2>2 DEF Values
    <2>3. CASE r \in exited
      BY <2>1, <2>3 DEF Values
    <2>4. CASE Live(r)
      <3>1. PICK home : Housed(home)
        BY DEF OneHome
      <3>2. \E kind \in Kinds, w \in Workers(config) : home[r] = <<kind, w>>
        <4>1. home[r] \in Kinds \X Workers(config)
          BY <2>4, <3>1 DEF Housed
        <4> QED BY <4>1, Pairs
      <3>3. PICK w \in Workers(config) : r \in PQ(w) \cup DQ(w) \cup BP(w) \cup BD(w)
        BY <2>4, <3>1, <3>2 DEF Housed, Kinds
      <3>4. counter[r] = -1 \/ counter[r] \in 0 .. OutputLens[r] - 1
        BY <3>3 DEF Values, Prefills, Decodes
      <3> QED BY <2>1, <3>4
    <2>5. r > arrived \/ r \in exited \/ Live(r)
      BY DEF Live, SimShape, Requests
    <2> QED BY <2>1, <2>2, <2>3, <2>4, <2>5
  <1>2. /\ \A r \in Requests : current[r] \in 0 .. PrefillLens[r] /\ chunk[r] \in Requests \cup {NoChunk}
        /\ exited \subseteq Requests
    BY DEF SimShape, Values
  <1> QED BY <1>1, <1>2 DEF SimTypeOK, SimShape

LEMMA ChunksFollow ==
  ASSUME SimShape, OneHome, Values, Chunks
  PROVE  ChunksStayTogether
  <1>1. ASSUME NEW w \in Workers(config), NEW r \in BP(w)
        PROVE  {q \in Requests : chunk[q] = chunk[r]} = BP(w)
    BY <1>1, RangesType DEF Chunks, AllOf
  <1> QED BY <1>1 DEF ChunksStayTogether, BP, SimShape

(* The requests one worker batched for prefill are one batch at every later *)
(* worker of the pipeline, though they are forwarded one by one and other   *)
(* chunks queue behind them (_enter_prefill, forward_prefill).              *)
THEOREM ChunksAreKept == SimSpec => []ChunksStayTogether
  BY ChunksFollow, HomeInvariance, PTL

(* A request is in one queue or one running batch from its arrival to its   *)
(* exit, in every cluster and mode: forwarding and the scheduler neither    *)
(* lose nor duplicate one (_exit_prefill, _exit_decode, Scheduler).         *)
THEOREM NobodyIsLost == SimSpec => []Consistent
  <1>1. ASSUME SimShape, OneHome, Values, Chunks
        PROVE  Consistent
    BY <1>1, TypesFollow, PlacesCount, ChunksFollow DEF Consistent, Live
  <1> QED BY <1>1, HomeInvariance, PTL

(***************************************************************************)
(* The logs.                                                               *)
(***************************************************************************)
Events == {"init", "wait_prefill", "do_prefill", "wait_decode", "do_decode", "exit_system"}
EventsIn(s, e) == {i \in DOMAIN s : s[i] = e}

LEMMA OneMoreEvent ==
  ASSUME NEW s \in Seq(Events), NEW e \in Events
  PROVE  LET t == s \o <<e>>
         IN  /\ t \in Seq(Events) /\ Len(t) = Len(s) + 1
             /\ \A x : x # e => EventsIn(t, x) = EventsIn(s, x)
             /\ EventsIn(t, e) = EventsIn(s, e) \cup {Len(s) + 1}
             /\ \A x : Cardinality(EventsIn(s, x)) \in Nat /\ EventsIn(s, x) \subseteq 1 .. Len(s)
             /\ Cardinality(EventsIn(t, e)) = Cardinality(EventsIn(s, e)) + 1
  <1> DEFINE t == s \o <<e>>
  <1>1. /\ t \in Seq(Events) /\ Len(t) = Len(s) + 1 /\ DOMAIN s = 1 .. Len(s) /\ DOMAIN t = 1 .. Len(s) + 1
        /\ \A i \in 1 .. Len(s) : t[i] = s[i]
        /\ t[Len(s) + 1] = e /\ Len(s) \in Nat
    OBVIOUS
  <1> HIDE DEF t
  <1>2. \A i : i \in 1 .. Len(s) + 1 <=> i \in 1 .. Len(s) \/ i = Len(s) + 1
    BY <1>1
  <1>3. \A x : x # e => EventsIn(t, x) = EventsIn(s, x)
    <2>1. ASSUME NEW x, x # e PROVE EventsIn(t, x) = EventsIn(s, x)
      BY <1>1, <1>2, <2>1 DEF EventsIn
    <2> QED BY <2>1
  <1>4. EventsIn(t, e) = EventsIn(s, e) \cup {Len(s) + 1}
    <2> SUFFICES \A i : i \in EventsIn(t, e) <=> i \in EventsIn(s, e) \/ i = Len(s) + 1
      OBVIOUS
    <2> QED BY <1>1, <1>2 DEF EventsIn
  <1>5. \A x : EventsIn(s, x) \subseteq 1 .. Len(s)
    BY <1>1 DEF EventsIn
  <1>6. \A x : IsFiniteSet(EventsIn(s, x)) /\ Cardinality(EventsIn(s, x)) \in Nat
    <2>1. IsFiniteSet(1 .. Len(s))
      BY <1>1, FS_Interval
    <2> QED BY <1>5, <2>1, FS_Subset, FS_CardinalityType
  <1>7. Len(s) + 1 \notin EventsIn(s, e)
    BY <1>1, <1>5
  <1>8. Cardinality(EventsIn(t, e)) = Cardinality(EventsIn(s, e)) + 1
    BY <1>4, <1>6, <1>7, FS_AddElement
  <1> QED BY <1>1, <1>3, <1>4, <1>5, <1>6, <1>8 DEF t

LEMMA TwoMore ==
  ASSUME NEW S, NEW s \in Seq(S), NEW a \in S, NEW b \in S
  PROVE  s \o <<a, b>> = (s \o <<a>>) \o <<b>>
  <1> DEFINE t == s \o <<a, b>>  u == (s \o <<a>>) \o <<b>>
  <1>1. /\ t \in Seq(S) /\ Len(t) = Len(s) + 2
        /\ \A i \in 1 .. Len(s) : t[i] = s[i]
        /\ t[Len(s) + 1] = a /\ t[Len(s) + 2] = b
    OBVIOUS
  <1>2. /\ u \in Seq(S) /\ Len(u) = Len(s) + 2
        /\ \A i \in 1 .. Len(s) : u[i] = s[i]
        /\ u[Len(s) + 1] = a /\ u[Len(s) + 2] = b
    OBVIOUS
  <1> HIDE DEF t, u
  <1>3. \A i \in 1 .. Len(s) + 2 : i \in 1 .. Len(s) \/ i = Len(s) + 1 \/ i = Len(s) + 2
    OBVIOUS
  <1>4. Len(t) = Len(u) /\ \A i \in 1 .. Len(t) : t[i] = u[i]
    BY <1>1, <1>2, <1>3
  <1>5. t = u
    BY <1>1, <1>2, <1>4, SeqEqual
  <1> QED BY <1>5 DEF t, u

(* What the log of a request shows: before its first token, the n times
   that it was in a prefill batch, and after it, the m times that it was in
   a decode batch. *)
ShowsPrefills(s, n) ==
  /\ s \in Seq(Events) /\ EventsIn(s, "init") = {1}
  /\ EventsIn(s, "wait_decode") = {} /\ EventsIn(s, "do_decode") = {} /\ EventsIn(s, "exit_system") = {}
  /\ Cardinality(EventsIn(s, "do_prefill")) = n

SplitsAt(s, p) ==
  /\ \A i \in EventsIn(s, "wait_decode") : p <= i
  /\ \A i \in EventsIn(s, "do_prefill") : i < p
  /\ \A i \in EventsIn(s, "do_decode") : i > p

ShowsDecodes(s, n, m) ==
  /\ s \in Seq(Events) /\ EventsIn(s, "init") = {1}
  /\ Cardinality(EventsIn(s, "do_prefill")) = n /\ Cardinality(EventsIn(s, "do_decode")) = m
  /\ \E p \in EventsIn(s, "wait_decode") : SplitsAt(s, p)

StillIn(s) == EventsIn(s, "exit_system") = {}

LEMMA FirstEvent == ShowsPrefills(<<"init">>, 0)
  <1> DEFINE s == <<"init">>
  <1>1. s \in Seq(Events) /\ DOMAIN s = {1} /\ s[1] = "init"
    BY DEF Events
  <1> HIDE DEF s
  <1>2. /\ EventsIn(s, "init") = {1} /\ EventsIn(s, "wait_decode") = {} /\ EventsIn(s, "do_decode") = {}
        /\ EventsIn(s, "exit_system") = {} /\ EventsIn(s, "do_prefill") = {}
    BY <1>1 DEF EventsIn
  <1>3. Cardinality({}) = 0
    BY FS_EmptySet
  <1>4. ShowsPrefills(s, 0)
    BY <1>1, <1>2, <1>3 DEF ShowsPrefills
  <1> QED BY <1>4 DEF s

LEMMA PrefillEvents ==
  ASSUME NEW s, NEW n, ShowsPrefills(s, n)
  PROVE  /\ ShowsPrefills(s \o <<"do_prefill">>, n + 1)
         /\ ShowsPrefills(s \o <<"wait_prefill">>, n)
         /\ ShowsDecodes(s \o <<"wait_decode">>, n, 0) /\ StillIn(s \o <<"wait_decode">>)
  <1>1. s \in Seq(Events)
    BY DEF ShowsPrefills
  <1>2. ShowsPrefills(s \o <<"do_prefill">>, n + 1)
    <2>1. "do_prefill" \in Events
      BY DEF Events
    <2> DEFINE t == s \o <<"do_prefill">>
    <2>2. /\ t \in Seq(Events)
          /\ \A x : x # "do_prefill" => EventsIn(t, x) = EventsIn(s, x)
          /\ Cardinality(EventsIn(t, "do_prefill")) = Cardinality(EventsIn(s, "do_prefill")) + 1
      BY <1>1, <2>1, OneMoreEvent
    <2> HIDE DEF t
    <2>3. ShowsPrefills(t, n + 1)
      BY <2>2 DEF ShowsPrefills
    <2> QED BY <2>3 DEF t
  <1>3. ShowsPrefills(s \o <<"wait_prefill">>, n)
    <2>1. "wait_prefill" \in Events
      BY DEF Events
    <2> DEFINE t == s \o <<"wait_prefill">>
    <2>2. /\ t \in Seq(Events)
          /\ \A x : x # "wait_prefill" => EventsIn(t, x) = EventsIn(s, x)
      BY <1>1, <2>1, OneMoreEvent
    <2> HIDE DEF t
    <2>3. ShowsPrefills(t, n)
      BY <2>2 DEF ShowsPrefills
    <2> QED BY <2>3 DEF t
  <1>4. ShowsDecodes(s \o <<"wait_decode">>, n, 0) /\ StillIn(s \o <<"wait_decode">>)
    <2>1. "wait_decode" \in Events
      BY DEF Events
    <2> DEFINE t == s \o <<"wait_decode">>  p == Len(s) + 1
    <2>2. /\ t \in Seq(Events)
          /\ \A x : x # "wait_decode" => EventsIn(t, x) = EventsIn(s, x)
          /\ EventsIn(t, "wait_decode") = EventsIn(s, "wait_decode") \cup {p}
          /\ EventsIn(s, "do_prefill") \subseteq 1 .. Len(s)
      BY <1>1, <2>1, OneMoreEvent
    <2>3. \A i \in EventsIn(s, "do_prefill") : i < p
      BY <1>1, <2>2
    <2>4. p <= p
      BY <1>1
    <2> HIDE DEF t, p
    <2>5. SplitsAt(t, p) /\ p \in EventsIn(t, "wait_decode")
      BY <2>2, <2>3, <2>4 DEF SplitsAt, ShowsPrefills
    <2>6. Cardinality({}) = 0
      BY FS_EmptySet
    <2>7. ShowsDecodes(t, n, 0) /\ StillIn(t)
      BY <2>2, <2>5, <2>6 DEF ShowsDecodes, ShowsPrefills, StillIn
    <2> QED BY <2>7 DEF t
  <1> QED BY <1>2, <1>3, <1>4

LEMMA DecodeEvents ==
  ASSUME NEW s, NEW n, NEW m, ShowsDecodes(s, n, m), StillIn(s)
  PROVE  /\ ShowsDecodes(s \o <<"do_decode">>, n, m + 1) /\ StillIn(s \o <<"do_decode">>)
         /\ ShowsDecodes(s \o <<"wait_decode">>, n, m) /\ StillIn(s \o <<"wait_decode">>)
         /\ ShowsDecodes(s \o <<"exit_system">>, n, m)
         /\ EventsIn(s \o <<"exit_system">>, "exit_system") = {Len(s \o <<"exit_system">>)}
  <1>1. s \in Seq(Events)
    BY DEF ShowsDecodes
  <1>2. PICK p \in EventsIn(s, "wait_decode") : SplitsAt(s, p)
    BY DEF ShowsDecodes
  <1>3. {"do_decode", "wait_decode", "exit_system"} \subseteq Events
    BY DEF Events
  <1>4. p \in 1 .. Len(s) /\ Len(s) \in Nat
    BY <1>1, <1>2 DEF EventsIn
  <1>5. ShowsDecodes(s \o <<"do_decode">>, n, m + 1) /\ StillIn(s \o <<"do_decode">>)
    <2> DEFINE t == s \o <<"do_decode">>  q == Len(s) + 1
    <2>1. /\ t \in Seq(Events)
          /\ \A x : x # "do_decode" => EventsIn(t, x) = EventsIn(s, x)
          /\ EventsIn(t, "do_decode") = EventsIn(s, "do_decode") \cup {q}
          /\ Cardinality(EventsIn(t, "do_decode")) = Cardinality(EventsIn(s, "do_decode")) + 1
      BY <1>1, <1>3, OneMoreEvent
    <2>2. q > p
      BY <1>4
    <2> HIDE DEF t, q
    <2>3. SplitsAt(t, p) /\ p \in EventsIn(t, "wait_decode")
      BY <1>2, <2>1, <2>2 DEF SplitsAt
    <2>4. ShowsDecodes(t, n, m + 1) /\ StillIn(t)
      BY <2>1, <2>3 DEF ShowsDecodes, StillIn
    <2> QED BY <2>4 DEF t
  <1>6. ShowsDecodes(s \o <<"wait_decode">>, n, m) /\ StillIn(s \o <<"wait_decode">>)
    <2> DEFINE t == s \o <<"wait_decode">>  q == Len(s) + 1
    <2>1. /\ t \in Seq(Events)
          /\ \A x : x # "wait_decode" => EventsIn(t, x) = EventsIn(s, x)
          /\ EventsIn(t, "wait_decode") = EventsIn(s, "wait_decode") \cup {q}
      BY <1>1, <1>3, OneMoreEvent
    <2>2. p <= q
      BY <1>4
    <2> HIDE DEF t, q
    <2>3. SplitsAt(t, p) /\ p \in EventsIn(t, "wait_decode")
      BY <1>2, <2>1, <2>2 DEF SplitsAt
    <2>4. ShowsDecodes(t, n, m) /\ StillIn(t)
      BY <2>1, <2>3 DEF ShowsDecodes, StillIn
    <2> QED BY <2>4 DEF t
  <1>7. /\ ShowsDecodes(s \o <<"exit_system">>, n, m)
        /\ EventsIn(s \o <<"exit_system">>, "exit_system") = {Len(s \o <<"exit_system">>)}
    <2> DEFINE t == s \o <<"exit_system">>
    <2>1. /\ t \in Seq(Events) /\ Len(t) = Len(s) + 1
          /\ \A x : x # "exit_system" => EventsIn(t, x) = EventsIn(s, x)
          /\ EventsIn(t, "exit_system") = EventsIn(s, "exit_system") \cup {Len(s) + 1}
      BY <1>1, <1>3, OneMoreEvent
    <2> HIDE DEF t
    <2>2. SplitsAt(t, p) /\ p \in EventsIn(t, "wait_decode")
      BY <1>2, <2>1 DEF SplitsAt
    <2>3. ShowsDecodes(t, n, m) /\ EventsIn(t, "exit_system") = {Len(t)}
      BY <2>1, <2>2 DEF ShowsDecodes, StillIn
    <2> QED BY <2>3 DEF t
  <1> QED BY <1>5, <1>6, <1>7

(* Adding to a multiple, and what is left of one *)
LEMMA Multiples ==
  ASSUME NEW a \in Nat, NEW b \in Nat \ {0}
  PROVE  a * b \in Nat /\ (a + 1) * b = a * b + b /\ (a * b) % b = 0
  <1>1. a * b \in Nat /\ (a + 1) * b = a * b + b
    OBVIOUS
  <1>2. (a * b) % b = 0
    <2> DEFINE x == a * b  q == x \div b  d == a - q
    <2>1. x \in Nat /\ q \in Int /\ x % b \in 0 .. b - 1 /\ x = b * q + (x % b)
      BY <1>1
    <2>2. d \in Int /\ b * d = x % b
      BY <2>1
    <2> HIDE DEF x, q, d
    <2>3. CASE d >= 1
      <3>1. b * d >= b
        BY <2>2, <2>3
      <3> QED BY <2>1, <2>2, <3>1
    <2>4. CASE d <= -1
      <3>1. b * d <= -b
        BY <2>2, <2>4
      <3> QED BY <2>1, <2>2, <3>1
    <2>5. CASE d = 0
      BY <2>2, <2>5 DEF x
    <2> QED BY <2>2, <2>3, <2>4, <2>5
  <1> QED BY <1>1, <1>2

(* The work that a log shows when the prefill is done *)
WholePrefill(n) ==
  IF config.chunked THEN n % PPof("prefill") = 0 /\ n > 0 ELSE n = PPof("prefill")

PrefillLog(r, k) == \E c \in Nat :
  /\ ShowsPrefills(log[r], c * PPof("prefill") + k)
  /\ config.chunked \/ c = 0

DecodeLog(r, m) == \E n \in Nat :
  WholePrefill(n) /\ ShowsDecodes(log[r], n, m) /\ StillIn(log[r])

ExitLog(r) == \E n \in Nat :
  /\ WholePrefill(n) /\ ShowsDecodes(log[r], n, OutputLens[r] * PPof("decode"))
  /\ EventsIn(log[r], "exit_system") = {Len(log[r])}

Logs ==
  /\ log \in [Requests -> Seq(Events)]
  /\ \A r \in exited : ExitLog(r)
  /\ \A w \in Workers(config) :
       /\ \A r \in PQ(w) : /\ PrefillLog(r, w[3] - 1)
                           /\ config.chunked \/ IsFirst(w) \/ remain[r] = 0
       /\ \A r \in BP(w) : PrefillLog(r, w[3]) /\ (config.chunked \/ remain[r] = 0)
       /\ \A r \in DQ(w) : DecodeLog(r, counter[r] * PPof("decode") + (w[3] - 1))
       /\ \A r \in BD(w) : DecodeLog(r, counter[r] * PPof("decode") + w[3])

LEMMA InitLogs == SimInit => Logs
  <1> SUFFICES ASSUME SimInit PROVE Logs
    OBVIOUS
  <1>1. \A w \in Workers(config) : PQ(w) = {} /\ DQ(w) = {} /\ BP(w) = {} /\ BD(w) = {}
    BY DEF SimInit, PQ, DQ, BP, BD, Range
  <1>2. log \in [Requests -> Seq(Events)]
    BY DEF SimInit
  <1> QED BY <1>1, <1>2 DEF Logs, SimInit

LEMMA SameLog ==
  ASSUME config' = config, NEW r, log'[r] = log[r]
  PROVE  /\ \A k : PrefillLog(r, k) => PrefillLog(r, k)'
         /\ \A m : DecodeLog(r, m) => DecodeLog(r, m)'
         /\ ExitLog(r) => ExitLog(r)'
  BY DEF PrefillLog, DecodeLog, ExitLog, WholePrefill, PPof

LEMMA PipelineLengths ==
  ASSUME SimShape, NEW w \in Workers(config)
  PROVE  /\ w[1] \in PrefillStages => config.pp[w[1]] = PPof("prefill")
         /\ w[1] \in DecodeStages => config.pp[w[1]] = PPof("decode")
         /\ PPof("prefill") \in Nat \ {0} /\ PPof("decode") \in Nat \ {0}
         /\ w[3] \in 1 .. config.pp[w[1]]
  <1>1. /\ w[1] \in DOMAIN config.pp /\ (w[1] = "both" <=> config.backend = "vllm")
        /\ w[3] \in 1 .. config.pp[w[1]] /\ config \in Configs
    BY WorkerFacts DEF SimShape
  <1>2. /\ DOMAIN config.pp = IF config.backend = "vllm" THEN {"both"} ELSE {"prefill", "decode"}
        /\ \A stage \in DOMAIN config.pp : config.pp[stage] \in Nat \ {0}
    BY <1>1, Cluster
  <1> QED BY <1>1, <1>2 DEF PPof, PrefillStages, DecodeStages

(* Steps that move nobody and log nothing *)
LEMMA LogsStay ==
  ASSUME Logs, UNCHANGED <<config, log, counter, remain, exited, prefillQueue, decodeQueue, batch>>
  PROVE  Logs'
  <1>1. \A w : PQ(w)' = PQ(w) /\ DQ(w)' = DQ(w) /\ BP(w)' = BP(w) /\ BD(w)' = BD(w) /\ (IsFirst(w)' <=> IsFirst(w))
    BY DEF PQ, DQ, BP, BD, IsFirst
  <1>2. \A r : /\ \A k : (PrefillLog(r, k) => PrefillLog(r, k)') /\ (DecodeLog(r, k) => DecodeLog(r, k)')
               /\ ExitLog(r) => ExitLog(r)'
    BY SameLog
  <1>3. PPof("decode")' = PPof("decode")
    BY DEF PPof
  <1> QED BY <1>1, <1>2, <1>3 DEF Logs

(* What the events of an iteration do to a log *)
LEMMA PrefillLogSteps ==
  ASSUME SimShape, config' = config, NEW r, NEW k \in Nat, PrefillLog(r, k)
  PROVE  /\ log'[r] = log[r] \o <<"do_prefill">> => PrefillLog(r, k + 1)'
         /\ log'[r] = log[r] \o <<"wait_prefill">> => PrefillLog(r, k)'
         /\ k = PPof("prefill") /\ config.chunked => PrefillLog(r, 0)
         /\ k = PPof("prefill") => \E n \in Nat :
              /\ WholePrefill(n)
              /\ ShowsDecodes(log[r] \o <<"wait_decode">>, n, 0) /\ StillIn(log[r] \o <<"wait_decode">>)
  <1> DEFINE pp == PPof("prefill")
  <1>1. PICK c \in Nat : ShowsPrefills(log[r], c * pp + k) /\ (config.chunked \/ c = 0)
    BY DEF PrefillLog
  <1>2. pp \in Nat \ {0} /\ pp' = pp
    <2>1. config \in Configs
      BY DEF SimShape
    <2>2. pp \in Nat \ {0}
      BY <2>1, Cluster DEF PPof
    <2> QED BY <2>2 DEF PPof
  <1> HIDE DEF pp
  <1>3. c * pp \in Nat /\ (c + 1) * pp = c * pp + pp /\ ((c + 1) * pp) % pp = 0
    <2>1. c + 1 \in Nat
      OBVIOUS
    <2> QED BY <1>2, <2>1, Multiples
  <1>4. ASSUME log'[r] = log[r] \o <<"do_prefill">> PROVE PrefillLog(r, k + 1)'
    <2>1. ShowsPrefills(log'[r], (c * pp + k) + 1)
      BY <1>1, <1>4, PrefillEvents
    <2>2. (c * pp + k) + 1 = c * pp + (k + 1)
      BY <1>3
    <2> QED BY <1>1, <1>2, <2>1, <2>2 DEF PrefillLog, pp
  <1>5. ASSUME log'[r] = log[r] \o <<"wait_prefill">> PROVE PrefillLog(r, k)'
    <2>1. ShowsPrefills(log'[r], c * pp + k)
      BY <1>1, <1>5, PrefillEvents
    <2> QED BY <1>1, <1>2, <2>1 DEF PrefillLog, pp
  <1>6. ASSUME k = pp, config.chunked PROVE PrefillLog(r, 0)
    <2>1. c * pp + k = (c + 1) * pp + 0
      BY <1>2, <1>3, <1>6
    <2> QED BY <1>1, <1>6, <2>1 DEF PrefillLog, pp
  <1>7. ASSUME k = pp
        PROVE  \E n \in Nat : /\ WholePrefill(n)
                              /\ ShowsDecodes(log[r] \o <<"wait_decode">>, n, 0)
                              /\ StillIn(log[r] \o <<"wait_decode">>)
    <2> DEFINE n == c * pp + k
    <2>1. n \in Nat /\ n > 0 /\ n = (c + 1) * pp
      BY <1>2, <1>3, <1>7
    <2>2. n % pp = 0
      BY <1>3, <2>1
    <2>3. c = 0 => n = pp
      BY <1>2, <1>7
    <2>4. ShowsDecodes(log[r] \o <<"wait_decode">>, n, 0) /\ StillIn(log[r] \o <<"wait_decode">>)
      BY <1>1, PrefillEvents
    <2> HIDE DEF n
    <2>5. WholePrefill(n)
      BY <1>1, <2>1, <2>2, <2>3 DEF WholePrefill, pp
    <2> QED BY <2>1, <2>4, <2>5
  <1> QED BY <1>4, <1>5, <1>6, <1>7 DEF pp

LEMMA DecodeLogSteps ==
  ASSUME config' = config, NEW r, NEW m \in Nat, DecodeLog(r, m)
  PROVE  /\ log'[r] = log[r] \o <<"do_decode">> => DecodeLog(r, m + 1)'
         /\ log'[r] = log[r] \o <<"wait_decode">> => DecodeLog(r, m)'
         /\ log'[r] = log[r] \o <<"wait_decode", "exit_system">> /\ m = OutputLens[r] * PPof("decode") => ExitLog(r)'
  <1>1. PICK n \in Nat : WholePrefill(n) /\ ShowsDecodes(log[r], n, m) /\ StillIn(log[r])
    BY DEF DecodeLog
  <1>2. WholePrefill(n)'
    BY <1>1 DEF WholePrefill, PPof
  <1>3. ASSUME log'[r] = log[r] \o <<"do_decode">> PROVE DecodeLog(r, m + 1)'
    BY <1>1, <1>2, <1>3, DecodeEvents DEF DecodeLog
  <1>4. ASSUME log'[r] = log[r] \o <<"wait_decode">> PROVE DecodeLog(r, m)'
    BY <1>1, <1>2, <1>4, DecodeEvents DEF DecodeLog
  <1>5. ASSUME log'[r] = log[r] \o <<"wait_decode", "exit_system">>, m = OutputLens[r] * PPof("decode")
        PROVE  ExitLog(r)'
    <2> DEFINE s == log[r] \o <<"wait_decode">>  t == s \o <<"exit_system">>
    <2>1. ShowsDecodes(s, n, m) /\ StillIn(s)
      BY <1>1, DecodeEvents
    <2>2. ShowsDecodes(t, n, m) /\ EventsIn(t, "exit_system") = {Len(t)}
      <3> HIDE DEF s
      <3> QED BY <2>1, DecodeEvents
    <2>3. log'[r] = t
      <3>1. log[r] \in Seq(Events) /\ "wait_decode" \in Events /\ "exit_system" \in Events
        BY <1>1 DEF ShowsDecodes, Events
      <3> QED BY <1>5, <3>1, TwoMore
    <2>4. PPof("decode")' = PPof("decode")
      BY DEF PPof
    <2> HIDE DEF s, t
    <2> QED BY <1>2, <1>5, <2>2, <2>3, <2>4 DEF ExitLog
  <1> QED BY <1>3, <1>4, <1>5

LEMMA PrefillEnds ==
  ASSUME SimShape, config' = config, NEW r, PrefillLog(r, PPof("prefill"))
  PROVE  /\ log'[r] = log[r] \o <<"wait_decode">> => DecodeLog(r, 0)'
         /\ log'[r] = log[r] \o <<"wait_decode", "wait_decode">> => DecodeLog(r, 0)'
         /\ log'[r] = log[r] \o <<"wait_decode", "exit_system">> /\ OutputLens[r] = 0 => ExitLog(r)'
  <1> DEFINE s == log[r] \o <<"wait_decode">>
  <1>1. PPof("prefill") \in Nat /\ PPof("decode") \in Nat
    <2>1. config \in Configs
      BY DEF SimShape
    <2> QED BY <2>1, Cluster DEF PPof
  <1>2. PICK n \in Nat : WholePrefill(n) /\ ShowsDecodes(s, n, 0) /\ StillIn(s)
    BY <1>1, PrefillLogSteps
  <1>3. WholePrefill(n)' /\ PPof("decode")' = PPof("decode")
    BY <1>2 DEF WholePrefill, PPof
  <1>4. /\ log[r] \o <<"wait_decode", "wait_decode">> = s \o <<"wait_decode">>
        /\ log[r] \o <<"wait_decode", "exit_system">> = s \o <<"exit_system">>
    <2>1. log[r] \in Seq(Events) /\ "wait_decode" \in Events /\ "exit_system" \in Events
      BY DEF PrefillLog, ShowsPrefills, Events
    <2> QED BY <2>1, TwoMore
  <1> HIDE DEF s
  <1>5. ASSUME log'[r] = s PROVE DecodeLog(r, 0)'
    BY <1>2, <1>3, <1>5 DEF DecodeLog
  <1>6. ASSUME log'[r] = s \o <<"wait_decode">> PROVE DecodeLog(r, 0)'
    BY <1>2, <1>3, <1>6, DecodeEvents DEF DecodeLog
  <1>7. ASSUME log'[r] = s \o <<"exit_system">>, OutputLens[r] = 0 PROVE ExitLog(r)'
    <2>1. ShowsDecodes(log'[r], n, 0) /\ EventsIn(log'[r], "exit_system") = {Len(log'[r])}
      BY <1>2, <1>7, DecodeEvents
    <2>2. OutputLens[r] * PPof("decode") = 0
      BY <1>1, <1>7
    <2> QED BY <1>2, <1>3, <2>1, <2>2 DEF ExitLog
  <1> QED BY <1>4, <1>5, <1>6, <1>7 DEF s

LEMMA ArriveLogs ==
  ASSUME SimShape, OneHome, Values, Logs, NEW w \in DOMAIN pc, Arrive(w)
  PROVE  Logs'
  <1>0. PICK a : a = arrived + 1
    OBVIOUS
  <1>1. w \in Workers(config) /\ a \in Requests /\ w \in Range(PrefillHeads)
    BY <1>0 DEF SimShape, Arrive
  <1>2. /\ prefillQueue' = [prefillQueue EXCEPT ![w] = Append(@, a)]
        /\ log' = [log EXCEPT ![a] = <<"init">>]
        /\ UNCHANGED <<config, decodeQueue, batch, counter, remain, current, chunk, exited>>
    BY <1>0 DEF Arrive
  <1>3. IsFirst(w)
    BY <1>1, HeadsFacts DEF SimShape
  <1>4. a \notin exited /\ a > arrived /\ arrived \in Nat
    BY <1>0 DEF OneHome, SimShape
  <1>5. \A v \in Workers(config) : a \notin PQ(v) \cup DQ(v) \cup BP(v) \cup BD(v)
    BY <1>1, <1>4, Apart DEF Live, Requests
  <1>6. prefillQueue[w] \in Seq(Requests) /\ prefillQueue \in [Workers(config) -> Seq(Requests)]
    BY <1>1 DEF SimShape
  <1>7. /\ PQ(w)' = PQ(w) \cup {a}
        /\ \A v \in Workers(config) : v # w => PQ(v)' = PQ(v)
        /\ \A v \in Workers(config) : DQ(v)' = DQ(v) /\ BP(v)' = BP(v) /\ BD(v)' = BD(v)
    BY <1>1, <1>2, <1>6, AppendRange DEF PQ, DQ, BP, BD
  <1>8. log' \in [Requests -> Seq(Events)]
    <2>1. <<"init">> \in Seq(Events)
      BY DEF Events
    <2> QED BY <1>1, <1>2, <2>1 DEF Logs
  <1>9. \A r \in Requests : r # a => log'[r] = log[r]
    BY <1>1, <1>2 DEF Logs
  <1>10. log'[a] = <<"init">>
    BY <1>1, <1>2 DEF Logs
  <1>11. \A r \in Requests : r # a => /\ \A k : PrefillLog(r, k) => PrefillLog(r, k)'
                                      /\ \A m : DecodeLog(r, m) => DecodeLog(r, m)'
                                      /\ ExitLog(r) => ExitLog(r)'
    BY <1>2, <1>9, SameLog
  <1>12. PrefillLog(a, w[3] - 1)'
    <2>1. w[3] - 1 = 0
      BY <1>3 DEF IsFirst
    <2>2. PPof("prefill")' = PPof("prefill") /\ PPof("prefill") \in Nat
      BY <1>1, <1>2, PipelineLengths DEF PPof
    <2>3. 0 * PPof("prefill") + (w[3] - 1) = 0
      BY <2>1, <2>2
    <2>4. ShowsPrefills(log'[a], 0 * PPof("prefill")' + (w[3] - 1))
      BY <1>10, <2>2, <2>3, FirstEvent
    <2> QED BY <2>4 DEF PrefillLog
  <1>13. \A v : (IsFirst(v)' <=> IsFirst(v)) /\ PPof("decode")' = PPof("decode")
    BY <1>2 DEF IsFirst, PPof
  <1>14. \A v \in Workers(config) : /\ PQ(v) \subseteq Requests /\ DQ(v) \subseteq Requests
                                    /\ BP(v) \subseteq Requests /\ BD(v) \subseteq Requests
    BY RangesType
  <1>15. ASSUME NEW v \in Workers(config)
         PROVE  /\ \A r \in PQ(v)' : /\ PrefillLog(r, v[3] - 1)'
                                     /\ config'.chunked \/ IsFirst(v)' \/ remain'[r] = 0
                /\ \A r \in BP(v)' : PrefillLog(r, v[3])' /\ (config'.chunked \/ remain'[r] = 0)
                /\ \A r \in DQ(v)' : DecodeLog(r, counter[r] * PPof("decode") + (v[3] - 1))'
                /\ \A r \in BD(v)' : DecodeLog(r, counter[r] * PPof("decode") + v[3])'
    <2>1. ASSUME NEW r \in PQ(v)'
          PROVE  /\ PrefillLog(r, v[3] - 1)' /\ (config'.chunked \/ IsFirst(v)' \/ remain'[r] = 0)
      <3>1. CASE r = a
        <4>1. v = w
          BY <1>5, <1>7, <2>1, <3>1
        <4>2. PrefillLog(r, v[3] - 1)'
          BY <1>12, <3>1, <4>1
        <4> QED BY <1>3, <1>13, <4>1, <4>2
      <3>2. CASE r # a
        <4>1. r \in PQ(v) /\ r \in Requests
          BY <1>7, <1>14, <2>1, <3>2
        <4> QED BY <1>2, <1>11, <1>13, <3>2, <4>1 DEF Logs
      <3> QED BY <3>1, <3>2
    <2>2. ASSUME NEW r \in BP(v)' PROVE PrefillLog(r, v[3])' /\ (config'.chunked \/ remain'[r] = 0)
      <3>1. r \in BP(v) /\ r \in Requests /\ r # a
        BY <1>5, <1>7, <1>14
      <3> QED BY <1>2, <1>11, <3>1 DEF Logs
    <2>3. ASSUME NEW r \in DQ(v)' PROVE DecodeLog(r, counter[r] * PPof("decode") + (v[3] - 1))'
      <3>1. r \in DQ(v) /\ r \in Requests /\ r # a
        BY <1>5, <1>7, <1>14
      <3>2. DecodeLog(r, counter[r] * PPof("decode") + (v[3] - 1))
        BY <3>1 DEF Logs
      <3> QED BY <1>2, <1>11, <1>13, <3>1, <3>2
    <2>4. ASSUME NEW r \in BD(v)' PROVE DecodeLog(r, counter[r] * PPof("decode") + v[3])'
      <3>1. r \in BD(v) /\ r \in Requests /\ r # a
        BY <1>5, <1>7, <1>14
      <3>2. DecodeLog(r, counter[r] * PPof("decode") + v[3])
        BY <3>1 DEF Logs
      <3> QED BY <1>2, <1>11, <1>13, <3>1, <3>2
    <2> QED BY <2>1, <2>2, <2>3, <2>4
  <1>16. \A r \in exited' : ExitLog(r)'
    BY <1>2, <1>4, <1>11 DEF Logs, SimShape
  <1> QED BY <1>2, <1>8, <1>15, <1>16 DEF Logs

LEMMA TakingLogs ==
  ASSUME SimShape, OneHome, Values, Logs, NEW w \in Workers(config),
         NEW n \in 0 .. Len(prefillQueue[w]), NEW m \in 0 .. Len(decodeQueue[w]), Taking(w, n, m)
  PROVE  Logs'
  <1> DEFINE P == Range(SubSeq(prefillQueue[w], 1, n))  D == Range(SubSeq(decodeQueue[w], 1, m))
  <1>1. /\ P \subseteq PQ(w) /\ D \subseteq DQ(w) /\ BP(w) = {} /\ BD(w) = {}
        /\ PQ(w)' = PQ(w) \ P /\ DQ(w)' = DQ(w) \ D /\ BP(w)' = P /\ BD(w)' = D
        /\ \A v \in Workers(config) : v # w =>
             PQ(v)' = PQ(v) /\ DQ(v)' = DQ(v) /\ BP(v)' = BP(v) /\ BD(v)' = BD(v)
        /\ UNCHANGED <<config, arrived, counter, exited>>
    BY TakingSets
  <1>2. log' = [r \in Requests |->
                  IF r \in exited THEN log[r]
                  ELSE log[r] \o (IF r \in P THEN <<"do_prefill">>
                                  ELSE IF r \in D THEN <<"do_decode">> ELSE <<>>)]
    BY DEF Taking, Begins, Logged
  <1>3. \A r \in Requests : /\ remain'[r] # remain[r] => r \in P
                            /\ r \in P /\ IsFirst(w) /\ ~config.chunked => remain'[r] = 0
                            /\ ~IsFirst(w) => remain'[r] = remain[r]
    BY TakenParts, TakenValues
  <1> HIDE DEF P, D
  <1>4. \A v \in Workers(config) : /\ \A r \in PQ(v) \cup DQ(v) \cup BP(v) \cup BD(v) : r \in Requests /\ Live(r)
                                   /\ \A r \in DQ(v) : r \notin PQ(w)
    BY RangesType, Apart
  <1>5. \A r \in Requests : /\ r \in P => log'[r] = log[r] \o <<"do_prefill">>
                            /\ r \in D => log'[r] = log[r] \o <<"do_decode">>
                            /\ r \notin P \cup D => log'[r] = log[r]
    <2>1. \A r \in Requests : log[r] \in Seq(Events) /\ log[r] \o <<>> = log[r]
      BY DEF Logs
    <2>2. \A r \in P \cup D : r \notin exited /\ (r \in D => r \notin P)
      BY <1>1, <1>4 DEF Live
    <2> QED BY <1>2, <2>1, <2>2
  <1>6. \A r \in Requests : r \notin P \cup D => /\ \A k : PrefillLog(r, k) => PrefillLog(r, k)'
                                                 /\ \A k : DecodeLog(r, k) => DecodeLog(r, k)'
                                                 /\ ExitLog(r) => ExitLog(r)'
    BY <1>1, <1>5, SameLog
  <1>7. \A v : (IsFirst(v)' <=> IsFirst(v)) /\ PPof("decode")' = PPof("decode")
    BY <1>1 DEF IsFirst, PPof
  <1>8. \A v \in Workers(config) : v[3] \in Nat \ {0}
    <2>1. config \in Configs
      BY DEF SimShape
    <2> QED BY <2>1, WorkerFacts
  <1>9. log' \in [Requests -> Seq(Events)]
    <2>1. \A r \in Requests : log[r] \in Seq(Events)
      BY DEF Logs
    <2>2. {"do_prefill", "do_decode"} \subseteq Events
      BY DEF Events
    <2>3. \A r \in Requests : log'[r] \in Seq(Events)
      BY <1>5, <2>1, <2>2, OneMoreEvent
    <2> QED BY <1>2, <2>3
  <1>10. ASSUME NEW v \in Workers(config), NEW r \in PQ(v)'
         PROVE  PrefillLog(r, v[3] - 1)' /\ (config'.chunked \/ IsFirst(v)' \/ remain'[r] = 0)
    <2>1. r \in PQ(v) /\ r \in Requests /\ r \notin P /\ r \notin D
      <3>1. r \in PQ(v) /\ r \in Requests /\ r \notin P
        BY <1>1, <1>4, Apart
      <3> QED BY <1>1, <3>1, Apart
    <2>2. PrefillLog(r, v[3] - 1) /\ (config.chunked \/ IsFirst(v) \/ remain[r] = 0)
      BY <2>1 DEF Logs
    <2> QED BY <1>1, <1>3, <1>6, <1>7, <2>1, <2>2
  <1>11. ASSUME NEW v \in Workers(config), NEW r \in BP(v)'
         PROVE  PrefillLog(r, v[3])' /\ (config'.chunked \/ remain'[r] = 0)
    <2>1. CASE v = w
      <3>1. r \in P /\ r \in PQ(w) /\ r \in Requests
        BY <1>1, <1>4, <2>1
      <3>2. PrefillLog(r, w[3] - 1) /\ (config.chunked \/ IsFirst(w) \/ remain[r] = 0)
        BY <3>1 DEF Logs
      <3>3. w[3] - 1 \in Nat /\ (w[3] - 1) + 1 = w[3]
        BY <1>8
      <3>4. PrefillLog(r, (w[3] - 1) + 1)'
        BY <1>1, <1>5, <3>1, <3>2, <3>3, PrefillLogSteps
      <3>5. PrefillLog(r, w[3])'
        BY <3>3, <3>4
      <3>6. config'.chunked \/ remain'[r] = 0
        BY <1>1, <1>3, <3>1, <3>2
      <3> QED BY <2>1, <3>5, <3>6
    <2>2. CASE v # w
      <3>1. r \in BP(v) /\ r \in Requests
        BY <1>1, <1>4, <2>2
      <3>2. r \notin PQ(w) /\ r \notin DQ(w)
        BY <3>1, Apart
      <3>3. PrefillLog(r, v[3]) /\ (config.chunked \/ remain[r] = 0)
        BY <3>1 DEF Logs
      <3> QED BY <1>1, <1>3, <1>6, <3>1, <3>2, <3>3
    <2> QED BY <2>1, <2>2
  <1>12. ASSUME NEW v \in Workers(config), NEW r \in DQ(v)'
         PROVE  DecodeLog(r, counter[r] * PPof("decode") + (v[3] - 1))'
    <2>1. r \in DQ(v) /\ r \in Requests /\ r \notin D
      <3>1. CASE v = w
        BY <1>1, <1>4, <3>1
      <3>2. CASE v # w
        BY <1>1, <1>4, <3>2, Apart
      <3> QED BY <3>1, <3>2
    <2>2. r \notin P
      BY <1>1, <1>4, <2>1
    <2>3. DecodeLog(r, counter[r] * PPof("decode") + (v[3] - 1))
      BY <2>1 DEF Logs
    <2>4. DecodeLog(r, counter[r] * PPof("decode") + (v[3] - 1))' <=> \E k : k = counter[r] * PPof("decode") + (v[3] - 1) /\ DecodeLog(r, k)'
      BY <1>1, <1>7
    <2> QED BY <1>6, <2>1, <2>2, <2>3, <2>4
  <1>13. ASSUME NEW v \in Workers(config), NEW r \in BD(v)'
         PROVE  DecodeLog(r, counter[r] * PPof("decode") + v[3])'
    <2>1. CASE v = w
      <3>1. r \in D /\ r \in DQ(w) /\ r \in Requests
        BY <1>1, <1>4, <2>1
      <3> DEFINE x == counter[r] * PPof("decode") + (w[3] - 1)
                 y == counter[r] * PPof("decode") + w[3]
      <3>2. DecodeLog(r, x)
        BY <3>1 DEF Logs
      <3>3. counter[r] \in Nat /\ PPof("decode") \in Nat
        <4>1. counter[r] \in 0 .. OutputLens[r] - 1
          BY <3>1 DEF Values, Decodes
        <4> QED BY <4>1, PipelineLengths
      <3>4. counter[r] * PPof("decode") \in Nat
        BY <3>3
      <3>5. x \in Nat /\ x + 1 = y
        BY <1>8, <3>4
      <3>6. y' = y
        BY <1>1, <1>7
      <3> HIDE DEF x
      <3>7. \A k : k = x => DecodeLog(r, k + 1)'
        <4> SUFFICES ASSUME NEW k, k = x PROVE DecodeLog(r, k + 1)'
          OBVIOUS
        <4>1. k \in Nat /\ DecodeLog(r, k)
          BY <3>2, <3>5
        <4> QED BY <1>1, <1>5, <3>1, <4>1, DecodeLogSteps
      <3>8. \A k : k = y => DecodeLog(r, k)'
        BY <3>5, <3>7
      <3> QED BY <2>1, <3>6, <3>8
    <2>2. CASE v # w
      <3>1. r \in BD(v) /\ r \in Requests
        BY <1>1, <1>4, <2>2
      <3>2. r \notin PQ(w) /\ r \notin DQ(w)
        BY <3>1, Apart
      <3>3. DecodeLog(r, counter[r] * PPof("decode") + v[3])
        BY <3>1 DEF Logs
      <3>4. r \notin P \cup D /\ counter'[r] = counter[r]
        BY <1>1, <3>2
      <3> QED BY <1>6, <1>7, <3>1, <3>3, <3>4
    <2> QED BY <2>1, <2>2
  <1>14. ASSUME NEW r \in exited' PROVE ExitLog(r)'
    <2>1. r \in exited /\ r \in Requests
      BY <1>1 DEF SimShape
    <2>2. r \notin P \cup D
      BY <1>1, <1>4, <2>1 DEF Live
    <2> QED BY <1>6, <2>1, <2>2 DEF Logs
  <1> QED BY <1>1, <1>9, <1>10, <1>11, <1>12, <1>13, <1>14 DEF Logs

LEMMA FinishLogs ==
  ASSUME SimShape, OneHome, Values, Logs, NEW w \in Workers(config), Finish(w),
         NEW onward, NEW rounds, NEW share, Ending(w, onward, rounds, share)
  PROVE  Logs'
  <1> DEFINE next == NextWorker(w)
             O == Range(onward)  R == Range(rounds)  G(v) == Range(Given(w, share, v))
  <1>1. /\ O = {r \in BP(w) : GoesOn(w, r)} /\ R = {r \in BD(w) : ~ShouldFinish(w, r)}
        /\ \A v \in Workers(config) :
             /\ G(v) \subseteq {r \in BP(w) : TurnsToDecode(w, r)}
             /\ G(v) # {} => v \in Targets(w)
             /\ PQ(v)' = PQ(v) \cup (IF v = next THEN O ELSE {})
             /\ DQ(v)' = DQ(v) \cup G(v) \cup (IF v = next THEN R ELSE {})
             /\ BP(v)' = IF v = w THEN {} ELSE BP(v)
             /\ BD(v)' = IF v = w THEN {} ELSE BD(v)
        /\ exited' = exited \cup {r \in BP(w) \cup BD(w) : ShouldFinish(w, r)}
        /\ UNCHANGED <<config, arrived, remain>>
        /\ next \in Workers(config)
    BY FinishSets
  <1>2. /\ counter' = [r \in Requests |-> CounterAfter(w, r)]
        /\ log' = [r \in Requests |->
                     IF r \in exited THEN log[r]
                     ELSE log[r] \o (IF r \in BP(w) \cup BD(w) THEN EntriesAtExit(w, r) ELSE <<>>)]
    BY DEF Finish, BP, BD, Logged
  <1>3. /\ \A r \in Requests : r \notin BP(w) \cup BD(w) => CounterAfter(w, r) = counter[r]
        /\ \A r \in BP(w) : GoesOn(w, r) => CounterAfter(w, r) = -1 /\ ~ShouldFinish(w, r)
        /\ \A r \in BP(w) : ~GoesOn(w, r) => IsLast(w) /\ remain[r] = 0 /\ CounterAfter(w, r) = 0
        /\ \A r \in BD(w) : CounterAfter(w, r) = IF IsLast(w) THEN counter[r] + 1 ELSE counter[r]
        /\ \A r \in BP(w) \cup BD(w) : ShouldFinish(w, r) => IsLast(w) /\ CounterAfter(w, r) = OutputLens[r]
    BY CounterFacts
  <1>4. \A v \in Workers(config) :
          /\ \A r \in PQ(v) \cup DQ(v) \cup BP(v) \cup BD(v) : r \in Requests /\ Live(r)
          /\ \A r \in PQ(v) \cup DQ(v) : r \notin BP(w) \cup BD(w)
          /\ v # w => \A r \in BP(v) \cup BD(v) : r \notin BP(w) \cup BD(w)
          /\ \A r \in BD(v) : r \notin BP(w)
    <2> TAKE v \in Workers(config)
    <2>1. \A r \in PQ(v) \cup DQ(v) \cup BP(v) \cup BD(v) : r \in Requests /\ Live(r)
      BY RangesType, Apart
    <2>2. \A r \in PQ(v) \cup DQ(v) : r \notin BP(w) \cup BD(w)
      BY <2>1, Apart
    <2>3. v # w => \A r \in BP(v) \cup BD(v) : r \notin BP(w) \cup BD(w)
      BY <2>1, Apart
    <2>4. \A r \in BD(v) : r \notin BP(w)
      BY <2>1, Apart
    <2> QED BY <2>1, <2>2, <2>3, <2>4
  <1>5. /\ \A r \in BP(w) : GoesOn(w, r) => EntriesAtExit(w, r) = <<"wait_prefill">>
        /\ \A r \in BP(w) : ~GoesOn(w, r) /\ ShouldFinish(w, r) =>
             EntriesAtExit(w, r) = <<"wait_decode", "exit_system">>
        /\ \A r \in BP(w) : ~GoesOn(w, r) /\ ~ShouldFinish(w, r) =>
             EntriesAtExit(w, r) \in {<<"wait_decode">>, <<"wait_decode", "wait_decode">>}
        /\ \A r \in BD(w) : EntriesAtExit(w, r) = IF ShouldFinish(w, r) THEN <<"wait_decode", "exit_system">>
                                                  ELSE <<"wait_decode">>
    <2>1. \A r : EntriesAtExit(w, r) =
                   IF r \in BP(w) /\ GoesOn(w, r) THEN <<"wait_prefill">>
                   ELSE IF ShouldFinish(w, r) THEN <<"wait_decode", "exit_system">>
                   ELSE IF r \in BP(w) /\ ~ShouldRequestStay(w) THEN <<"wait_decode", "wait_decode">>
                   ELSE <<"wait_decode">>
      BY DEF EntriesAtExit, GoesOn, BP
    <2> QED BY <1>4, <2>1
  <1>6. /\ \A r \in BP(w) \cup BD(w) : log'[r] = log[r] \o EntriesAtExit(w, r) /\ counter'[r] = CounterAfter(w, r)
        /\ \A r \in Requests : r \notin BP(w) \cup BD(w) => log'[r] = log[r] /\ counter'[r] = counter[r]
    <2>1. \A r \in Requests : log[r] \in Seq(Events) /\ log[r] \o <<>> = log[r]
      BY DEF Logs
    <2>2. \A r \in BP(w) \cup BD(w) : r \in Requests /\ r \notin exited
      BY <1>4 DEF Live
    <2> QED BY <1>2, <1>3, <2>1, <2>2
  <1>7. \A r \in Requests : r \notin BP(w) \cup BD(w) => /\ \A k : PrefillLog(r, k) => PrefillLog(r, k)'
                                                         /\ \A m : DecodeLog(r, m) => DecodeLog(r, m)'
                                                         /\ ExitLog(r) => ExitLog(r)'
    BY <1>1, <1>6, SameLog
  <1>8. \A v : (IsFirst(v)' <=> IsFirst(v)) /\ PPof("decode")' = PPof("decode")
    BY <1>1 DEF IsFirst, PPof
  <1>9. /\ config \in Configs /\ config' = config /\ w[3] \in Nat \ {0}
        /\ IsLast(w) => IsFirst(next) /\ w[3] = config.pp[w[1]]
        /\ ~IsLast(w) => next[3] = w[3] + 1
        /\ PPof("prefill") \in Nat /\ PPof("decode") \in Nat
        /\ w[1] \in PrefillStages => config.pp[w[1]] = PPof("prefill")
        /\ w[1] \in DecodeStages => config.pp[w[1]] = PPof("decode")
    <2>1. config \in Configs /\ config' = config
      BY <1>1 DEF SimShape
    <2>2. IsLast(w) => w[3] = config.pp[w[1]]
      BY DEF IsLast
    <2> QED BY <2>1, <2>2, WorkerFacts, PipelineLengths
  <1>10. log' \in [Requests -> Seq(Events)]
    <2>1. \A r \in Requests : log[r] \in Seq(Events)
      BY DEF Logs
    <2>2. {<<"wait_prefill">>, <<"wait_decode">>, <<"wait_decode", "wait_decode">>, <<"wait_decode", "exit_system">>}
            \subseteq Seq(Events)
      BY DEF Events
    <2>3. \A r \in BP(w) \cup BD(w) : EntriesAtExit(w, r) \in Seq(Events)
      BY <1>5, <2>2
    <2>4. \A s, t \in Seq(Events) : s \o t \in Seq(Events)
      OBVIOUS
    <2>5. \A r \in BP(w) \cup BD(w) : log'[r] \in Seq(Events)
      BY <1>4, <1>6, <2>1, <2>3, <2>4
    <2>6. \A r \in Requests : log'[r] \in Seq(Events)
      BY <1>6, <2>1, <2>5
    <2> QED BY <1>2, <2>6
  <1>11. \A r \in BP(w) : /\ r \in Requests /\ PrefillLog(r, w[3]) /\ (config.chunked \/ remain[r] = 0)
                          /\ IsLast(w) => PrefillLog(r, PPof("prefill")) /\ w[3] = PPof("prefill")
    BY <1>4, <1>9 DEF Logs, Values, Prefills
  <1> HIDE DEF O, R, G, next
  <1>12. ASSUME NEW v \in Workers(config), NEW r \in PQ(v)'
         PROVE  PrefillLog(r, v[3] - 1)' /\ (config'.chunked \/ IsFirst(v)' \/ remain'[r] = 0)
    <2>1. CASE r \in PQ(v)
      <3>1. PrefillLog(r, v[3] - 1) /\ (config.chunked \/ IsFirst(v) \/ remain[r] = 0)
        BY <2>1 DEF Logs
      <3>2. r \in Requests /\ r \notin BP(w) \cup BD(w)
        BY <1>4, <2>1
      <3> QED BY <1>1, <1>7, <1>8, <3>1, <3>2
    <2>2. CASE r \notin PQ(v)
      <3>1. v = next /\ r \in BP(w) /\ GoesOn(w, r)
        BY <1>1, <2>2
      <3>2. log'[r] = log[r] \o <<"wait_prefill">>
        BY <1>5, <1>6, <3>1
      <3>3. CASE ~IsLast(w)
        <4>1. v[3] - 1 = w[3]
          BY <1>9, <3>1, <3>3
        <4>2. PrefillLog(r, w[3])'
          BY <1>9, <1>11, <3>1, <3>2, PrefillLogSteps
        <4> QED BY <1>1, <1>11, <3>1, <4>1, <4>2
      <3>4. CASE IsLast(w)
        <4>1. IsFirst(v) /\ v[3] - 1 = 0
          BY <1>9, <3>1, <3>4 DEF IsFirst
        <4>2. config.chunked
          BY <1>11, <3>1, <3>4 DEF GoesOn
        <4>3. PrefillLog(r, 0)
          BY <1>9, <1>11, <3>1, <3>4, <4>2, PrefillLogSteps
        <4>4. PrefillLog(r, 0)'
          BY <1>9, <3>2, <4>3, PrefillLogSteps
        <4> QED BY <1>8, <4>1, <4>4
      <3> QED BY <3>3, <3>4
    <2> QED BY <2>1, <2>2
  <1>13. ASSUME NEW v \in Workers(config), NEW r \in BP(v)'
         PROVE  PrefillLog(r, v[3])' /\ (config'.chunked \/ remain'[r] = 0)
    <2>1. v # w /\ r \in BP(v) /\ r \in Requests /\ r \notin BP(w) \cup BD(w)
      BY <1>1, <1>4
    <2>2. PrefillLog(r, v[3]) /\ (config.chunked \/ remain[r] = 0)
      BY <2>1 DEF Logs
    <2> QED BY <1>1, <1>7, <2>1, <2>2
  <1>14. \A r \in BD(w) : /\ r \in Requests /\ counter[r] \in Nat
                          /\ counter[r] * PPof("decode") \in Nat
                          /\ DecodeLog(r, counter[r] * PPof("decode") + w[3])
                          /\ IsLast(w) => w[3] = PPof("decode")
                          /\ (counter[r] + 1) * PPof("decode") = counter[r] * PPof("decode") + PPof("decode")
    <2> SUFFICES ASSUME NEW r \in BD(w)
                 PROVE  /\ r \in Requests /\ counter[r] \in Nat
                        /\ counter[r] * PPof("decode") \in Nat
                        /\ DecodeLog(r, counter[r] * PPof("decode") + w[3])
                        /\ IsLast(w) => w[3] = PPof("decode")
                        /\ (counter[r] + 1) * PPof("decode") = counter[r] * PPof("decode") + PPof("decode")
      OBVIOUS
    <2>1. r \in Requests /\ counter[r] \in 0 .. OutputLens[r] - 1 /\ w[1] \in DecodeStages
      BY <1>4 DEF Values, Decodes
    <2>2. counter[r] \in Nat /\ PPof("decode") \in Nat \ {0}
      BY <2>1, PipelineLengths
    <2>3. DecodeLog(r, counter[r] * PPof("decode") + w[3])
      BY DEF Logs
    <2> QED BY <1>9, <2>1, <2>2, <2>3, Multiples
  <1>15. ASSUME NEW v \in Workers(config), NEW r \in DQ(v)'
         PROVE  DecodeLog(r, counter[r] * PPof("decode") + (v[3] - 1))'
    <2> DEFINE x == counter[r] * PPof("decode") + (v[3] - 1)
    <2>1. CASE r \in DQ(v)
      <3>1. r \in Requests /\ r \notin BP(w) \cup BD(w)
        BY <1>4, <2>1
      <3>2. DecodeLog(r, counter[r] * PPof("decode") + (v[3] - 1)) /\ counter'[r] = counter[r]
        BY <1>6, <2>1, <3>1 DEF Logs
      <3> QED BY <1>7, <1>8, <3>1, <3>2
    <2>2. CASE r \in G(v)
      <3>1. r \in BP(w) /\ ~GoesOn(w, r) /\ ~ShouldFinish(w, r) /\ v \in Targets(w)
        BY <1>1, <2>2 DEF TurnsToDecode
      <3>2. IsLast(w) /\ counter'[r] = 0
        BY <1>3, <1>6, <3>1
      <3>3. IsFirst(v) /\ v[3] = 1
        BY <1>9, <3>1, <3>2, TargetsFacts DEF IsFirst
      <3>4. DecodeLog(r, 0)'
        <4>1. PrefillLog(r, PPof("prefill"))
          BY <1>11, <3>1, <3>2
        <4>2. \/ log'[r] = log[r] \o <<"wait_decode">>
              \/ log'[r] = log[r] \o <<"wait_decode", "wait_decode">>
          BY <1>5, <1>6, <3>1
        <4> QED BY <1>9, <4>1, <4>2, PrefillEnds
      <3>5. x' = 0
        BY <1>8, <1>9, <3>2, <3>3
      <3> HIDE DEF x
      <3>6. \A k : k = x' => DecodeLog(r, k)'
        BY <3>4, <3>5
      <3> QED BY <3>6 DEF x
    <2>3. CASE r \notin DQ(v) /\ r \notin G(v)
      <3>1. v = next /\ r \in BD(w) /\ ~ShouldFinish(w, r)
        BY <1>1, <2>3
      <3>2. log'[r] = log[r] \o <<"wait_decode">> /\ counter'[r] = CounterAfter(w, r)
        BY <1>5, <1>6, <3>1
      <3> DEFINE y == counter[r] * PPof("decode") + w[3]
      <3>3. y \in Nat /\ DecodeLog(r, y)
        BY <1>9, <1>14, <3>1
      <3>4. \A k : k = y => DecodeLog(r, k)'
        <4> SUFFICES ASSUME NEW k, k = y PROVE DecodeLog(r, k)'
          OBVIOUS
        <4>1. k \in Nat /\ DecodeLog(r, k)
          BY <3>3
        <4> QED BY <1>9, <3>2, <4>1, DecodeLogSteps
      <3>5. x' = y
        <4>1. CASE IsLast(w)
          <5>1. v[3] - 1 = 0 /\ counter'[r] = counter[r] + 1
            BY <1>3, <1>9, <3>1, <3>2, <4>1 DEF IsFirst
          <5>2. x' = (counter[r] + 1) * PPof("decode") + 0
            BY <1>8, <5>1
          <5>3. PPof("decode") = w[3] /\ (counter[r] + 1) * PPof("decode") = counter[r] * PPof("decode") + PPof("decode")
            BY <1>14, <3>1, <4>1
          <5>4. (counter[r] + 1) * PPof("decode") = y
            BY <5>3
          <5>5. y + 0 = y
            BY <3>3
          <5> QED BY <5>2, <5>4, <5>5
        <4>2. CASE ~IsLast(w)
          <5>1. v[3] - 1 = w[3] /\ counter'[r] = counter[r]
            BY <1>3, <1>9, <3>1, <3>2, <4>2
          <5> QED BY <1>8, <5>1
        <4> QED BY <4>1, <4>2
      <3> HIDE DEF x, y
      <3>6. \A k : k = x' => DecodeLog(r, k)'
        BY <3>4, <3>5
      <3> QED BY <3>6 DEF x
    <2> QED BY <2>1, <2>2, <2>3
  <1>16. ASSUME NEW v \in Workers(config), NEW r \in BD(v)'
         PROVE  DecodeLog(r, counter[r] * PPof("decode") + v[3])'
    <2>1. v # w /\ r \in BD(v) /\ r \in Requests /\ r \notin BP(w) \cup BD(w)
      BY <1>1, <1>4
    <2>2. DecodeLog(r, counter[r] * PPof("decode") + v[3]) /\ counter'[r] = counter[r]
      BY <1>6, <2>1 DEF Logs
    <2> QED BY <1>7, <1>8, <2>1, <2>2
  <1>17. ASSUME NEW r \in exited' PROVE ExitLog(r)'
    <2>1. CASE r \in exited
      <3>1. r \in Requests /\ r \notin BP(w) \cup BD(w)
        BY <1>4, <2>1 DEF Live, SimShape
      <3> QED BY <1>7, <2>1, <3>1 DEF Logs
    <2>2. CASE r \in BP(w) /\ ShouldFinish(w, r)
      <3>1. ~GoesOn(w, r) /\ IsLast(w) /\ OutputLens[r] = 0
        BY <1>3, <2>2
      <3>2. log'[r] = log[r] \o <<"wait_decode", "exit_system">>
        BY <1>5, <1>6, <2>2, <3>1
      <3> QED BY <1>9, <1>11, <2>2, <3>1, <3>2, PrefillEnds
    <2>3. CASE r \in BD(w) /\ ShouldFinish(w, r)
      <3>1. IsLast(w) /\ OutputLens[r] = counter[r] + 1
        BY <1>3, <2>3
      <3>2. log'[r] = log[r] \o <<"wait_decode", "exit_system">>
        BY <1>5, <1>6, <2>3
      <3> DEFINE y == counter[r] * PPof("decode") + w[3]
      <3>3. y \in Nat /\ DecodeLog(r, y) /\ y = OutputLens[r] * PPof("decode")
        BY <1>9, <1>14, <2>3, <3>1
      <3> HIDE DEF y
      <3>4. PICK k : k = y
        OBVIOUS
      <3> QED BY <1>9, <3>2, <3>3, <3>4, DecodeLogSteps
    <2> QED BY <1>1, <2>1, <2>2, <2>3
  <1> QED BY <1>1, <1>10, <1>12, <1>13, <1>15, <1>16, <1>17 DEF Logs

LEMMA NextLogs ==
  ASSUME SimShape, OneHome, Values, Logs, [SimNext]_simVars
  PROVE  Logs'
  <1>1. ASSUME NEW w \in DOMAIN pc, Arrive(w) PROVE Logs'
    BY <1>1, ArriveLogs
  <1>2. ASSUME NEW w \in DOMAIN pc, Start(w) \/ Sleep(w) PROVE Logs'
    BY <1>2, LogsStay DEF Start, Sleep, requestVars
  <1>3. ASSUME NEW w \in DOMAIN pc, DoPrefill(w) \/ DoDecode(w) PROVE Logs'
    <2>1. w \in Workers(config)
      BY <1>3, BeginsTaking
    <2>2. PICK n \in 0 .. Len(prefillQueue[w]), m \in 0 .. Len(decodeQueue[w]) : Taking(w, n, m)
      BY <1>3, BeginsTaking
    <2> QED BY <2>1, <2>2, TakingLogs
  <1>4. ASSUME NEW w \in DOMAIN pc, Finish(w) PROVE Logs'
    <2>1. w \in Workers(config)
      BY <1>4, FinishEnding
    <2>2. PICK onward, rounds, share : Ending(w, onward, rounds, share)
      BY <1>4, FinishEnding
    <2> QED BY <1>4, <2>1, <2>2, FinishLogs
  <1>5. ASSUME UNCHANGED simVars PROVE Logs'
    BY <1>5, LogsStay DEF simVars, requestVars
  <1> QED BY <1>1, <1>2, <1>3, <1>4, <1>5 DEF SimNext, Ended

(* The log of a request that left shows the work it was due, on the right   *)
(* side of its first token: all of the prefill, once per worker and chunk,  *)
(* and output_lens rounds through its decode pipeline, for every cluster,   *)
(* mode and length (Request._log_event, organize_data.py).                  *)
THEOREM LogsAreWhole == SimSpec => []LogsShowAllTheWork
  <1>1. ASSUME SimShape, OneHome, Values, Logs
        PROVE  LogsShowAllTheWork
    <2> SUFFICES ASSUME NEW r \in exited
                 PROVE  /\ counter[r] = OutputLens[r] /\ remain[r] = 0
                        /\ LatencyIsDefined(r)
                        /\ \A i \in Entries(r, "do_prefill") : i < FirstTokenAt(r)
                        /\ \A i \in Entries(r, "do_decode") : i > FirstTokenAt(r)
                        /\ Cardinality(Entries(r, "do_decode")) = OutputLens[r] * PPof("decode")
                        /\ WholePrefill(Cardinality(Entries(r, "do_prefill")))
      BY DEF LogsShowAllTheWork, WholePrefill
    <2>1. counter[r] = OutputLens[r] /\ remain[r] = 0
      BY <1>1 DEF Values
    <2>2. \A e : Entries(r, e) = EventsIn(log[r], e)
      BY DEF Entries, EventsIn
    <2>3. PICK n \in Nat : /\ WholePrefill(n) /\ ShowsDecodes(log[r], n, OutputLens[r] * PPof("decode"))
                           /\ EventsIn(log[r], "exit_system") = {Len(log[r])}
      BY <1>1 DEF Logs, ExitLog
    <2>4. PICK p \in Entries(r, "wait_decode") : SplitsAt(log[r], p)
      BY <2>2, <2>3 DEF ShowsDecodes
    <2>5. FirstTokenAt(r) = p
      <3> DEFINE First(i) == i \in Entries(r, "wait_decode") /\ \A j \in Entries(r, "wait_decode") : i <= j
      <3>1. First(p)
        BY <2>2, <2>4 DEF SplitsAt
      <3>2. Entries(r, "wait_decode") \subseteq Int
        <4>1. log[r] \in Seq(Events)
          BY <2>3 DEF ShowsDecodes
        <4> QED BY <4>1 DEF Entries
      <3>3. \A i : First(i) => i = p
        BY <3>1, <3>2
      <3>4. FirstTokenAt(r) = CHOOSE i : First(i)
        BY DEF FirstTokenAt
      <3> HIDE DEF First
      <3> QED BY <3>1, <3>3, <3>4
    <2>6. LatencyIsDefined(r)
      BY <2>2, <2>3, <2>4 DEF LatencyIsDefined, ShowsDecodes
    <2> QED BY <2>1, <2>2, <2>3, <2>4, <2>5, <2>6 DEF ShowsDecodes, SplitsAt
  <1>2. SimSpec => [](SimShape /\ OneHome /\ Values /\ Logs)
    BY InitShape, NextShape, InitHome, NextHome, InitLogs, NextLogs, PTL DEF SimSpec
  <1> QED BY <1>1, <1>2, PTL
=============================================================================
