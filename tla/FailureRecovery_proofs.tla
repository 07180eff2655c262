----------------------- MODULE FailureRecovery_proofs -----------------------
(***************************************************************************)
(* For any number of workers, any requests and any measurements: the       *)
(* failure handler moves nothing to a worker known to be dead, recovers    *)
(* every affected request exactly once, and knows the affected requests.   *)
(***************************************************************************)
EXTENDS FailureRecovery, NaturalsInduction, WellFoundedInduction, TLAPS

-----------------------------------------------------------------------------
(***************************************************************************)
(* The inductive invariant.                                                *)
(***************************************************************************)
Handling == pc \in {"target", "bandwidth", "pull"}

Requested(p) == UNION {p[i].requests : i \in DOMAIN p}
Apart(p) == \A i, j \in DOMAIN p : i # j => p[i].requests \cap p[j].requests = {}

(* The dead workers are dead, and the scheduler knows of them if anyone    *)
(* can still ask it.                                                       *)
DeadKnown ==
  /\ deadWorkers \cap alive = {}
  /\ schedulerUp => candidates \cap deadWorkers = {}

(* The local variables of the handlers. *)
HandlerState ==
  /\ pc # "pull" => pulling = {}
  /\ pc = "ping" => round \cap deadWorkers = {}
  /\ Handling => /\ round # {} /\ failed = Pinged
                 /\ failed \in deadWorkers
                 /\ target \notin deadWorkers

(* Recoveries are of dead workers, and not of what is still affected. *)
Recovered ==
  /\ \A i \in DOMAIN recoveries :
       /\ recoveries[i].worker \in deadWorkers
       /\ Handling => ~(recoveries[i].worker = failed /\ recoveries[i].request \in affected)
  /\ OneRecoveryPerFailure

(* What was affected has been recovered or is still to be. *)
Pending ==
  \A w \in Workers : \A r \in snapshot[w] :
    /\ w \in deadWorkers
    /\ \/ \E i \in DOMAIN recoveries : recoveries[i].worker = w /\ recoveries[i].request = r
       \/ Handling /\ w = failed /\ r \in affected

IInv ==
  /\ TypeOK
  /\ DeadKnown
  /\ HandlerState
  /\ Recovered
  /\ Pending
  /\ Apart(pipeline)
  /\ ChargedWithRunning
  /\ EstimateWithinMeasurements

-----------------------------------------------------------------------------
(***************************************************************************)
(* The least worker of a set.                                              *)
(***************************************************************************)
LEMMA LeastWorker ==
  ASSUME NEW S \in SUBSET Workers, S # {}
  PROVE  (CHOOSE w \in S : \A v \in S : w <= v) \in S
  <1>1. S \in SUBSET Nat
    BY SchedulerAssumption DEF Workers
  <1>2. PICK x \in S : \A y \in S : ~(<<y, x>> \in OpToRel(<, Nat))
    BY <1>1, WFMin, NatLessThanWellFounded
  <1>3. \A y \in S : ~(y < x)
    BY <1>1, <1>2 DEF OpToRel
  <1>4. \A y \in S : x <= y
    BY <1>1, <1>3
  <1> QED BY <1>4

LEMMA PingedInRound ==
  ASSUME round \in SUBSET Workers, round # {}
  PROVE  Pinged \in round
  BY LeastWorker DEF Pinged

LEMMA BestIsCandidate ==
  ASSUME NEW C \in SUBSET Workers, NEW exclude
  PROVE  BestDecodeWorker(C, exclude) = None \/ BestDecodeWorker(C, exclude) \in C \ exclude
  <1>1. CASE ~schedulerUp \/ C \subseteq exclude
    BY <1>1 DEF BestDecodeWorker
  <1>2. CASE schedulerUp /\ ~(C \subseteq exclude)
    <2>1. C \ exclude \in SUBSET Workers /\ C \ exclude # {}
      BY <1>2
    <2>2. (CHOOSE w \in C \ exclude : \A v \in C \ exclude : w <= v) \in C \ exclude
      BY <2>1, LeastWorker
    <2> QED BY <1>2, <2>2 DEF BestDecodeWorker
  <1> QED BY <1>1, <1>2

LEMMA NoneIsNoWorker == None \notin Workers
  BY SchedulerAssumption DEF None, Workers

(***************************************************************************)
(* Batches in the pipeline.                                                *)
(***************************************************************************)
LEMMA RequestedAppend ==
  ASSUME NEW p \in Seq(Batches), NEW b \in Batches
  PROVE  /\ Requested(Append(p, b)) = Requested(p) \cup b.requests
         /\ Apart(p) /\ Requested(p) \cap b.requests = {} => Apart(Append(p, b))
  <1> DEFINE q == Append(p, b)
  <1>1. /\ DOMAIN q = 1 .. Len(p) + 1 /\ DOMAIN p = 1 .. Len(p) /\ Len(p) \in Nat
        /\ \A i \in 1 .. Len(p) : q[i] = p[i]
        /\ q[Len(p) + 1] = b
    OBVIOUS
  <1> HIDE DEF q
  <1>2. /\ \A i \in 1 .. Len(p) + 1 : i \in 1 .. Len(p) \/ i = Len(p) + 1
        /\ \A i \in 1 .. Len(p) : i \in 1 .. Len(p) + 1
        /\ Len(p) + 1 \in 1 .. Len(p) + 1
    BY <1>1
  <1>3. Requested(q) = Requested(p) \cup b.requests
    <2>1. ASSUME NEW x \in Requested(q) PROVE x \in Requested(p) \cup b.requests
      <3>1. PICK i \in 1 .. Len(p) + 1 : x \in q[i].requests
        BY <1>1, <2>1 DEF Requested
      <3> QED BY <1>1, <1>2, <3>1 DEF Requested
    <2>2. ASSUME NEW x \in Requested(p) PROVE x \in Requested(q)
      <3>1. PICK i \in 1 .. Len(p) : x \in p[i].requests
        BY <1>1, <2>2 DEF Requested
      <3>2. x \in q[i].requests /\ i \in DOMAIN q
        BY <1>1, <1>2, <3>1
      <3> QED BY <3>2 DEF Requested
    <2>3. ASSUME NEW x \in b.requests PROVE x \in Requested(q)
      <3>1. x \in q[Len(p) + 1].requests /\ Len(p) + 1 \in DOMAIN q
        BY <1>1, <1>2, <2>3
      <3> QED BY <3>1 DEF Requested
    <2> QED BY <2>1, <2>2, <2>3
  <1>4. ASSUME Apart(p), Requested(p) \cap b.requests = {} PROVE Apart(q)
    <2>1. \A i \in 1 .. Len(p) : p[i].requests \cap b.requests = {}
      BY <1>1, <1>4 DEF Requested
    <2>2. SUFFICES ASSUME NEW i \in DOMAIN q, NEW j \in DOMAIN q, i # j
                   PROVE  q[i].requests \cap q[j].requests = {}
      BY DEF Apart
    <2>3. i \in 1 .. Len(p) \/ i = Len(p) + 1
      BY <1>1
    <2>4. j \in 1 .. Len(p) \/ j = Len(p) + 1
      BY <1>1
    <2>5. CASE i \in 1 .. Len(p) /\ j \in 1 .. Len(p)
      <3>1. q[i] = p[i] /\ q[j] = p[j] /\ i \in DOMAIN p /\ j \in DOMAIN p
        BY <1>1, <1>2, <2>5
      <3> QED BY <1>4, <2>2, <3>1 DEF Apart
    <2>6. CASE i \in 1 .. Len(p) /\ j = Len(p) + 1
      BY <1>1, <1>2, <2>1, <2>6
    <2>7. CASE i = Len(p) + 1 /\ j \in 1 .. Len(p)
      BY <1>1, <1>2, <2>1, <2>7
    <2> QED BY <2>2, <2>3, <2>4, <2>5, <2>6, <2>7
  <1> QED BY <1>3, <1>4 DEF q

LEMMA RequestedTail ==
  ASSUME NEW p \in Seq(Batches), p # <<>>
  PROVE  /\ Head(p) \in Batches /\ Tail(p) \in Seq(Batches) /\ Len(Tail(p)) = Len(p) - 1
         /\ Requested(Tail(p)) \subseteq Requested(p)
         /\ Apart(p) => Apart(Tail(p)) /\ Head(p).requests \cap Requested(Tail(p)) = {}
  <1> DEFINE q == Tail(p)
  <1>1. /\ DOMAIN q = 1 .. Len(p) - 1 /\ DOMAIN p = 1 .. Len(p) /\ Len(p) \in Nat /\ Len(p) > 0
        /\ \A i \in 1 .. Len(p) - 1 : q[i] = p[i + 1]
        /\ Head(p) = p[1] /\ Head(p) \in Batches
        /\ q \in Seq(Batches) /\ Len(q) = Len(p) - 1
    OBVIOUS
  <1> HIDE DEF q
  <1>2. /\ \A i \in 1 .. Len(p) - 1 : i + 1 \in 1 .. Len(p) /\ i + 1 # 1
        /\ \A i, j \in 1 .. Len(p) - 1 : i # j => i + 1 # j + 1
        /\ 1 \in 1 .. Len(p)
    BY <1>1
  <1>3. Requested(q) \subseteq Requested(p)
    <2>1. SUFFICES ASSUME NEW i \in 1 .. Len(p) - 1 PROVE q[i].requests \subseteq Requested(p)
      BY <1>1 DEF Requested
    <2>2. q[i] = p[i + 1] /\ i + 1 \in DOMAIN p
      BY <1>1, <1>2
    <2> QED BY <2>2 DEF Requested
  <1>4. ASSUME Apart(p) PROVE Apart(q) /\ Head(p).requests \cap Requested(q) = {}
    <2>1. ASSUME NEW i \in 1 .. Len(p) - 1 PROVE p[1].requests \cap q[i].requests = {}
      <3>1. q[i] = p[i + 1] /\ i + 1 \in DOMAIN p /\ i + 1 # 1 /\ 1 \in DOMAIN p
        BY <1>1, <1>2
      <3> QED BY <1>4, <3>1 DEF Apart
    <2>2. Head(p).requests \cap Requested(q) = {}
      BY <1>1, <2>1 DEF Requested
    <2>3. Apart(q)
      <3>1. SUFFICES ASSUME NEW i \in 1 .. Len(p) - 1, NEW j \in 1 .. Len(p) - 1, i # j
                     PROVE  q[i].requests \cap q[j].requests = {}
        BY <1>1 DEF Apart
      <3>2. q[i] = p[i + 1] /\ q[j] = p[j + 1]
        BY <1>1
      <3>3. i + 1 \in DOMAIN p /\ j + 1 \in DOMAIN p /\ i + 1 # j + 1
        BY <1>1, <1>2, <3>1
      <3> QED BY <1>4, <3>2, <3>3 DEF Apart
    <2> QED BY <2>2, <2>3
  <1> QED BY <1>1, <1>3, <1>4 DEF q

LEMMA InPipelineIsRequested == InPipeline = Requested(pipeline)
  BY DEF InPipeline, Requested

-----------------------------------------------------------------------------
(***************************************************************************)
(* What the handlers have in common.                                       *)
(***************************************************************************)
LEMMA NextWorkerFacts ==
  ASSUME TypeOK, NEW dead \in SUBSET Workers, NextWorker(dead)
  PROVE  /\ failed' = None /\ target' = None /\ pulling' = {}
         /\ pc' \in {"sleep", "ping"} /\ ~Handling'
         /\ round' \subseteq Workers /\ round' \cap dead = {}
         /\ pc' = "ping" => round' # {}
  BY DEF NextWorker, ToPing, Handling, TypeOK, MonitorTypeOK

LEMMA LogType ==
  ASSUME TypeOK, HandlerState, Handling,
         NEW r \in affected, NEW path \in {"migrate", "recompute"}, NEW success \in BOOLEAN,
         Log(r, path, success), UNCHANGED deadWorkers
  PROVE  /\ pc' \in {"sleep", "ping", "bandwidth"}
         /\ round' \subseteq Workers
         /\ failed' \in Workers \cup {None} /\ target' \in Workers \cup {None}
         /\ affected' \subseteq Requests /\ pulling' \subseteq affected'
         /\ pc' = "ping" => round' # {}
         /\ pc' = "bandwidth" => affected' # {}
         /\ recoveries' \in Seq(Recoveries)
  <1>1. failed \in Workers /\ r \in Requests /\ recoveries \in Seq(Recoveries)
    BY DEF TypeOK, MonitorTypeOK, HandlerState
  <1>2. recoveries' \in Seq(Recoveries)
    <2>1. [worker |-> failed, request |-> r, path |-> path, success |-> success] \in Recoveries
      BY <1>1 DEF Recoveries
    <2> QED BY <1>1, <2>1 DEF Log
  <1>3. affected' \subseteq Requests
    BY DEF Log, After, TypeOK, MonitorTypeOK
  <1>4. CASE affected' = {} /\ NextWorker(deadWorkers)
    <2>1. deadWorkers \in SUBSET Workers
      BY DEF TypeOK, MonitorTypeOK
    <2> QED BY <1>2, <1>3, <1>4, <2>1, NextWorkerFacts
  <1>5. CASE affected' # {} /\ pc' = "bandwidth" /\ pulling' = {}
             /\ UNCHANGED <<round, failed, target>>
    BY <1>2, <1>3, <1>5 DEF TypeOK, MonitorTypeOK
  <1> QED BY <1>4, <1>5 DEF Log

LEMMA AverageType ==
  ASSUME estimate \in [num : Nat, den : Nat \ {0}], NEW m \in Measurements
  PROVE  Average(m) \in [num : Nat, den : Nat \ {0}]
  <1>1. PICK n \in Nat, d \in Nat \ {0} : n = estimate.num /\ d = estimate.den
    OBVIOUS
  <1>2. m \in Nat
    BY SchedulerAssumption
  <1>3. m * d + 4 * n \in Nat /\ 5 * d \in Nat \ {0}
    BY <1>2
  <1> QED BY <1>1, <1>3 DEF Average, Fraction

LEMMA LocalStepType == TypeOK /\ LocalStep => TypeOK'
  <1> SUFFICES ASSUME TypeOK, LocalStep PROVE TypeOK'
    OBVIOUS
  <1>1. UNCHANGED engineVars /\ UNCHANGED monitorVars
    BY DEF LocalStep
  <1>2. LocalTypeOK'
    <2>1. ASSUME NEW m \in Measurements, UpdateBandwidth(m) PROVE LocalTypeOK'
      <3>1. Average(m) \in [num : Nat, den : Nat \ {0}]
        BY AverageType DEF TypeOK, LocalTypeOK
      <3>2. measured' \in 0 .. MaxMeasurements
        BY <2>1, SchedulerAssumption DEF UpdateBandwidth, TypeOK, LocalTypeOK
      <3> QED BY <2>1, <3>1, <3>2 DEF UpdateBandwidth, TypeOK, LocalTypeOK
    <2>2. CASE MeasurementAges
      BY <2>2 DEF MeasurementAges, TypeOK, LocalTypeOK
    <2>3. CASE SchedulerDies
      BY <2>3 DEF SchedulerDies, TypeOK, LocalTypeOK
    <2> QED BY <2>1, <2>2, <2>3 DEF LocalStep, Local
  <1>3. EngineTypeOK' /\ MonitorTypeOK'
    BY <1>1 DEF TypeOK, EngineTypeOK, MonitorTypeOK, engineVars, monitorVars
  <1> QED BY <1>2, <1>3 DEF TypeOK

LEMMA EngineStepType == TypeOK /\ Engine => TypeOK'
  <1> SUFFICES ASSUME TypeOK, Engine PROVE TypeOK'
    OBVIOUS
  <1>1. UNCHANGED localVars /\ UNCHANGED monitorVars
    BY DEF Engine, WorkerDies, StepBegins, StepReturns, StepRaises, ProcessExits
  <1>2. EngineTypeOK'
    <2>1. ASSUME NEW w \in Workers, WorkerDies(w) PROVE EngineTypeOK'
      BY <2>1 DEF WorkerDies, TypeOK, EngineTypeOK
    <2>2. ASSUME NEW batch \in SUBSET Requests, StepBegins(batch) PROVE EngineTypeOK'
      <3>1. [requests |-> batch, sound |-> alive = Workers] \in Batches
        BY DEF Batches
      <3>2. pipeline' \in Seq(Batches) /\ Len(pipeline') <= NumWorkers
        BY <2>2, <3>1, SchedulerAssumption DEF StepBegins, TypeOK, EngineTypeOK
      <3> QED BY <2>2, <3>2 DEF StepBegins, TypeOK, EngineTypeOK
    <2>3. ASSUME NEW batch \in SUBSET Requests, StepReturns(batch) PROVE EngineTypeOK'
      <3>1. pipeline' \in Seq(Batches) /\ Len(pipeline') <= NumWorkers
        BY <2>3, RequestedTail, SchedulerAssumption DEF StepReturns, TypeOK, EngineTypeOK
      <3> QED BY <2>3, <3>1 DEF StepReturns, Uncharge, TypeOK, EngineTypeOK
    <2>4. CASE StepRaises
      BY <2>4 DEF StepRaises, TypeOK, EngineTypeOK
    <2>5. CASE ProcessExits
      BY <2>5 DEF ProcessExits, TypeOK, EngineTypeOK
    <2> QED BY <2>1, <2>2, <2>3, <2>4, <2>5 DEF Engine
  <1>3. LocalTypeOK' /\ MonitorTypeOK'
    BY <1>1 DEF TypeOK, LocalTypeOK, MonitorTypeOK, localVars, monitorVars
  <1> QED BY <1>2, <1>3 DEF TypeOK

LEMMA MonitorStepType == TypeOK /\ HandlerState /\ Monitor => TypeOK'
  <1> SUFFICES ASSUME TypeOK, HandlerState, Monitor PROVE TypeOK'
    OBVIOUS
  <1>1. UNCHANGED engineVars /\ UNCHANGED <<estimate, measured, fresh, schedulerUp>>
        /\ candidates' \subseteq candidates
    BY DEF Monitor, Tick, PingReturns, PingFails, TargetArrives, BandwidthArrives, PullFails,
           Deregister, localVars
  <1>2. MonitorTypeOK'
    <2>1. CASE Tick
      BY <2>1 DEF Tick, ToPing, TypeOK, MonitorTypeOK
    <2>2. CASE PingReturns
      <3>1. deadWorkers \in SUBSET Workers
        BY DEF TypeOK, MonitorTypeOK
      <3> QED BY <2>2, <3>1, NextWorkerFacts DEF PingReturns, TypeOK, MonitorTypeOK
    <2>3. CASE PingFails
      <3>1. Pinged \in Workers
        BY <2>3, PingedInRound DEF PingFails, TypeOK, MonitorTypeOK
      <3>2. /\ deadWorkers' \in SUBSET Workers /\ affected' \subseteq Requests
            /\ recoveries' \in Seq(Recoveries)
            /\ snapshot' \in [Workers -> SUBSET Requests]
        BY <2>3, <3>1 DEF PingFails, TypeOK, MonitorTypeOK, EngineTypeOK
      <3>3. CASE tracked[Pinged] = {} /\ NextWorker(deadWorkers')
        BY <2>3, <3>2, <3>3, NextWorkerFacts DEF PingFails, MonitorTypeOK
      <3>4. CASE /\ tracked[Pinged] # {}
                 /\ failed' = Pinged
                 /\ target' = BestDecodeWorker(candidates', {Pinged})
                 /\ pc' = IF schedulerUp THEN "target" ELSE "bandwidth"
                 /\ UNCHANGED <<round, pulling>>
        <4>1. candidates' \in SUBSET Workers
          BY <1>1 DEF TypeOK, LocalTypeOK
        <4>2. target' \in Workers \cup {None}
          BY <3>4, <4>1, BestIsCandidate
        <4>3. pulling' = {}
          BY <2>3, <3>4 DEF PingFails, HandlerState
        <4> QED BY <2>3, <3>1, <3>2, <3>4, <4>2, <4>3 DEF PingFails, TypeOK, MonitorTypeOK
      <3> QED BY <2>3, <3>3, <3>4 DEF PingFails
    <2>4. CASE TargetArrives
      BY <2>4 DEF TargetArrives, TypeOK, MonitorTypeOK
    <2>5. ASSUME NEW r \in Requests, BandwidthArrives(r) PROVE MonitorTypeOK'
      <3>1. r \in affected /\ Handling /\ UNCHANGED <<deadWorkers, snapshot>>
        BY <2>5 DEF BandwidthArrives, Handling
      <3>2. \/ /\ pc' = "pull" /\ pulling' = {r}
               /\ UNCHANGED <<round, failed, target, affected, recoveries>>
            \/ \E path \in {"migrate", "recompute"} : Log(r, path, FALSE)
        BY <2>5 DEF BandwidthArrives
      <3>3. CASE /\ pc' = "pull" /\ pulling' = {r}
                 /\ UNCHANGED <<round, failed, target, affected, recoveries>>
        BY <3>1, <3>3 DEF TypeOK, MonitorTypeOK
      <3>4. ASSUME NEW path \in {"migrate", "recompute"}, Log(r, path, FALSE) PROVE MonitorTypeOK'
        BY <3>1, <3>4, LogType DEF TypeOK, MonitorTypeOK
      <3> QED BY <3>2, <3>3, <3>4
    <2>6. CASE PullFails
      <3>1. PICK r \in pulling : Log(r, "migrate", FALSE)
        BY <2>6 DEF PullFails
      <3>2. r \in affected /\ Handling /\ UNCHANGED <<deadWorkers, snapshot>>
        BY <2>6, <3>1 DEF PullFails, Handling, TypeOK, MonitorTypeOK
      <3> QED BY <3>1, <3>2, LogType DEF TypeOK, MonitorTypeOK
    <2> QED BY <2>1, <2>2, <2>3, <2>4, <2>5, <2>6 DEF Monitor
  <1>3. LocalTypeOK' /\ EngineTypeOK'
    BY <1>1 DEF TypeOK, LocalTypeOK, EngineTypeOK, engineVars
  <1> QED BY <1>2, <1>3 DEF TypeOK

-----------------------------------------------------------------------------
(***************************************************************************)
(* The monitor's state through the steps of the others, and the engine's   *)
(* through the steps of the monitor.                                       *)
(***************************************************************************)
MonitorInv == DeadKnown /\ HandlerState /\ Recovered /\ Pending

LEMMA MonitorKept ==
  ASSUME MonitorInv, UNCHANGED monitorVars, alive' \subseteq alive,
         candidates' = candidates, schedulerUp' => schedulerUp
  PROVE  MonitorInv'
  <1>1. DeadKnown'
    BY DEF MonitorInv, DeadKnown, monitorVars
  <1>2. HandlerState' /\ Recovered' /\ Pending'
    BY DEF MonitorInv, HandlerState, Recovered, Pending, OneRecoveryPerFailure, Handling, Pinged, monitorVars
  <1> QED BY <1>1, <1>2 DEF MonitorInv

LEMMA EngineKept ==
  ASSUME Apart(pipeline), ChargedWithRunning, UNCHANGED <<pipeline, tracked, running>>
  PROVE  Apart(pipeline)' /\ ChargedWithRunning'
  BY DEF Apart, ChargedWithRunning, InPipeline

LEMMA RecoveriesAppend ==
  ASSUME NEW q \in Seq(Recoveries), NEW e \in Recoveries
  PROVE  /\ \A i \in DOMAIN q : i \in DOMAIN Append(q, e) /\ Append(q, e)[i] = q[i]
         /\ \A i \in DOMAIN Append(q, e) : i \in DOMAIN q \/ Append(q, e)[i] = e
         /\ \A i, j \in DOMAIN Append(q, e) : i \notin DOMAIN q /\ j \notin DOMAIN q => i = j
         /\ \E i \in DOMAIN Append(q, e) : Append(q, e)[i] = e
  <1> DEFINE p == Append(q, e)
  <1>1. /\ DOMAIN p = 1 .. Len(q) + 1 /\ DOMAIN q = 1 .. Len(q) /\ Len(q) \in Nat
        /\ \A i \in 1 .. Len(q) : p[i] = q[i]
        /\ p[Len(q) + 1] = e
    OBVIOUS
  <1> HIDE DEF p
  <1> SUFFICES /\ \A i \in DOMAIN q : i \in DOMAIN p /\ p[i] = q[i]
               /\ \A i \in DOMAIN p : i \in DOMAIN q \/ p[i] = e
               /\ \A i, j \in DOMAIN p : i \notin DOMAIN q /\ j \notin DOMAIN q => i = j
               /\ \E i \in DOMAIN p : p[i] = e
    BY DEF p
  <1>2. /\ \A i \in 1 .. Len(q) + 1 : i \in 1 .. Len(q) \/ i = Len(q) + 1
        /\ \A i \in 1 .. Len(q) : i \in 1 .. Len(q) + 1
        /\ Len(q) + 1 \in 1 .. Len(q) + 1
    BY <1>1
  <1> QED BY <1>1, <1>2

(* A recovery is logged: it is the only one of its request for this        *)
(* failure, and what is still affected stays so.                           *)
LEMMA LogKeeps ==
  ASSUME TypeOK, MonitorInv, Handling,
         NEW r \in affected, NEW path \in {"migrate", "recompute"}, NEW success \in BOOLEAN,
         Log(r, path, success), UNCHANGED <<deadWorkers, snapshot, alive, candidates, schedulerUp>>
  PROVE  MonitorInv'
  <1> DEFINE e == [worker |-> failed, request |-> r, path |-> path, success |-> success]
  <1>1. failed \in Workers /\ failed \in deadWorkers /\ r \in Requests
        /\ recoveries \in Seq(Recoveries) /\ deadWorkers \in SUBSET Workers
    BY DEF TypeOK, MonitorTypeOK, MonitorInv, HandlerState
  <1>2. e \in Recoveries /\ recoveries' = Append(recoveries, e) /\ e.worker = failed /\ e.request = r
    BY <1>1 DEF Recoveries, Log
  <1>3. affected' = affected \ {r}
    BY DEF Log, After
  <1>4. \/ affected' = {} /\ NextWorker(deadWorkers)
        \/ /\ affected' # {} /\ pc' = "bandwidth" /\ pulling' = {}
           /\ UNCHANGED <<round, failed, target>>
    BY DEF Log
  <1> HIDE DEF e
  <1>5. Handling' => failed' = failed /\ affected' # {}
    BY <1>1, <1>4, NextWorkerFacts
  <1>6. affected' # {} => Handling'
    BY <1>4 DEF Handling
  <1>7. DeadKnown'
    BY DEF MonitorInv, DeadKnown
  <1>8. HandlerState'
    <2>1. CASE affected' = {} /\ NextWorker(deadWorkers)
      BY <1>1, <2>1, NextWorkerFacts DEF HandlerState
    <2>2. CASE /\ affected' # {} /\ pc' = "bandwidth" /\ pulling' = {}
               /\ UNCHANGED <<round, failed, target>>
      BY <2>2 DEF MonitorInv, HandlerState, Pinged
    <2> QED BY <1>4, <2>1, <2>2
  <1>9. /\ \A i \in DOMAIN recoveries : i \in DOMAIN recoveries' /\ recoveries'[i] = recoveries[i]
        /\ \A i \in DOMAIN recoveries' : i \in DOMAIN recoveries \/ recoveries'[i] = e
        /\ \A i, j \in DOMAIN recoveries' :
              i \notin DOMAIN recoveries /\ j \notin DOMAIN recoveries => i = j
        /\ \E i \in DOMAIN recoveries' : recoveries'[i] = e
    BY <1>1, <1>2, RecoveriesAppend
  <1>10. \A i \in DOMAIN recoveries :
           /\ recoveries[i].worker \in deadWorkers
           /\ ~(recoveries[i].worker = failed /\ recoveries[i].request \in affected)
    BY DEF MonitorInv, Recovered
  <1>11. Recovered'
    <2>1. ASSUME NEW i \in DOMAIN recoveries'
          PROVE  /\ recoveries'[i].worker \in deadWorkers'
                 /\ Handling' => ~(recoveries'[i].worker = failed' /\ recoveries'[i].request \in affected')
      BY <1>1, <1>2, <1>3, <1>5, <1>9, <1>10
    <2>2. OneRecoveryPerFailure'
      <3> SUFFICES ASSUME NEW i \in DOMAIN recoveries', NEW j \in DOMAIN recoveries',
                          recoveries'[i].worker = recoveries'[j].worker,
                          recoveries'[i].request = recoveries'[j].request
                   PROVE  i = j
        BY DEF OneRecoveryPerFailure
      <3>1. CASE i \in DOMAIN recoveries /\ j \in DOMAIN recoveries
        BY <1>9, <3>1 DEF MonitorInv, Recovered, OneRecoveryPerFailure
      <3>2. CASE i \in DOMAIN recoveries /\ j \notin DOMAIN recoveries
        BY <1>2, <1>9, <1>10, <3>2
      <3>3. CASE i \notin DOMAIN recoveries /\ j \in DOMAIN recoveries
        BY <1>2, <1>9, <1>10, <3>3
      <3>4. CASE i \notin DOMAIN recoveries /\ j \notin DOMAIN recoveries
        BY <1>9, <3>4
      <3> QED BY <3>1, <3>2, <3>3, <3>4
    <2> QED BY <2>1, <2>2 DEF Recovered
  <1>12. Pending'
    <2> SUFFICES ASSUME NEW w \in Workers, NEW q \in snapshot[w]
                 PROVE  /\ w \in deadWorkers
                        /\ \/ \E i \in DOMAIN recoveries' :
                                recoveries'[i].worker = w /\ recoveries'[i].request = q
                           \/ Handling' /\ w = failed' /\ q \in affected'
      BY DEF Pending
    <2>1. /\ w \in deadWorkers
          /\ \/ \E i \in DOMAIN recoveries : recoveries[i].worker = w /\ recoveries[i].request = q
             \/ w = failed /\ q \in affected
      BY DEF MonitorInv, Pending
    <2>2. CASE \E i \in DOMAIN recoveries : recoveries[i].worker = w /\ recoveries[i].request = q
      BY <1>9, <2>1, <2>2
    <2>3. CASE w = failed /\ q = r
      BY <1>2, <1>9, <2>1, <2>3
    <2>4. CASE w = failed /\ q \in affected /\ q # r
      BY <1>3, <1>5, <1>6, <2>1, <2>4
    <2> QED BY <2>1, <2>2, <2>3, <2>4
  <1> QED BY <1>7, <1>8, <1>11, <1>12 DEF MonitorInv

LEMMA PingFailsKeeps == TypeOK /\ MonitorInv /\ PingFails => MonitorInv'
  <1> SUFFICES ASSUME TypeOK, MonitorInv, PingFails PROVE MonitorInv'
    OBVIOUS
  <1>1. /\ pc = "ping" /\ ~Handling /\ round # {} /\ round \in SUBSET Workers
        /\ Pinged \notin alive /\ deadWorkers' = deadWorkers \cup {Pinged}
        /\ UNCHANGED <<alive, schedulerUp, recoveries>>
    BY DEF PingFails, Handling, TypeOK, MonitorTypeOK, engineVars
  <1>2. Pinged \in round /\ Pinged \in Workers /\ Pinged \notin deadWorkers
    BY <1>1, PingedInRound DEF MonitorInv, HandlerState
  <1>3. /\ deadWorkers' \in SUBSET Workers
        /\ candidates' \in SUBSET Workers
        /\ schedulerUp => candidates' \cap deadWorkers' = {}
    BY <1>1, <1>2 DEF PingFails, Deregister, MonitorInv, DeadKnown, TypeOK, MonitorTypeOK, LocalTypeOK
  <1>4. DeadKnown'
    BY <1>1, <1>3 DEF MonitorInv, DeadKnown
  <1>5. /\ \A i \in DOMAIN recoveries : recoveries[i].worker \in deadWorkers
        /\ OneRecoveryPerFailure
    BY DEF MonitorInv, Recovered
  <1>6. OneRecoveryPerFailure'
    BY <1>1, <1>5 DEF OneRecoveryPerFailure
  <1>7. /\ \A w \in Workers : \A r \in snapshot[w] :
             /\ w \in deadWorkers
             /\ \E i \in DOMAIN recoveries : recoveries[i].worker = w /\ recoveries[i].request = r
        /\ \A w \in Workers : \A r \in snapshot'[w] :
             r \in snapshot[w] \/ (w = Pinged /\ r \in affected')
    <2>1. snapshot' = [snapshot EXCEPT ![Pinged] = @ \cup tracked[Pinged]] /\ affected' = tracked[Pinged]
      BY DEF PingFails
    <2>2. snapshot \in [Workers -> SUBSET Requests]
      BY DEF TypeOK, MonitorTypeOK
    <2> QED BY <1>1, <1>2, <2>1, <2>2 DEF MonitorInv, Pending
  <1>8. CASE tracked[Pinged] = {} /\ NextWorker(deadWorkers')
    <2>1. ~Handling' /\ pulling' = {} /\ round' \cap deadWorkers' = {}
      BY <1>3, <1>8, NextWorkerFacts
    <2>2. HandlerState'
      BY <2>1 DEF HandlerState
    <2>3. Recovered'
      BY <1>1, <1>5, <1>6, <2>1 DEF Recovered
    <2>4. affected' = {}
      BY <1>8 DEF PingFails
    <2>5. Pending'
      BY <1>1, <1>7, <2>4 DEF Pending
    <2> QED BY <1>4, <2>2, <2>3, <2>5 DEF MonitorInv
  <1>9. CASE /\ tracked[Pinged] # {}
             /\ failed' = Pinged
             /\ target' = BestDecodeWorker(candidates', {Pinged})
             /\ pc' = IF schedulerUp THEN "target" ELSE "bandwidth"
             /\ UNCHANGED <<round, pulling>>
    <2>1. target' \notin deadWorkers'
      <3>1. CASE schedulerUp
        BY <1>3, <1>9, <3>1, BestIsCandidate, NoneIsNoWorker
      <3>2. CASE ~schedulerUp
        BY <1>3, <1>9, <3>2, NoneIsNoWorker DEF BestDecodeWorker
      <3> QED BY <3>1, <3>2
    <2>2. Pinged' = Pinged /\ pulling = {}
      BY <1>1, <1>9 DEF Pinged, MonitorInv, HandlerState
    <2>3. HandlerState'
      BY <1>1, <1>2, <1>9, <2>1, <2>2 DEF HandlerState
    <2>4. Recovered'
      BY <1>1, <1>2, <1>5, <1>6, <1>9 DEF Recovered
    <2>5. Handling'
      BY <1>9 DEF Handling
    <2>6. Pending'
      BY <1>1, <1>7, <1>9, <2>5 DEF Pending
    <2> QED BY <1>4, <2>3, <2>4, <2>6 DEF MonitorInv
  <1> QED BY <1>8, <1>9 DEF PingFails

LEMMA MonitorStepKeeps == TypeOK /\ MonitorInv /\ Monitor => MonitorInv'
  <1> SUFFICES ASSUME TypeOK, MonitorInv, Monitor PROVE MonitorInv'
    OBVIOUS
  <1>1. CASE Tick \/ PingReturns
    <2>1. /\ ~Handling /\ ~Handling' /\ pulling' = {} /\ round' \cap deadWorkers' = {}
          /\ UNCHANGED <<deadWorkers, alive, schedulerUp, candidates, recoveries, snapshot>>
      <3>1. CASE Tick
        BY <3>1 DEF Tick, ToPing, Handling, MonitorInv, HandlerState, engineVars, localVars
      <3>2. CASE PingReturns
        <4>1. deadWorkers \in SUBSET Workers
          BY DEF TypeOK, MonitorTypeOK
        <4> QED BY <3>2, <4>1, NextWorkerFacts DEF PingReturns, Handling, engineVars, localVars
      <3> QED BY <1>1, <3>1, <3>2
    <2>2. DeadKnown' /\ HandlerState'
      BY <2>1 DEF MonitorInv, DeadKnown, HandlerState
    <2>3. Recovered' /\ Pending'
      BY <2>1 DEF MonitorInv, Recovered, OneRecoveryPerFailure, Pending
    <2> QED BY <2>2, <2>3 DEF MonitorInv
  <1>2. CASE PingFails
    BY <1>2, PingFailsKeeps
  <1>3. CASE TargetArrives
    <2>1. /\ Handling /\ Handling' /\ pulling' = pulling /\ pulling = {}
          /\ target' \in {target, None} /\ pc' # "ping"
          /\ UNCHANGED <<deadWorkers, alive, schedulerUp, candidates, recoveries, snapshot,
                          round, failed, affected>>
      BY <1>3 DEF TargetArrives, Handling, MonitorInv, HandlerState, engineVars, localVars
    <2>2. target' \notin deadWorkers
      BY <2>1, NoneIsNoWorker DEF MonitorInv, HandlerState, TypeOK, MonitorTypeOK
    <2>3. DeadKnown' /\ HandlerState'
      BY <2>1, <2>2 DEF MonitorInv, DeadKnown, HandlerState, Pinged
    <2>4. Recovered' /\ Pending'
      BY <2>1 DEF MonitorInv, Recovered, OneRecoveryPerFailure, Pending
    <2> QED BY <2>3, <2>4 DEF MonitorInv
  <1>4. ASSUME NEW r \in Requests, BandwidthArrives(r) PROVE MonitorInv'
    <2>1. /\ r \in affected /\ Handling
          /\ UNCHANGED <<deadWorkers, alive, schedulerUp, candidates, snapshot>>
      BY <1>4 DEF BandwidthArrives, Handling, engineVars, localVars
    <2>2. \/ /\ pc' = "pull" /\ pulling' = {r}
             /\ UNCHANGED <<round, failed, target, affected, recoveries>>
          \/ \E path \in {"migrate", "recompute"} : Log(r, path, FALSE)
      BY <1>4 DEF BandwidthArrives
    <2>3. CASE /\ pc' = "pull" /\ pulling' = {r}
               /\ UNCHANGED <<round, failed, target, affected, recoveries>>
      <3>1. Handling' /\ DeadKnown' /\ HandlerState'
        BY <2>1, <2>3 DEF MonitorInv, DeadKnown, HandlerState, Handling, Pinged
      <3>2. Recovered' /\ Pending'
        BY <2>1, <2>3, <3>1 DEF MonitorInv, Recovered, OneRecoveryPerFailure, Pending
      <3> QED BY <3>1, <3>2 DEF MonitorInv
    <2> QED BY <2>1, <2>2, <2>3, LogKeeps
  <1>5. CASE PullFails
    <2>1. PICK r \in pulling : Log(r, "migrate", FALSE)
      BY <1>5 DEF PullFails
    <2>2. /\ r \in affected /\ Handling
          /\ UNCHANGED <<deadWorkers, alive, schedulerUp, candidates, snapshot>>
      BY <1>5, <2>1 DEF PullFails, Handling, TypeOK, MonitorTypeOK, engineVars, localVars
    <2> QED BY <2>1, <2>2, LogKeeps
  <1> QED BY <1>1, <1>2, <1>3, <1>4, <1>5 DEF Monitor

-----------------------------------------------------------------------------
(***************************************************************************)
(* The requests the workers are charged with.                              *)
(***************************************************************************)
Charges == Apart(pipeline) /\ ChargedWithRunning

LEMMA EngineStepCharges == TypeOK /\ Charges /\ Engine => Charges'
  <1> SUFFICES ASSUME TypeOK, Charges, Engine PROVE Charges'
    OBVIOUS
  <1>1. \A w \in Workers : Requested(pipeline) \subseteq tracked[w] /\ tracked[w] \subseteq running
    BY InPipelineIsRequested DEF Charges, ChargedWithRunning
  <1>2. pipeline \in Seq(Batches) /\ tracked \in [Workers -> SUBSET Requests]
    BY DEF TypeOK, EngineTypeOK
  <1>3. InPipeline' = Requested(pipeline')
    BY DEF InPipeline, Requested
  <1>4. ASSUME UNCHANGED <<pipeline, tracked, running>> PROVE Charges'
    BY <1>4, EngineKept DEF Charges
  <1>5. ASSUME NEW w \in Workers, WorkerDies(w) PROVE Charges'
    BY <1>4, <1>5 DEF WorkerDies
  <1>6. ASSUME NEW batch \in SUBSET Requests, StepBegins(batch) PROVE Charges'
    <2>1. PICK b \in Batches : b.requests = batch /\ pipeline' = Append(pipeline, b)
      <3>1. [requests |-> batch, sound |-> alive = Workers] \in Batches
        BY DEF Batches
      <3> QED BY <1>6, <3>1 DEF StepBegins
    <2>2. batch \subseteq running /\ Requested(pipeline) \cap batch = {}
      BY <1>6, InPipelineIsRequested DEF StepBegins
    <2>3. Requested(pipeline') = Requested(pipeline) \cup batch /\ Apart(pipeline')
      BY <1>2, <2>1, <2>2, RequestedAppend DEF Charges
    <2>4. \A w \in Workers : tracked'[w] = tracked[w] \cup batch /\ running' = running
      BY <1>6 DEF StepBegins
    <2>5. ChargedWithRunning'
      BY <1>1, <1>3, <2>2, <2>3, <2>4 DEF ChargedWithRunning
    <2> QED BY <2>3, <2>5 DEF Charges, Apart
  <1>7. ASSUME NEW finished \in SUBSET Requests, StepReturns(finished) PROVE Charges'
    <2>1. /\ pipeline' = Tail(pipeline) /\ pipeline # <<>> /\ running' = running \ finished
          /\ finished \subseteq Head(pipeline).requests
      BY <1>7 DEF StepReturns
    <2>2. /\ Requested(pipeline') \subseteq Requested(pipeline) /\ Apart(pipeline')
          /\ finished \cap Requested(pipeline') = {}
      BY <1>2, <2>1, RequestedTail DEF Charges
    <2>3. \A w \in Workers : tracked'[w] = tracked[w] \ finished
      BY <1>7 DEF StepReturns, Uncharge
    <2>4. ChargedWithRunning'
      BY <1>1, <1>3, <2>1, <2>2, <2>3 DEF ChargedWithRunning
    <2> QED BY <2>2, <2>4 DEF Charges, Apart
  <1>8. CASE StepRaises
    BY <1>4, <1>8 DEF StepRaises
  <1>9. CASE ProcessExits
    BY <1>4, <1>9 DEF ProcessExits
  <1> QED BY <1>5, <1>6, <1>7, <1>8, <1>9 DEF Engine

(***************************************************************************)
(* The average of the bandwidth.                                           *)
(***************************************************************************)
LEMMA AverageBetween ==
  ASSUME NEW low \in Nat, NEW high \in Nat, NEW m \in Nat, low <= m, m <= high,
         estimate \in [num : Nat, den : Nat \ {0}],
         AtMost(Fraction(low, 1), estimate), AtMost(estimate, Fraction(high, 1))
  PROVE  AtMost(Fraction(low, 1), Average(m)) /\ AtMost(Average(m), Fraction(high, 1))
  <1>1. PICK n \in Nat, d \in Nat \ {0} : n = estimate.num /\ d = estimate.den
    OBVIOUS
  <1>2. low * d <= n /\ n <= high * d
    BY <1>1 DEF AtMost, Fraction
  <1>3. low * d <= m * d /\ m * d <= high * d
    OBVIOUS
  <1>4. low * (5 * d) <= m * d + 4 * n /\ m * d + 4 * n <= high * (5 * d)
    BY <1>2, <1>3
  <1>5. Average(m) = [num |-> m * d + 4 * n, den |-> 5 * d]
    BY <1>1 DEF Average, Fraction
  <1> QED BY <1>4, <1>5 DEF AtMost, Fraction

LEMMA LocalStepEstimate == TypeOK /\ EstimateWithinMeasurements /\ LocalStep => EstimateWithinMeasurements'
  <1> SUFFICES ASSUME TypeOK, EstimateWithinMeasurements, LocalStep,
                      NEW low \in Measurements \cup {SimBandwidth},
                      NEW high \in Measurements \cup {SimBandwidth},
                      \A b \in Measurements \cup {SimBandwidth} : low <= b /\ b <= high
               PROVE  AtMost(Fraction(low, 1), estimate') /\ AtMost(estimate', Fraction(high, 1))
    BY DEF EstimateWithinMeasurements
  <1>1. AtMost(Fraction(low, 1), estimate) /\ AtMost(estimate, Fraction(high, 1))
    BY DEF EstimateWithinMeasurements
  <1>2. ASSUME NEW m \in Measurements, UpdateBandwidth(m)
        PROVE  AtMost(Fraction(low, 1), estimate') /\ AtMost(estimate', Fraction(high, 1))
    <2>1. low \in Nat /\ high \in Nat /\ m \in Nat /\ low <= m /\ m <= high
      BY SchedulerAssumption
    <2>2. estimate' = Average(m) /\ estimate \in [num : Nat, den : Nat \ {0}]
      BY <1>2 DEF UpdateBandwidth, TypeOK, LocalTypeOK
    <2> QED BY <1>1, <2>1, <2>2, AverageBetween
  <1>3. CASE estimate' = estimate
    BY <1>1, <1>3
  <1> QED BY <1>2, <1>3 DEF LocalStep, Local, MeasurementAges, SchedulerDies

-----------------------------------------------------------------------------
LEMMA InitIInv == Init => IInv
  <1> SUFFICES ASSUME Init PROVE IInv
    OBVIOUS
  <1>1. TypeOK
    <2>1. LocalTypeOK
      <3>1. SimBandwidth \in Nat /\ 0 \in 0 .. MaxMeasurements
        BY SchedulerAssumption
      <3>2. estimate = [num |-> SimBandwidth, den |-> 1]
        BY DEF Init, LocalInit, Fraction
      <3>3. 1 \in Nat \ {0}
        OBVIOUS
      <3>4. estimate \in [num : Nat, den : Nat \ {0}]
        BY <3>1, <3>2, <3>3
      <3>5. /\ measured \in 0 .. MaxMeasurements /\ fresh \in BOOLEAN
            /\ schedulerUp \in BOOLEAN /\ candidates \subseteq Workers
        BY <3>1 DEF Init, LocalInit
      <3> QED BY <3>4, <3>5 DEF LocalTypeOK
    <2>2. EngineTypeOK
      BY SchedulerAssumption DEF Init, EngineTypeOK
    <2>3. MonitorTypeOK
      BY DEF Init, MonitorTypeOK
    <2> QED BY <2>1, <2>2, <2>3 DEF TypeOK
  <1>2. DeadKnown /\ HandlerState /\ Recovered /\ Pending
    BY DEF Init, LocalInit, DeadKnown, HandlerState, Recovered, OneRecoveryPerFailure, Pending, Handling
  <1>3. Apart(pipeline) /\ ChargedWithRunning
    BY DEF Init, Apart, ChargedWithRunning, InPipeline
  <1>4. EstimateWithinMeasurements
    <2> SUFFICES ASSUME NEW low \in Measurements \cup {SimBandwidth},
                        NEW high \in Measurements \cup {SimBandwidth},
                        \A b \in Measurements \cup {SimBandwidth} : low <= b /\ b <= high
                 PROVE  AtMost(Fraction(low, 1), estimate) /\ AtMost(estimate, Fraction(high, 1))
      BY DEF EstimateWithinMeasurements
    <2> QED BY SchedulerAssumption DEF Init, LocalInit, AtMost, Fraction
  <1> QED BY <1>1, <1>2, <1>3, <1>4 DEF IInv

LEMMA NextIInv == IInv /\ [Next]_vars => IInv'
  <1> SUFFICES ASSUME IInv, [Next]_vars PROVE IInv'
    OBVIOUS
  <1>1. TypeOK /\ HandlerState /\ MonitorInv /\ Charges /\ EstimateWithinMeasurements
    BY DEF IInv, MonitorInv, Charges
  <1>2. ASSUME TypeOK', MonitorInv', Charges', EstimateWithinMeasurements' PROVE IInv'
    BY <1>2 DEF IInv, MonitorInv, Charges
  <1>3. CASE LocalStep
    <2>1. /\ UNCHANGED monitorVars /\ UNCHANGED <<alive, candidates, pipeline, tracked, running>>
          /\ schedulerUp' => schedulerUp
      BY <1>3 DEF LocalStep, Local, UpdateBandwidth, MeasurementAges, SchedulerDies, engineVars
    <2>2. TypeOK' /\ EstimateWithinMeasurements'
      BY <1>1, <1>3, LocalStepType, LocalStepEstimate
    <2>3. MonitorInv'
      BY <1>1, <2>1, MonitorKept
    <2>4. Charges'
      BY <1>1, <2>1, EngineKept DEF Charges
    <2> QED BY <1>2, <2>2, <2>3, <2>4
  <1>4. CASE Engine
    <2>1. /\ UNCHANGED monitorVars /\ UNCHANGED <<estimate, candidates, schedulerUp>>
          /\ alive' \subseteq alive
      BY <1>4 DEF Engine, WorkerDies, StepBegins, StepReturns, StepRaises, ProcessExits, localVars
    <2>2. TypeOK' /\ Charges'
      BY <1>1, <1>4, EngineStepType, EngineStepCharges
    <2>3. MonitorInv'
      BY <1>1, <2>1, MonitorKept
    <2>4. EstimateWithinMeasurements'
      BY <1>1, <2>1 DEF EstimateWithinMeasurements
    <2> QED BY <1>2, <2>2, <2>3, <2>4
  <1>5. CASE Monitor
    <2>1. UNCHANGED <<pipeline, tracked, running, estimate>>
      BY <1>5 DEF Monitor, Tick, PingReturns, PingFails, TargetArrives, BandwidthArrives, PullFails,
                  engineVars, localVars
    <2>2. TypeOK' /\ MonitorInv'
      BY <1>1, <1>5, MonitorStepType, MonitorStepKeeps
    <2>3. Charges'
      BY <1>1, <2>1, EngineKept DEF Charges
    <2>4. EstimateWithinMeasurements'
      BY <1>1, <2>1 DEF EstimateWithinMeasurements
    <2> QED BY <1>2, <2>2, <2>3, <2>4
  <1>6. CASE UNCHANGED vars
    <2>1. /\ UNCHANGED localVars /\ UNCHANGED engineVars /\ UNCHANGED monitorVars
      BY <1>6 DEF vars
    <2>2. TypeOK'
      BY <1>1, <2>1 DEF TypeOK, LocalTypeOK, EngineTypeOK, MonitorTypeOK, localVars, engineVars, monitorVars
    <2>3. MonitorInv'
      BY <1>1, <2>1, MonitorKept DEF localVars, engineVars
    <2>4. Charges'
      BY <1>1, <2>1, EngineKept DEF Charges, engineVars
    <2>5. EstimateWithinMeasurements'
      BY <1>1, <2>1 DEF EstimateWithinMeasurements, localVars
    <2> QED BY <1>2, <2>2, <2>3, <2>4, <2>5
  <1> QED BY <1>3, <1>4, <1>5, <1>6 DEF Next

LEMMA Invariance == Spec => []IInv
  <1> QED BY InitIInv, NextIInv, PTL DEF Spec

(* The type invariant of workers, monitor and scheduler, among it that the *)
(* monitor never pings without a worker left to ping.                      *)
THEOREM TypeCorrect == Spec => []TypeOK
  <1>1. IInv => TypeOK
    BY DEF IInv
  <1> QED BY <1>1, Invariance, PTL

(* However many workers have died, and whenever: the target of a recovery  *)
(* is never a worker the monitor knows to be dead.                         *)
THEOREM LiveTarget == Spec => []TargetNotKnownDead
  <1>1. IInv => TargetNotKnownDead
    BY DEF IInv, HandlerState, Handling, TargetNotKnownDead
  <1> QED BY <1>1, Invariance, PTL

(* A request gets at most one recovery for each worker that dies.          *)
THEOREM RecoveredOnce == Spec => []OneRecoveryPerFailure
  <1>1. IInv => OneRecoveryPerFailure
    BY DEF IInv, Recovered
  <1> QED BY <1>1, Invariance, PTL

(* And it gets that one before the monitor sleeps again.                   *)
THEOREM RecoveredAll == Spec => []EveryAffectedIsTried
  <1>1. IInv => EveryAffectedIsTried
    BY DEF IInv, TypeOK, MonitorTypeOK, Pending, Handling, EveryAffectedIsTried
  <1> QED BY <1>1, Invariance, PTL

(* The requests that a failure affects are those begun and not finished.   *)
THEOREM Charged == Spec => []ChargedWithRunning
  <1>1. IInv => ChargedWithRunning
    BY DEF IInv
  <1> QED BY <1>1, Invariance, PTL

(* The bandwidth estimate never leaves the range of what was measured or   *)
(* configured.                                                             *)
THEOREM EstimateBounded == Spec => []EstimateWithinMeasurements
  <1>1. IInv => EstimateWithinMeasurements
    BY DEF IInv
  <1> QED BY <1>1, Invariance, PTL
=============================================================================
