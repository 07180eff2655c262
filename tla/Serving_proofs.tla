--------------------------- MODULE Serving_proofs ---------------------------
(***************************************************************************)
(* For every number of requests and of tokens, behind the server or in one *)
(* call of OfflineLLM.generate: a request in flight is at one place and in *)
(* every table, its client gets each of its tokens once, its cache has no  *)
(* gap, and the lifetime that a response carries is complete.              *)
(*                                                                         *)
(* The theorems assume one asyncio.run (Len(Calls) = 1), which is all that *)
(* a server has: a second call finds the pipelines of the first, and run   *)
(* serving_offline shows what comes of that.                               *)
(***************************************************************************)
EXTENDS Serving, QueueLemmas

(***************************************************************************)
(* The inductive invariant.                                                *)
(***************************************************************************)
Ctx == Pipe(pipeline["context"])
Dec == Pipe(pipeline["decoding"])

EventNames == {FullLife[i] : i \in DOMAIN FullLife}

Shape ==
  /\ TypeOK
  /\ pipeline \in [Stages -> Seq(Seq(Requests))]
  /\ outputs \in [Requests -> Seq({"more", "last"}) \cup {NoQueue}]
  /\ events \in [Requests -> Seq(EventNames)]

(* The pipeline has room whenever a loop is about to push a batch, and a   *)
(* loop that waits for a result waits for that of requests.                *)
LoopPlaces ==
  /\ call = 0 => \A s \in Stages : at[s] = "stopped"
  /\ \A s \in Stages :
       /\ at[s] = "stopped" => pipeline[s] = <<>>
       /\ at[s] \in {"top", "post", "migrate"} => Len(pipeline[s]) < PipelineSize
       /\ at[s] = "sleep"  => pipeline[s] # <<>>
       /\ at[s] = "result" => Len(pipeline[s]) = PipelineSize /\ Head(pipeline[s]) # <<>>
  /\ at["context"] \notin {"post", "migrate"}
  /\ at["decoding"] = "migrate" => unaccepted # <<>>

(* A request in flight is at one of the five places, and no other is. *)
OnePlace ==
  /\ Distinct(waiting) /\ Distinct(bridge) /\ Distinct(unaccepted) /\ Distinct(decoding)
  /\ \A s \in Stages : Separate(pipeline[s])
  /\ Dec \subseteq Range(decoding)
  /\ Range(waiting) \cap (Ctx \cup Range(bridge) \cup Range(unaccepted) \cup Range(decoding)) = {}
  /\ Ctx \cap (Range(bridge) \cup Range(unaccepted) \cup Range(decoding)) = {}
  /\ Range(bridge) \cap (Range(unaccepted) \cup Range(decoding)) = {}
  /\ Range(unaccepted) \cap Range(decoding) = {}
  /\ Range(waiting) \cup Ctx \cup Range(bridge) \cup Range(unaccepted) \cup Range(decoding)
       = {r \in Requests : InFlight(r)}

(* The tables, by what the client has come to *)
Unheard(r) ==
  client[r] \in {"absent", "refused"} =>
    outputLen[r] = 0 /\ received[r] = 0 /\ slots[r] = {} /\ r \notin finished

Known(r) ==
  InFlight(r) => /\ outputs[r] # NoQueue
                 /\ outputLen[r] < Sampling[r].maxTokens
                 /\ Server => r \in DOMAIN promptLenMap /\ promptLenMap[r] = PromptLenValue(r)

Unknown(r) == client[r] \in {"absent", "refused", "done"} => r \notin DOMAIN promptLenMap

Open(queue)   == \A i \in DOMAIN queue : queue[i] = "more"
Closed(queue) == queue # <<>> /\ \A i \in DOMAIN queue : queue[i] = "last" <=> i = Len(queue)

Reading(r) ==
  client[r] = "reading" =>
    /\ outputs[r] # NoQueue
    /\ received[r] + Len(outputs[r]) = outputLen[r]
    /\ IF r \in finished THEN Closed(outputs[r]) ELSE Open(outputs[r])

HasRead(r) == client[r] = "done" => received[r] = outputLen[r] /\ r \in finished

(* The prefill makes the first token, and the decoding stage the others. *)
FirstToken(r) ==
  /\ r \in Range(waiting) \cup Ctx => outputLen[r] = 0
  /\ r \in Range(bridge) \cup Range(unaccepted) => outputLen[r] = 1
  /\ r \in Range(decoding) => outputLen[r] > 0

TablesAgree ==
  \A r \in Requests : Unheard(r) /\ Known(r) /\ Unknown(r) /\ Reading(r) /\ HasRead(r) /\ FirstToken(r)

(* How much of its life a request has behind it, by the place it is at *)
Lived(life, k) == Len(life) = k /\ \A i \in 1 .. k : life[i] = FullLife[i]

Migrating(r) == at["decoding"] = "migrate" /\ r = Head(unaccepted)

LifeByPlace ==
  \A r \in Requests :
    /\ r \in Range(waiting) => Lived(events[r], 1)
    /\ r \in Ctx            => Lived(events[r], 2)
    /\ r \in Range(bridge)  => Lived(events[r], 3)
    /\ r \in Range(unaccepted) => Lived(events[r], IF Migrating(r) THEN 4 ELSE 3)
    /\ r \in Range(decoding) => Lived(events[r], IF outputLen[r] = 1 /\ r \notin Dec THEN 5 ELSE 6)
    /\ r \in finished /\ client[r] # "done" => Lived(events[r], IF outputLen[r] = 1 THEN 3 ELSE 7)

IInv == Shape /\ LoopPlaces /\ OnePlace /\ TablesAgree /\ SlotsAreTiled /\ LifeByPlace

LEMMA Types ==
  ASSUME Shape
  PROVE  /\ waiting \in Seq(Requests) /\ bridge \in Seq(Requests)
         /\ unaccepted \in Seq(Requests) /\ decoding \in Seq(Requests)
         /\ outputLen \in [Requests -> Nat] /\ received \in [Requests -> Nat]
         /\ \A s \in Stages : pipeline[s] \in Seq(Seq(Requests)) /\ Len(pipeline[s]) <= PipelineSize
         /\ "context" \in Stages /\ "decoding" \in Stages
  BY DEF Shape, TypeOK, Stages

(* A step that moves no request and makes no token *)
LEMMA NothingMoves ==
  ASSUME OnePlace, SlotsAreTiled,
         UNCHANGED <<waiting, bridge, unaccepted, decoding, finished, outputLen, slots>>,
         \A r \in Requests : InFlight(r)' <=> InFlight(r),
         \A s \in Stages : Pipe(pipeline'[s]) = Pipe(pipeline[s]) /\ Separate(pipeline'[s])
  PROVE  OnePlace' /\ SlotsAreTiled' /\ Ctx' = Ctx /\ Dec' = Dec
  <1>1. Ctx' = Ctx /\ Dec' = Dec
    BY DEF Ctx, Dec, Stages
  <1>2. OnePlace'
    BY <1>1 DEF OnePlace
  <1>3. SlotsAreTiled'
    BY <1>1 DEF SlotsAreTiled, InPipeline, Ctx, Dec, Pipe, GetNumInputTokens
  <1> QED BY <1>1, <1>2, <1>3

LEMMA InitIInv == Init => IInv
  <1> SUFFICES ASSUME Init PROVE IInv
    OBVIOUS
  <1>1. /\ waiting = <<>> /\ bridge = <<>> /\ unaccepted = <<>> /\ decoding = <<>>
        /\ \A s \in Stages : pipeline[s] = <<>> /\ at[s] = "stopped"
        /\ finished = {} /\ DOMAIN promptLenMap = {}
        /\ \A r \in Requests : /\ outputLen[r] = 0 /\ received[r] = 0 /\ slots[r] = {}
                               /\ client[r] = "absent"
    BY DEF Init
  <1>2. Range(<<>>) = {} /\ Distinct(<<>>) /\ Pipe(<<>>) = {} /\ Separate(<<>>)
    BY DEF Range, Distinct, Pipe, Separate
  <1>3. Ctx = {} /\ Dec = {} /\ \A r \in Requests : ~InFlight(r)
    BY <1>1, <1>2 DEF Ctx, Dec, Stages, InFlight
  <1>4. Shape
    BY ServingAssumption, <1>1 DEF Shape, TypeOK, Init, NoLoop, Range, Stages
  <1>5. LoopPlaces
    BY <1>1 DEF LoopPlaces, Stages
  <1>6. OnePlace
    BY <1>1, <1>2, <1>3 DEF OnePlace
  <1>7. TablesAgree
    BY <1>1, <1>2, <1>3 DEF TablesAgree, Unheard, Known, Unknown, Reading, HasRead, FirstToken
  <1>8. SlotsAreTiled
    <2>1. InPipeline("context") = {} /\ InPipeline("decoding") = {}
      BY <1>3 DEF InPipeline, Ctx, Dec, Pipe
    <2>2. 0 .. 0 + 0 - 1 = {}
      OBVIOUS
    <2> QED BY <1>1, <2>1, <2>2 DEF SlotsAreTiled
  <1>9. LifeByPlace
    BY <1>1, <1>2, <1>3 DEF LifeByPlace
  <1> QED BY <1>4, <1>5, <1>6, <1>7, <1>8, <1>9 DEF IInv

LEMMA NextCallIInv ==
  ASSUME Len(Calls) = 1, IInv, NextCall
  PROVE  IInv'
  <1>1. call = 0 /\ call' = 1 /\ \A s \in Stages : at[s] = "stopped"
    BY DEF NextCall, IInv, Shape, TypeOK, LoopPlaces
  <1>2. at' = at
    BY <1>1 DEF NextCall, IInv, Shape, TypeOK
  <1>3. /\ UNCHANGED <<pipeline, waiting, unaccepted, decoding, boundTo, bridge>>
        /\ UNCHANGED <<finished, outputLen, slots, outputs, events, promptLenMap, client, received>>
    BY DEF NextCall, requestVars, tableVars, clientVars
  <1>4. Shape'
    BY <1>1, <1>2, <1>3 DEF NextCall, IInv, Shape, TypeOK
  <1>5. LoopPlaces'
    BY <1>1, <1>2, <1>3 DEF IInv, LoopPlaces
  <1>6. OnePlace' /\ SlotsAreTiled' /\ Ctx' = Ctx /\ Dec' = Dec
    BY <1>3, NothingMoves DEF IInv, InFlight, OnePlace
  <1>7. TablesAgree'
    BY <1>3, <1>6 DEF IInv, TablesAgree, Unheard, Known, Unknown, Reading, HasRead, FirstToken, InFlight
  <1>8. LifeByPlace'
    BY <1>2, <1>3, <1>6 DEF IInv, LifeByPlace, Lived, Migrating
  <1> QED BY <1>4, <1>5, <1>6, <1>7, <1>8 DEF IInv

LEMMA StartEventLoopsIInv ==
  ASSUME IInv, StartEventLoops
  PROVE  IInv'
  <1>1. /\ call' = call /\ call > 0
        /\ \A s \in Stages : at[s] = "stopped" /\ at'[s] = "top" /\ pipeline[s] = <<>>
    BY DEF StartEventLoops, IInv, LoopPlaces
  <1>2. /\ UNCHANGED <<pipeline, waiting, unaccepted, decoding, boundTo, bridge>>
        /\ UNCHANGED <<finished, outputLen, slots, outputs, events, promptLenMap, client, received>>
    BY DEF StartEventLoops, requestVars, tableVars, clientVars
  <1>3. Shape'
    BY <1>1, <1>2 DEF StartEventLoops, IInv, Shape, TypeOK
  <1>4. LoopPlaces'
    <2>1. \A s \in Stages : Len(pipeline'[s]) < PipelineSize
      BY <1>1, <1>2, ServingAssumption
    <2>2. at'["context"] = "top" /\ at'["decoding"] = "top" /\ call' # 0
      BY <1>1 DEF IInv, Shape, TypeOK, Stages
    <2> QED BY <1>1, <2>1, <2>2 DEF LoopPlaces
  <1>5. OnePlace' /\ SlotsAreTiled' /\ Ctx' = Ctx /\ Dec' = Dec
    BY <1>2, NothingMoves DEF IInv, InFlight, OnePlace
  <1>6. TablesAgree'
    BY <1>2, <1>5 DEF IInv, TablesAgree, Unheard, Known, Unknown, Reading, HasRead, FirstToken, InFlight
  <1>7. LifeByPlace'
    <2>1. \A r : Migrating(r) <=> Migrating(r)'
      BY <1>1 DEF Migrating, Stages
    <2> QED BY <1>2, <1>5, <2>1 DEF IInv, LifeByPlace, Lived
  <1> QED BY <1>3, <1>4, <1>5, <1>6, <1>7 DEF IInv

LEMMA RefuseIInv ==
  ASSUME IInv, NEW r \in Requests, Refuse(r)
  PROVE  IInv'
  <1>1. /\ client \in [Requests -> {"absent", "refused", "reading", "done", "gone"}]
        /\ client[r] = "absent" /\ client' = [client EXCEPT ![r] = "refused"]
    BY DEF Refuse, Comes, IInv, Shape, TypeOK
  <1>2. /\ UNCHANGED <<call, at, pipeline, waiting, unaccepted, decoding, boundTo, loop1, bridge>>
        /\ UNCHANGED <<finished, outputLen, slots, outputs, events, promptLenMap, received>>
    BY DEF Refuse, engineVars, bridgeVars, requestVars, tableVars
  <1>3. Shape'
    BY <1>1, <1>2 DEF IInv, Shape, TypeOK
  <1>4. LoopPlaces'
    BY <1>2 DEF IInv, LoopPlaces
  <1>5. \A z \in Requests : InFlight(z)' <=> InFlight(z)
    BY <1>1, <1>2 DEF InFlight
  <1>6. OnePlace' /\ SlotsAreTiled' /\ Ctx' = Ctx /\ Dec' = Dec
    BY <1>2, <1>5, NothingMoves DEF IInv, OnePlace
  <1>7. TablesAgree'
    BY <1>1, <1>2, <1>5, <1>6 DEF IInv, TablesAgree, Unheard, Known, Unknown, Reading, HasRead, FirstToken
  <1>8. LifeByPlace'
    BY <1>1, <1>2, <1>6 DEF IInv, LifeByPlace, Lived, Migrating, TablesAgree, Unheard
  <1> QED BY <1>3, <1>4, <1>6, <1>7, <1>8 DEF IInv

LEMMA ResendIInv ==
  ASSUME IInv, NEW r \in Requests, Resend(r)
  PROVE  IInv'
  <1>1. /\ client \in [Requests -> {"absent", "refused", "reading", "done", "gone"}]
        /\ client[r] = "refused" /\ client' = [client EXCEPT ![r] = "absent"]
    BY DEF Resend, IInv, Shape, TypeOK
  <1>2. /\ UNCHANGED <<call, at, pipeline, waiting, unaccepted, decoding, boundTo, loop1, bridge>>
        /\ UNCHANGED <<finished, outputLen, slots, outputs, events, promptLenMap, received>>
    BY DEF Resend, engineVars, bridgeVars, requestVars, tableVars
  <1>3. Shape'
    BY <1>1, <1>2 DEF IInv, Shape, TypeOK
  <1>4. LoopPlaces'
    BY <1>2 DEF IInv, LoopPlaces
  <1>5. \A z \in Requests : InFlight(z)' <=> InFlight(z)
    BY <1>1, <1>2 DEF InFlight
  <1>6. OnePlace' /\ SlotsAreTiled' /\ Ctx' = Ctx /\ Dec' = Dec
    BY <1>2, <1>5, NothingMoves DEF IInv, OnePlace
  <1>7. TablesAgree'
    BY <1>1, <1>2, <1>5, <1>6 DEF IInv, TablesAgree, Unheard, Known, Unknown, Reading, HasRead, FirstToken
  <1>8. LifeByPlace'
    BY <1>1, <1>2, <1>6 DEF IInv, LifeByPlace, Lived, Migrating, TablesAgree, Unheard
  <1> QED BY <1>3, <1>4, <1>6, <1>7, <1>8 DEF IInv

LEMMA IssueIInv ==
  ASSUME IInv, NEW r \in Requests, Issue(r)
  PROVE  IInv'
  <1>1. /\ client \in [Requests -> {"absent", "refused", "reading", "done", "gone"}]
        /\ client[r] = "absent" /\ client' = [client EXCEPT ![r] = "reading"]
        /\ outputs' = [outputs EXCEPT ![r] = <<>>]
        /\ events' = [events EXCEPT ![r] = <<"issued">>]
        /\ waiting' = Append(waiting, r) /\ waiting \in Seq(Requests)
        /\ outputLen[r] = 0 /\ received[r] = 0 /\ slots[r] = {} /\ r \notin finished
    BY DEF Issue, Comes, IInv, Shape, TypeOK, TablesAgree, Unheard
  <1>2. /\ UNCHANGED <<call, at, pipeline, unaccepted, decoding, boundTo, loop1, bridge>>
        /\ UNCHANGED <<finished, outputLen, slots, received>>
    BY DEF Issue, bridgeVars, requestVars
  <1>3. /\ DOMAIN promptLenMap' = DOMAIN promptLenMap \cup {PromptLenKey(r)}
        /\ \A key \in DOMAIN promptLenMap' :
             promptLenMap'[key] = IF key = PromptLenKey(r) THEN PromptLenValue(r) ELSE promptLenMap[key]
    BY DEF Issue
  <1>4. PromptLenValue(r) \in Nat
    BY ServingAssumption DEF PromptLenValue
  <1>5. PromptLenKey(r) = IF Server THEN r ELSE None
    BY DEF PromptLenKey
  <1>6. Shape'
    <2>1. DOMAIN promptLenMap' \subseteq Requests \cup {None}
      BY <1>3, <1>5 DEF IInv, Shape, TypeOK
    <2>2. Range(promptLenMap') \subseteq Nat
      BY <1>3, <1>4 DEF IInv, Shape, TypeOK, Range
    <2>3. <<"issued">> \in Seq(EventNames)
      BY DEF EventNames, FullLife
    <2>4. outputs' \in [Requests -> Seq({"more", "last"}) \cup {NoQueue}]
      BY <1>1 DEF IInv, Shape
    <2> QED BY <1>1, <1>2, <2>1, <2>2, <2>3, <2>4 DEF IInv, Shape, TypeOK
  <1>7. LoopPlaces'
    BY <1>2 DEF IInv, LoopPlaces
  <1>8. /\ InFlight(r)' /\ ~InFlight(r)
        /\ \A z \in Requests \ {r} : InFlight(z)' <=> InFlight(z)
    BY <1>1, <1>2 DEF InFlight
  <1>9. Ctx' = Ctx /\ Dec' = Dec
    BY <1>2 DEF Ctx, Dec
  <1>10. r \notin Range(waiting) \cup Ctx \cup Range(bridge) \cup Range(unaccepted) \cup Range(decoding)
    BY <1>8 DEF IInv, OnePlace
  <1>11. Range(waiting') = Range(waiting) \cup {r} /\ (Distinct(waiting) => Distinct(waiting'))
    BY <1>1, <1>10, AppendRange, AppendDistinct
  <1>12. OnePlace'
    BY <1>2, <1>8, <1>9, <1>10, <1>11 DEF IInv, OnePlace
  <1>13. TablesAgree'
    <2>1. Known(r)'
      <3>1. Server => r \in DOMAIN promptLenMap' /\ promptLenMap'[r] = PromptLenValue(r)
        BY <1>3, <1>5
      <3>2. outputLen'[r] < Sampling[r].maxTokens
        BY <1>1, <1>2, ServingAssumption DEF Issue, IsValid, VerifyArgs
      <3>3. outputs'[r] # NoQueue
        BY <1>1 DEF NoQueue, IInv, Shape
      <3> QED BY <3>1, <3>2, <3>3 DEF Known, PromptLenValue
    <2>2. ASSUME NEW z \in Requests, z # r
          PROVE  /\ client'[z] = client[z] /\ outputs'[z] = outputs[z]
                 /\ z \in DOMAIN promptLenMap' <=> z \in DOMAIN promptLenMap
                 /\ z \in DOMAIN promptLenMap => promptLenMap'[z] = promptLenMap[z]
      BY <1>1, <1>3, <1>5, <2>2, ServingAssumption DEF IInv, Shape
    <2>3. \A z \in Requests : (Known(z) /\ Unknown(z))'
      BY <1>1, <1>2, <1>8, <2>1, <2>2 DEF IInv, TablesAgree, Known, Unknown, PromptLenValue
    <2>4. \A z \in Requests : (Unheard(z) /\ HasRead(z))'
      BY <1>1, <1>2, <2>2 DEF IInv, TablesAgree, Unheard, HasRead
    <2>5. Reading(r)'
      <3>1. outputs'[r] = <<>> /\ Len(<<>>) = 0 /\ <<>> # NoQueue
        BY <1>1 DEF IInv, Shape, NoQueue
      <3>2. Open(<<>>)
        BY DEF Open
      <3> QED BY <1>1, <1>2, <3>1, <3>2 DEF Reading
    <2>6. \A z \in Requests : Reading(z)'
      BY <1>1, <1>2, <2>2, <2>5 DEF IInv, TablesAgree, Reading
    <2>7. \A z \in Requests : FirstToken(z)'
      BY <1>1, <1>2, <1>9, <1>11 DEF IInv, TablesAgree, FirstToken
    <2> QED BY <2>3, <2>4, <2>6, <2>7 DEF TablesAgree
  <1>14. SlotsAreTiled'
    BY <1>2 DEF IInv, SlotsAreTiled, InPipeline, GetNumInputTokens
  <1>15. LifeByPlace'
    <2>1. Lived(events[r], 1)'
      BY <1>1 DEF IInv, Shape, Lived, FullLife
    <2>2. \A z \in Requests : z # r => events'[z] = events[z] /\ client'[z] = client[z]
      BY <1>1 DEF IInv, Shape
    <2>3. \A z : Migrating(z)' <=> Migrating(z)
      BY <1>2 DEF Migrating
    <2>4. ASSUME NEW z \in Requests, z # r
          PROVE  z \in Range(waiting') <=> z \in Range(waiting)
      BY <1>11, <2>4
    <2>5. r \in Range(waiting') /\ r \notin finished'
      BY <1>1, <1>2, <1>11
    <2> QED BY <1>2, <1>9, <1>10, <2>1, <2>2, <2>3, <2>4, <2>5 DEF IInv, LifeByPlace
  <1> QED BY <1>6, <1>7, <1>12, <1>13, <1>14, <1>15 DEF IInv

LEMMA NoQueueIsNone ==
  ASSUME NEW q \in Seq({"more", "last"})
  PROVE  q # NoQueue
  <1>1. Len(q) = 1 => q[1] \in {"more", "last"}
    <2>1. Len(q) = 1 => 1 \in 1 .. Len(q)
      OBVIOUS
    <2> QED BY <2>1, ElementOfSeq
  <1>2. Len(NoQueue) = 1 /\ NoQueue[1] = "none"
    BY DEF NoQueue
  <1> QED BY <1>1, <1>2

(* An output that is read was the oldest of those that were queued. *)
LEMMA OldestOutput ==
  ASSUME NEW q \in Seq({"more", "last"}), q # <<>>
  PROVE  /\ Tail(q) \in Seq({"more", "last"}) /\ Tail(q) # NoQueue /\ Len(q) = Len(Tail(q)) + 1
         /\ Len(q) \in Nat /\ Len(Tail(q)) \in Nat
         /\ Open(q) => Head(q) = "more" /\ Open(Tail(q))
         /\ Closed(q) /\ Head(q) = "last" => Len(q) = 1
         /\ Closed(q) /\ Head(q) # "last" => Closed(Tail(q))
  <1> DEFINE t == Tail(q)
  <1>1. /\ t \in Seq({"more", "last"}) /\ Len(q) \in Nat \ {0}
        /\ Len(t) = Len(q) - 1 /\ Head(q) = q[1]
        /\ \A i \in 1 .. Len(t) : t[i] = q[i + 1]
    BY HeadTailProperties
  <1>2. t # NoQueue
    BY <1>1, NoQueueIsNone
  <1>3. DOMAIN q = 1 .. Len(q) /\ DOMAIN t = 1 .. Len(t) /\ Len(t) \in Nat
    BY <1>1
  <1> HIDE DEF t
  <1>4. 1 \in DOMAIN q
    BY <1>1, <1>3
  <1>5. Open(q) => Head(q) = "more" /\ Open(t)
    BY <1>1, <1>3, <1>4 DEF Open
  <1>6. Closed(q) /\ Head(q) = "last" => Len(q) = 1
    BY <1>1, <1>3, <1>4 DEF Closed
  <1>7. ASSUME Closed(q), Head(q) # "last" PROVE Closed(t)
    <2>1. Len(q) # 1
      BY <1>1, <1>4, <1>7 DEF Closed
    <2>2. t # <<>>
      BY <1>1, <2>1
    <2>3. ASSUME NEW i \in DOMAIN t PROVE t[i] = "last" <=> i = Len(t)
      <3>1. i + 1 \in DOMAIN q /\ t[i] = q[i + 1] /\ (i + 1 = Len(q) <=> i = Len(t))
        BY <1>1, <1>3
      <3> QED BY <1>7, <3>1 DEF Closed
    <2> QED BY <2>2, <2>3 DEF Closed
  <1> QED BY <1>1, <1>2, <1>3, <1>5, <1>6, <1>7 DEF t

LEMMA ReadTokenIInv ==
  ASSUME IInv, NEW r \in Requests, ReadToken(r)
  PROVE  IInv'
  <1>1. /\ client \in [Requests -> {"absent", "refused", "reading", "done", "gone"}]
        /\ client[r] = "reading" /\ Reads(r) /\ Head(outputs[r]) = "more"
        /\ outputs' = [outputs EXCEPT ![r] = Tail(outputs[r])]
        /\ received' = [received EXCEPT ![r] = received[r] + 1]
        /\ received \in [Requests -> Nat] /\ outputLen \in [Requests -> Nat]
    BY DEF ReadToken, Reads, IInv, Shape, TypeOK
  <1>2. /\ UNCHANGED <<call, at, pipeline, waiting, unaccepted, decoding, boundTo, loop1, bridge>>
        /\ UNCHANGED <<finished, outputLen, slots, events, promptLenMap, client>>
    BY DEF ReadToken, engineVars, bridgeVars, requestVars
  <1>3. Shape /\ Reading(r) /\ outputs[r] \in Seq({"more", "last"}) /\ outputs[r] # <<>>
    BY <1>1 DEF IInv, TablesAgree, Reading, Reads, Shape
  <1>4. /\ outputs'[r] = Tail(outputs[r]) /\ received'[r] = received[r] + 1
        /\ \A z \in Requests : z # r => outputs'[z] = outputs[z] /\ received'[z] = received[z]
    BY <1>1, <1>3 DEF Shape
  <1>5. Shape'
    <2>1. Tail(outputs[r]) \in Seq({"more", "last"})
      BY <1>3, OldestOutput
    <2>2. outputs' \in [Requests -> Seq({"more", "last"}) \cup {NoQueue}]
      BY <1>1, <1>3, <2>1 DEF Shape
    <2>3. received' \in [Requests -> Nat]
      BY <1>1
    <2> QED BY <1>1, <1>2, <1>3, <2>2, <2>3 DEF Shape, TypeOK
  <1>6. LoopPlaces'
    BY <1>2 DEF IInv, LoopPlaces
  <1>7. \A z \in Requests : InFlight(z)' <=> InFlight(z)
    BY <1>1, <1>2 DEF InFlight
  <1>8. OnePlace' /\ SlotsAreTiled' /\ Ctx' = Ctx /\ Dec' = Dec
    BY <1>2, <1>7, NothingMoves DEF IInv, OnePlace
  <1>9. TablesAgree'
    <2>1. Reading(r)'
      <3>1. /\ outputs'[r] # NoQueue
            /\ Len(outputs[r]) = Len(outputs'[r]) + 1 /\ Len(outputs'[r]) \in Nat
        BY <1>3, <1>4, OldestOutput
      <3>2. IF r \in finished THEN Closed(outputs'[r]) ELSE Open(outputs'[r])
        BY <1>1, <1>3, <1>4, OldestOutput DEF Reading
      <3>3. received'[r] + Len(outputs'[r]) = outputLen[r]
        BY <1>1, <1>3, <1>4, <3>1 DEF Reading
      <3> QED BY <1>2, <3>1, <3>2, <3>3 DEF Reading
    <2>2. \A z \in Requests : Reading(z)'
      BY <1>2, <1>4, <2>1 DEF IInv, TablesAgree, Reading
    <2>3. \A z \in Requests : (Unheard(z) /\ HasRead(z))'
      BY <1>1, <1>2, <1>4 DEF IInv, TablesAgree, Unheard, HasRead
    <2>4. \A z \in Requests : (Known(z) /\ Unknown(z))'
      <3>1. outputs'[r] # NoQueue
        BY <1>3, <1>4, OldestOutput
      <3> QED BY <1>2, <1>4, <1>7, <3>1 DEF IInv, TablesAgree, Known, Unknown, PromptLenValue
    <2>5. \A z \in Requests : FirstToken(z)'
      BY <1>2, <1>8 DEF IInv, TablesAgree, FirstToken
    <2> QED BY <2>2, <2>3, <2>4, <2>5 DEF TablesAgree
  <1>10. LifeByPlace'
    BY <1>2, <1>8 DEF IInv, LifeByPlace, Lived, Migrating
  <1> QED BY <1>5, <1>6, <1>8, <1>9, <1>10 DEF IInv

LEMMA ReadLastIInv ==
  ASSUME IInv, NEW r \in Requests, ReadLast(r)
  PROVE  IInv'
  <1>1. /\ client \in [Requests -> {"absent", "refused", "reading", "done", "gone"}]
        /\ client[r] = "reading" /\ Reads(r) /\ Head(outputs[r]) = "last"
        /\ outputs' = [outputs EXCEPT ![r] = NoQueue]
        /\ client' = [client EXCEPT ![r] = "done"]
        /\ received' = [received EXCEPT ![r] = received[r] + 1]
        /\ received \in [Requests -> Nat] /\ outputLen \in [Requests -> Nat]
    BY DEF ReadLast, Forget, Reads, IInv, Shape, TypeOK
  <1>2. /\ UNCHANGED <<call, at, pipeline, waiting, unaccepted, decoding, boundTo, loop1, bridge>>
        /\ UNCHANGED <<finished, outputLen, slots>>
    BY DEF ReadLast, engineVars, bridgeVars, requestVars
  <1>3. /\ DOMAIN promptLenMap' = DOMAIN promptLenMap \ {r}
        /\ \A key \in DOMAIN promptLenMap' : promptLenMap'[key] = promptLenMap[key]
    BY DEF ReadLast, Forget
  <1>4. Shape /\ Reading(r) /\ outputs[r] \in Seq({"more", "last"}) /\ outputs[r] # <<>>
    BY <1>1 DEF IInv, TablesAgree, Reading, Reads, Shape
  <1>5. r \in finished /\ received'[r] = outputLen[r]
    BY <1>1, <1>4, OldestOutput DEF Reading
  <1>6. \A z \in Requests : z # r => /\ outputs'[z] = outputs[z] /\ received'[z] = received[z]
                                     /\ client'[z] = client[z]
    BY <1>1, <1>4 DEF Shape
  <1>7. /\ events' \in [Requests -> Seq(EventNames)]
        /\ \A z \in Requests : z # r => events'[z] = events[z]
    <2>1. <<>> \in Seq(EventNames)
      OBVIOUS
    <2> QED BY <1>4, <2>1 DEF ReadLast, Shape
  <1>8. Shape'
    <2>1. DOMAIN promptLenMap' \subseteq Requests \cup {None} /\ Range(promptLenMap') \subseteq Nat
      BY <1>3, <1>4 DEF Shape, TypeOK, Range
    <2>2. outputs' \in [Requests -> Seq({"more", "last"}) \cup {NoQueue}]
      BY <1>1, <1>4 DEF Shape
    <2> QED BY <1>1, <1>2, <1>4, <1>7, <2>1, <2>2 DEF Shape, TypeOK
  <1>9. LoopPlaces'
    BY <1>2 DEF IInv, LoopPlaces
  <1>10. \A z \in Requests : InFlight(z)' <=> InFlight(z)
    BY <1>1, <1>2, <1>5 DEF InFlight
  <1>11. OnePlace' /\ SlotsAreTiled' /\ Ctx' = Ctx /\ Dec' = Dec
    BY <1>2, <1>10, NothingMoves DEF IInv, OnePlace
  <1>12. TablesAgree'
    <2>1. (Unheard(r) /\ Reading(r) /\ HasRead(r) /\ Unknown(r) /\ Known(r))'
      BY <1>1, <1>2, <1>3, <1>5 DEF Unheard, Reading, HasRead, Unknown, Known, InFlight
    <2>2. ASSUME NEW z \in Requests, z # r
          PROVE  (Unheard(z) /\ Reading(z) /\ HasRead(z) /\ Unknown(z) /\ Known(z))'
      BY <1>2, <1>3, <1>6, <1>10, <2>2
         DEF IInv, TablesAgree, Unheard, Reading, HasRead, Unknown, Known, PromptLenValue
    <2>3. \A z \in Requests : FirstToken(z)'
      BY <1>2, <1>11 DEF IInv, TablesAgree, FirstToken
    <2> QED BY <2>1, <2>2, <2>3 DEF TablesAgree
  <1>13. LifeByPlace'
    <2>1. r \notin Range(waiting) \cup Ctx \cup Range(bridge) \cup Range(unaccepted) \cup Range(decoding)
      BY <1>5 DEF IInv, OnePlace, InFlight
    <2>2. ASSUME NEW z \in Requests, z # r
          PROVE  events'[z] = events[z] /\ client'[z] = client[z]
      BY <1>6, <1>7, <2>2
    <2>3. \A z : Migrating(z)' <=> Migrating(z)
      BY <1>2 DEF Migrating
    <2>4. client'[r] = "done"
      BY <1>1
    <2> QED BY <1>2, <1>11, <2>1, <2>2, <2>3, <2>4 DEF IInv, LifeByPlace
  <1> QED BY <1>8, <1>9, <1>11, <1>12, <1>13 DEF IInv

LEMMA DisconnectIInv ==
  ASSUME IInv, NEW r \in Requests, Disconnect(r)
  PROVE  IInv'
  <1>1. /\ client \in [Requests -> {"absent", "refused", "reading", "done", "gone"}]
        /\ client[r] = "reading" /\ client' = [client EXCEPT ![r] = "gone"]
        /\ outputs' = outputs \/ (Reads(r) /\ outputs' = [outputs EXCEPT ![r] = Tail(outputs[r])])
    <2>1. client \in [Requests -> {"absent", "refused", "reading", "done", "gone"}]
      BY DEF IInv, Shape, TypeOK
    <2>2. client[r] = "reading" /\ client' = [client EXCEPT ![r] = "gone"]
      BY DEF Disconnect
    <2>3. outputs' = outputs \/ (Reads(r) /\ outputs' = [outputs EXCEPT ![r] = Tail(outputs[r])])
      BY DEF Disconnect
    <2> QED BY <2>1, <2>2, <2>3
  <1>2. /\ UNCHANGED <<call, at, pipeline, waiting, unaccepted, decoding, boundTo, loop1, bridge>>
        /\ UNCHANGED <<finished, outputLen, slots, events, promptLenMap, received>>
    BY DEF Disconnect, engineVars, bridgeVars, requestVars
  <1>3. Shape /\ outputs[r] \in Seq({"more", "last"}) /\ outputs[r] # NoQueue
    BY <1>1 DEF IInv, TablesAgree, Reading, Shape
  <1>4. /\ outputs' \in [Requests -> Seq({"more", "last"}) \cup {NoQueue}]
        /\ outputs'[r] # NoQueue
        /\ \A z \in Requests : z # r => outputs'[z] = outputs[z] /\ client'[z] = client[z]
    <2>1. outputs[r] # <<>> => Tail(outputs[r]) \in Seq({"more", "last"}) /\ Tail(outputs[r]) # NoQueue
      BY <1>3, OldestOutput
    <2> QED BY <1>1, <1>3, <2>1 DEF Shape, Reads
  <1>5. Shape'
    BY <1>1, <1>2, <1>4 DEF IInv, Shape, TypeOK
  <1>6. LoopPlaces'
    BY <1>2 DEF IInv, LoopPlaces
  <1>7. \A z \in Requests : InFlight(z)' <=> InFlight(z)
    BY <1>1, <1>2 DEF InFlight
  <1>8. OnePlace' /\ SlotsAreTiled' /\ Ctx' = Ctx /\ Dec' = Dec
    BY <1>2, <1>7, NothingMoves DEF IInv, OnePlace
  <1>9. TablesAgree'
    <2>1. (Unheard(r) /\ Reading(r) /\ HasRead(r) /\ Unknown(r))'
      BY <1>1 DEF Unheard, Reading, HasRead, Unknown
    <2>2. \A z \in Requests : z # r => (Unheard(z) /\ Reading(z) /\ HasRead(z) /\ Unknown(z))'
      BY <1>2, <1>4 DEF IInv, TablesAgree, Unheard, Reading, HasRead, Unknown
    <2>3. \A z \in Requests : Known(z)'
      BY <1>2, <1>4, <1>7 DEF IInv, TablesAgree, Known, PromptLenValue
    <2>4. \A z \in Requests : FirstToken(z)'
      BY <1>2, <1>8 DEF IInv, TablesAgree, FirstToken
    <2> QED BY <2>1, <2>2, <2>3, <2>4 DEF TablesAgree
  <1>10. LifeByPlace'
    <2>1. \A z \in Requests : client[z] = "done" <=> client'[z] = "done"
      BY <1>1, <1>4
    <2> QED BY <1>2, <1>8, <2>1 DEF IInv, LifeByPlace, Lived, Migrating
  <1> QED BY <1>5, <1>6, <1>8, <1>9, <1>10 DEF IInv

(***************************************************************************)
(* The steps of the event loops that no request is moved by                *)
(***************************************************************************)
LEMMA GoesOnFacts ==
  ASSUME Shape, NEW s \in Stages, NEW p \in Seq(Seq(Requests)), GoesOn(s, p),
         Len(p) \in 1 .. PipelineSize, Separate(p)
  PROVE  /\ pipeline' \in [Stages -> Seq(Seq(Requests))]
         /\ at' \in [Stages -> {"stopped", "top", "sleep", "result", "post", "migrate"}]
         /\ \A z \in Stages : z # s => pipeline'[z] = pipeline[z] /\ at'[z] = at[z]
         /\ Pipe(pipeline'[s]) = Pipe(p) /\ Separate(pipeline'[s])
         /\ Len(pipeline'[s]) <= PipelineSize
         /\ at'[s] = "result" \/ at'[s] = (IF s = "context" THEN "top" ELSE "post")
         /\ IF at'[s] = "result" THEN Len(pipeline'[s]) = PipelineSize /\ Head(pipeline'[s]) # <<>>
                                 ELSE Len(pipeline'[s]) < PipelineSize
  <1>1. /\ at \in [Stages -> {"stopped", "top", "sleep", "result", "post", "migrate"}]
        /\ pipeline \in [Stages -> Seq(Seq(Requests))]
        /\ PipelineSize \in Nat \ {0}
    BY ServingAssumption DEF Shape, TypeOK
  <1>2. p # <<>>
    OBVIOUS
  <1>3. /\ Tail(p) \in Seq(Seq(Requests)) /\ Len(Tail(p)) = Len(p) - 1
        /\ Pipe(p) = Range(Head(p)) \cup Pipe(Tail(p)) /\ Separate(Tail(p))
    BY <1>2, PipeTail
  <1>4. CASE Len(p) = PipelineSize /\ Head(p) = <<>>
    <2>1. /\ pipeline' = [pipeline EXCEPT ![s] = Tail(p)]
          /\ at' = [at EXCEPT ![s] = IF s = "context" THEN "top" ELSE "post"]
      BY <1>4 DEF GoesOn
    <2>2. Range(Head(p)) = {}
      BY <1>4 DEF Range
    <2> QED BY <1>1, <1>3, <1>4, <2>1, <2>2
  <1>5. CASE Len(p) = PipelineSize /\ Head(p) # <<>>
    <2>1. /\ pipeline' = [pipeline EXCEPT ![s] = p]
          /\ at' = [at EXCEPT ![s] = "result"]
      BY <1>5 DEF GoesOn
    <2> QED BY <1>1, <1>5, <2>1
  <1>6. CASE Len(p) # PipelineSize
    <2>1. /\ pipeline' = [pipeline EXCEPT ![s] = p]
          /\ at' = [at EXCEPT ![s] = IF s = "context" THEN "top" ELSE "post"]
      BY <1>6 DEF GoesOn
    <2> QED BY <1>1, <1>6, <2>1
  <1> QED BY <1>4, <1>5, <1>6

LEMMA StepEmptyIInv ==
  ASSUME IInv, NEW s \in Stages, StepEmpty(s)
  PROVE  IInv'
  <1>1. /\ pipeline \in [Stages -> Seq(Seq(Requests))] /\ Len(pipeline[s]) < PipelineSize
        /\ at \in [Stages -> {"stopped", "top", "sleep", "result", "post", "migrate"}]
        /\ at[s] = "top" /\ at' = [at EXCEPT ![s] = "sleep"]
        /\ PipelineSize \in Nat
    BY ServingAssumption DEF StepEmpty, IInv, Shape, TypeOK, LoopPlaces
  <1>2. /\ UNCHANGED <<call, waiting, unaccepted, decoding, boundTo, loop1, bridge>>
        /\ UNCHANGED <<finished, outputLen, slots, outputs, events, promptLenMap, client, received>>
    BY DEF StepEmpty, bridgeVars, requestVars, tableVars, clientVars
  <1>3. pipeline' = [pipeline EXCEPT ![s] = Append(pipeline[s], <<>>)]
    <2>1. Len(pipeline[s]) \in Nat /\ ~(Len(pipeline[s]) > PipelineSize)
      BY <1>1
    <2>2. Push(s, <<>>) = Append(pipeline[s], <<>>)
      BY <2>1 DEF Push
    <2> QED BY <2>2 DEF StepEmpty
  <1> DEFINE q == Append(pipeline[s], <<>>)
  <1>4. /\ q \in Seq(Seq(Requests)) /\ Len(q) = Len(pipeline[s]) + 1 /\ q # <<>>
        /\ Pipe(q) = Pipe(pipeline[s]) /\ Separate(q)
    <2>1. <<>> \in Seq(Requests) /\ Range(<<>>) = {}
      BY DEF Range
    <2>2. pipeline[s] \in Seq(Seq(Requests)) /\ Separate(pipeline[s])
      BY <1>1 DEF IInv, OnePlace
    <2>3. Pipe(q) = Pipe(pipeline[s]) \cup {} /\ Separate(q)
      BY <2>1, <2>2, PipeAppend
    <2> QED BY <2>1, <2>2, <2>3
  <1>5. pipeline'[s] = q /\ \A z \in Stages : z # s => pipeline'[z] = pipeline[z] /\ at'[z] = at[z]
    BY <1>1, <1>3
  <1> HIDE DEF q
  <1>6. Shape'
    <2>1. pipeline' \in [Stages -> Seq(Seq(Requests))]
      BY <1>1, <1>3, <1>4 DEF q
    <2>2. \A z \in Stages : Len(pipeline'[z]) <= PipelineSize
      BY <1>1, <1>4, <1>5 DEF IInv, Shape, TypeOK
    <2> QED BY <1>1, <1>2, <2>1, <2>2 DEF IInv, Shape, TypeOK
  <1>7. LoopPlaces'
    <2>1. at'[s] = "sleep" /\ pipeline'[s] # <<>>
      BY <1>1, <1>4, <1>5
    <2>2. call # 0
      BY <1>1 DEF IInv, LoopPlaces
    <2> QED BY <1>2, <1>5, <2>1, <2>2 DEF IInv, LoopPlaces, Stages
  <1>8. OnePlace' /\ SlotsAreTiled' /\ Ctx' = Ctx /\ Dec' = Dec
    <2>1. \A z \in Stages : Pipe(pipeline'[z]) = Pipe(pipeline[z]) /\ Separate(pipeline'[z])
      BY <1>4, <1>5 DEF IInv, OnePlace
    <2> QED BY <1>2, <2>1, NothingMoves DEF IInv, InFlight
  <1>9. TablesAgree'
    BY <1>2, <1>8 DEF IInv, TablesAgree, Unheard, Known, Unknown, Reading, HasRead, FirstToken, InFlight
  <1>10. LifeByPlace'
    <2>1. \A r \in Requests : Migrating(r)' <=> Migrating(r)
      BY <1>1, <1>2, <1>5 DEF Migrating, Stages
    <2> QED BY <1>2, <1>8, <2>1 DEF IInv, LifeByPlace
  <1> QED BY <1>6, <1>7, <1>8, <1>9, <1>10 DEF IInv

LEMMA WakeIInv ==
  ASSUME IInv, NEW s \in Stages, Wake(s)
  PROVE  IInv'
  <1>1. /\ pipeline[s] \in Seq(Seq(Requests)) /\ Len(pipeline[s]) \in 1 .. PipelineSize
        /\ Separate(pipeline[s]) /\ GoesOn(s, pipeline[s]) /\ at[s] = "sleep"
    BY ServingAssumption DEF Wake, IInv, Shape, TypeOK, LoopPlaces, OnePlace
  <1>2. /\ UNCHANGED <<call, waiting, unaccepted, decoding, boundTo, loop1, bridge>>
        /\ UNCHANGED <<finished, outputLen, slots, outputs, events, promptLenMap, client, received>>
    BY DEF Wake, bridgeVars, requestVars, tableVars, clientVars
  <1>3. /\ pipeline' \in [Stages -> Seq(Seq(Requests))]
        /\ at' \in [Stages -> {"stopped", "top", "sleep", "result", "post", "migrate"}]
        /\ \A z \in Stages : z # s => pipeline'[z] = pipeline[z] /\ at'[z] = at[z]
        /\ Pipe(pipeline'[s]) = Pipe(pipeline[s]) /\ Separate(pipeline'[s])
        /\ Len(pipeline'[s]) <= PipelineSize
        /\ at'[s] = "result" \/ at'[s] = (IF s = "context" THEN "top" ELSE "post")
        /\ IF at'[s] = "result" THEN Len(pipeline'[s]) = PipelineSize /\ Head(pipeline'[s]) # <<>>
                                ELSE Len(pipeline'[s]) < PipelineSize
    BY <1>1, GoesOnFacts DEF IInv
  <1>4. Shape'
    BY <1>2, <1>3 DEF IInv, Shape, TypeOK
  <1>5. LoopPlaces'
    <2>1. call # 0
      BY <1>1 DEF IInv, LoopPlaces
    <2> QED BY <1>2, <1>3, <2>1 DEF IInv, LoopPlaces, Stages
  <1>6. OnePlace' /\ SlotsAreTiled' /\ Ctx' = Ctx /\ Dec' = Dec
    <2>1. \A z \in Stages : Pipe(pipeline'[z]) = Pipe(pipeline[z]) /\ Separate(pipeline'[z])
      BY <1>3 DEF IInv, OnePlace
    <2> QED BY <1>2, <2>1, NothingMoves DEF IInv, InFlight
  <1>7. TablesAgree'
    BY <1>2, <1>6 DEF IInv, TablesAgree, Unheard, Known, Unknown, Reading, HasRead, FirstToken, InFlight
  <1>8. LifeByPlace'
    <2>1. \A r \in Requests : Migrating(r)' <=> Migrating(r)
      BY <1>1, <1>2, <1>3 DEF Migrating, Stages
    <2> QED BY <1>2, <1>6, <2>1 DEF IInv, LifeByPlace
  <1> QED BY <1>4, <1>5, <1>6, <1>7, <1>8 DEF IInv

LEMMA PostDoneIInv ==
  ASSUME IInv, PostDone
  PROVE  IInv'
  <1>1. /\ at \in [Stages -> {"stopped", "top", "sleep", "result", "post", "migrate"}]
        /\ at["decoding"] = "post" /\ at' = [at EXCEPT !["decoding"] = "top"]
    BY DEF PostDone, IInv, Shape, TypeOK
  <1>2. /\ UNCHANGED <<call, pipeline, waiting, unaccepted, decoding, boundTo, loop1, bridge>>
        /\ UNCHANGED <<finished, outputLen, slots, outputs, events, promptLenMap, client, received>>
    BY DEF PostDone, bridgeVars, requestVars, tableVars, clientVars
  <1>3. Shape'
    BY <1>1, <1>2 DEF IInv, Shape, TypeOK
  <1>4. LoopPlaces'
    <2>1. call # 0
      BY <1>1 DEF IInv, LoopPlaces, Stages
    <2> QED BY <1>1, <1>2, <2>1 DEF IInv, LoopPlaces, Stages
  <1>5. OnePlace' /\ SlotsAreTiled' /\ Ctx' = Ctx /\ Dec' = Dec
    BY <1>2, NothingMoves DEF IInv, InFlight, OnePlace
  <1>6. TablesAgree'
    BY <1>2, <1>5 DEF IInv, TablesAgree, Unheard, Known, Unknown, Reading, HasRead, FirstToken, InFlight
  <1>7. LifeByPlace'
    <2>1. \A r \in Requests : Migrating(r)' <=> Migrating(r)
      BY <1>1, <1>2 DEF Migrating, Stages
    <2> QED BY <1>2, <1>5, <2>1 DEF IInv, LifeByPlace
  <1> QED BY <1>3, <1>4, <1>5, <1>6, <1>7 DEF IInv

LEMMA WaitOnBridgeIInv ==
  ASSUME IInv, WaitOnBridge
  PROVE  IInv'
  <1>1. /\ UNCHANGED <<call, at, pipeline, waiting, unaccepted, decoding, bridge>>
        /\ UNCHANGED <<finished, outputLen, slots, outputs, events, promptLenMap, client, received>>
    BY DEF WaitOnBridge, engineVars, requestVars, tableVars, clientVars
  <1>2. boundTo' \in 0 .. call' /\ loop1' \in {"stopped", "running", "raised"}
    <2>1. boundTo' = call \/ boundTo' = boundTo
      BY DEF WaitOnBridge
    <2>2. loop1' = "raised" \/ loop1' = loop1
      BY DEF WaitOnBridge
    <2> QED BY <1>1, <2>1, <2>2 DEF IInv, Shape, TypeOK
  <1>3. Shape'
    BY <1>1, <1>2 DEF IInv, Shape, TypeOK
  <1>4. LoopPlaces'
    BY <1>1 DEF IInv, LoopPlaces
  <1>5. OnePlace' /\ SlotsAreTiled' /\ Ctx' = Ctx /\ Dec' = Dec
    BY <1>1, NothingMoves DEF IInv, InFlight, OnePlace
  <1>6. TablesAgree'
    BY <1>1, <1>5 DEF IInv, TablesAgree, Unheard, Known, Unknown, Reading, HasRead, FirstToken, InFlight
  <1>7. LifeByPlace'
    BY <1>1, <1>5 DEF IInv, LifeByPlace, Migrating
  <1> QED BY <1>3, <1>4, <1>5, <1>6, <1>7 DEF IInv

(***************************************************************************)
(* The steps that move a request                                           *)
(***************************************************************************)
LEMMA Names ==
  /\ FullLife[1] = "issued" /\ FullLife[2] = "context_begin" /\ FullLife[3] = "context_end"
  /\ FullLife[4] = "migration_begin" /\ FullLife[5] = "migration_end"
  /\ FullLife[6] = "decoding_begin" /\ FullLife[7] = "decoding_end"
  /\ Len(FullLife) = 7 /\ \A k \in 1 .. 7 : FullLife[k] \in EventNames
  BY DEF FullLife, EventNames

LEMMA LogFacts ==
  ASSUME Shape, NEW rs \in SUBSET Requests, NEW name \in EventNames, events' = Log(rs, name)
  PROVE  /\ events' \in [Requests -> Seq(EventNames)]
         /\ \A r \in rs : events'[r] = Append(events[r], name)
         /\ \A r \in Requests : r \notin rs => events'[r] = events[r]
  BY DEF Shape, Log

LEMMA LivesOn ==
  ASSUME Shape, NEW r \in Requests, NEW k \in 0 .. 6, Lived(events[r], k)
  PROVE  Lived(Append(events[r], FullLife[k + 1]), k + 1)
  <1> DEFINE life == events[r]
  <1>1. life \in Seq(EventNames) /\ Len(life) = k
    BY DEF Shape, Lived
  <1>2. \A i \in 1 .. k : life[i] = FullLife[i]
    BY DEF Lived
  <1> HIDE DEF life
  <1>3. /\ Len(Append(life, FullLife[k + 1])) = k + 1
        /\ \A i \in 1 .. k : Append(life, FullLife[k + 1])[i] = life[i]
        /\ Append(life, FullLife[k + 1])[k + 1] = FullLife[k + 1]
    <2>1. FullLife[k + 1] \in EventNames
      BY Names
    <2> QED BY <1>1, <2>1, AppendProperties
  <1>4. \A i \in 1 .. k + 1 : i \in 1 .. k \/ i = k + 1
    OBVIOUS
  <1>5. Lived(Append(life, FullLife[k + 1]), k + 1)
    BY <1>2, <1>3, <1>4 DEF Lived
  <1> QED BY <1>5 DEF life

LEMMA AcceptIInv ==
  ASSUME IInv, Accept
  PROVE  IInv'
  <1> DEFINE x == Head(unaccepted)
  <1>1. /\ at \in [Stages -> {"stopped", "top", "sleep", "result", "post", "migrate"}]
        /\ at["decoding"] = "post" /\ at' = [at EXCEPT !["decoding"] = "migrate"]
        /\ unaccepted # <<>> /\ unaccepted \in Seq(Requests)
    BY DEF Accept, IInv, Shape, TypeOK
  <1>2. /\ UNCHANGED <<call, pipeline, waiting, unaccepted, decoding, boundTo, loop1, bridge>>
        /\ UNCHANGED <<finished, outputLen, slots, outputs, promptLenMap, client, received>>
    BY DEF Accept, bridgeVars, requestVars, clientVars
  <1>3. x \in Range(unaccepted) /\ x \in Requests
    BY <1>1, HeadAndTail, RangeOfSeq
  <1>4. /\ events' \in [Requests -> Seq(EventNames)]
        /\ events'[x] = Append(events[x], "migration_begin")
        /\ \A r \in Requests : r # x => events'[r] = events[r]
    <2>1. events' = Log({x}, "migration_begin") /\ "migration_begin" \in EventNames
      BY Names DEF Accept
    <2>2. {x} \in SUBSET Requests /\ Shape
      BY <1>3 DEF IInv
    <2> HIDE DEF x
    <2>3. /\ events' \in [Requests -> Seq(EventNames)]
          /\ \A r \in {x} : events'[r] = Append(events[r], "migration_begin")
          /\ \A r \in Requests : r \notin {x} => events'[r] = events[r]
      BY <2>1, <2>2, LogFacts
    <2> QED BY <2>3
  <1> HIDE DEF x
  <1>5. Shape'
    BY <1>1, <1>2, <1>4 DEF IInv, Shape, TypeOK
  <1>6. LoopPlaces'
    <2>1. call # 0
      BY <1>1 DEF IInv, LoopPlaces, Stages
    <2> QED BY <1>1, <1>2, <2>1 DEF IInv, LoopPlaces, Stages
  <1>7. OnePlace' /\ SlotsAreTiled' /\ Ctx' = Ctx /\ Dec' = Dec
    BY <1>2, NothingMoves DEF IInv, InFlight, OnePlace
  <1>8. TablesAgree'
    BY <1>2, <1>7 DEF IInv, TablesAgree, Unheard, Known, Unknown, Reading, HasRead, FirstToken, InFlight
  <1>9. LifeByPlace'
    <2>1. \A r \in Requests : ~Migrating(r) /\ (Migrating(r)' <=> r = x)
      BY <1>1, <1>2 DEF Migrating, Stages, x
    <2>2. Lived(events[x], 3)
      BY <1>3, <2>1 DEF IInv, LifeByPlace
    <2>3. Lived(events'[x], 4)
      <3>1. 3 \in 0 .. 6 /\ 3 + 1 = 4 /\ FullLife[4] = "migration_begin"
        BY Names
      <3> QED BY <1>3, <1>4, <2>2, <3>1, LivesOn DEF IInv
    <2>4. x \notin Range(waiting) \cup Ctx \cup Range(bridge) \cup Range(decoding) \cup finished
      BY <1>3 DEF IInv, OnePlace, InFlight
    <2> QED BY <1>2, <1>4, <1>7, <2>1, <2>3, <2>4 DEF IInv, LifeByPlace
  <1> QED BY <1>5, <1>6, <1>7, <1>8, <1>9 DEF IInv

LEMMA MigratedIInv ==
  ASSUME IInv, Migrated
  PROVE  IInv'
  <1> DEFINE x == Head(unaccepted)
  <1>1. /\ at \in [Stages -> {"stopped", "top", "sleep", "result", "post", "migrate"}]
        /\ at["decoding"] = "migrate" /\ at' = [at EXCEPT !["decoding"] = "post"]
        /\ unaccepted # <<>> /\ unaccepted \in Seq(Requests) /\ decoding \in Seq(Requests)
        /\ unaccepted' = Tail(unaccepted) /\ decoding' = Append(decoding, x)
    BY DEF Migrated, IInv, Shape, TypeOK, LoopPlaces
  <1>2. /\ UNCHANGED <<call, pipeline, waiting, boundTo, loop1, bridge>>
        /\ UNCHANGED <<finished, outputLen, slots, outputs, promptLenMap, client, received>>
    BY DEF Migrated, bridgeVars, requestVars, clientVars
  <1>3. /\ x \in Range(unaccepted) /\ x \in Requests /\ x \notin Range(unaccepted')
        /\ Range(unaccepted) = {x} \cup Range(unaccepted')
        /\ unaccepted' \in Seq(Requests) /\ Distinct(unaccepted')
    BY <1>1, HeadAndTail, RangeOfSeq DEF IInv, OnePlace
  <1>4. x \notin Range(waiting) \cup Ctx \cup Range(bridge) \cup Range(decoding) \cup finished
    BY <1>3 DEF IInv, OnePlace, InFlight
  <1>5. /\ decoding' \in Seq(Requests) /\ Distinct(decoding') /\ Range(decoding') = Range(decoding) \cup {x}
    BY <1>1, <1>3, <1>4, AppendRange, AppendDistinct DEF IInv, OnePlace
  <1>6. /\ events' \in [Requests -> Seq(EventNames)]
        /\ events'[x] = Append(events[x], "migration_end")
        /\ \A r \in Requests : r # x => events'[r] = events[r]
    <2>1. events' = Log({x}, "migration_end") /\ "migration_end" \in EventNames
      BY Names DEF Migrated
    <2>2. {x} \in SUBSET Requests /\ Shape
      BY <1>3 DEF IInv
    <2> HIDE DEF x
    <2>3. /\ events' \in [Requests -> Seq(EventNames)]
          /\ \A r \in {x} : events'[r] = Append(events[r], "migration_end")
          /\ \A r \in Requests : r \notin {x} => events'[r] = events[r]
      BY <2>1, <2>2, LogFacts
    <2> QED BY <2>3
  <1>7. \A r \in Requests : Migrating(r) <=> r = x
    BY <1>1 DEF Migrating
  <1> HIDE DEF x
  <1>8. Shape'
    BY <1>1, <1>2, <1>3, <1>5, <1>6 DEF IInv, Shape, TypeOK
  <1>9. LoopPlaces'
    <2>1. call # 0
      BY <1>1 DEF IInv, LoopPlaces, Stages
    <2> QED BY <1>1, <1>2, <2>1 DEF IInv, LoopPlaces, Stages
  <1>10. Ctx' = Ctx /\ Dec' = Dec /\ \A r \in Requests : InFlight(r)' <=> InFlight(r)
    BY <1>2 DEF Ctx, Dec, InFlight
  <1>11. OnePlace'
    BY <1>2, <1>3, <1>4, <1>5, <1>10 DEF IInv, OnePlace
  <1>12. SlotsAreTiled'
    BY <1>2 DEF IInv, SlotsAreTiled, InPipeline, GetNumInputTokens
  <1>13. TablesAgree'
    <2>1. \A r \in Requests : FirstToken(r)'
      BY <1>2, <1>3, <1>5, <1>10 DEF IInv, TablesAgree, FirstToken
    <2> QED BY <1>2, <1>10, <2>1 DEF IInv, TablesAgree, Unheard, Known, Unknown, Reading, HasRead
  <1>14. LifeByPlace'
    <2>1. Lived(events[x], 4) /\ outputLen[x] = 1
      BY <1>3, <1>7 DEF IInv, LifeByPlace, TablesAgree, FirstToken
    <2>2. Lived(events'[x], 5)
      <3>1. 4 \in 0 .. 6 /\ 4 + 1 = 5 /\ FullLife[5] = "migration_end"
        BY Names
      <3> QED BY <1>3, <1>6, <2>1, <3>1, LivesOn DEF IInv
    <2>3. x \notin Dec
      BY <1>4 DEF IInv, OnePlace
    <2>4. \A r \in Requests : ~Migrating(r)'
      BY <1>1 DEF Migrating, Stages
    <2> QED BY <1>2, <1>3, <1>4, <1>5, <1>6, <1>7, <1>10, <2>1, <2>2, <2>3, <2>4 DEF IInv, LifeByPlace
  <1> QED BY <1>8, <1>9, <1>11, <1>12, <1>13, <1>14 DEF IInv

LEMMA TakeFromBridgeIInv ==
  ASSUME IInv, TakeFromBridge
  PROVE  IInv'
  <1> DEFINE x == Head(bridge)
  <1>1. /\ bridge # <<>> /\ bridge \in Seq(Requests) /\ unaccepted \in Seq(Requests)
        /\ bridge' = Tail(bridge) /\ unaccepted' = Append(unaccepted, x)
    BY DEF TakeFromBridge, IInv, Shape, TypeOK
  <1>2. /\ UNCHANGED <<call, at, pipeline, waiting, decoding, boundTo, loop1>>
        /\ UNCHANGED <<finished, outputLen, slots, outputs, events, promptLenMap, client, received>>
    BY DEF TakeFromBridge, requestVars, tableVars, clientVars
  <1>3. /\ x \in Range(bridge) /\ x \in Requests /\ x \notin Range(bridge')
        /\ Range(bridge) = {x} \cup Range(bridge')
        /\ bridge' \in Seq(Requests) /\ Distinct(bridge')
    BY <1>1, HeadAndTail, RangeOfSeq DEF IInv, OnePlace
  <1>4. x \notin Range(waiting) \cup Ctx \cup Range(unaccepted) \cup Range(decoding) \cup finished
    BY <1>3 DEF IInv, OnePlace, InFlight
  <1>5. /\ unaccepted' \in Seq(Requests) /\ Distinct(unaccepted')
        /\ Range(unaccepted') = Range(unaccepted) \cup {x} /\ unaccepted' # <<>>
        /\ unaccepted # <<>> => Head(unaccepted') = Head(unaccepted)
    BY <1>1, <1>3, <1>4, AppendRange, AppendDistinct DEF IInv, OnePlace
  <1> HIDE DEF x
  <1>6. Shape'
    BY <1>1, <1>2, <1>3, <1>5 DEF IInv, Shape, TypeOK
  <1>7. LoopPlaces'
    BY <1>2, <1>5 DEF IInv, LoopPlaces
  <1>8. Ctx' = Ctx /\ Dec' = Dec /\ \A r \in Requests : InFlight(r)' <=> InFlight(r)
    BY <1>2 DEF Ctx, Dec, InFlight
  <1>9. OnePlace'
    BY <1>2, <1>3, <1>4, <1>5, <1>8 DEF IInv, OnePlace
  <1>10. SlotsAreTiled'
    BY <1>2 DEF IInv, SlotsAreTiled, InPipeline, GetNumInputTokens
  <1>11. TablesAgree'
    <2>1. \A r \in Requests : FirstToken(r)'
      BY <1>2, <1>3, <1>5, <1>8 DEF IInv, TablesAgree, FirstToken
    <2> QED BY <1>2, <1>8, <2>1 DEF IInv, TablesAgree, Unheard, Known, Unknown, Reading, HasRead
  <1>12. LifeByPlace'
    <2>1. \A r \in Requests : Migrating(r)' <=> Migrating(r)
      BY <1>2, <1>5 DEF Migrating, IInv, LoopPlaces
    <2>2. ~Migrating(x)
      <3>1. unaccepted # <<>> => Head(unaccepted) \in Range(unaccepted)
        BY <1>1, HeadAndTail
      <3> QED BY <1>4, <3>1 DEF Migrating, IInv, LoopPlaces
    <2> QED BY <1>2, <1>3, <1>4, <1>5, <1>8, <2>1, <2>2 DEF IInv, LifeByPlace
  <1> QED BY <1>6, <1>7, <1>9, <1>10, <1>11, <1>12 DEF IInv

(***************************************************************************)
(* The steps that compute                                                  *)
(***************************************************************************)

(* SlotsAreTiled in the terms of the step that comes next *)
Tiled(r) ==
  slots[r] = 0 .. GetFirstNewTokenIndex(r) + (IF r \in Ctx \cup Dec THEN GetNumInputTokens(r) ELSE 0) - 1

LEMMA Tiles == SlotsAreTiled <=> \A r \in Requests : Tiled(r)
  BY DEF SlotsAreTiled, Tiled, InPipeline, Ctx, Dec, Pipe, GetFirstNewTokenIndex

LEMMA NextSlots ==
  ASSUME Shape, NEW r \in Requests
  PROVE  /\ GetFirstNewTokenIndex(r) \in Nat /\ GetNumInputTokens(r) \in Nat \ {0}
         /\ GetFirstNewTokenIndex(r) + GetNumInputTokens(r) = PromptLen[r] + outputLen[r]
  <1>1. PromptLen[r] \in Nat \ {0} /\ outputLen[r] \in Nat
    BY ServingAssumption, Types
  <1> QED BY <1>1 DEF GetFirstNewTokenIndex, GetNumInputTokens

(* The batch that a step computes continues the cache of its requests. *)
LEMMA ForwardTiles ==
  ASSUME Shape, SlotsAreTiled, UNCHANGED outputLen,
         NEW rs \in SUBSET Requests, Forward(rs), rs \cap (Ctx \cup Dec) = {},
         Ctx' \cup Dec' = Ctx \cup Dec \cup rs
  PROVE  SlotsAreTiled'
  <1>1. SUFFICES ASSUME NEW r \in Requests PROVE Tiled(r)'
    BY DEF SlotsAreTiled, Tiled, InPipeline, Ctx, Dec, Pipe, GetFirstNewTokenIndex
  <1>2. Tiled(r)
    BY Tiles
  <1>3. /\ GetFirstNewTokenIndex(r)' = GetFirstNewTokenIndex(r)
        /\ GetNumInputTokens(r)' = GetNumInputTokens(r)
    BY DEF GetFirstNewTokenIndex, GetNumInputTokens
  <1> DEFINE first == GetFirstNewTokenIndex(r)
             n     == GetNumInputTokens(r)
  <1>4. slots'[r] = IF r \in rs THEN slots[r] \cup (first .. first + n - 1) ELSE slots[r]
    BY DEF Forward
  <1>5. first \in Nat /\ n \in Nat \ {0}
    BY NextSlots
  <1>6. CASE r \in rs
    <2>1. slots[r] = 0 .. first + 0 - 1
      BY <1>2, <1>6 DEF Tiled
    <2> HIDE DEF first, n
    <2>2. (0 .. first + 0 - 1) \cup (first .. first + n - 1) = 0 .. first + n - 1
      BY <1>5
    <2>3. slots'[r] = 0 .. first + n - 1
      BY <1>4, <1>6, <2>1, <2>2
    <2> QED BY <1>3, <1>6, <2>3 DEF Tiled, first, n
  <1>7. CASE r \notin rs
    BY <1>2, <1>3, <1>4, <1>7 DEF Tiled
  <1> QED BY <1>6, <1>7

(* The token of a batch that returned is the first one to compute next. *)
LEMMA ResultTiles ==
  ASSUME Shape, SlotsAreTiled, UNCHANGED slots,
         NEW rs \in SUBSET Requests, rs \subseteq Ctx \cup Dec,
         \A r \in Requests : outputLen'[r] = IF r \in rs THEN outputLen[r] + 1 ELSE outputLen[r],
         Ctx' \cup Dec' = (Ctx \cup Dec) \ rs
  PROVE  SlotsAreTiled'
  <1>1. SUFFICES ASSUME NEW r \in Requests PROVE Tiled(r)'
    BY DEF SlotsAreTiled, Tiled, InPipeline, Ctx, Dec, Pipe, GetFirstNewTokenIndex
  <1>2. Tiled(r)
    BY Tiles
  <1>3. PromptLen[r] \in Nat \ {0} /\ outputLen[r] \in Nat
    BY ServingAssumption, Types
  <1>4. CASE r \in rs
    <2>1. slots[r] = 0 .. PromptLen[r] + outputLen[r] - 1
      <3>1. slots[r] = 0 .. GetFirstNewTokenIndex(r) + GetNumInputTokens(r) - 1
        BY <1>2, <1>4 DEF Tiled
      <3> DEFINE first == GetFirstNewTokenIndex(r)
                 n     == GetNumInputTokens(r)
                 all   == PromptLen[r] + outputLen[r]
      <3>2. first \in Nat /\ n \in Nat /\ all \in Nat /\ first + n = all
        BY <1>3, NextSlots
      <3> HIDE DEF first, n, all
      <3>3. first + n - 1 = all - 1
        BY <3>2
      <3>4. PromptLen[r] + outputLen[r] - 1 = all - 1
        BY <1>3 DEF all
      <3> QED BY <3>1, <3>3, <3>4 DEF first, n
    <2>2. GetFirstNewTokenIndex(r)' = PromptLen[r] + outputLen[r]
      BY <1>3, <1>4 DEF GetFirstNewTokenIndex
    <2>3. PromptLen[r] + outputLen[r] + 0 - 1 = PromptLen[r] + outputLen[r] - 1
      BY <1>3
    <2> QED BY <1>4, <2>1, <2>2, <2>3 DEF Tiled
  <1>5. CASE r \notin rs
    BY <1>2, <1>5 DEF Tiled, GetFirstNewTokenIndex, GetNumInputTokens
  <1> QED BY <1>4, <1>5

(* A batch at the back of a pipeline, and then on *)
LEMMA PushFacts ==
  ASSUME Shape, NEW s \in Stages, NEW batch \in Seq(Requests), GoesOn(s, Push(s, batch)),
         Len(pipeline[s]) < PipelineSize, Separate(pipeline[s]),
         Pipe(pipeline[s]) \cap Range(batch) = {}
  PROVE  /\ pipeline' \in [Stages -> Seq(Seq(Requests))]
         /\ at' \in [Stages -> {"stopped", "top", "sleep", "result", "post", "migrate"}]
         /\ \A z \in Stages : z # s => pipeline'[z] = pipeline[z] /\ at'[z] = at[z]
         /\ Pipe(pipeline'[s]) = Pipe(pipeline[s]) \cup Range(batch) /\ Separate(pipeline'[s])
         /\ Len(pipeline'[s]) <= PipelineSize
         /\ at'[s] = "result" \/ at'[s] = (IF s = "context" THEN "top" ELSE "post")
         /\ IF at'[s] = "result" THEN Len(pipeline'[s]) = PipelineSize /\ Head(pipeline'[s]) # <<>>
                                 ELSE Len(pipeline'[s]) < PipelineSize
  <1>1. pipeline[s] \in Seq(Seq(Requests)) /\ PipelineSize \in Nat /\ Len(pipeline[s]) \in Nat
    BY ServingAssumption DEF Shape, TypeOK
  <1>2. Push(s, batch) = Append(pipeline[s], batch)
    BY <1>1 DEF Push
  <1> DEFINE q == Append(pipeline[s], batch)
  <1>3. q \in Seq(Seq(Requests)) /\ Len(q) \in 1 .. PipelineSize
    BY <1>1
  <1>4. Pipe(q) = Pipe(pipeline[s]) \cup Range(batch) /\ Separate(q)
    BY <1>1, PipeAppend
  <1>5. GoesOn(s, q)
    BY <1>2
  <1> HIDE DEF q
  <1> QED BY <1>3, <1>4, <1>5, GoesOnFacts

LEMMA StepContextIInv ==
  ASSUME IInv, StepContext
  PROVE  IInv'
  <1>1. PICK k \in 1 .. Len(waiting) :
          LET batch == SubSeq(waiting, 1, k) IN
            /\ waiting' = SubSeq(waiting, k + 1, Len(waiting))
            /\ events' = Log(Range(batch), "context_begin")
            /\ Forward(Range(batch))
            /\ GoesOn("context", Push("context", batch))
    BY DEF StepContext
  <1> DEFINE batch == SubSeq(waiting, 1, k)
             rs    == Range(batch)
  <1>2. /\ UNCHANGED <<call, unaccepted, decoding, boundTo, loop1, bridge>>
        /\ UNCHANGED <<finished, outputLen, outputs, promptLenMap, client, received>>
        /\ at["context"] = "top"
    BY DEF StepContext, bridgeVars, clientVars
  <1>3. /\ waiting' = SubSeq(waiting, k + 1, Len(waiting))
        /\ events' = Log(rs, "context_begin") /\ Forward(rs)
        /\ GoesOn("context", Push("context", batch))
    BY <1>1
  <1>4. /\ batch \in Seq(Requests) /\ waiting' \in Seq(Requests)
        /\ Range(waiting) = rs \cup Range(waiting') /\ rs \cap Range(waiting') = {}
        /\ Distinct(waiting')
    <2>1. waiting \in Seq(Requests) /\ k \in 0 .. Len(waiting) /\ Distinct(waiting)
      BY DEF IInv, Shape, TypeOK, OnePlace
    <2> QED BY <1>3, <2>1, SplitSeq
  <1>5. rs \in SUBSET Requests
    BY <1>4, RangeOfSeq
  <1>6. Len(pipeline["context"]) < PipelineSize /\ "context" \in Stages /\ "decoding" \in Stages
    BY <1>2 DEF IInv, LoopPlaces, Stages
  <1>7. rs \cap (Ctx \cup Dec \cup Range(bridge) \cup Range(unaccepted) \cup Range(decoding) \cup finished) = {}
    BY <1>4 DEF IInv, OnePlace, InFlight
  <1> HIDE DEF batch, rs
  <1>8. /\ pipeline' \in [Stages -> Seq(Seq(Requests))]
        /\ at' \in [Stages -> {"stopped", "top", "sleep", "result", "post", "migrate"}]
        /\ pipeline'["decoding"] = pipeline["decoding"] /\ at'["decoding"] = at["decoding"]
        /\ Pipe(pipeline'["context"]) = Pipe(pipeline["context"]) \cup rs /\ Separate(pipeline'["context"])
        /\ Len(pipeline'["context"]) <= PipelineSize
        /\ at'["context"] \in {"result", "top"}
        /\ IF at'["context"] = "result"
             THEN Len(pipeline'["context"]) = PipelineSize /\ Head(pipeline'["context"]) # <<>>
             ELSE Len(pipeline'["context"]) < PipelineSize
    <2>1. Shape /\ Separate(pipeline["context"]) /\ Pipe(pipeline["context"]) \cap Range(batch) = {}
      BY <1>6, <1>7 DEF IInv, OnePlace, Ctx, rs
    <2>2. "decoding" # "context"
      OBVIOUS
    <2> QED BY <1>3, <1>4, <1>6, <2>1, <2>2, PushFacts DEF rs
  <1>9. Ctx' = Ctx \cup rs /\ Dec' = Dec
    BY <1>8 DEF Ctx, Dec
  <1>10. /\ events' \in [Requests -> Seq(EventNames)]
         /\ \A r \in rs : events'[r] = Append(events[r], "context_begin")
         /\ \A r \in Requests : r \notin rs => events'[r] = events[r]
    <2>1. "context_begin" \in EventNames /\ Shape
      BY Names DEF IInv
    <2> QED BY <1>3, <1>5, <2>1, LogFacts
  <1>11. Shape'
    <2>1. \A z \in Stages : pipeline'[z] \in Seq(Seq(Requests)) /\ Len(pipeline'[z]) <= PipelineSize
      BY <1>8 DEF IInv, Shape, TypeOK, Stages
    <2> QED BY <1>2, <1>4, <1>8, <1>10, <2>1 DEF IInv, Shape, TypeOK
  <1>12. LoopPlaces'
    <2>1. call # 0
      BY <1>2, <1>6 DEF IInv, LoopPlaces
    <2> QED BY <1>2, <1>8, <2>1 DEF IInv, LoopPlaces, Stages
  <1>13. \A r \in Requests : InFlight(r)' <=> InFlight(r)
    BY <1>2 DEF InFlight
  <1>14. OnePlace'
    <2>1. \A z \in Stages : Separate(pipeline'[z])
      BY <1>8 DEF IInv, OnePlace, Stages
    <2> QED BY <1>2, <1>4, <1>7, <1>9, <1>13, <2>1 DEF IInv, OnePlace
  <1>15. SlotsAreTiled'
    BY <1>2, <1>3, <1>5, <1>7, <1>9, ForwardTiles DEF IInv
  <1>16. TablesAgree'
    <2>1. \A r \in Requests : FirstToken(r)'
      BY <1>2, <1>4, <1>9 DEF IInv, TablesAgree, FirstToken
    <2>2. \A r \in Requests : Unheard(r)'
      <3>1. \A r \in rs : InFlight(r)
        BY <1>4 DEF IInv, OnePlace
      <3>2. \A r \in Requests : r \notin rs => slots'[r] = slots[r]
        BY <1>3 DEF Forward
      <3> QED BY <1>2, <3>1, <3>2 DEF IInv, TablesAgree, Unheard, InFlight
    <2> QED BY <1>2, <1>13, <2>1, <2>2 DEF IInv, TablesAgree, Known, Unknown, Reading, HasRead
  <1>17. LifeByPlace'
    <2>1. \A r \in Requests : Migrating(r)' <=> Migrating(r)
      BY <1>2, <1>8 DEF Migrating
    <2>2. ASSUME NEW r \in rs PROVE Lived(events'[r], 2)
      <3>1. Lived(events[r], 1) /\ r \in Requests
        BY <1>4, <1>5 DEF IInv, LifeByPlace
      <3>2. 1 \in 0 .. 6 /\ 1 + 1 = 2 /\ FullLife[2] = "context_begin"
        BY Names
      <3>3. Lived(Append(events[r], FullLife[1 + 1]), 1 + 1)
        BY <3>1, <3>2, LivesOn DEF IInv
      <3> QED BY <1>10, <3>2, <3>3
    <2>3. \A r \in rs : r \notin Range(waiting')
      BY <1>4
    <2>4. \A r \in rs : r \notin Range(bridge) \cup Range(unaccepted) \cup Range(decoding) \cup finished
      BY <1>7
    <2>5. ASSUME NEW r \in Requests, r \notin rs
          PROVE  /\ events'[r] = events[r]
                 /\ r \in Range(waiting') <=> r \in Range(waiting)
                 /\ r \in Ctx' <=> r \in Ctx
      BY <1>4, <1>9, <1>10, <2>5
    <2> QED BY <1>2, <1>9, <2>1, <2>2, <2>3, <2>4, <2>5 DEF IInv, LifeByPlace
  <1> QED BY <1>11, <1>12, <1>14, <1>15, <1>16, <1>17 DEF IInv

LEMMA StepDecodingIInv ==
  ASSUME IInv, StepDecoding
  PROVE  IInv'
  <1>1. PICK batch \in Subsequences(decoding) \ {<<>>} :
          /\ Range(batch) \cap InPipeline("decoding") = {}
          /\ events' = LogNew(Range(batch), "decoding_begin")
          /\ Forward(Range(batch))
          /\ GoesOn("decoding", Push("decoding", batch))
    BY DEF StepDecoding
  <1> DEFINE rs == Range(batch)
  <1>2. /\ UNCHANGED <<call, waiting, unaccepted, decoding, boundTo, loop1, bridge>>
        /\ UNCHANGED <<finished, outputLen, outputs, promptLenMap, client, received>>
        /\ at["decoding"] = "top"
    BY DEF StepDecoding, bridgeVars, clientVars
  <1>3. /\ rs \cap Dec = {}
        /\ events' = LogNew(rs, "decoding_begin") /\ Forward(rs)
        /\ GoesOn("decoding", Push("decoding", batch))
    BY <1>1 DEF InPipeline, Dec, Pipe
  <1>4. batch \in Seq(Requests) /\ rs \subseteq Range(decoding) \ Dec /\ batch # <<>>
    <2>1. batch \in Seq(Requests) /\ rs \subseteq Range(decoding)
      BY <1>1, SubsequenceFacts DEF IInv, Shape, TypeOK
    <2> QED BY <1>1, <1>3, <2>1
  <1>5. rs \in SUBSET Requests
    BY <1>4, RangeOfSeq
  <1>6. Len(pipeline["decoding"]) < PipelineSize /\ "context" \in Stages /\ "decoding" \in Stages
    BY <1>2 DEF IInv, LoopPlaces, Stages
  <1>7. rs \cap (Range(waiting) \cup Ctx \cup Range(bridge) \cup Range(unaccepted) \cup finished) = {}
    BY <1>4 DEF IInv, OnePlace, InFlight
  <1> HIDE DEF rs
  <1>8. /\ pipeline' \in [Stages -> Seq(Seq(Requests))]
        /\ at' \in [Stages -> {"stopped", "top", "sleep", "result", "post", "migrate"}]
        /\ pipeline'["context"] = pipeline["context"] /\ at'["context"] = at["context"]
        /\ Pipe(pipeline'["decoding"]) = Pipe(pipeline["decoding"]) \cup rs /\ Separate(pipeline'["decoding"])
        /\ Len(pipeline'["decoding"]) <= PipelineSize
        /\ at'["decoding"] \in {"result", "post"}
        /\ IF at'["decoding"] = "result"
             THEN Len(pipeline'["decoding"]) = PipelineSize /\ Head(pipeline'["decoding"]) # <<>>
             ELSE Len(pipeline'["decoding"]) < PipelineSize
    <2>1. Shape /\ Separate(pipeline["decoding"]) /\ Pipe(pipeline["decoding"]) \cap Range(batch) = {}
      BY <1>4, <1>6 DEF IInv, OnePlace, Dec, rs
    <2>2. "decoding" # "context"
      OBVIOUS
    <2> QED BY <1>3, <1>4, <1>6, <2>1, <2>2, PushFacts DEF rs
  <1>9. Ctx' = Ctx /\ Dec' = Dec \cup rs
    BY <1>8 DEF Ctx, Dec
  <1> DEFINE fresh == {r \in rs : events[r] = <<>> \/ events[r][Len(events[r])] # "decoding_begin"}
  <1>10. /\ events' \in [Requests -> Seq(EventNames)]
         /\ \A r \in fresh : events'[r] = Append(events[r], "decoding_begin")
         /\ \A r \in Requests : r \notin fresh => events'[r] = events[r]
    <2>1. "decoding_begin" \in EventNames /\ Shape
      BY Names DEF IInv
    <2>2. events' = Log(fresh, "decoding_begin")
      BY <1>3 DEF LogNew
    <2>3. fresh \in SUBSET Requests
      BY <1>5
    <2> HIDE DEF fresh
    <2> QED BY <2>1, <2>2, <2>3, LogFacts
  <1>11. Shape'
    <2>1. \A z \in Stages : pipeline'[z] \in Seq(Seq(Requests)) /\ Len(pipeline'[z]) <= PipelineSize
      BY <1>8 DEF IInv, Shape, TypeOK, Stages
    <2> QED BY <1>2, <1>8, <1>10, <2>1 DEF IInv, Shape, TypeOK
  <1>12. LoopPlaces'
    <2>1. call # 0
      BY <1>2, <1>6 DEF IInv, LoopPlaces
    <2> QED BY <1>2, <1>8, <2>1 DEF IInv, LoopPlaces, Stages
  <1>13. \A r \in Requests : InFlight(r)' <=> InFlight(r)
    BY <1>2 DEF InFlight
  <1>14. OnePlace'
    <2>1. \A z \in Stages : Separate(pipeline'[z])
      BY <1>8 DEF IInv, OnePlace, Stages
    <2> QED BY <1>2, <1>4, <1>9, <1>13, <2>1 DEF IInv, OnePlace
  <1>15. SlotsAreTiled'
    <2>1. rs \cap (Ctx \cup Dec) = {}
      BY <1>4, <1>7
    <2> QED BY <1>2, <1>3, <1>5, <1>9, <2>1, ForwardTiles DEF IInv
  <1>16. TablesAgree'
    <2>1. \A r \in Requests : FirstToken(r)'
      BY <1>2, <1>9 DEF IInv, TablesAgree, FirstToken
    <2>2. \A r \in Requests : Unheard(r)'
      <3>1. \A r \in rs : InFlight(r)
        BY <1>4, <1>5 DEF IInv, OnePlace
      <3>2. \A r \in Requests : r \notin rs => slots'[r] = slots[r]
        BY <1>3 DEF Forward
      <3> QED BY <1>2, <3>1, <3>2 DEF IInv, TablesAgree, Unheard, InFlight
    <2> QED BY <1>2, <1>13, <2>1, <2>2 DEF IInv, TablesAgree, Known, Unknown, Reading, HasRead
  <1>17. LifeByPlace'
    <2>1. \A r \in Requests : Migrating(r)' <=> Migrating(r)
      BY <1>2, <1>8 DEF Migrating
    <2>2. ASSUME NEW r \in rs PROVE Lived(events'[r], 6)
      <3>1. r \in Requests /\ r \in Range(decoding) /\ r \notin Dec /\ Shape
        BY <1>4, <1>5 DEF IInv
      <3>2. CASE outputLen[r] = 1
        <4>1. Lived(events[r], 5)
          BY <3>1, <3>2 DEF IInv, LifeByPlace
        <4>2. Len(events[r]) = 5 /\ events[r][5] = "migration_end"
          BY <4>1, Names DEF Lived
        <4>3. r \in fresh
          BY <4>2
        <4>4. 5 \in 0 .. 6 /\ 5 + 1 = 6 /\ FullLife[6] = "decoding_begin"
          BY Names
        <4>5. Lived(Append(events[r], FullLife[5 + 1]), 5 + 1)
          BY <3>1, <4>1, <4>4, LivesOn
        <4> QED BY <1>10, <4>3, <4>4, <4>5
      <3>3. CASE outputLen[r] # 1
        <4>1. Lived(events[r], 6)
          BY <3>1, <3>3 DEF IInv, LifeByPlace
        <4>2. Len(events[r]) = 6 /\ events[r][6] = "decoding_begin" /\ events[r] # <<>>
          BY <4>1, Names DEF Lived
        <4>3. r \notin fresh
          BY <4>2
        <4> QED BY <1>10, <3>1, <4>1, <4>3
      <3> QED BY <3>2, <3>3
    <2>3. ASSUME NEW r \in Requests, r \notin rs
          PROVE  /\ events'[r] = events[r]
                 /\ r \in Dec' <=> r \in Dec
      BY <1>9, <1>10, <2>3
    <2>4. rs \subseteq Dec' /\ rs \subseteq Range(decoding)
      BY <1>4, <1>9
    <2> HIDE DEF fresh
    <2> QED BY <1>2, <1>7, <1>9, <2>1, <2>2, <2>3, <2>4 DEF IInv, LifeByPlace
  <1> QED BY <1>11, <1>12, <1>14, <1>15, <1>16, <1>17 DEF IInv

(***************************************************************************)
(* The steps that take a result                                            *)
(***************************************************************************)
LEMMA AppendOutput ==
  ASSUME NEW q \in Seq({"more", "last"}), NEW out \in {"more", "last"}, Open(q)
  PROVE  /\ Append(q, out) \in Seq({"more", "last"}) /\ Append(q, out) # NoQueue
         /\ Len(Append(q, out)) = Len(q) + 1 /\ Len(q) \in Nat
         /\ IF out = "last" THEN Closed(Append(q, out)) ELSE Open(Append(q, out))
  <1> DEFINE t == Append(q, out)
  <1>1. /\ t \in Seq({"more", "last"}) /\ Len(t) = Len(q) + 1 /\ Len(q) \in Nat
        /\ \A i \in 1 .. Len(q) : t[i] = q[i]
        /\ t[Len(q) + 1] = out
        /\ DOMAIN t = 1 .. Len(t) /\ DOMAIN q = 1 .. Len(q)
    BY AppendProperties
  <1>2. \A i \in 1 .. Len(q) : q[i] = "more"
    BY <1>1 DEF Open
  <1>3. \A i \in 1 .. Len(q) + 1 : i \in 1 .. Len(q) \/ i = Len(q) + 1
    BY <1>1
  <1> HIDE DEF t
  <1>4. t # NoQueue
    BY <1>1, NoQueueIsNone
  <1>5. CASE out = "last"
    <2>1. \A i \in 1 .. Len(q) : i # Len(q) + 1
      BY <1>1
    <2>2. t # <<>>
      BY <1>1
    <2>3. Closed(t)
      BY <1>1, <1>2, <1>3, <1>5, <2>1, <2>2 DEF Closed
    <2> QED BY <1>1, <1>4, <1>5, <2>3 DEF t
  <1>6. CASE out = "more"
    <2>1. Open(t)
      BY <1>1, <1>2, <1>3, <1>6 DEF Open
    <2> QED BY <1>1, <1>4, <1>6, <2>1 DEF t
  <1> QED BY <1>5, <1>6

LEMMA GenerateFacts ==
  ASSUME Shape, NEW rs \in SUBSET Requests, NEW stopped \in SUBSET rs, Generate(rs, stopped)
  PROVE  /\ outputLen' \in [Requests -> Nat]
         /\ \A r \in Requests : outputLen'[r] = IF r \in rs THEN outputLen[r] + 1 ELSE outputLen[r]
         /\ finished \subseteq finished' /\ finished' \subseteq finished \cup rs
         /\ \A r \in rs : r \notin finished' => outputLen'[r] < Sampling[r].maxTokens
  <1>1. /\ outputLen' = [r \in Requests |-> outputLen[r] + (IF r \in rs THEN 1 ELSE 0)]
        /\ finished' = finished \cup {r \in rs : CheckFinishCondition(r, outputLen'[r], r \in stopped)}
    BY DEF Generate
  <1>2. outputLen \in [Requests -> Nat]
    BY Types
  <1>3. outputLen' \in [Requests -> Nat]
    BY <1>1, <1>2
  <1>4. ASSUME NEW r \in rs, r \notin finished' PROVE outputLen'[r] < Sampling[r].maxTokens
    <2>1. ~(outputLen'[r] >= Sampling[r].maxTokens)
      BY <1>1, <1>4 DEF CheckFinishCondition
    <2>2. outputLen'[r] \in Nat /\ Sampling[r].maxTokens \in Int
      BY <1>3, ServingAssumption
    <2> QED BY <2>1, <2>2
  <1>5. \A r \in Requests : outputLen'[r] = IF r \in rs THEN outputLen[r] + 1 ELSE outputLen[r]
    BY <1>1, <1>2
  <1>6. finished \subseteq finished' /\ finished' \subseteq finished \cup rs
    BY <1>1
  <1> QED BY <1>3, <1>4, <1>5, <1>6

(* What the step says of the requests of its batch *)
LEMMA PutOutputsFacts ==
  ASSUME Shape, NEW rs \in SUBSET Requests, PutOutputs(rs), \A r \in rs : outputs[r] # NoQueue
  PROVE  /\ outputs' \in [Requests -> Seq({"more", "last"}) \cup {NoQueue}]
         /\ \A r \in rs : /\ outputs[r] \in Seq({"more", "last"})
                          /\ outputs'[r] = Append(outputs[r], IF r \in finished' THEN "last" ELSE "more")
         /\ \A r \in Requests : r \notin rs => outputs'[r] = outputs[r]
  <1>1. outputs' = [r \in Requests |->
          IF r \in rs THEN Append(outputs[r], IF r \in finished' THEN "last" ELSE "more") ELSE outputs[r]]
    BY DEF PutOutputs
  <1>2. \A r \in rs : outputs[r] \in Seq({"more", "last"})
    BY DEF Shape
  <1>3. \A r \in rs : Append(outputs[r], IF r \in finished' THEN "last" ELSE "more") \in Seq({"more", "last"})
    BY <1>2
  <1>4. \A r \in Requests : outputs[r] \in Seq({"more", "last"}) \cup {NoQueue}
    BY DEF Shape
  <1> QED BY <1>1, <1>2, <1>3, <1>4

LEMMA ResultTables ==
  ASSUME Shape, TablesAgree, NEW rs \in SUBSET Requests, NEW stopped \in SUBSET rs,
         \A r \in rs : InFlight(r), Generate(rs, stopped), PutOutputs(rs),
         UNCHANGED <<slots, promptLenMap, client, received>>,
         \A r \in Requests : FirstToken(r)'
  PROVE  TablesAgree'
  <1>1. /\ \A r \in Requests : outputLen'[r] = IF r \in rs THEN outputLen[r] + 1 ELSE outputLen[r]
        /\ finished \subseteq finished' /\ finished' \subseteq finished \cup rs
        /\ \A r \in rs : r \notin finished' => outputLen'[r] < Sampling[r].maxTokens
    BY GenerateFacts
  <1>2. \A r \in rs : outputs[r] # NoQueue
    BY DEF TablesAgree, Known
  <1>3. /\ \A r \in rs : /\ outputs[r] \in Seq({"more", "last"})
                         /\ outputs'[r] = Append(outputs[r], IF r \in finished' THEN "last" ELSE "more")
        /\ \A r \in Requests : r \notin rs => outputs'[r] = outputs[r]
    BY <1>2, PutOutputsFacts
  <1>4. outputLen \in [Requests -> Nat] /\ received \in [Requests -> Nat]
    BY Types
  <1>5. ASSUME NEW r \in Requests PROVE (Unheard(r) /\ Unknown(r) /\ HasRead(r))'
    BY <1>1 DEF TablesAgree, Unheard, Unknown, HasRead, InFlight
  <1>6. ASSUME NEW r \in rs PROVE Reading(r)' /\ (outputs'[r] # NoQueue \/ r \in finished')
    <2> DEFINE out == IF r \in finished' THEN "last" ELSE "more"
    <2>1. r \in Requests /\ r \notin finished /\ Reading(r)
      BY DEF TablesAgree, InFlight
    <2>2. outputs[r] \in Seq({"more", "last"}) /\ outputs'[r] = Append(outputs[r], out)
          /\ out \in {"more", "last"} /\ (out = "last" <=> r \in finished')
      BY <1>3
    <2> HIDE DEF out
    <2>3. outputs'[r] # NoQueue
      <3>1. Append(outputs[r], out) \in Seq({"more", "last"})
        BY <2>2, AppendProperties
      <3> QED BY <2>2, <3>1, NoQueueIsNone
    <2>4. CASE client[r] = "reading"
      <3>1. Open(outputs[r]) /\ received[r] + Len(outputs[r]) = outputLen[r]
        BY <2>1, <2>4 DEF Reading
      <3>2. /\ Len(outputs'[r]) = Len(outputs[r]) + 1 /\ Len(outputs[r]) \in Nat
            /\ IF r \in finished' THEN Closed(outputs'[r]) ELSE Open(outputs'[r])
        BY <2>2, <3>1, AppendOutput
      <3>3. received'[r] + Len(outputs'[r]) = outputLen'[r]
        <4>1. received[r] \in Nat /\ outputLen'[r] = outputLen[r] + 1 /\ received'[r] = received[r]
          BY <1>1, <1>4, <2>1
        <4> QED BY <3>1, <3>2, <4>1
      <3> QED BY <2>3, <2>4, <3>2, <3>3 DEF Reading
    <2>5. CASE client[r] # "reading"
      BY <2>3, <2>5 DEF Reading
    <2> QED BY <2>3, <2>4, <2>5
  <1>7. ASSUME NEW r \in Requests, r \notin rs PROVE Reading(r)'
    <2>1. r \in finished' <=> r \in finished
      BY <1>1, <1>7
    <2> QED BY <1>1, <1>3, <1>7, <2>1 DEF TablesAgree, Reading
  <1>8. ASSUME NEW r \in Requests PROVE Known(r)'
    <2>1. InFlight(r)' => InFlight(r)
      BY <1>1 DEF InFlight
    <2>2. CASE r \in rs
      <3>1. r \notin finished' => outputs'[r] # NoQueue /\ outputLen'[r] < Sampling[r].maxTokens
        BY <1>1, <1>6, <2>2
      <3> QED BY <2>1, <3>1 DEF TablesAgree, Known, InFlight, PromptLenValue
    <2>3. CASE r \notin rs
      BY <1>1, <1>3, <2>1, <2>3 DEF TablesAgree, Known, PromptLenValue
    <2> QED BY <2>2, <2>3
  <1> QED BY <1>5, <1>6, <1>7, <1>8 DEF TablesAgree

(* The oldest batch leaves the pipeline of a stage. *)
LEMMA PopFacts ==
  ASSUME IInv, NEW s \in Stages, at[s] = "result",
         pipeline' = [pipeline EXCEPT ![s] = Tail(pipeline[s])]
  PROVE  /\ Head(pipeline[s]) \in Seq(Requests) /\ Range(Head(pipeline[s])) \in SUBSET Requests
         /\ pipeline' \in [Stages -> Seq(Seq(Requests))]
         /\ \A z \in Stages : z # s => pipeline'[z] = pipeline[z]
         /\ Separate(pipeline'[s]) /\ Len(pipeline'[s]) < PipelineSize
         /\ Pipe(pipeline[s]) = Range(Head(pipeline[s])) \cup Pipe(pipeline'[s])
         /\ Range(Head(pipeline[s])) \cap Pipe(pipeline'[s]) = {}
  <1>1. /\ pipeline \in [Stages -> Seq(Seq(Requests))] /\ Len(pipeline[s]) = PipelineSize
        /\ Separate(pipeline[s]) /\ PipelineSize \in Nat \ {0}
    BY ServingAssumption DEF IInv, Shape, LoopPlaces, OnePlace
  <1> DEFINE p == pipeline[s]
  <1>2. p \in Seq(Seq(Requests)) /\ p # <<>> /\ Len(p) = PipelineSize /\ Separate(p)
    BY <1>1
  <1>3. pipeline'[s] = Tail(p) /\ \A z \in Stages : z # s => pipeline'[z] = pipeline[z]
    BY <1>1
  <1> HIDE DEF p
  <1>4. /\ Head(p) \in Seq(Requests) /\ Tail(p) \in Seq(Seq(Requests)) /\ Len(Tail(p)) = Len(p) - 1
        /\ Pipe(p) = Range(Head(p)) \cup Pipe(Tail(p))
        /\ Separate(Tail(p)) /\ Range(Head(p)) \cap Pipe(Tail(p)) = {}
    BY <1>2, PipeTail
  <1>5. Range(Head(p)) \in SUBSET Requests
    BY <1>4, RangeOfSeq
  <1>6. pipeline' \in [Stages -> Seq(Seq(Requests))]
    BY <1>1, <1>4 DEF p
  <1>7. Len(Tail(p)) < PipelineSize
    BY <1>1, <1>2, <1>4
  <1> QED BY <1>3, <1>4, <1>5, <1>6, <1>7 DEF p

LEMMA ContextResultIInv ==
  ASSUME IInv, ContextResult
  PROVE  IInv'
  <1> DEFINE batch == Head(pipeline["context"])
             rs    == Range(batch)
  <1>1. PICK stopped \in SUBSET {r \in rs : CanStop(r)} :
          /\ Generate(rs, stopped)
          /\ events' = Log(rs, "context_end")
          /\ PutOutputs(rs)
          /\ \E kept \in Subsequences(batch) :
               /\ Range(kept) = rs \ finished'
               /\ bridge' = bridge \o kept
    BY DEF ContextResult
  <1>2. PICK kept \in Subsequences(batch) : Range(kept) = rs \ finished' /\ bridge' = bridge \o kept
    BY <1>1
  <1>3. /\ UNCHANGED <<call, waiting, unaccepted, decoding, boundTo, loop1>>
        /\ UNCHANGED <<slots, promptLenMap, client, received>>
        /\ at \in [Stages -> {"stopped", "top", "sleep", "result", "post", "migrate"}]
        /\ at["context"] = "result" /\ at' = [at EXCEPT !["context"] = "top"]
        /\ pipeline' = [pipeline EXCEPT !["context"] = Tail(pipeline["context"])]
        /\ "context" \in Stages /\ "decoding" \in Stages
    BY DEF ContextResult, clientVars, IInv, Shape, TypeOK, Stages
  <1>4. /\ batch \in Seq(Requests) /\ rs \in SUBSET Requests
        /\ pipeline' \in [Stages -> Seq(Seq(Requests))]
        /\ pipeline'["decoding"] = pipeline["decoding"]
        /\ Separate(pipeline'["context"]) /\ Len(pipeline'["context"]) < PipelineSize
        /\ Ctx = rs \cup Ctx' /\ rs \cap Ctx' = {} /\ Dec' = Dec
    <2>1. "decoding" # "context"
      OBVIOUS
    <2> QED BY <1>3, <2>1, PopFacts DEF Ctx, Dec
  <1> HIDE DEF batch, rs
  <1>5. stopped \in SUBSET rs /\ Shape
    BY DEF IInv
  <1>6. \A r \in rs : InFlight(r)
    BY <1>4 DEF IInv, OnePlace
  <1>7. rs \cap (Range(waiting) \cup Range(bridge) \cup Range(unaccepted) \cup Range(decoding) \cup finished) = {}
    BY <1>4, <1>6 DEF IInv, OnePlace, InFlight
  <1>8. /\ outputLen' \in [Requests -> Nat]
        /\ \A r \in Requests : outputLen'[r] = IF r \in rs THEN outputLen[r] + 1 ELSE outputLen[r]
        /\ finished \subseteq finished' /\ finished' \subseteq finished \cup rs
    BY <1>1, <1>4, <1>5, GenerateFacts
  <1>9. /\ bridge' \in Seq(Requests) /\ Distinct(bridge')
        /\ Range(bridge') = Range(bridge) \cup (rs \ finished')
    <2>1. kept \in Seq(Requests) /\ Distinct(kept)
      BY <1>4, SubsequenceFacts
    <2>2. bridge \in Seq(Requests) /\ Distinct(bridge) /\ Range(bridge) \cap Range(kept) = {}
      BY <1>2, <1>7 DEF IInv, Shape, TypeOK, OnePlace
    <2> QED BY <1>2, <2>1, <2>2, ConcatDistinct
  <1>10. /\ events' \in [Requests -> Seq(EventNames)]
         /\ \A r \in rs : events'[r] = Append(events[r], "context_end")
         /\ \A r \in Requests : r \notin rs => events'[r] = events[r]
    <2>1. "context_end" \in EventNames
      BY Names
    <2> QED BY <1>1, <1>4, <1>5, <2>1, LogFacts
  <1>11. Shape'
    <2>1. outputs' \in [Requests -> Seq({"more", "last"}) \cup {NoQueue}]
      <3>1. \A r \in rs : outputs[r] # NoQueue
        BY <1>4, <1>6 DEF IInv, TablesAgree, Known
      <3> QED BY <1>1, <1>4, <1>5, <3>1, PutOutputsFacts
    <2>2. \A z \in Stages : pipeline'[z] \in Seq(Seq(Requests)) /\ Len(pipeline'[z]) <= PipelineSize
      BY <1>4, <1>5, ServingAssumption DEF Shape, TypeOK, Stages
    <2>3. at' \in [Stages -> {"stopped", "top", "sleep", "result", "post", "migrate"}]
      BY <1>3
    <2>4. finished' \subseteq Requests
      BY <1>4, <1>5, <1>8 DEF Shape, TypeOK
    <2> QED BY <1>3, <1>4, <1>5, <1>8, <1>9, <1>10, <2>1, <2>2, <2>3, <2>4 DEF Shape, TypeOK
  <1>12. LoopPlaces'
    <2>1. call # 0
      BY <1>3 DEF IInv, LoopPlaces
    <2>2. at'["context"] = "top" /\ at'["decoding"] = at["decoding"]
      BY <1>3
    <2> QED BY <1>3, <1>4, <2>1, <2>2 DEF IInv, LoopPlaces, Stages
  <1>13. \A r \in Requests : InFlight(r)' <=> InFlight(r) /\ r \notin rs \cap finished'
    BY <1>3, <1>7, <1>8 DEF InFlight
  <1>14. OnePlace'
    <2>1. \A z \in Stages : Separate(pipeline'[z])
      BY <1>4 DEF IInv, OnePlace, Stages
    <2> QED BY <1>3, <1>4, <1>6, <1>7, <1>9, <1>13, <2>1 DEF IInv, OnePlace
  <1>15. SlotsAreTiled'
    <2>1. Ctx' \cup Dec' = (Ctx \cup Dec) \ rs /\ rs \subseteq Ctx \cup Dec
      <3>1. rs \cap Dec = {}
        BY <1>7 DEF IInv, OnePlace
      <3> QED BY <1>4, <3>1
    <2> QED BY <1>3, <1>4, <1>5, <1>8, <2>1, ResultTiles DEF IInv
  <1>16. TablesAgree'
    <2>1. \A r \in Requests : FirstToken(r)'
      <3>1. \A r \in rs : outputLen'[r] = 1
        BY <1>4, <1>8 DEF IInv, TablesAgree, FirstToken
      <3>2. ASSUME NEW r \in Requests, r \notin rs PROVE FirstToken(r)'
        BY <1>3, <1>4, <1>8, <1>9, <3>2 DEF IInv, TablesAgree, FirstToken
      <3>3. ASSUME NEW r \in rs PROVE FirstToken(r)'
        BY <1>3, <1>4, <1>7, <1>9, <3>1 DEF FirstToken
      <3> QED BY <3>2, <3>3
    <2> QED BY <1>1, <1>3, <1>4, <1>5, <1>6, <2>1, ResultTables DEF IInv
  <1>17. LifeByPlace'
    <2>1. \A r \in Requests : Migrating(r)' <=> Migrating(r)
      BY <1>3 DEF Migrating
    <2>2. ASSUME NEW r \in rs
          PROVE  Lived(events'[r], 3) /\ outputLen'[r] = 1
      <3>1. Lived(events[r], 2) /\ r \in Requests /\ outputLen[r] = 0
        BY <1>4 DEF IInv, LifeByPlace, TablesAgree, FirstToken
      <3>2. 2 \in 0 .. 6 /\ 2 + 1 = 3 /\ FullLife[3] = "context_end"
        BY Names
      <3>3. Lived(Append(events[r], FullLife[2 + 1]), 2 + 1)
        BY <1>5, <3>1, <3>2, LivesOn
      <3>4. Lived(events'[r], 3)
        BY <1>10, <3>2, <3>3
      <3>5. outputLen'[r] = 1
        BY <1>8, <3>1
      <3> QED BY <3>4, <3>5
    <2>3. ASSUME NEW r \in Requests, r \notin rs
          PROVE  /\ events'[r] = events[r] /\ outputLen'[r] = outputLen[r]
                 /\ r \in Range(bridge') <=> r \in Range(bridge)
                 /\ r \in Ctx' <=> r \in Ctx
                 /\ r \in finished' <=> r \in finished
      BY <1>4, <1>8, <1>9, <1>10, <2>3
    <2>4. \A r \in rs : r \notin Range(waiting) \cup Ctx' \cup Range(unaccepted) \cup Range(decoding)
      BY <1>4, <1>7
    <2> QED BY <1>3, <1>4, <2>1, <2>2, <2>3, <2>4 DEF IInv, LifeByPlace
  <1> QED BY <1>11, <1>12, <1>14, <1>15, <1>16, <1>17 DEF IInv

LEMMA DecodingResultIInv ==
  ASSUME IInv, DecodingResult
  PROVE  IInv'
  <1> DEFINE rs == Range(Head(pipeline["decoding"]))
  <1>1. PICK stopped \in SUBSET {r \in rs : CanStop(r)} :
          /\ Generate(rs, stopped)
          /\ events' = Log(rs \cap finished', "decoding_end")
          /\ PutOutputs(rs)
    BY DEF DecodingResult
  <1>2. /\ decoding' \in Subsequences(decoding)
        /\ Range(decoding') = Range(decoding) \ finished'
    BY DEF DecodingResult
  <1>3. /\ UNCHANGED <<call, waiting, unaccepted, boundTo, loop1, bridge>>
        /\ UNCHANGED <<slots, promptLenMap, client, received>>
        /\ at \in [Stages -> {"stopped", "top", "sleep", "result", "post", "migrate"}]
        /\ at["decoding"] = "result" /\ at' = [at EXCEPT !["decoding"] = "post"]
        /\ pipeline' = [pipeline EXCEPT !["decoding"] = Tail(pipeline["decoding"])]
        /\ "context" \in Stages /\ "decoding" \in Stages
    BY DEF DecodingResult, bridgeVars, clientVars, IInv, Shape, TypeOK, Stages
  <1>4. /\ rs \in SUBSET Requests
        /\ pipeline' \in [Stages -> Seq(Seq(Requests))]
        /\ pipeline'["context"] = pipeline["context"]
        /\ Separate(pipeline'["decoding"]) /\ Len(pipeline'["decoding"]) < PipelineSize
        /\ Dec = rs \cup Dec' /\ rs \cap Dec' = {} /\ Ctx' = Ctx
    <2>1. "decoding" # "context"
      OBVIOUS
    <2> QED BY <1>3, <2>1, PopFacts DEF Ctx, Dec
  <1> HIDE DEF rs
  <1>5. stopped \in SUBSET rs /\ Shape
    BY DEF IInv
  <1>6. rs \subseteq Range(decoding) /\ \A r \in rs : InFlight(r)
    BY <1>4 DEF IInv, OnePlace
  <1>7. rs \cap (Range(waiting) \cup Ctx \cup Range(bridge) \cup Range(unaccepted) \cup finished) = {}
    BY <1>4, <1>6 DEF IInv, OnePlace, InFlight
  <1>8. /\ outputLen' \in [Requests -> Nat]
        /\ \A r \in Requests : outputLen'[r] = IF r \in rs THEN outputLen[r] + 1 ELSE outputLen[r]
        /\ finished \subseteq finished' /\ finished' \subseteq finished \cup rs
    BY <1>1, <1>4, <1>5, GenerateFacts
  <1>9. /\ decoding' \in Seq(Requests) /\ Distinct(decoding')
        /\ Range(decoding') = Range(decoding) \ (rs \cap finished')
    <2>1. decoding' \in Seq(Requests) /\ Distinct(decoding')
      BY <1>2, <1>5, SubsequenceFacts, Types
    <2>2. Range(decoding) \cap finished = {}
      BY DEF IInv, OnePlace, InFlight
    <2> QED BY <1>2, <1>8, <2>1, <2>2
  <1>10. /\ events' \in [Requests -> Seq(EventNames)]
         /\ \A r \in rs \cap finished' : events'[r] = Append(events[r], "decoding_end")
         /\ \A r \in Requests : r \notin rs \cap finished' => events'[r] = events[r]
    <2>1. "decoding_end" \in EventNames /\ rs \cap finished' \in SUBSET Requests
      BY <1>4, Names
    <2> QED BY <1>1, <1>5, <2>1, LogFacts
  <1>11. Shape'
    <2>1. outputs' \in [Requests -> Seq({"more", "last"}) \cup {NoQueue}]
      <3>1. \A r \in rs : outputs[r] # NoQueue
        BY <1>4, <1>6 DEF IInv, TablesAgree, Known
      <3> QED BY <1>1, <1>4, <1>5, <3>1, PutOutputsFacts
    <2>2. \A z \in Stages : pipeline'[z] \in Seq(Seq(Requests)) /\ Len(pipeline'[z]) <= PipelineSize
      BY <1>4, <1>5, ServingAssumption DEF Shape, TypeOK, Stages
    <2>3. at' \in [Stages -> {"stopped", "top", "sleep", "result", "post", "migrate"}]
      BY <1>3
    <2>4. finished' \subseteq Requests
      BY <1>4, <1>5, <1>8 DEF Shape, TypeOK
    <2> QED BY <1>3, <1>4, <1>5, <1>8, <1>9, <1>10, <2>1, <2>2, <2>3, <2>4 DEF Shape, TypeOK
  <1>12. LoopPlaces'
    <2>1. call # 0
      BY <1>3 DEF IInv, LoopPlaces
    <2>2. at'["decoding"] = "post" /\ at'["context"] = at["context"]
      BY <1>3
    <2> QED BY <1>3, <1>4, <2>1, <2>2 DEF IInv, LoopPlaces, Stages
  <1>13. \A r \in Requests : InFlight(r)' <=> InFlight(r) /\ r \notin rs \cap finished'
    BY <1>3, <1>7, <1>8 DEF InFlight
  <1>14. OnePlace'
    <2>1. \A z \in Stages : Separate(pipeline'[z])
      BY <1>4 DEF IInv, OnePlace, Stages
    <2>2. Dec' \subseteq Range(decoding')
      BY <1>4, <1>9 DEF IInv, OnePlace
    <2> QED BY <1>3, <1>4, <1>6, <1>9, <1>13, <2>1, <2>2 DEF IInv, OnePlace
  <1>15. SlotsAreTiled'
    <2>1. Ctx' \cup Dec' = (Ctx \cup Dec) \ rs /\ rs \subseteq Ctx \cup Dec
      BY <1>4, <1>7
    <2> QED BY <1>3, <1>4, <1>5, <1>8, <2>1, ResultTiles DEF IInv
  <1>16. TablesAgree'
    <2>1. \A r \in Requests : FirstToken(r)'
      <3>1. \A r \in rs : outputLen'[r] > 0
        BY <1>4, <1>5, <1>8, Types
      <3>2. ASSUME NEW r \in Requests, r \notin rs PROVE FirstToken(r)'
        BY <1>3, <1>4, <1>8, <1>9, <3>2 DEF IInv, TablesAgree, FirstToken
      <3>3. ASSUME NEW r \in rs PROVE FirstToken(r)'
        BY <1>3, <1>4, <1>7, <3>1 DEF FirstToken
      <3> QED BY <3>2, <3>3
    <2> QED BY <1>1, <1>3, <1>4, <1>5, <1>6, <2>1, ResultTables DEF IInv
  <1>17. LifeByPlace'
    <2>1. \A r \in Requests : ~Migrating(r)' /\ ~Migrating(r)
      BY <1>3 DEF Migrating
    <2>2. ASSUME NEW r \in rs
          PROVE  /\ outputLen'[r] > 1
                 /\ Lived(events'[r], IF r \in finished' THEN 7 ELSE 6)
      <3>1. r \in Dec /\ r \in Range(decoding) /\ r \in Requests
        BY <1>4, <1>6
      <3>2. Lived(events[r], 6) /\ outputLen[r] > 0 /\ outputLen[r] \in Nat
        BY <1>5, <3>1, Types DEF IInv, LifeByPlace, TablesAgree, FirstToken
      <3>3. 6 \in 0 .. 6 /\ 6 + 1 = 7 /\ FullLife[7] = "decoding_end"
        BY Names
      <3>4. Lived(Append(events[r], FullLife[6 + 1]), 6 + 1)
        BY <1>5, <3>1, <3>2, <3>3, LivesOn
      <3>5. outputLen'[r] > 1
        BY <1>8, <3>1, <3>2
      <3>6. CASE r \in finished'
        BY <1>10, <3>3, <3>4, <3>5, <3>6
      <3>7. CASE r \notin finished'
        BY <1>10, <3>1, <3>2, <3>5, <3>7
      <3> QED BY <3>6, <3>7
    <2>3. ASSUME NEW r \in Requests, r \notin rs
          PROVE  /\ events'[r] = events[r] /\ outputLen'[r] = outputLen[r]
                 /\ r \in Range(decoding') <=> r \in Range(decoding)
                 /\ r \in Dec' <=> r \in Dec
                 /\ r \in finished' <=> r \in finished
      BY <1>4, <1>8, <1>9, <1>10, <2>3
    <2>4. \A r \in rs : /\ r \notin Range(waiting) \cup Ctx \cup Range(bridge) \cup Range(unaccepted) \cup Dec'
                        /\ outputLen'[r] \in Nat
      BY <1>4, <1>7, <1>8
    <2>5. \A r \in rs : r \in finished' => r \notin Range(decoding')
      BY <1>9
    <2> QED BY <1>3, <1>4, <2>1, <2>2, <2>3, <2>4, <2>5 DEF IInv, LifeByPlace
  <1> QED BY <1>11, <1>12, <1>14, <1>15, <1>16, <1>17 DEF IInv

LEMMA NextIInv ==
  ASSUME Len(Calls) = 1, IInv, [Next]_vars
  PROVE  IInv'
  <1>1. CASE NextCall
    BY <1>1, NextCallIInv
  <1>2. CASE StartEventLoops
    BY <1>2, StartEventLoopsIInv
  <1>3. ASSUME NEW r \in Requests,
               Refuse(r) \/ Resend(r) \/ Issue(r) \/ ReadToken(r) \/ ReadLast(r) \/ Disconnect(r)
        PROVE  IInv'
    BY <1>3, RefuseIInv, ResendIInv, IssueIInv, ReadTokenIInv, ReadLastIInv, DisconnectIInv
  <1>4. ASSUME NEW s \in Stages, StepEmpty(s) \/ Wake(s)
        PROVE  IInv'
    BY <1>4, StepEmptyIInv, WakeIInv
  <1>5. CASE StepContext \/ ContextResult \/ StepDecoding \/ DecodingResult
    BY <1>5, StepContextIInv, ContextResultIInv, StepDecodingIInv, DecodingResultIInv
  <1>6. CASE Accept \/ Migrated \/ PostDone \/ TakeFromBridge \/ WaitOnBridge
    BY <1>6, AcceptIInv, MigratedIInv, PostDoneIInv, TakeFromBridgeIInv, WaitOnBridgeIInv
  <1>7. CASE UNCHANGED vars
    <2>1. /\ UNCHANGED <<call, at, pipeline, boundTo, loop1, waiting, bridge, unaccepted, decoding>>
          /\ UNCHANGED <<finished, outputLen, slots, outputs, events, promptLenMap, client, received>>
      BY <1>7 DEF vars, engineVars, bridgeVars, requestVars, clientVars, tableVars
    <2>2. Shape'
      BY <2>1 DEF IInv, Shape, TypeOK
    <2>3. LoopPlaces'
      BY <2>1 DEF IInv, LoopPlaces
    <2>4. OnePlace' /\ SlotsAreTiled' /\ Ctx' = Ctx /\ Dec' = Dec
      BY <2>1, NothingMoves DEF IInv, InFlight, OnePlace
    <2>5. TablesAgree'
      BY <2>1, <2>4 DEF IInv, TablesAgree, Unheard, Known, Unknown, Reading, HasRead, FirstToken, InFlight
    <2>6. LifeByPlace'
      BY <2>1, <2>4 DEF IInv, LifeByPlace, Migrating
    <2> QED BY <2>2, <2>3, <2>4, <2>5, <2>6 DEF IInv
  <1> QED BY <1>1, <1>2, <1>3, <1>4, <1>5, <1>6, <1>7 DEF Next

LEMMA Invariance ==
  ASSUME Len(Calls) = 1
  PROVE  Spec => []IInv
  <1>1. Init => IInv
    BY InitIInv
  <1>2. IInv /\ [Next]_vars => IInv'
    BY NextIInv
  <1> QED BY <1>1, <1>2, PTL DEF Spec

(***************************************************************************)
(* The theorems.                                                           *)
(***************************************************************************)

(* The places a request is at are as many as the sets of OnePlace that it  *)
(* is in: one when it is in flight, and else none.                         *)
LEMMA PlacesCount ==
  ASSUME IInv, NEW r \in Requests
  PROVE  Cardinality(Places(r)) = IF InFlight(r) THEN 1 ELSE 0
  <1> DEFINE w == <<"waiting", waiting>>
             b == <<"bridge", bridge>>
             u == <<"unaccepted", unaccepted>>
             d == <<"decoding", decoding>>
             c == <<"context", pipeline["context"]>>
  <1>1. Places(r) = (IF r \in Range(waiting) THEN {w} ELSE {}) \cup (IF r \in Range(bridge) THEN {b} ELSE {})
                      \cup (IF r \in Range(unaccepted) THEN {u} ELSE {})
                      \cup (IF r \in Range(decoding) THEN {d} ELSE {})
                      \cup (IF r \in Ctx THEN {c} ELSE {})
    <2>1. w[2] = waiting /\ b[2] = bridge /\ u[2] = unaccepted /\ d[2] = decoding
      OBVIOUS
    <2>2. r \in InPipeline("context") <=> r \in Ctx
      BY DEF InPipeline, Ctx, Pipe
    <2>3. Places(r) = {p \in {w, b, u, d} : r \in Range(p[2])} \cup (IF r \in Ctx THEN {c} ELSE {})
      BY <2>2 DEF Places
    <2> HIDE DEF w, b, u, d, c
    <2>4. {p \in {w, b, u, d} : r \in Range(p[2])}
            = (IF r \in Range(waiting) THEN {w} ELSE {}) \cup (IF r \in Range(bridge) THEN {b} ELSE {})
                \cup (IF r \in Range(unaccepted) THEN {u} ELSE {})
                \cup (IF r \in Range(decoding) THEN {d} ELSE {})
      BY <2>1
    <2> QED BY <2>3, <2>4
  <1> HIDE DEF w, b, u, d, c
  <1>2. CASE InFlight(r)
    <2>1. \E p : Places(r) = {p}
      BY <1>1, <1>2 DEF IInv, OnePlace
    <2> QED BY <1>2, <2>1, FS_Singleton
  <1>3. CASE ~InFlight(r)
    <2>1. Places(r) = {}
      BY <1>1, <1>3 DEF IInv, OnePlace
    <2> QED BY <1>3, <2>1, FS_EmptySet
  <1> QED BY <1>2, <1>3

(* A request in flight is at one place and in every table that a callback  *)
(* of an event loop looks its id up in, and has tokens left to generate;   *)
(* both endpoints of the server know it, and know none that was refused or *)
(* answered.  No callback raises, which would end the loops.               *)
THEOREM Consistency ==
  ASSUME Len(Calls) = 1
  PROVE  Spec => []Consistent
  <1>1. ASSUME IInv PROVE Consistent
    <2>1. TypeOK
      BY <1>1 DEF IInv, Shape
    <2>2. ASSUME NEW r \in Requests, InFlight(r)
          PROVE  outputs[r] # NoQueue /\ events[r] # <<>> /\ outputLen[r] < Sampling[r].maxTokens
      <3>1. outputs[r] # NoQueue /\ outputLen[r] < Sampling[r].maxTokens
        BY <1>1, <2>2 DEF IInv, TablesAgree, Known
      <3>2. Len(<<>>) = 0
        OBVIOUS
      <3>3. \E k \in 1 .. 6 : Lived(events[r], k)
        BY <1>1, <2>2 DEF IInv, OnePlace, LifeByPlace
      <3>4. Len(events[r]) # 0
        BY <3>3 DEF Lived
      <3> QED BY <3>1, <3>2, <3>4
    <2>3. ASSUME NEW r \in Requests, Server, InFlight(r)
          PROVE  /\ RomDecision(r) = [status |-> 200, promptLen |-> PromptLen[r] - SpecialTokens]
                 /\ RomRecover(r, None).status = 200
      <3>1. r \in DOMAIN promptLenMap /\ promptLenMap[r] = PromptLen[r] - SpecialTokens
        BY <1>1, <2>3, ServingAssumption DEF IInv, TablesAgree, Known, PromptLenValue
      <3> QED BY <3>1 DEF RomDecision, RomRecover
    <2>4. ASSUME NEW r \in Requests, client[r] \in {"refused", "done"}
          PROVE  RomDecision(r).status = 404 /\ RomRecover(r, None).status = 404
      <3>1. r \notin DOMAIN promptLenMap
        BY <1>1, <2>4 DEF IInv, TablesAgree, Unknown
      <3> QED BY <3>1 DEF RomDecision, RomRecover
    <2>5. \A r \in Requests : Cardinality(Places(r)) = IF InFlight(r) THEN 1 ELSE 0
      BY <1>1, PlacesCount
    <2> QED BY <2>1, <2>2, <2>3, <2>4, <2>5 DEF Consistent, InFlightIsKnown
  <1>2. Spec => []IInv
    BY Invariance
  <1> QED BY <1>1, <1>2, PTL

(* A client gets every token that was generated, once: what it has read    *)
(* and what is queued for it is all there is, and when generate returns it *)
(* has read it all.                                                        *)
THEOREM TokensDelivered ==
  ASSUME Len(Calls) = 1
  PROVE  Spec => []NoTokenLost
  <1>1. IInv => NoTokenLost
    BY DEF IInv, TablesAgree, Reading, HasRead, NoTokenLost
  <1>2. Spec => []IInv
    BY Invariance
  <1> QED BY <1>1, <1>2, PTL

(* The cache of a request has no gap, over the hand-over from one stage to *)
(* the other: what a step computes continues what the one before computed. *)
THEOREM CacheHasNoGap ==
  ASSUME Len(Calls) = 1
  PROVE  Spec => []SlotsAreTiled
  <1>1. IInv => SlotsAreTiled
    BY DEF IInv
  <1>2. Spec => []IInv
    BY Invariance
  <1> QED BY <1>1, <1>2, PTL

LEMMA WholeLife ==
  ASSUME NEW life \in Seq(EventNames)
  PROVE  (Lived(life, 3) => life = ShortLife) /\ (Lived(life, 7) => life = FullLife)
  <1>1. /\ FullLife \in Seq(EventNames) /\ Len(FullLife) = 7
        /\ ShortLife \in Seq(EventNames) /\ Len(ShortLife) = 3
        /\ \A i \in 1 .. 3 : ShortLife[i] = FullLife[i]
    <2>1. FullLife \in Seq(EventNames) /\ Len(FullLife) = 7
      BY DEF FullLife, EventNames
    <2>2. ASSUME NEW S, NEW s \in Seq(S), NEW n \in 0 .. Len(s)
          PROVE  /\ SubSeq(s, 1, n) \in Seq(S) /\ Len(SubSeq(s, 1, n)) = n
                 /\ \A i \in 1 .. n : SubSeq(s, 1, n)[i] = s[i]
      OBVIOUS
    <2>3. 3 \in 0 .. Len(FullLife)
      BY <2>1
    <2> QED BY <2>1, <2>2, <2>3 DEF ShortLife
  <1>2. ASSUME Lived(life, 3) PROVE life = ShortLife
    <2>1. Len(life) = Len(ShortLife) /\ \A i \in 1 .. Len(life) : life[i] = ShortLife[i]
      BY <1>1, <1>2 DEF Lived
    <2> QED BY <1>1, <2>1, SeqEqual
  <1>3. ASSUME Lived(life, 7) PROVE life = FullLife
    <2>1. Len(life) = Len(FullLife) /\ \A i \in 1 .. Len(life) : life[i] = FullLife[i]
      BY <1>1, <1>3 DEF Lived
    <2> QED BY <1>1, <2>1, SeqEqual
  <1> QED BY <1>2, <1>3

(* No other step ends a reading client's request with its last token. *)
LEMMA OnlyReadLast ==
  ASSUME IInv, [Next]_vars, NEW r \in Requests, client[r] = "reading", client'[r] = "done"
  PROVE  ReadLast(r)
  <1>1. client \in [Requests -> {"absent", "refused", "reading", "done", "gone"}]
    BY DEF IInv, Shape, TypeOK
  <1>2. client' # client
    OBVIOUS
  <1>3. ~UNCHANGED vars
    BY <1>2 DEF vars, clientVars
  <1>4. ~NextCall /\ ~StartEventLoops /\ \A s \in Stages : ~StepEmpty(s) /\ ~Wake(s)
    BY <1>2 DEF NextCall, StartEventLoops, StepEmpty, Wake, clientVars
  <1>5. ~StepContext /\ ~ContextResult /\ ~StepDecoding /\ ~DecodingResult
    BY <1>2 DEF StepContext, ContextResult, StepDecoding, DecodingResult, clientVars
  <1>6. ~Accept /\ ~Migrated /\ ~PostDone /\ ~TakeFromBridge /\ ~WaitOnBridge
    BY <1>2 DEF Accept, Migrated, PostDone, TakeFromBridge, WaitOnBridge, clientVars
  <1>7. ASSUME NEW z \in Requests
        PROVE  ~Refuse(z) /\ ~Resend(z) /\ ~Issue(z) /\ ~ReadToken(z) /\ ~Disconnect(z)
    BY <1>1, <1>2 DEF Refuse, Resend, Issue, ReadToken, Disconnect
  <1>8. PICK z \in Requests : ReadLast(z)
    BY <1>3, <1>4, <1>5, <1>6, <1>7 DEF Next
  <1>9. z = r
    BY <1>1, <1>8 DEF ReadLast
  <1> QED BY <1>8, <1>9

(* The lifetime events that a response carries are complete when its last  *)
(* token is read: each of them once, in order, the last one included.      *)
THEOREM CompleteLifetime ==
  ASSUME Len(Calls) = 1
  PROVE  Spec => LifetimeIsComplete
  <1> DEFINE Complete ==
        \A r \in Requests :
          client[r] = "reading" /\ client'[r] = "done"
            => events[r] = IF outputLen[r] = 1 THEN ShortLife ELSE FullLife
  <1>1. ASSUME IInv, [Next]_vars PROVE [Complete]_vars
    <2>1. SUFFICES ASSUME NEW r \in Requests, client[r] = "reading", client'[r] = "done"
                   PROVE  events[r] = IF outputLen[r] = 1 THEN ShortLife ELSE FullLife
      OBVIOUS
    <2>2. ReadLast(r)
      BY <1>1, <2>1, OnlyReadLast
    <2>3. r \in finished
      <3>1. /\ outputs[r] \in Seq({"more", "last"}) /\ outputs[r] # <<>> /\ Head(outputs[r]) = "last"
            /\ IF r \in finished THEN Closed(outputs[r]) ELSE Open(outputs[r])
        BY <1>1, <2>1, <2>2 DEF ReadLast, Reads, IInv, Shape, TablesAgree, Reading
      <3> QED BY <3>1, OldestOutput
    <2>4. Lived(events[r], IF outputLen[r] = 1 THEN 3 ELSE 7) /\ events[r] \in Seq(EventNames)
      BY <1>1, <2>1, <2>3 DEF IInv, Shape, LifeByPlace
    <2> QED BY <2>4, WholeLife
  <1>2. Spec => []IInv
    BY Invariance
  <1> QED BY <1>1, <1>2, PTL DEF Spec, LifetimeIsComplete
=============================================================================
