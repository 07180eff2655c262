------------------------ MODULE DecodingStage_proofs ------------------------
(***************************************************************************)
(* For every set of requests, all lengths, limits and numbers of stages: a *)
(* request is in one queue at a time and has its blocks on that queue's    *)
(* side, the batches in flight keep their requests and their blocks, and   *)
(* GPU blocks are never the reason why a step fails.                       *)
(***************************************************************************)
EXTENDS DecodingStage, QueueLemmas, WellFoundedInduction

(***************************************************************************)
(* Numbers of blocks.                                                      *)
(***************************************************************************)
LEMMA BlocksForFacts ==
  ASSUME NEW x \in Nat \ {0}, NEW y \in Nat, x <= y
  PROVE  BlocksFor(x) \in Nat \ {0} /\ BlocksFor(y) \in Nat /\ BlocksFor(x) <= BlocksFor(y)
  <1> DEFINE a == x + BlockSize - 1
             b == y + BlockSize - 1
             p == a \div BlockSize
             q == b \div BlockSize
  <1>1. BlockSize \in Nat \ {0}
    BY DecodingAssumption
  <1>2. a \in Nat /\ b \in Nat /\ BlockSize <= a /\ a <= b
    BY <1>1
  <1> HIDE DEF a, b
  <1>3. /\ p \in Int /\ BlockSize * p <= a /\ a < BlockSize * p + BlockSize
        /\ q \in Int /\ BlockSize * q <= b /\ b < BlockSize * q + BlockSize
    BY <1>1, <1>2
  <1> HIDE DEF p, q
  <1>4. p > 0
    <2>1. SUFFICES ASSUME p <= 0 PROVE FALSE
      BY <1>3
    <2>2. BlockSize * p <= 0
      BY <1>1, <1>3, <2>1
    <2> QED BY <1>1, <1>2, <1>3, <2>2
  <1>5. p <= q
    <2>1. SUFFICES ASSUME q + 1 <= p PROVE FALSE
      BY <1>3
    <2>2. BlockSize * (q + 1) <= BlockSize * p
      BY <1>1, <1>3, <2>1
    <2>3. BlockSize * (q + 1) = BlockSize * q + BlockSize
      BY <1>1, <1>3
    <2> QED BY <1>1, <1>2, <1>3, <2>2, <2>3
  <1>6. p = BlocksFor(x) /\ q = BlocksFor(y)
    BY DEF p, q, a, b, BlocksFor
  <1> QED BY <1>3, <1>4, <1>5, <1>6

LEMMA PromptBlocksType ==
  /\ PromptBlocks \in [Requests -> Nat]
  /\ \A r \in Requests : PromptBlocks[r] > 0
  <1>1. ASSUME NEW r \in Requests PROVE BlocksFor(PromptLen[r]) \in Nat \ {0}
    <2>1. PromptLen[r] \in Nat \ {0} /\ PromptLen[r] \in Nat /\ PromptLen[r] <= PromptLen[r]
      BY DecodingAssumption
    <2> QED BY <2>1, BlocksForFacts
  <1> QED BY <1>1 DEF PromptBlocks

LEMMA BlocksType ==
  ASSUME outputLen \in [Requests -> Nat]
  PROVE  /\ Blocks \in [Requests -> Nat]
         /\ \A r \in Requests : Blocks[r] > 0 /\ PromptBlocks[r] <= Blocks[r]
  <1>1. ASSUME NEW r \in Requests
        PROVE  /\ BlocksFor(PromptLen[r] + outputLen[r]) \in Nat
               /\ BlocksFor(PromptLen[r]) \in Nat \ {0}
               /\ BlocksFor(PromptLen[r]) <= BlocksFor(PromptLen[r] + outputLen[r])
    <2>1. /\ PromptLen[r] \in Nat \ {0} /\ PromptLen[r] + outputLen[r] \in Nat
          /\ PromptLen[r] <= PromptLen[r] + outputLen[r]
      BY DecodingAssumption
    <2> QED BY <2>1, BlocksForFacts
  <1> QED BY <1>1 DEF PromptBlocks, Blocks

LEMMA BlocksGrow ==
  ASSUME outputLen \in [Requests -> Nat], outputLen' \in [Requests -> Nat],
         \A r \in Requests : outputLen[r] <= outputLen'[r]
  PROVE  /\ Blocks' \in [Requests -> Nat]
         /\ \A r \in Requests : Blocks[r] <= Blocks'[r]
         /\ \A r \in Requests : outputLen'[r] = outputLen[r] => Blocks'[r] = Blocks[r]
  <1>1. ASSUME NEW r \in Requests
        PROVE  /\ BlocksFor(PromptLen[r] + outputLen'[r]) \in Nat
               /\ BlocksFor(PromptLen[r] + outputLen[r]) <= BlocksFor(PromptLen[r] + outputLen'[r])
    <2>1. /\ PromptLen[r] + outputLen[r] \in Nat \ {0} /\ PromptLen[r] + outputLen'[r] \in Nat
          /\ PromptLen[r] + outputLen[r] <= PromptLen[r] + outputLen'[r]
      BY DecodingAssumption
    <2> QED BY <2>1, BlocksForFacts
  <1> QED BY <1>1 DEF Blocks, BlocksFor

(***************************************************************************)
(* The queues of a step.                                                   *)
(***************************************************************************)
LEMMA ReversedFacts ==
  ASSUME NEW S, NEW s \in Seq(S), Distinct(s)
  PROVE  /\ Reversed(s) \in Seq(S) /\ Len(Reversed(s)) = Len(s)
         /\ Distinct(Reversed(s)) /\ Range(Reversed(s)) = Range(s)
  <1> DEFINE t == Reversed(s)
             n == Len(s)
  <1>1. n \in Nat /\ DOMAIN s = 1 .. n /\ \A i \in 1 .. n : n + 1 - i \in 1 .. n /\ s[n + 1 - i] \in S
    OBVIOUS
  <1>2. t = [i \in 1 .. n |-> s[n + 1 - i]]
    BY <1>1 DEF Reversed
  <1> HIDE DEF t, n
  <1>3. DOMAIN t = 1 .. n /\ \A i \in 1 .. n : t[i] = s[n + 1 - i]
    BY <1>2
  <1>4. t \in Seq(S) /\ Len(t) = n
    BY <1>1, <1>2
  <1>5. Distinct(t)
    <2>1. SUFFICES ASSUME NEW i \in DOMAIN t, NEW j \in DOMAIN t, t[i] = t[j] PROVE i = j
      BY DEF Distinct
    <2>2. /\ i \in Int /\ j \in Int
          /\ n + 1 - i \in DOMAIN s /\ n + 1 - j \in DOMAIN s /\ s[n + 1 - i] = s[n + 1 - j]
      BY <1>1, <1>3, <2>1
    <2>3. n + 1 - i = n + 1 - j
      BY <2>2 DEF Distinct
    <2> QED BY <1>1, <2>2, <2>3
  <1>6. Range(t) \subseteq Range(s)
    BY <1>1, <1>3 DEF Range
  <1>7. Range(s) \subseteq Range(t)
    <2>1. SUFFICES ASSUME NEW i \in DOMAIN s PROVE s[i] \in Range(t)
      BY Zenon DEF Range
    <2>2. n + 1 - i \in DOMAIN t /\ n + 1 - (n + 1 - i) = i
      BY <1>1, <1>3
    <2>3. t[n + 1 - i] = s[i]
      BY <1>3, <2>2
    <2> QED BY <2>2, <2>3 DEF Range
  <1> QED BY <1>4, <1>5, <1>6, <1>7 DEF t, n

(* The index of the batch that comes next, without the modulus. *)
LEMMA NextIndexValue ==
  ASSUME curIndex \in Stages \cup {-1}
  PROVE  /\ NextIndex \in Stages
         /\ NextIndex = IF curIndex = PipelineSize - 1 THEN 0 ELSE curIndex + 1
         /\ LastStageBatch = NextIndex
  <1>1. PipelineSize \in Nat \ {0} /\ curIndex \in Int /\ -1 <= curIndex /\ curIndex <= PipelineSize - 1
    BY DecodingAssumption DEF Stages
  <1>2. CASE curIndex = PipelineSize - 1
    <2>1. (curIndex + 1) % PipelineSize = 0
      <3>1. PipelineSize % PipelineSize = 0
        BY <1>1
      <3>2. curIndex + 1 = PipelineSize
        BY <1>1, <1>2
      <3> QED BY <3>1, <3>2
    <2> QED BY <1>1, <1>2, <2>1 DEF NextIndex, LastStageBatch, Stages
  <1>3. CASE curIndex # PipelineSize - 1
    <2>1. curIndex + 1 \in 0 .. PipelineSize - 1
      BY <1>1, <1>3
    <2>2. (curIndex + 1) % PipelineSize = curIndex + 1
      BY <1>1, <2>1
    <2> QED BY <1>1, <1>3, <2>1, <2>2 DEF NextIndex, LastStageBatch, Stages
  <1> QED BY <1>2, <1>3

(***************************************************************************)
(* The inductive invariant.                                                *)
(***************************************************************************)
BatchesApart(queues) ==
  \A i, j \in Stages : i # j => Range(queues[i]) \cap Range(queues[j]) = {}

FiveApart(A, B, C, D, E) ==
  /\ A \cap (B \cup C \cup D \cup E) = {}
  /\ B \cap (C \cup D \cup E) = {}
  /\ C \cap (D \cup E) = {}
  /\ D \cap E = {}

(* A request that arrived and is not finished is in one queue, once. *)
OnePlace ==
  /\ Distinct(unacceptedQueue) /\ Distinct(waitingQueue) /\ Distinct(swappedQueue)
  /\ \A i \in Stages : Distinct(batchQueues[i])
  /\ BatchesApart(batchQueues)
  /\ FiveApart(Range(unacceptedQueue), Range(waitingQueue), Range(swappedQueue), migrating,
               InBatches(batchQueues))
  /\ Range(unacceptedQueue) \cup Range(waitingQueue) \cup Range(swappedQueue) \cup migrating
       \cup InBatches(batchQueues) = arrived \ finished
  /\ \A r, q \in migrating : r = q
  /\ pc = "migrate" <=> migrating # {}

(* The blocks requests have against those they need: a waiting request has *)
(* those of its prompt, and only the batch that comes next, unless it is   *)
(* in flight, can have too few.                                            *)
HeldFacts ==
  /\ \A r \in Range(waitingQueue) \cup migrating : held[r] = PromptBlocks[r]
  /\ \A r \in Requests : held[r] <= Blocks[r]
  /\ \A i \in Stages : i # NextIndex \/ i \in Range(pipeline) =>
       \A r \in Range(batchQueues[i]) : Blocks[r] <= held[r]
  /\ Total(held, On("GPU")) <= MaxNumGpuBlocks

(* The batches in flight were scheduled one after the other: the i-th of n *)
(* has the index n - i before curIndex, counted round.                     *)
OneAfterTheOther(p, index) ==
  \A i \in 1 .. Len(p) :
    \/ p[i] = Empty
    \/ p[i] \in Stages /\ (p[i] = index - (Len(p) - i) \/ p[i] = index - (Len(p) - i) + PipelineSize)

LoopPlace ==
  /\ OneAfterTheOther(pipeline, curIndex)
  /\ curIndex = -1 => pipeline = <<>>
  /\ pc \in {"ready", "post", "migrate"} => Len(pipeline) < PipelineSize
  /\ pc = "sleep" => pipeline # <<>>
  /\ pc = "await" => Len(pipeline) = PipelineSize /\ Head(pipeline) # Empty

IInv == TypeOK /\ OnePlace /\ TablesFollowQueues /\ HeldFacts /\ LoopPlace

(***************************************************************************)
(* The pipeline.                                                           *)
(***************************************************************************)
LEMMA PushInOrder ==
  ASSUME curIndex \in Stages \cup {-1}, curIndex = -1 => pipeline = <<>>,
         pipeline \in Seq(Stages \cup {Empty}), Len(pipeline) < PipelineSize,
         OneAfterTheOther(pipeline, curIndex)
  PROVE  \A x \in {Empty, NextIndex} : OneAfterTheOther(Append(pipeline, x), NextIndex)
  <1> TAKE x \in {Empty, NextIndex}
  <1> DEFINE n == Len(pipeline)
             q == Append(pipeline, x)
  <1>1. /\ PipelineSize \in Nat \ {0} /\ n \in Nat /\ curIndex \in Int
        /\ -1 <= curIndex /\ curIndex <= PipelineSize - 1 /\ n < PipelineSize
    BY DecodingAssumption DEF Stages
  <1>2. /\ NextIndex \in Stages
        /\ NextIndex = IF curIndex = PipelineSize - 1 THEN 0 ELSE curIndex + 1
    BY NextIndexValue
  <1>3. Len(q) = n + 1 /\ (\A i \in 1 .. n : q[i] = pipeline[i]) /\ q[n + 1] = x
    OBVIOUS
  <1> HIDE DEF q
  <1>4. SUFFICES ASSUME NEW i \in 1 .. n + 1, q[i] # Empty
                 PROVE  /\ q[i] \in Stages
                        /\ \/ q[i] = NextIndex - (n + 1 - i)
                           \/ q[i] = NextIndex - (n + 1 - i) + PipelineSize
    BY <1>3 DEF OneAfterTheOther, q
  <1>5. CASE i = n + 1
    <2>1. q[i] = NextIndex /\ NextIndex \in Int
      BY <1>2, <1>3, <1>4, <1>5 DEF Stages
    <2> QED BY <1>1, <1>2, <1>5, <2>1
  <1>6. CASE i # n + 1
    <2>1. i \in 1 .. n
      BY <1>1, <1>6
    <2>2. /\ q[i] \in Stages
          /\ q[i] = curIndex - (n - i) \/ q[i] = curIndex - (n - i) + PipelineSize
      BY <1>3, <1>4, <2>1 DEF OneAfterTheOther
    <2>3. q[i] \in Int /\ q[i] <= PipelineSize - 1
      BY <1>1, <2>2 DEF Stages
    <2>4. CASE curIndex = PipelineSize - 1
      <3>1. q[i] = curIndex - (n - i)
        BY <1>1, <2>1, <2>2, <2>3, <2>4
      <3>2. NextIndex = 0
        BY <1>2, <2>4
      <3>3. q[i] = NextIndex - (n + 1 - i) + PipelineSize
        BY <1>1, <2>1, <2>4, <3>1, <3>2
      <3> QED BY <2>2, <3>3
    <2>5. CASE curIndex # PipelineSize - 1
      BY <1>1, <1>2, <2>1, <2>2, <2>5
    <2> QED BY <2>4, <2>5
  <1> QED BY <1>5, <1>6

LEMMA PopInOrder ==
  ASSUME NEW p \in Seq(Stages \cup {Empty}), p # <<>>, NEW index \in Int, OneAfterTheOther(p, index)
  PROVE  /\ Tail(p) \in Seq(Stages \cup {Empty}) /\ Len(Tail(p)) = Len(p) - 1
         /\ OneAfterTheOther(Tail(p), index)
         /\ Range(Tail(p)) \subseteq Range(p)
  <1>1. /\ Tail(p) \in Seq(Stages \cup {Empty}) /\ Len(Tail(p)) = Len(p) - 1
        /\ \A i \in 1 .. Len(Tail(p)) : Tail(p)[i] = p[i + 1]
        /\ Len(p) \in Nat \ {0}
    BY HeadTailProperties
  <1> DEFINE t == Tail(p)
  <1> HIDE DEF t
  <1>2. SUFFICES ASSUME NEW i \in 1 .. Len(t), t[i] # Empty
                 PROVE  /\ t[i] \in Stages
                        /\ \/ t[i] = index - (Len(t) - i)
                           \/ t[i] = index - (Len(t) - i) + PipelineSize
    BY <1>1, HeadAndTail DEF OneAfterTheOther, t
  <1>3. Len(t) = Len(p) - 1 /\ t[i] = p[i + 1] /\ Len(p) \in Int /\ i + 1 \in 1 .. Len(p)
    BY <1>1 DEF t
  <1>4. /\ t[i] \in Stages
        /\ \/ t[i] = index - (Len(p) - (i + 1))
           \/ t[i] = index - (Len(p) - (i + 1)) + PipelineSize
    BY <1>2, <1>3 DEF OneAfterTheOther
  <1>5. Len(p) - (i + 1) = Len(t) - i
    BY <1>3
  <1> QED BY <1>4, <1>5

(* A pipeline that is not full holds no batch of the index that is next. *)
LEMMA NextNotInFlight ==
  ASSUME curIndex \in Stages \cup {-1}, NEW p \in Seq(Stages \cup {Empty}),
         curIndex = -1 => p = <<>>, Len(p) < PipelineSize, OneAfterTheOther(p, curIndex)
  PROVE  NextIndex \notin Range(p)
  <1>1. /\ PipelineSize \in Nat \ {0} /\ Len(p) \in Nat /\ curIndex \in Int
        /\ -1 <= curIndex /\ curIndex <= PipelineSize - 1 /\ Len(p) < PipelineSize
    BY DecodingAssumption DEF Stages
  <1>2. /\ NextIndex \in 0 .. PipelineSize - 1
        /\ NextIndex = IF curIndex = PipelineSize - 1 THEN 0 ELSE curIndex + 1
    BY NextIndexValue DEF Stages
  <1>3. SUFFICES ASSUME NEW i \in 1 .. Len(p), p[i] = NextIndex PROVE FALSE
    BY DEF Range
  <1>4. NextIndex # Empty
    BY <1>1, <1>2 DEF Empty
  <1>5. NextIndex = curIndex - (Len(p) - i) \/ NextIndex = curIndex - (Len(p) - i) + PipelineSize
    BY <1>3, <1>4 DEF OneAfterTheOther
  <1> QED BY <1>1, <1>2, <1>3, <1>5

(* The oldest batch of a full pipeline has the index that is next. *)
LEMMA OldestIsNext ==
  ASSUME curIndex \in Stages \cup {-1}, NEW p \in Seq(Stages \cup {Empty}),
         curIndex = -1 => p = <<>>, Len(p) = PipelineSize, OneAfterTheOther(p, curIndex),
         Head(p) # Empty
  PROVE  Head(p) = NextIndex /\ NextIndex \notin Range(Tail(p))
  <1>1. /\ PipelineSize \in Nat \ {0} /\ curIndex \in Int
        /\ -1 <= curIndex /\ curIndex <= PipelineSize - 1 /\ p # <<>>
    BY DecodingAssumption DEF Stages
  <1>2. /\ NextIndex \in 0 .. PipelineSize - 1
        /\ NextIndex = IF curIndex = PipelineSize - 1 THEN 0 ELSE curIndex + 1
    BY NextIndexValue DEF Stages
  <1>3. Head(p) = p[1] /\ 1 \in 1 .. Len(p)
    BY <1>1
  <1>4. /\ p[1] \in 0 .. PipelineSize - 1
        /\ p[1] = curIndex - (PipelineSize - 1) \/ p[1] = curIndex - (PipelineSize - 1) + PipelineSize
    BY <1>3 DEF OneAfterTheOther, Stages
  <1>5. Head(p) = NextIndex
    BY <1>1, <1>2, <1>3, <1>4
  <1>6. Tail(p) \in Seq(Stages \cup {Empty}) /\ Len(Tail(p)) < PipelineSize
        /\ OneAfterTheOther(Tail(p), curIndex)
    BY <1>1, PopInOrder
  <1>7. curIndex # -1
    BY <1>1
  <1> QED BY <1>5, <1>6, <1>7, NextNotInFlight

LEMMA SettleFacts ==
  ASSUME NEW p \in Seq(Stages \cup {Empty}), Len(p) \in 1 .. PipelineSize, NEW index \in Int,
         OneAfterTheOther(p, index), Settle(p)
  PROVE  /\ pipeline' \in Seq(Stages \cup {Empty}) /\ Len(pipeline') <= PipelineSize
         /\ OneAfterTheOther(pipeline', index)
         /\ Range(pipeline') \subseteq Range(p)
         /\ pc' \in {"post", "await"}
         /\ pc' = "post" => Len(pipeline') < PipelineSize
         /\ pc' = "await" => Len(pipeline') = PipelineSize /\ Head(pipeline') # Empty
  <1>1. p # <<>> /\ Len(p) \in Nat /\ PipelineSize \in Nat
    BY DecodingAssumption
  <1>2. CASE Len(p) = PipelineSize /\ Head(p) = Empty
    <2>1. pipeline' = Tail(p) /\ pc' = "post"
      BY <1>2 DEF Settle
    <2>2. /\ Tail(p) \in Seq(Stages \cup {Empty}) /\ Len(Tail(p)) = Len(p) - 1
          /\ OneAfterTheOther(Tail(p), index) /\ Range(Tail(p)) \subseteq Range(p)
      BY <1>1, PopInOrder
    <2>3. Len(Tail(p)) < PipelineSize
      BY <1>1, <1>2, <2>2
    <2> QED BY <1>1, <2>1, <2>2, <2>3
  <1>3. CASE Len(p) = PipelineSize /\ Head(p) # Empty
    BY <1>1, <1>3 DEF Settle
  <1>4. CASE Len(p) # PipelineSize
    BY <1>1, <1>4 DEF Settle
  <1> QED BY <1>2, <1>3, <1>4

(***************************************************************************)
(* The batches.                                                            *)
(***************************************************************************)
LEMMA BatchTypes ==
  ASSUME NEW queues \in [Stages -> Seq(Requests)]
  PROVE  /\ \A i \in Stages : Range(queues[i]) \subseteq Requests
         /\ \A i \in Stages : Range(queues[i]) \subseteq InBatches(queues)
         /\ InBatches(queues) \subseteq Requests
         /\ \A r \in InBatches(queues) : \E i \in Stages : r \in Range(queues[i])
  <1>1. \A i \in Stages : Range(queues[i]) \subseteq Requests
    <2>1. SUFFICES ASSUME NEW i \in Stages PROVE Range(queues[i]) \subseteq Requests
      OBVIOUS
    <2>2. queues[i] \in Seq(Requests)
      OBVIOUS
    <2> QED BY <2>2, RangeOfSeq
  <1>2. InBatches(queues) = UNION {Range(queues[i]) : i \in Stages}
    BY DEF InBatches
  <1> QED BY <1>1, <1>2

LEMMA BatchReplaced ==
  ASSUME NEW queues \in [Stages -> Seq(Requests)], BatchesApart(queues), NEW n \in Stages,
         NEW batch \in Seq(Requests)
  PROVE  LET new == [queues EXCEPT ![n] = batch] IN
         /\ new \in [Stages -> Seq(Requests)] /\ new[n] = batch
         /\ \A i \in Stages : i # n => new[i] = queues[i]
         /\ InBatches(new) = (InBatches(queues) \ Range(queues[n])) \cup Range(batch)
         /\ Range(batch) \cap (InBatches(queues) \ Range(queues[n])) = {} => BatchesApart(new)
  <1> DEFINE new == [queues EXCEPT ![n] = batch]
  <1>1. /\ new \in [Stages -> Seq(Requests)] /\ new[n] = batch
        /\ \A i \in Stages : i # n => new[i] = queues[i]
    OBVIOUS
  <1> HIDE DEF new
  <1>2. /\ InBatches(new) = UNION {Range(new[i]) : i \in Stages}
        /\ InBatches(queues) = UNION {Range(queues[i]) : i \in Stages}
    BY <1>1 DEF InBatches
  <1>3. \A i \in Stages : i # n => Range(new[i]) \cap Range(queues[n]) = {}
    BY <1>1 DEF BatchesApart
  <1>4. InBatches(new) \subseteq (InBatches(queues) \ Range(queues[n])) \cup Range(batch)
    <2>1. SUFFICES ASSUME NEW i \in Stages, NEW r \in Range(new[i])
                   PROVE  r \in (InBatches(queues) \ Range(queues[n])) \cup Range(batch)
      BY <1>2
    <2>2. CASE i = n
      BY <1>1, <2>1, <2>2
    <2>3. CASE i # n
      <3>1. r \in Range(queues[i])
        BY <1>1, <2>1, <2>3
      <3> QED BY <1>2, <1>3, <2>1, <2>3, <3>1
    <2> QED BY <2>2, <2>3
  <1>5. (InBatches(queues) \ Range(queues[n])) \cup Range(batch) \subseteq InBatches(new)
    <2>1. Range(batch) \subseteq InBatches(new)
      BY <1>1, <1>2
    <2>2. SUFFICES ASSUME NEW i \in Stages, NEW r \in Range(queues[i]), r \notin Range(queues[n])
                   PROVE  r \in InBatches(new)
      BY <1>2, <2>1
    <2>3. i # n
      BY <2>2
    <2>4. r \in Range(new[i])
      BY <1>1, <2>2, <2>3
    <2> QED BY <1>2, <2>4
  <1>6. ASSUME Range(batch) \cap (InBatches(queues) \ Range(queues[n])) = {}
        PROVE  BatchesApart(new)
    <2>1. \A i \in Stages : i # n => Range(new[i]) \cap Range(batch) = {}
      <3>1. SUFFICES ASSUME NEW i \in Stages, i # n PROVE Range(new[i]) \cap Range(batch) = {}
        OBVIOUS
      <3>2. Range(new[i]) = Range(queues[i]) /\ Range(new[i]) \cap Range(queues[n]) = {}
        BY <1>1, <1>3, <3>1
      <3>3. Range(queues[i]) \subseteq InBatches(queues)
        BY <1>2
      <3> QED BY <1>6, <3>2, <3>3
    <2>2. SUFFICES ASSUME NEW i \in Stages, NEW j \in Stages, i # j
                   PROVE  Range(new[i]) \cap Range(new[j]) = {}
      BY DEF BatchesApart
    <2>3. CASE i = n
      BY <1>1, <2>1, <2>2, <2>3
    <2>4. CASE j = n
      BY <1>1, <2>1, <2>2, <2>4
    <2>5. CASE i # n /\ j # n
      BY <1>1, <2>2, <2>5 DEF BatchesApart
    <2> QED BY <2>3, <2>4, <2>5
  <1>7. InBatches(new) = (InBatches(queues) \ Range(queues[n])) \cup Range(batch)
    BY <1>4, <1>5
  <1> QED BY <1>1, <1>6, <1>7 DEF new

(***************************************************************************)
(* Every step keeps the invariant.                                         *)
(***************************************************************************)
LEMMA InitIInv == Init => IInv
  <1> SUFFICES ASSUME Init PROVE IInv
    OBVIOUS
  <1> USE DecodingAssumption DEF Init
  <1>1. /\ Range(unacceptedQueue) = {} /\ Range(waitingQueue) = {} /\ Range(swappedQueue) = {}
        /\ \A i \in Stages : Range(batchQueues[i]) = {}
    BY DEF Range
  <1>2. InBatches(batchQueues) = {}
    BY <1>1 DEF InBatches
  <1>3. TypeOK
    BY DEF TypeOK
  <1>4. OnePlace
    BY <1>1, <1>2 DEF OnePlace, Distinct, BatchesApart, FiveApart
  <1>5. TablesFollowQueues
    <2>1. SUFFICES ASSUME NEW r \in Requests
                   PROVE  /\ where[r] = "CPU" <=> r \in Range(swappedQueue)
                          /\ where[r] = "GPU" <=> r \in Range(waitingQueue) \cup migrating
                                                         \cup InBatches(batchQueues)
                          /\ held[r] > 0 <=> where[r] # "none"
      BY Zenon DEF TablesFollowQueues
    <2>2. where[r] = "none" /\ held[r] = 0 /\ migrating = {}
      OBVIOUS
    <2> HIDE DEF Init
    <2> QED BY <1>1, <1>2, <2>2
  <1>6. HeldFacts
    <2>1. On("GPU") = {}
      BY DEF On
    <2>2. Total(held, On("GPU")) = 0
      BY <2>1, TotalEmpty
    <2>3. \A r \in Requests : held[r] <= Blocks[r]
      <3>1. Blocks \in [Requests -> Nat]
        BY BlocksType
      <3> QED BY <3>1
    <2> QED BY <1>1, <2>2, <2>3 DEF HeldFacts
  <1>7. LoopPlace
    BY DEF LoopPlace, OneAfterTheOther
  <1> QED BY <1>3, <1>4, <1>5, <1>6, <1>7 DEF IInv

LEMMA AddRequestIInv ==
  ASSUME IInv, NEW r \in Requests, AddRequest(r)
  PROVE  IInv'
  <1> USE DEF IInv
  <1>1. /\ r \notin arrived /\ arrived' = arrived \cup {r}
        /\ unacceptedQueue' = Append(unacceptedQueue, r)
        /\ UNCHANGED <<waitingQueue, swappedQueue, batchQueues, curIndex, pipeline, migrating,
                       held, where, pc, outputLen, finished>>
    BY DEF AddRequest, blockVars
  <1>2. unacceptedQueue \in Seq(Requests) /\ finished \subseteq arrived
    BY DEF TypeOK
  <1>3. r \notin arrived \ finished /\ r \notin finished
    BY <1>1, <1>2
  <1>4. Range(unacceptedQueue') = Range(unacceptedQueue) \cup {r}
    BY <1>1, <1>2, AppendRange
  <1>5. Distinct(unacceptedQueue')
    BY <1>1, <1>2, <1>3, AppendDistinct DEF OnePlace
  <1>6. TypeOK'
    BY <1>1, <1>2 DEF TypeOK
  <1>7. OnePlace'
    <2>1. InBatches(batchQueues)' = InBatches(batchQueues)
      BY <1>1
    <2>2. /\ Range(unacceptedQueue') \cup Range(waitingQueue) \cup Range(swappedQueue) \cup migrating
              \cup InBatches(batchQueues) = (arrived \ finished) \cup {r}
          /\ (arrived \ finished) \cup {r} = arrived' \ finished
      BY <1>1, <1>3, <1>4 DEF OnePlace
    <2>3. FiveApart(Range(unacceptedQueue'), Range(waitingQueue), Range(swappedQueue), migrating,
                    InBatches(batchQueues))
      BY <1>3, <1>4 DEF OnePlace, FiveApart
    <2> QED BY <1>1, <1>5, <2>1, <2>2, <2>3 DEF OnePlace, BatchesApart
  <1>8. TablesFollowQueues' /\ LoopPlace'
    BY <1>1 DEF TablesFollowQueues, LoopPlace
  <1>9. HeldFacts'
    BY <1>1 DEF HeldFacts, Blocks, NextIndex, On
  <1> QED BY <1>6, <1>7, <1>8, <1>9

(* A step that only moves the loop on. *)
LEMMA LoopStep ==
  ASSUME IInv, UNCHANGED <<queueVars, migrating, blockVars, requestVars>>,
         pipeline' \in Seq(Stages \cup {Empty}), Len(pipeline') <= PipelineSize,
         Range(pipeline') \subseteq Range(pipeline),
         pc # "migrate", pc' \in {"ready", "await", "post", "failed"}, LoopPlace'
  PROVE  IInv'
  <1> USE DEF IInv, queueVars, blockVars, requestVars
  <1>1. TypeOK'
    BY DEF TypeOK
  <1>2. OnePlace' /\ TablesFollowQueues'
    BY DEF OnePlace, TablesFollowQueues
  <1>3. HeldFacts'
    <2>1. /\ UNCHANGED <<waitingQueue, migrating, held, where, outputLen, curIndex, batchQueues>>
          /\ \A i \in Stages : i \in Range(pipeline') => i \in Range(pipeline)
      OBVIOUS
    <2>2. Blocks' = Blocks /\ NextIndex' = NextIndex /\ On("GPU")' = On("GPU")
      BY <2>1 DEF Blocks, NextIndex, On
    <2> QED BY <2>1, <2>2 DEF HeldFacts
  <1> QED BY <1>1, <1>2, <1>3

LEMMA SwapOutFailsIInv ==
  ASSUME IInv, SwapOutFails
  PROVE  IInv'
  <1>1. /\ pc = "ready" /\ pc' = "failed"
        /\ UNCHANGED <<queueVars, pipeline, migrating, blockVars, requestVars>>
    BY DEF SwapOutFails
  <1>2. LoopPlace'
    BY <1>1 DEF IInv, LoopPlace, queueVars
  <1> QED BY <1>1, <1>2, LoopStep DEF IInv, TypeOK

LEMMA EndStepIInv ==
  ASSUME IInv, EndStep
  PROVE  IInv'
  <1>1. /\ pc = "post" /\ pc' = "ready"
        /\ UNCHANGED <<queueVars, pipeline, migrating, blockVars, requestVars>>
    BY DEF EndStep
  <1>2. LoopPlace'
    BY <1>1 DEF IInv, LoopPlace, queueVars
  <1> QED BY <1>1, <1>2, LoopStep DEF IInv, TypeOK

LEMMA WakeUpIInv ==
  ASSUME IInv, WakeUp
  PROVE  IInv'
  <1>1. /\ pc = "sleep" /\ Settle(pipeline)
        /\ UNCHANGED <<queueVars, migrating, blockVars, requestVars>>
    BY DEF WakeUp
  <1>2. /\ pipeline \in Seq(Stages \cup {Empty}) /\ Len(pipeline) \in 1 .. PipelineSize
        /\ curIndex \in Int /\ OneAfterTheOther(pipeline, curIndex)
    BY <1>1, DecodingAssumption DEF IInv, TypeOK, LoopPlace, Stages
  <1>3. /\ pipeline' \in Seq(Stages \cup {Empty}) /\ Len(pipeline') <= PipelineSize
        /\ OneAfterTheOther(pipeline', curIndex)
        /\ Range(pipeline') \subseteq Range(pipeline)
        /\ pc' \in {"post", "await"}
        /\ pc' = "post" => Len(pipeline') < PipelineSize
        /\ pc' = "await" => Len(pipeline') = PipelineSize /\ Head(pipeline') # Empty
    BY <1>1, <1>2, SettleFacts
  <1>4. curIndex' = curIndex /\ curIndex # -1
    <2>1. pipeline # <<>>
      BY <1>2
    <2> QED BY <1>1, <2>1 DEF IInv, LoopPlace, queueVars
  <1>5. LoopPlace'
    BY <1>3, <1>4 DEF LoopPlace, OneAfterTheOther
  <1> QED BY <1>1, <1>3, <1>5, LoopStep

LEMMA BeginMigrationIInv ==
  ASSUME IInv, BeginMigration
  PROVE  IInv'
  <1> USE DEF IInv
  <1>1. PICK r : r = Head(unacceptedQueue)
    OBVIOUS
  <1>2. /\ pc = "post" /\ unacceptedQueue # <<>> /\ PromptBlocks[r] <= AvailGpu
        /\ migrating' = {r} /\ held' = [held EXCEPT ![r] = PromptBlocks[r]]
        /\ where' = [where EXCEPT ![r] = "GPU"]
        /\ unacceptedQueue' = Tail(unacceptedQueue) /\ pc' = "migrate"
        /\ UNCHANGED <<waitingQueue, swappedQueue, batchQueues, curIndex, pipeline,
                       outputLen, arrived, finished>>
    BY <1>1 DEF BeginMigration, ShouldAccept, requestVars
  <1>3. /\ unacceptedQueue \in Seq(Requests) /\ migrating = {}
        /\ held \in [Requests -> Nat] /\ where \in [Requests -> {"none", "GPU", "CPU"}]
        /\ outputLen \in [Requests -> Nat]
    BY <1>2 DEF TypeOK, OnePlace
  <1>4. /\ r \in Range(unacceptedQueue) /\ unacceptedQueue' \in Seq(Requests)
        /\ Range(unacceptedQueue) = {r} \cup Range(unacceptedQueue')
        /\ Distinct(unacceptedQueue') /\ r \notin Range(unacceptedQueue')
    BY <1>1, <1>2, <1>3, HeadAndTail DEF OnePlace
  <1>5. r \in Requests
    BY <1>3, <1>4, RangeOfSeq
  <1>6. /\ r \notin Range(waitingQueue) /\ r \notin Range(swappedQueue)
        /\ r \notin InBatches(batchQueues)
    BY <1>4 DEF OnePlace, FiveApart
  <1>7. PromptBlocks \in [Requests -> Nat] /\ PromptBlocks[r] > 0
    BY <1>5, PromptBlocksType
  <1>8. TypeOK'
    BY <1>2, <1>3, <1>4, <1>5, <1>7 DEF TypeOK
  <1>9. OnePlace'
    <2>1. InBatches(batchQueues)' = InBatches(batchQueues)
      BY <1>2
    <2>2. Range(unacceptedQueue') \cup Range(waitingQueue) \cup Range(swappedQueue) \cup migrating'
              \cup InBatches(batchQueues) = arrived \ finished
      BY <1>2, <1>3, <1>4 DEF OnePlace
    <2>3. FiveApart(Range(unacceptedQueue'), Range(waitingQueue), Range(swappedQueue), migrating',
                    InBatches(batchQueues))
      BY <1>2, <1>4, <1>6 DEF OnePlace, FiveApart
    <2> QED BY <1>2, <1>4, <2>1, <2>2, <2>3 DEF OnePlace, BatchesApart
  <1>10. TablesFollowQueues'
    <2>1. InBatches(batchQueues)' = InBatches(batchQueues)
      BY <1>2
    <2>2. \A q \in Requests : q # r => where'[q] = where[q] /\ held'[q] = held[q]
      BY <1>2, <1>3
    <2>3. where'[r] = "GPU" /\ held'[r] = PromptBlocks[r]
      BY <1>2, <1>3, <1>5
    <2> QED BY <1>2, <1>3, <1>6, <1>7, <2>1, <2>2, <2>3 DEF TablesFollowQueues
  <1>11. HeldFacts'
    <2>1. Blocks' = Blocks /\ NextIndex' = NextIndex /\ PromptBlocks \in [Requests -> Nat]
      BY <1>2, <1>7 DEF Blocks, NextIndex
    <2>2. \A q \in Requests : q # r => held'[q] = held[q]
      BY <1>2, <1>3
    <2>3. held'[r] = PromptBlocks[r] /\ PromptBlocks[r] <= Blocks[r]
      BY <1>2, <1>3, <1>5, BlocksType
    <2>4. \A q \in Range(waitingQueue)' \cup migrating' : held'[q] = PromptBlocks[q]
      <3>1. Range(waitingQueue) \subseteq Requests
        BY RangeOfSeq DEF TypeOK
      <3> QED BY <1>2, <1>6, <2>2, <2>3, <3>1 DEF HeldFacts
    <2>5. \A q \in Requests : held'[q] <= Blocks'[q]
      BY <2>1, <2>2, <2>3 DEF HeldFacts
    <2>6. \A i \in Stages : i # NextIndex' \/ i \in Range(pipeline') =>
            \A q \in Range(batchQueues'[i]) : Blocks'[q] <= held'[q]
      <3>1. SUFFICES ASSUME NEW i \in Stages, i # NextIndex \/ i \in Range(pipeline),
                            NEW q \in Range(batchQueues[i])
                     PROVE  Blocks[q] <= held'[q]
        BY <1>2, <2>1
      <3>2. q \in InBatches(batchQueues) /\ q \in Requests
        BY <3>1, BatchTypes DEF TypeOK
      <3>3. Blocks[q] <= held[q]
        BY <3>1 DEF HeldFacts
      <3> QED BY <1>6, <2>2, <3>2, <3>3
    <2>7. Total(held', On("GPU")') <= MaxNumGpuBlocks
      <3>1. where[r] # "GPU"
        BY <1>3, <1>5, <1>6 DEF TablesFollowQueues
      <3>2. On("GPU")' = On("GPU") \cup {r} /\ r \notin On("GPU") /\ On("GPU") \subseteq Requests
        BY <1>2, <1>3, <1>5, <3>1 DEF On
      <3>3. held' \in [Requests -> Nat] /\ IsFiniteSet(Requests)
        BY <1>8, DecodingAssumption DEF TypeOK
      <3>4. Total(held', On("GPU")') = Total(held', On("GPU")) + Total(held', {r})
        BY <1>5, <3>2, <3>3, TotalUnion
      <3>5. Total(held', {r}) = PromptBlocks[r]
        BY <1>5, <2>3, <3>3, TotalSingleton
      <3>6. Total(held', On("GPU")) <= Total(held, On("GPU"))
        <4>1. \A q \in On("GPU") : held'[q] <= held[q]
          <5>1. SUFFICES ASSUME NEW q \in On("GPU") PROVE held'[q] <= held[q]
            OBVIOUS
          <5>2. q \in Requests /\ q # r
            BY <3>2
          <5>3. held'[q] = held[q] /\ held[q] \in Nat
            BY <1>3, <2>2, <5>2
          <5> QED BY <5>3
        <4> QED BY <1>3, <3>2, <3>3, <4>1, TotalMonotone
      <3>7. Total(held', On("GPU")) \in Nat /\ Total(held, On("GPU")) \in Nat
        BY <1>3, <3>2, <3>3, TotalType
      <3>8. PromptBlocks[r] <= MaxNumGpuBlocks - Total(held, On("GPU"))
        BY <1>2 DEF AvailGpu
      <3> QED BY <1>5, <1>7, <3>4, <3>5, <3>6, <3>7, <3>8, DecodingAssumption
    <2> QED BY <2>4, <2>5, <2>6, <2>7 DEF HeldFacts, PromptBlocks
  <1>12. LoopPlace'
    BY <1>2 DEF LoopPlace
  <1> QED BY <1>8, <1>9, <1>10, <1>11, <1>12

LEMMA EndMigrationIInv ==
  ASSUME IInv, EndMigration
  PROVE  IInv'
  <1> USE DEF IInv
  <1>1. PICK r \in migrating : waitingQueue' = Append(waitingQueue, r)
    BY DEF EndMigration
  <1>2. /\ pc = "migrate" /\ pc' = "post" /\ migrating' = {}
        /\ UNCHANGED <<unacceptedQueue, swappedQueue, batchQueues, curIndex, pipeline, held, where,
                       outputLen, arrived, finished>>
    BY DEF EndMigration, blockVars, requestVars
  <1>3. waitingQueue \in Seq(Requests) /\ r \in Requests /\ migrating = {r}
    BY <1>1 DEF TypeOK, OnePlace
  <1>4. r \notin Range(waitingQueue)
    BY <1>1 DEF OnePlace, FiveApart
  <1>5. Range(waitingQueue') = Range(waitingQueue) \cup {r} /\ Distinct(waitingQueue')
    BY <1>1, <1>3, <1>4, AppendRange, AppendDistinct DEF OnePlace
  <1>6. TypeOK'
    BY <1>1, <1>2, <1>3 DEF TypeOK
  <1>7. OnePlace'
    <2>1. InBatches(batchQueues)' = InBatches(batchQueues)
      BY <1>2
    <2>2. Range(unacceptedQueue) \cup Range(waitingQueue') \cup Range(swappedQueue) \cup migrating'
              \cup InBatches(batchQueues) = arrived \ finished
      BY <1>2, <1>3, <1>5 DEF OnePlace
    <2>3. FiveApart(Range(unacceptedQueue), Range(waitingQueue'), Range(swappedQueue), migrating',
                    InBatches(batchQueues))
      BY <1>2, <1>3, <1>5 DEF OnePlace, FiveApart
    <2> QED BY <1>2, <1>5, <2>1, <2>2, <2>3 DEF OnePlace, BatchesApart
  <1>8. TablesFollowQueues'
    <2>1. Range(waitingQueue') \cup migrating' = Range(waitingQueue) \cup migrating
      BY <1>2, <1>3, <1>5
    <2> QED BY <1>2, <2>1 DEF TablesFollowQueues
  <1>9. HeldFacts'
    <2>1. Blocks' = Blocks /\ NextIndex' = NextIndex /\ On("GPU")' = On("GPU")
      BY <1>2 DEF Blocks, NextIndex, On
    <2>2. Range(waitingQueue') \cup migrating' = Range(waitingQueue) \cup migrating
      BY <1>2, <1>3, <1>5
    <2> QED BY <1>2, <2>1, <2>2 DEF HeldFacts
  <1>10. LoopPlace'
    BY <1>2 DEF LoopPlace
  <1> QED BY <1>6, <1>7, <1>8, <1>9, <1>10

LEMMA FinishBatchIInv ==
  ASSUME IInv, FinishBatch
  PROVE  IInv'
  <1> USE DEF IInv
  <1>1. PICK n : n = NextIndex
    OBVIOUS
  <1>2. /\ pc = "await" /\ pc' = "post" /\ pipeline' = Tail(pipeline)
        /\ UNCHANGED <<unacceptedQueue, waitingQueue, swappedQueue, curIndex, migrating, arrived>>
    BY DEF FinishBatch
  <1>3. /\ n \in Stages /\ LastStageBatch = n /\ Head(pipeline) = n /\ n \notin Range(pipeline')
        /\ n \in Range(pipeline) /\ Range(pipeline') \subseteq Range(pipeline)
        /\ pipeline' \in Seq(Stages \cup {Empty}) /\ Len(pipeline') < PipelineSize
        /\ OneAfterTheOther(pipeline', curIndex) /\ curIndex # -1
    <2>1. /\ curIndex \in Stages \cup {-1} /\ pipeline \in Seq(Stages \cup {Empty})
          /\ curIndex = -1 => pipeline = <<>>
          /\ Len(pipeline) = PipelineSize /\ Head(pipeline) # Empty
          /\ OneAfterTheOther(pipeline, curIndex)
      BY <1>2 DEF TypeOK, LoopPlace
    <2>2. PipelineSize \in Nat \ {0} /\ pipeline # <<>> /\ curIndex \in Int
      BY <2>1, DecodingAssumption DEF Stages
    <2>3. Head(pipeline) = NextIndex /\ NextIndex \notin Range(Tail(pipeline))
      BY <2>1, OldestIsNext
    <2>4. NextIndex \in Stages /\ LastStageBatch = NextIndex
      BY <2>1, NextIndexValue
    <2>5. /\ Tail(pipeline) \in Seq(Stages \cup {Empty}) /\ Len(Tail(pipeline)) = Len(pipeline) - 1
          /\ OneAfterTheOther(Tail(pipeline), curIndex)
          /\ Range(Tail(pipeline)) \subseteq Range(pipeline)
      BY <2>1, <2>2, PopInOrder
    <2>6. Head(pipeline) \in Range(pipeline)
      BY <2>1, <2>2, HeadAndTail
    <2>7. Len(Tail(pipeline)) < PipelineSize
      BY <2>1, <2>2, <2>5
    <2> QED BY <1>1, <1>2, <2>1, <2>2, <2>3, <2>4, <2>5, <2>6, <2>7
  <1>4. PICK batch : batch = batchQueues[n]
    OBVIOUS
  <1>5. /\ outputLen' = [r \in Requests |-> outputLen[r] + IF r \in Range(batch) THEN 1 ELSE 0]
        /\ held'  = [r \in Requests |-> IF r \in Freed(batch) THEN 0 ELSE held[r]]
        /\ where' = [r \in Requests |-> IF r \in Freed(batch) THEN "none" ELSE where[r]]
    BY <1>3, <1>4 DEF FinishBatch
  <1>6. PICK done \in SUBSET Range(batch) : finished' = finished \cup done
    BY <1>3, <1>4 DEF FinishBatch
  <1>7. PICK kept \in Subsequences(batch) :
          /\ Range(kept) = Range(batch) \ finished'
          /\ batchQueues' = [batchQueues EXCEPT ![n] = kept]
    BY <1>3, <1>4 DEF FinishBatch
  <1>8. /\ batchQueues \in [Stages -> Seq(Requests)] /\ batch \in Seq(Requests)
        /\ held \in [Requests -> Nat] /\ where \in [Requests -> {"none", "GPU", "CPU"}]
        /\ outputLen \in [Requests -> Nat]
    BY <1>3, <1>4 DEF TypeOK
  <1>9. kept \in Seq(Requests) /\ Distinct(kept)
    BY <1>7, <1>8, SubsequenceFacts
  <1>10. /\ Range(batch) \subseteq InBatches(batchQueues) /\ InBatches(batchQueues) \subseteq Requests
    BY <1>3, <1>4, <1>8, BatchTypes
  <1>11. Range(batch) \subseteq arrived \ finished
    BY <1>10 DEF OnePlace
  <1>12. Freed(batch) = done /\ Range(kept) = Range(batch) \ done
    BY <1>6, <1>7, <1>11 DEF Freed
  <1>13. /\ batchQueues' \in [Stages -> Seq(Requests)] /\ batchQueues'[n] = kept
         /\ \A i \in Stages : i # n => batchQueues'[i] = batchQueues[i]
         /\ InBatches(batchQueues') = (InBatches(batchQueues) \ Range(batch)) \cup Range(kept)
         /\ BatchesApart(batchQueues')
    <2>1. Range(kept) \cap (InBatches(batchQueues) \ Range(batchQueues[n])) = {}
      BY <1>4, <1>12
    <2> QED BY <1>3, <1>4, <1>7, <1>8, <1>9, <2>1, BatchReplaced DEF OnePlace
  <1>14. InBatches(batchQueues') = InBatches(batchQueues) \ done
    BY <1>6, <1>10, <1>12, <1>13
  <1>15. done \cap (Range(waitingQueue) \cup Range(swappedQueue) \cup migrating) = {}
    BY <1>6, <1>10 DEF OnePlace, FiveApart
  <1>16. TypeOK'
    <2>1. outputLen' \in [Requests -> Nat]
      BY <1>5, <1>8
    <2>2. held' \in [Requests -> Nat] /\ where' \in [Requests -> {"none", "GPU", "CPU"}]
      BY <1>5, <1>8
    <2>3. finished' \subseteq arrived
      BY <1>6, <1>11 DEF TypeOK
    <2>4. Len(pipeline') <= PipelineSize
      BY <1>3, DecodingAssumption
    <2> QED BY <1>2, <1>3, <1>13, <2>1, <2>2, <2>3, <2>4 DEF TypeOK
  <1>17. OnePlace'
    <2>1. \A i \in Stages : Distinct(batchQueues'[i])
      <3>1. SUFFICES ASSUME NEW i \in Stages PROVE Distinct(batchQueues'[i])
        OBVIOUS
      <3> QED BY <1>9, <1>13 DEF OnePlace
    <2>2. Range(unacceptedQueue) \cup Range(waitingQueue) \cup Range(swappedQueue) \cup migrating
              \cup InBatches(batchQueues') = arrived \ finished'
      <3>1. done \cap Range(unacceptedQueue) = {}
        BY <1>6, <1>10 DEF OnePlace, FiveApart
      <3> QED BY <1>6, <1>14, <1>15, <3>1 DEF OnePlace
    <2>3. FiveApart(Range(unacceptedQueue), Range(waitingQueue), Range(swappedQueue), migrating,
                    InBatches(batchQueues'))
      BY <1>14 DEF OnePlace, FiveApart
    <2>4. InBatches(batchQueues)' = InBatches(batchQueues')
      OBVIOUS
    <2> QED BY <1>2, <1>13, <2>1, <2>2, <2>3, <2>4 DEF OnePlace, BatchesApart
  <1>18. TablesFollowQueues'
    <2>1. SUFFICES ASSUME NEW r \in Requests
                   PROVE  /\ where'[r] = "CPU" <=> r \in Range(swappedQueue)
                          /\ where'[r] = "GPU" <=> r \in Range(waitingQueue) \cup migrating
                                                          \cup InBatches(batchQueues')
                          /\ held'[r] > 0 <=> where'[r] # "none"
      BY <1>2, Zenon DEF TablesFollowQueues
    <2>2. CASE r \in done
      <3>1. held'[r] = 0 /\ where'[r] = "none"
        BY <1>5, <1>12, <2>2
      <3>2. /\ r \notin Range(swappedQueue) /\ r \notin Range(waitingQueue) \cup migrating
            /\ r \notin InBatches(batchQueues')
        BY <1>14, <1>15, <2>2
      <3> QED BY <3>1, <3>2
    <2>3. CASE r \notin done
      <3>1. held'[r] = held[r] /\ where'[r] = where[r]
        BY <1>5, <1>12, <2>3
      <3>2. r \in InBatches(batchQueues') <=> r \in InBatches(batchQueues)
        BY <1>14, <2>3
      <3> QED BY <3>1, <3>2 DEF TablesFollowQueues
    <2> QED BY <2>2, <2>3
  <1>19. HeldFacts'
    <2>1. /\ \A r \in Requests : outputLen[r] <= outputLen'[r]
          /\ \A r \in Requests : r \notin Range(batch) => outputLen'[r] = outputLen[r]
          /\ outputLen' \in [Requests -> Nat]
      BY <1>5, <1>8
    <2>2. /\ Blocks \in [Requests -> Nat] /\ Blocks' \in [Requests -> Nat]
          /\ \A r \in Requests : Blocks[r] <= Blocks'[r]
          /\ \A r \in Requests : r \notin Range(batch) => Blocks'[r] = Blocks[r]
      BY <1>8, <2>1, BlocksGrow, BlocksType
    <2>3. \A r \in Requests : r \notin done => held'[r] = held[r]
      BY <1>5, <1>12
    <2>4. \A r \in Requests : held'[r] <= held[r] /\ held'[r] \in Nat
      BY <1>5, <1>8
    <2>5. \A r \in Range(waitingQueue) \cup migrating : held'[r] = PromptBlocks[r]
      <3>1. Range(waitingQueue) \cup migrating \subseteq Requests
        BY RangeOfSeq DEF TypeOK
      <3> QED BY <1>15, <2>3, <3>1 DEF HeldFacts
    <2>6. \A r \in Requests : held'[r] <= Blocks'[r]
      <3>1. SUFFICES ASSUME NEW r \in Requests PROVE held'[r] <= Blocks'[r]
        OBVIOUS
      <3>2. /\ held'[r] \in Nat /\ held[r] \in Nat /\ Blocks[r] \in Nat /\ Blocks'[r] \in Nat
            /\ held'[r] <= held[r] /\ held[r] <= Blocks[r] /\ Blocks[r] <= Blocks'[r]
        BY <1>8, <2>2, <2>4 DEF HeldFacts
      <3> QED BY <3>2
    <2>7. ASSUME NEW i \in Stages, i # n \/ i \in Range(pipeline'), NEW r \in Range(batchQueues'[i])
          PROVE  Blocks'[r] <= held'[r]
      <3>1. i # n
        BY <1>3, <2>7
      <3>2. batchQueues'[i] = batchQueues[i] /\ r \in Range(batchQueues[i])
        BY <1>13, <2>7, <3>1
      <3>3. r \notin Range(batch) /\ r \in Requests
        <4>1. Range(batchQueues[i]) \cap Range(batch) = {}
          BY <1>3, <1>4, <3>1 DEF OnePlace, BatchesApart
        <4>2. Range(batchQueues[i]) \subseteq Requests
          BY <1>8, BatchTypes
        <4> QED BY <3>2, <4>1, <4>2
      <3>4. Blocks[r] <= held[r]
        BY <1>1, <3>1, <3>2 DEF HeldFacts
      <3>5. Blocks'[r] = Blocks[r] /\ held'[r] = held[r]
        BY <1>6, <2>2, <2>3, <3>3
      <3> QED BY <3>4, <3>5
    <2>8. Total(held', On("GPU")') <= MaxNumGpuBlocks
      <3>1. On("GPU")' \subseteq On("GPU") /\ On("GPU") \subseteq Requests
        BY <1>5, <1>8 DEF On
      <3>2. held' \in [Requests -> Nat] /\ IsFiniteSet(Requests)
        BY <1>16, DecodingAssumption DEF TypeOK
      <3>3. Total(held', On("GPU")') <= Total(held, On("GPU"))
        <4>1. \A r \in On("GPU")' : held'[r] <= held[r]
          BY <2>4, <3>1
        <4> QED BY <1>8, <3>1, <3>2, <4>1, TotalMonotone
      <3>4. Total(held', On("GPU")') \in Nat /\ Total(held, On("GPU")) \in Nat
        BY <1>8, <3>1, <3>2, TotalType
      <3> QED BY <3>3, <3>4, DecodingAssumption DEF HeldFacts
    <2>9. NextIndex' = n
      BY <1>1, <1>2 DEF NextIndex
    <2> QED BY <1>2, <2>5, <2>6, <2>7, <2>8, <2>9 DEF HeldFacts, PromptBlocks
  <1>20. LoopPlace'
    BY <1>2, <1>3 DEF LoopPlace, OneAfterTheOther
  <1> QED BY <1>16, <1>17, <1>18, <1>19, <1>20

(* What get_next_batch does with the queues, for any k, n and m: it only   *)
(* moves requests.                                                         *)
LEMMA NextBatchFacts ==
  ASSUME TypeOK, OnePlace, NEW k \in 0 .. Len(batchQueues[NextIndex]),
         NEW n \in 0 .. Len(swappedQueue) + Len(SwappedOut(k)), NEW m \in 0 .. Len(waitingQueue)
  PROVE  LET old     == batchQueues[NextIndex]
             out     == SwappedOut(k)
             swapped == swappedQueue \o out
             batch   == NextBatch(k, n, m)
         IN  /\ NextIndex \in Stages /\ old \in Seq(Requests) /\ Range(old) \subseteq InBatches(batchQueues)
             /\ FirstOf(old, k) \in Seq(Requests) /\ out \in Seq(Requests)
             /\ Range(old) = Range(FirstOf(old, k)) \cup Range(out)
             /\ Range(FirstOf(old, k)) \cap Range(out) = {}
             /\ swapped \in Seq(Requests) /\ Distinct(swapped)
             /\ Len(swapped) = Len(swappedQueue) + Len(out)
             /\ Range(swapped) = Range(swappedQueue) \cup Range(out)
             /\ Range(swapped) = Range(FirstOf(swapped, n)) \cup Range(AfterFirst(swapped, n))
             /\ Range(FirstOf(swapped, n)) \cap Range(AfterFirst(swapped, n)) = {}
             /\ AfterFirst(swapped, n) \in Seq(Requests) /\ Distinct(AfterFirst(swapped, n))
             /\ Range(waitingQueue)
                  = Range(FirstOf(waitingQueue, m)) \cup Range(AfterFirst(waitingQueue, m))
             /\ Range(FirstOf(waitingQueue, m)) \cap Range(AfterFirst(waitingQueue, m)) = {}
             /\ AfterFirst(waitingQueue, m) \in Seq(Requests) /\ Distinct(AfterFirst(waitingQueue, m))
             /\ batch \in Seq(Requests) /\ Distinct(batch)
             /\ Range(batch) = Range(FirstOf(old, k)) \cup Range(FirstOf(swapped, n))
                                  \cup Range(FirstOf(waitingQueue, m))
  <1>1. NextIndex \in Stages
    BY NextIndexValue DEF TypeOK
  <1>2. PICK old : old = batchQueues[NextIndex]
    OBVIOUS
  <1>3. PICK first : first = FirstOf(old, k)
    OBVIOUS
  <1>4. PICK rest : rest = AfterFirst(old, k)
    OBVIOUS
  <1>5. PICK out : out = SwappedOut(k)
    OBVIOUS
  <1>6. old \in Seq(Requests) /\ Distinct(old) /\ Range(old) \subseteq InBatches(batchQueues)
    BY <1>1, <1>2, BatchTypes DEF TypeOK, OnePlace
  <1>7. /\ first \in Seq(Requests) /\ rest \in Seq(Requests) /\ Distinct(first) /\ Distinct(rest)
        /\ Range(old) = Range(first) \cup Range(rest) /\ Range(first) \cap Range(rest) = {}
    BY <1>2, <1>3, <1>4, <1>6, SplitSeq DEF FirstOf, AfterFirst
  <1>8. out \in Seq(Requests) /\ Distinct(out) /\ Range(out) = Range(rest)
    BY <1>2, <1>4, <1>5, <1>7, ReversedFacts DEF SwappedOut
  <1>9. swappedQueue \in Seq(Requests) /\ Distinct(swappedQueue)
    BY DEF TypeOK, OnePlace
  <1>10. Range(swappedQueue) \cap InBatches(batchQueues) = {}
    BY DEF OnePlace, FiveApart
  <1>11. PICK swapped : swapped = swappedQueue \o out
    OBVIOUS
  <1>12. /\ swapped \in Seq(Requests) /\ Distinct(swapped)
         /\ Range(swapped) = Range(swappedQueue) \cup Range(out)
         /\ Len(swapped) = Len(swappedQueue) + Len(out)
    <2>1. Range(swappedQueue) \cap Range(out) = {}
      BY <1>6, <1>7, <1>8, <1>10
    <2>2. Len(swapped) = Len(swappedQueue) + Len(out)
      BY <1>8, <1>9, <1>11
    <2> QED BY <1>8, <1>9, <1>11, <2>1, <2>2, ConcatDistinct
  <1>13. PICK joining : joining = FirstOf(swapped, n)
    OBVIOUS
  <1>14. PICK left : left = AfterFirst(swapped, n)
    OBVIOUS
  <1>15. /\ joining \in Seq(Requests) /\ left \in Seq(Requests) /\ Distinct(joining) /\ Distinct(left)
         /\ Range(swapped) = Range(joining) \cup Range(left) /\ Range(joining) \cap Range(left) = {}
    <2>1. n \in 0 .. Len(swapped)
      BY <1>5, <1>12
    <2> QED BY <1>12, <1>13, <1>14, <2>1, SplitSeq DEF FirstOf, AfterFirst
  <1>16. PICK taken : taken = FirstOf(waitingQueue, m)
    OBVIOUS
  <1>17. PICK others : others = AfterFirst(waitingQueue, m)
    OBVIOUS
  <1>18. /\ taken \in Seq(Requests) /\ others \in Seq(Requests) /\ Distinct(taken) /\ Distinct(others)
         /\ Range(waitingQueue) = Range(taken) \cup Range(others) /\ Range(taken) \cap Range(others) = {}
    <2>1. waitingQueue \in Seq(Requests) /\ Distinct(waitingQueue)
      BY DEF TypeOK, OnePlace
    <2> QED BY <1>16, <1>17, <2>1, SplitSeq DEF FirstOf, AfterFirst
  <1>19. PICK two : two = first \o joining
    OBVIOUS
  <1>20. two \in Seq(Requests) /\ Distinct(two) /\ Range(two) = Range(first) \cup Range(joining)
    <2>1. Range(first) \cap Range(joining) = {}
      BY <1>6, <1>7, <1>8, <1>10, <1>12, <1>15
    <2> QED BY <1>7, <1>15, <1>19, <2>1, ConcatDistinct
  <1>21. PICK batch : batch = two \o taken
    OBVIOUS
  <1>22. batch \in Seq(Requests) /\ Distinct(batch) /\ Range(batch) = Range(two) \cup Range(taken)
    <2>1. Range(waitingQueue) \cap (Range(swappedQueue) \cup InBatches(batchQueues)) = {}
      BY DEF OnePlace, FiveApart
    <2>2. Range(two) \cap Range(taken) = {}
      BY <1>6, <1>7, <1>8, <1>12, <1>15, <1>18, <1>20, <2>1
    <2> QED BY <1>18, <1>20, <1>21, <2>2, ConcatDistinct
  <1>23. NextBatch(k, n, m) = batch
    <2>1. NextBatch(k, n, m) = first \o joining \o taken
      BY <1>2, <1>3, <1>5, <1>11, <1>13, <1>16 DEF NextBatch
    <2> QED BY <1>19, <1>21, <2>1
  <1>24. Range(first) \cap Range(out) = {} /\ Range(old) = Range(first) \cup Range(out)
    BY <1>7, <1>8
  <1> QED BY <1>1, <1>2, <1>3, <1>5, <1>6, <1>7, <1>8, <1>11, <1>12, <1>13, <1>14, <1>15, <1>16, <1>17,
             <1>18, <1>20, <1>22, <1>23, <1>24

LEMMA ScheduleIInv ==
  ASSUME IInv, Schedule
  PROVE  IInv'
  <1> USE DEF IInv
  <1>1. PICK idx : idx = NextIndex
    OBVIOUS
  <1>2. /\ pc = "ready" /\ curIndex' = idx
        /\ UNCHANGED <<unacceptedQueue, migrating, outputLen, arrived, finished>>
    BY <1>1 DEF Schedule, requestVars
  <1>3. PICK k \in 0 .. Len(batchQueues[NextIndex]) :
        \E n \in 0 .. Len(swappedQueue) + Len(SwappedOut(k)), m \in 0 .. Len(waitingQueue) :
          /\ Affordable(k, n, m)
          /\ batchQueues'  = [batchQueues EXCEPT ![NextIndex] = NextBatch(k, n, m)]
          /\ swappedQueue' = AfterFirst(swappedQueue \o SwappedOut(k), n)
          /\ waitingQueue' = AfterFirst(waitingQueue, m)
          /\ held'  = HeldAfter(NextBatch(k, n, m))
          /\ where' = WhereAfter(NextBatch(k, n, m), SwappedOut(k))
          /\ Push(NextBatch(k, n, m))
    BY Zenon DEF Schedule
  <1>4. PICK n \in 0 .. Len(swappedQueue) + Len(SwappedOut(k)), m \in 0 .. Len(waitingQueue) :
          /\ Affordable(k, n, m)
          /\ batchQueues'  = [batchQueues EXCEPT ![NextIndex] = NextBatch(k, n, m)]
          /\ swappedQueue' = AfterFirst(swappedQueue \o SwappedOut(k), n)
          /\ waitingQueue' = AfterFirst(waitingQueue, m)
          /\ held'  = HeldAfter(NextBatch(k, n, m))
          /\ where' = WhereAfter(NextBatch(k, n, m), SwappedOut(k))
          /\ Push(NextBatch(k, n, m))
    BY <1>3
  <1>5. PICK batch : batch = NextBatch(k, n, m)
    OBVIOUS
  <1>6. PICK old : old = batchQueues[idx]
    OBVIOUS
  <1>7. PICK out : out = SwappedOut(k)
    OBVIOUS
  <1>8. PICK A : A = Range(FirstOf(old, k))
    OBVIOUS
  <1>9. PICK J : J = Range(FirstOf(swappedQueue \o out, n))
    OBVIOUS
  <1>10. PICK V : V = Range(FirstOf(waitingQueue, m))
    OBVIOUS
  <1>11. /\ idx \in Stages /\ old \in Seq(Requests) /\ Range(old) \subseteq InBatches(batchQueues)
         /\ out \in Seq(Requests)
         /\ Range(old) = A \cup Range(out) /\ A \cap Range(out) = {}
         /\ Range(swappedQueue) \cup Range(out) = J \cup Range(swappedQueue')
         /\ J \cap Range(swappedQueue') = {}
         /\ swappedQueue' \in Seq(Requests) /\ Distinct(swappedQueue')
         /\ Range(waitingQueue) = V \cup Range(waitingQueue') /\ V \cap Range(waitingQueue') = {}
         /\ waitingQueue' \in Seq(Requests) /\ Distinct(waitingQueue')
         /\ batch \in Seq(Requests) /\ Distinct(batch) /\ Range(batch) = A \cup J \cup V
    <2>1. TypeOK /\ OnePlace
      OBVIOUS
    <2> HIDE DEF IInv
    <2> QED BY <1>1, <1>4, <1>5, <1>6, <1>7, <1>8, <1>9, <1>10, <2>1, NextBatchFacts
  <1>12. /\ batchQueues \in [Stages -> Seq(Requests)] /\ BatchesApart(batchQueues)
         /\ held \in [Requests -> Nat] /\ where \in [Requests -> {"none", "GPU", "CPU"}]
         /\ outputLen \in [Requests -> Nat] /\ migrating = {}
    BY <1>2 DEF TypeOK, OnePlace
  <1>13. InBatches(batchQueues) \subseteq Requests
    BY <1>12, BatchTypes
  <1>14. FiveApart(Range(unacceptedQueue), Range(waitingQueue), Range(swappedQueue), migrating,
                   InBatches(batchQueues))
    BY DEF OnePlace
  <1>15. /\ batchQueues' \in [Stages -> Seq(Requests)] /\ batchQueues'[idx] = batch
         /\ \A i \in Stages : i # idx => batchQueues'[i] = batchQueues[i]
         /\ InBatches(batchQueues') = (InBatches(batchQueues) \ Range(old)) \cup Range(batch)
         /\ BatchesApart(batchQueues')
    <2>1. Range(batch) \cap (InBatches(batchQueues) \ Range(old)) = {}
      BY <1>11, <1>14 DEF FiveApart
    <2>2. batchQueues' = [batchQueues EXCEPT ![idx] = batch]
      BY <1>1, <1>4, <1>5
    <2> QED BY <1>6, <1>11, <1>12, <2>1, <2>2, BatchReplaced
  <1>16. /\ Blocks \in [Requests -> Nat] /\ \A r \in Requests : Blocks[r] > 0
         /\ Blocks' = Blocks
    BY <1>2, <1>12, BlocksType DEF Blocks
  <1>17. /\ held' = [r \in Requests |-> IF r \in Range(batch) /\ Blocks[r] > held[r] THEN Blocks[r]
                                        ELSE held[r]]
         /\ where' = [r \in Requests |-> IF r \in Range(batch) THEN "GPU"
                                         ELSE IF r \in Range(out) THEN "CPU" ELSE where[r]]
    BY <1>4, <1>5, <1>7 DEF HeldAfter, WhereAfter
  <1>18. /\ \A r \in Range(batch) : held'[r] = Blocks[r] /\ where'[r] = "GPU"
         /\ \A r \in Requests : r \notin Range(batch) => held'[r] = held[r]
         /\ \A r \in Requests : held[r] <= held'[r] /\ held'[r] <= Blocks[r]
         /\ held' \in [Requests -> Nat] /\ where' \in [Requests -> {"none", "GPU", "CPU"}]
    <2>1. Range(batch) \subseteq Requests
      BY <1>11, RangeOfSeq
    <2>2. \A r \in Requests : held[r] \in Nat /\ Blocks[r] \in Nat /\ held[r] <= Blocks[r]
      BY <1>12, <1>16 DEF HeldFacts
    <2>3. held' \in [Requests -> Nat] /\ where' \in [Requests -> {"none", "GPU", "CPU"}]
      BY <1>12, <1>16, <1>17
    <2>4. \A r \in Requests : r \in Range(batch) => held'[r] = Blocks[r] /\ where'[r] = "GPU"
      BY <1>17, <2>2
    <2>5. \A r \in Requests : r \notin Range(batch) => held'[r] = held[r]
      BY <1>17
    <2>6. \A r \in Requests : held[r] <= held'[r] /\ held'[r] <= Blocks[r]
      BY <2>2, <2>4, <2>5
    <2> QED BY <2>1, <2>3, <2>4, <2>5, <2>6
  <1>19. /\ pipeline' \in Seq(Stages \cup {Empty}) /\ Len(pipeline') <= PipelineSize
         /\ pc' \in {"sleep", "post", "await"} /\ LoopPlace'
    <2>1. /\ curIndex \in Stages \cup {-1}
          /\ curIndex = -1 => pipeline = <<>>
          /\ pipeline \in Seq(Stages \cup {Empty}) /\ Len(pipeline) < PipelineSize
          /\ OneAfterTheOther(pipeline, curIndex)
      BY <1>2 DEF TypeOK, LoopPlace
    <2>2. PipelineSize \in Nat \ {0} /\ curIndex' \in Int /\ curIndex' # -1 /\ curIndex' = NextIndex
      BY <1>1, <1>2, <1>11, DecodingAssumption DEF Stages
    <2>3. ASSUME NEW x \in {Empty, NextIndex}
          PROVE  /\ Append(pipeline, x) \in Seq(Stages \cup {Empty})
                 /\ Len(Append(pipeline, x)) \in 1 .. PipelineSize
                 /\ OneAfterTheOther(Append(pipeline, x), curIndex')
      <3>1. OneAfterTheOther(Append(pipeline, x), NextIndex)
        <4>1. \A y \in {Empty, NextIndex} : OneAfterTheOther(Append(pipeline, y), NextIndex)
          BY <2>1, PushInOrder
        <4> QED BY <2>3, <4>1, Zenon
      <3>2. x \in Stages \cup {Empty}
        BY <1>1, <1>11, <2>3
      <3> QED BY <2>1, <2>2, <3>1, <3>2
    <2>4. Push(batch)
      BY <1>4, <1>5
    <2>5. CASE batch = <<>> /\ pipeline' = Append(pipeline, Empty) /\ pc' = "sleep"
      <3>1. /\ pipeline' \in Seq(Stages \cup {Empty}) /\ Len(pipeline') \in 1 .. PipelineSize
            /\ OneAfterTheOther(pipeline', curIndex')
        BY <2>3, <2>5
      <3>2. Len(pipeline') <= PipelineSize /\ pipeline' # <<>>
        BY <2>2, <3>1
      <3>3. OneAfterTheOther(pipeline, curIndex)'
        BY <3>1 DEF OneAfterTheOther
      <3> QED BY <2>2, <2>5, <3>1, <3>2, <3>3 DEF LoopPlace
    <2>6. CASE Settle(Append(pipeline, NextIndex))
      <3>1. /\ pipeline' \in Seq(Stages \cup {Empty}) /\ Len(pipeline') <= PipelineSize
            /\ OneAfterTheOther(pipeline', curIndex')
            /\ pc' \in {"post", "await"}
            /\ pc' = "post" => Len(pipeline') < PipelineSize
            /\ pc' = "await" => Len(pipeline') = PipelineSize /\ Head(pipeline') # Empty
        BY <2>2, <2>3, <2>6, SettleFacts
      <3> QED BY <2>2, <3>1 DEF LoopPlace, OneAfterTheOther
    <2> QED BY <2>4, <2>5, <2>6 DEF Push
  <1>20. TypeOK'
    <2>1. UNCHANGED <<unacceptedQueue, migrating, outputLen, arrived, finished>> /\ curIndex' \in Stages
      BY <1>2, <1>11
    <2> QED BY <1>11, <1>15, <1>18, <1>19, <2>1 DEF TypeOK
  <1>21. OnePlace'
    <2>1. \A i \in Stages : Distinct(batchQueues'[i])
      <3>1. SUFFICES ASSUME NEW i \in Stages PROVE Distinct(batchQueues'[i])
        OBVIOUS
      <3> QED BY <1>11, <1>15 DEF OnePlace
    <2>2. Range(unacceptedQueue) \cup Range(waitingQueue') \cup Range(swappedQueue') \cup migrating
              \cup InBatches(batchQueues') = arrived \ finished
      BY <1>11, <1>15 DEF OnePlace
    <2>3. FiveApart(Range(unacceptedQueue), Range(waitingQueue'), Range(swappedQueue'), migrating,
                    InBatches(batchQueues'))
      BY <1>11, <1>14, <1>15 DEF FiveApart
    <2>4. pc' # "migrate"
      BY <1>19
    <2> QED BY <1>2, <1>11, <1>12, <1>15, <2>1, <2>2, <2>3, <2>4 DEF OnePlace, BatchesApart
  <1>22. TablesFollowQueues'
    <2>1. SUFFICES ASSUME NEW r \in Requests
                   PROVE  /\ where'[r] = "CPU" <=> r \in Range(swappedQueue')
                          /\ where'[r] = "GPU" <=> r \in Range(waitingQueue') \cup migrating
                                                          \cup InBatches(batchQueues')
                          /\ held'[r] > 0 <=> where'[r] # "none"
      BY <1>2, Zenon DEF TablesFollowQueues
    <2>2. /\ where[r] = "CPU" <=> r \in Range(swappedQueue)
          /\ where[r] = "GPU" <=> r \in Range(waitingQueue) \cup InBatches(batchQueues)
          /\ held[r] > 0 <=> where[r] # "none"
      BY <1>12 DEF TablesFollowQueues
    <2>3. CASE r \in Range(batch)
      <3>1. where'[r] = "GPU" /\ held'[r] > 0
        BY <1>16, <1>18, <2>3
      <3>2. r \notin Range(swappedQueue')
        BY <1>11, <1>14, <2>3 DEF FiveApart
      <3> QED BY <1>15, <2>3, <3>1, <3>2
    <2>4. CASE r \notin Range(batch) /\ r \in Range(out)
      <3>1. where'[r] = "CPU" /\ held'[r] = held[r]
        BY <1>17, <2>4
      <3>2. r \in InBatches(batchQueues) /\ r \notin Range(waitingQueue) /\ r \in Range(old)
        BY <1>11, <1>14, <2>4 DEF FiveApart
      <3>3. r \in Range(swappedQueue') /\ r \notin Range(waitingQueue') /\ r \notin InBatches(batchQueues')
        BY <1>11, <1>15, <2>4, <3>2
      <3> QED BY <1>12, <2>2, <3>1, <3>2, <3>3
    <2>5. CASE r \notin Range(batch) /\ r \notin Range(out)
      <3>1. where'[r] = where[r] /\ held'[r] = held[r]
        BY <1>17, <2>5
      <3>2. /\ r \in Range(swappedQueue') <=> r \in Range(swappedQueue)
            /\ r \in Range(waitingQueue') <=> r \in Range(waitingQueue)
            /\ r \in InBatches(batchQueues') <=> r \in InBatches(batchQueues)
        BY <1>11, <1>15, <2>5
      <3> QED BY <1>12, <2>2, <3>1, <3>2
    <2> QED BY <2>3, <2>4, <2>5
  <1>23. HeldFacts'
    <2>1. \A r \in Range(waitingQueue') \cup migrating : held'[r] = PromptBlocks[r]
      <3>1. SUFFICES ASSUME NEW r \in Range(waitingQueue') PROVE held'[r] = PromptBlocks[r]
        BY <1>12
      <3>2. r \in Range(waitingQueue) /\ r \notin Range(batch) /\ r \in Requests
        <4>1. Range(waitingQueue') \subseteq Requests
          BY <1>11, RangeOfSeq
        <4> QED BY <1>11, <1>14, <3>1, <4>1 DEF FiveApart
      <3> QED BY <1>18, <3>2 DEF HeldFacts
    <2>2. ASSUME NEW i \in Stages, NEW r \in Range(batchQueues'[i])
          PROVE  Blocks[r] <= held'[r]
      <3>1. CASE i = idx
        <4>1. r \in Range(batch) /\ r \in Requests
          BY <1>11, <1>15, <2>2, <3>1, RangeOfSeq
        <4>2. held'[r] = Blocks[r] /\ Blocks[r] \in Nat
          BY <1>16, <1>18, <4>1
        <4> QED BY <4>2
      <3>2. CASE i # idx
        <4>1. r \in Range(batchQueues[i]) /\ r \in Requests
          BY <1>12, <1>15, <2>2, <3>2, BatchTypes
        <4>2. Blocks[r] <= held[r]
          BY <1>1, <3>2, <4>1 DEF HeldFacts
        <4>3. held[r] <= held'[r] /\ held[r] \in Nat /\ held'[r] \in Nat /\ Blocks[r] \in Nat
          BY <1>12, <1>16, <1>18, <4>1
        <4> QED BY <4>2, <4>3
      <3> QED BY <3>1, <3>2
    <2>3. Total(held', On("GPU")') <= MaxNumGpuBlocks
      BY <1>4 DEF Affordable, On
    <2> QED BY <1>2, <1>16, <1>18, <2>1, <2>2, <2>3 DEF HeldFacts, PromptBlocks
  <1> QED BY <1>19, <1>20, <1>21, <1>22, <1>23

LEMMA Invariance == Spec => []IInv
  <1>1. IInv /\ [Next]_vars => IInv'
    <2> SUFFICES ASSUME IInv, [Next]_vars PROVE IInv'
      OBVIOUS
    <2>1. ASSUME NEW r \in Requests, AddRequest(r) PROVE IInv'
      BY <2>1, AddRequestIInv
    <2>2. CASE Schedule
      BY <2>2, ScheduleIInv
    <2>3. CASE SwapOutFails
      BY <2>3, SwapOutFailsIInv
    <2>4. CASE WakeUp
      BY <2>4, WakeUpIInv
    <2>5. CASE FinishBatch
      BY <2>5, FinishBatchIInv
    <2>6. CASE BeginMigration
      BY <2>6, BeginMigrationIInv
    <2>7. CASE EndMigration
      BY <2>7, EndMigrationIInv
    <2>8. CASE EndStep
      BY <2>8, EndStepIInv
    <2>9. CASE UNCHANGED vars
      <3>1. /\ UNCHANGED <<unacceptedQueue, waitingQueue, swappedQueue, batchQueues, curIndex, pipeline>>
            /\ UNCHANGED <<migrating, held, where, pc, outputLen, arrived, finished>>
        BY <2>9 DEF vars, queueVars, blockVars, requestVars
      <3>2. TypeOK' /\ OnePlace' /\ TablesFollowQueues' /\ LoopPlace'
        BY <3>1 DEF IInv, TypeOK, OnePlace, TablesFollowQueues, LoopPlace
      <3>3. HeldFacts'
        BY <3>1 DEF IInv, HeldFacts, Blocks, NextIndex, On
      <3> QED BY <3>2, <3>3 DEF IInv
    <2> QED BY <2>1, <2>2, <2>3, <2>4, <2>5, <2>6, <2>7, <2>8, <2>9 DEF Next
  <1> QED BY InitIInv, <1>1, PTL DEF Spec

(***************************************************************************)
(* Blocks for the batch that comes next.                                   *)
(***************************************************************************)
LEMMA Largest ==
  ASSUME NEW n \in Nat, NEW K \in SUBSET (0 .. n), K # {}
  PROVE  \E k \in K : \A j \in K : j <= k
  <1> DEFINE T == {n - k : k \in K}
  <1>1. T \subseteq Nat /\ T # {}
    <2>1. \A k \in K : n - k \in Nat
      OBVIOUS
    <2> QED BY <2>1
  <1>2. \E x \in T : \A y \in T : ~(<<y, x>> \in OpToRel(<, Nat))
    BY <1>1, NatLessThanWellFounded, WFMin
  <1>3. PICK x \in T : \A y \in T : ~(<<y, x>> \in OpToRel(<, Nat))
    BY <1>2
  <1>4. \A y \in T : x <= y
    <2>1. SUFFICES ASSUME NEW y \in T, y < x PROVE FALSE
      BY <1>1
    <2>2. y \in Nat /\ x \in Nat
      BY <1>1
    <2> HIDE DEF T
    <2>3. <<y, x>> \in {ss \in Nat \X Nat : ss[1] < ss[2]}
      BY <2>1, <2>2
    <2>4. <<y, x>> \in OpToRel(<, Nat)
      BY <2>3, Zenon DEF OpToRel
    <2> QED BY <1>3, <2>4
  <1>5. PICK k \in K : x = n - k
    OBVIOUS
  <1>6. ASSUME NEW j \in K PROVE j <= k
    <2>1. n - j \in T
      OBVIOUS
    <2>2. n - k <= n - j
      BY <1>4, <1>5, <2>1
    <2>3. j \in Int /\ k \in Int /\ n \in Int
      OBVIOUS
    <2> HIDE DEF T
    <2> QED BY <2>2, <2>3
  <1> QED BY <1>6

LEMMA FirstOfRange ==
  ASSUME NEW S, NEW q \in Seq(S), NEW n \in 0 .. Len(q)
  PROVE  Range(FirstOf(q, n)) = {q[i] : i \in 1 .. n}
  <1> DEFINE a == FirstOf(q, n)
  <1>1. DOMAIN a = 1 .. n /\ \A i \in 1 .. n : a[i] = q[i]
    BY DEF FirstOf
  <1> HIDE DEF a
  <1>2. Range(a) = {a[i] : i \in 1 .. n}
    BY <1>1, Zenon DEF Range
  <1>3. {a[i] : i \in 1 .. n} = {q[i] : i \in 1 .. n}
    BY <1>1, Zenon
  <1> QED BY <1>2, <1>3 DEF a

(* The first requests of one queue followed by another. *)
LEMMA FirstOfConcat ==
  ASSUME NEW S, NEW s \in Seq(S), NEW t \in Seq(S), NEW n \in 0 .. Len(s), NEW m \in 0 .. Len(t),
         m > 0 => n = Len(s)
  PROVE  /\ Range(FirstOf(s \o t, n + m)) = Range(FirstOf(s, n)) \cup Range(FirstOf(t, m))
         /\ n + m > 0 => Range(FirstOf(s \o t, n + m - 1)) \subseteq Range(FirstOf(s \o t, n + m))
  <1> DEFINE q == s \o t
  <1>1. /\ q \in Seq(S) /\ Len(q) = Len(s) + Len(t) /\ Len(s) \in Nat /\ Len(t) \in Nat
        /\ \A i \in 1 .. Len(s) : q[i] = s[i]
        /\ \A i \in 1 .. Len(t) : q[Len(s) + i] = t[i]
    OBVIOUS
  <1> HIDE DEF q
  <1>2. n + m \in 0 .. Len(q) /\ (n + m > 0 => n + m - 1 \in 0 .. Len(q))
    BY <1>1
  <1>3. Range(FirstOf(q, n + m)) = {q[i] : i \in 1 .. n + m}
    BY <1>1, <1>2, FirstOfRange
  <1>4. Range(FirstOf(s, n)) = {s[i] : i \in 1 .. n} /\ Range(FirstOf(t, m)) = {t[i] : i \in 1 .. m}
    BY FirstOfRange
  <1>5. ASSUME NEW i \in 1 .. n + m PROVE q[i] \in Range(FirstOf(s, n)) \cup Range(FirstOf(t, m))
    <2>1. CASE i \in 1 .. n
      <3>1. q[i] = s[i]
        BY <1>1, <2>1
      <3> QED BY <1>4, <2>1, <3>1
    <2>2. CASE i \notin 1 .. n
      <3>1. n = Len(s) /\ i - n \in 1 .. m /\ i - n \in 1 .. Len(t) /\ Len(s) + (i - n) = i
        BY <1>1, <2>2
      <3>2. q[i] = t[i - n]
        BY <1>1, <3>1
      <3> QED BY <1>4, <3>1, <3>2
    <2> QED BY <2>1, <2>2
  <1>6. ASSUME NEW i \in 1 .. n PROVE s[i] \in Range(FirstOf(q, n + m))
    <2>1. i \in 1 .. n + m /\ q[i] = s[i]
      BY <1>1
    <2> QED BY <1>3, <2>1
  <1>7. ASSUME NEW i \in 1 .. m PROVE t[i] \in Range(FirstOf(q, n + m))
    <2>1. n = Len(s) /\ n + i \in 1 .. n + m /\ i \in 1 .. Len(t)
      BY <1>1
    <2>2. q[n + i] = t[i]
      BY <1>1, <2>1
    <2> QED BY <1>3, <2>1, <2>2
  <1>8. Range(FirstOf(q, n + m)) = Range(FirstOf(s, n)) \cup Range(FirstOf(t, m))
    BY <1>3, <1>4, <1>5, <1>6, <1>7
  <1>9. ASSUME n + m > 0 PROVE Range(FirstOf(q, n + m - 1)) \subseteq Range(FirstOf(q, n + m))
    <2>1. Range(FirstOf(q, n + m - 1)) = {q[i] : i \in 1 .. n + m - 1}
      BY <1>1, <1>2, <1>9, FirstOfRange
    <2>2. \A i \in 1 .. n + m - 1 : i \in 1 .. n + m
      OBVIOUS
    <2> QED BY <1>3, <2>1, <2>2
  <1> QED BY <1>8, <1>9 DEF q

(* The requests of all batches but the next one. *)
Others == InBatches(batchQueues) \ Range(batchQueues[NextIndex])

LEMMA RunningFacts ==
  ASSUME IInv, NEW batch \in Seq(Requests)
  PROVE  /\ Running(batch) = Others \cup Range(batch)
         /\ Others \subseteq Requests
         /\ \A r \in Others : Blocks[r] <= held[r]
  <1> USE DEF IInv
  <1>1. NextIndex \in Stages /\ batchQueues \in [Stages -> Seq(Requests)] /\ BatchesApart(batchQueues)
    BY NextIndexValue DEF TypeOK, OnePlace
  <1>2. Running(batch) = Others \cup Range(batch)
    BY <1>1, BatchReplaced DEF Running, Others
  <1>3. Others \subseteq Requests
    BY <1>1, BatchTypes DEF Others
  <1>4. ASSUME NEW r \in Others PROVE Blocks[r] <= held[r]
    <2>1. PICK i \in Stages : r \in Range(batchQueues[i])
      BY <1>1, BatchTypes DEF Others
    <2>2. i # NextIndex
      BY <2>1 DEF Others
    <2> QED BY <2>1, <2>2 DEF HeldFacts
  <1> QED BY <1>2, <1>3, <1>4

(* If the next batch keeps no request, the blocks suffice: what the others *)
(* need they have.                                                         *)
LEMMA EmptyNotOverbooked ==
  ASSUME IInv, pc = "ready", NEW batch \in Seq(Requests), Range(batch) = {}
  PROVE  ~Overbooked(batch)
  <1> USE DEF IInv
  <1>1. PICK W : W = Range(waitingQueue)
    OBVIOUS
  <1>2. Running(batch) = Others /\ Others \subseteq Requests /\ \A r \in Others : Blocks[r] <= held[r]
    BY RunningFacts
  <1>3. /\ W \subseteq Requests /\ W \cap Others = {}
        /\ \A r \in W : PromptBlocks[r] <= held[r]
    <2>1. W \subseteq Requests
      BY <1>1, RangeOfSeq DEF TypeOK
    <2>2. \A r \in W : held[r] = PromptBlocks[r] /\ held[r] \in Nat
      BY <1>1, <2>1 DEF HeldFacts, TypeOK
    <2>3. W \cap Others = {}
      BY <1>1 DEF OnePlace, FiveApart, Others
    <2> QED BY <2>1, <2>2, <2>3
  <1>4. /\ Blocks \in [Requests -> Nat] /\ PromptBlocks \in [Requests -> Nat]
        /\ held \in [Requests -> Nat] /\ IsFiniteSet(Requests)
    BY BlocksType, PromptBlocksType, DecodingAssumption DEF TypeOK
  <1>5. Total(Blocks, Others) <= Total(held, Others)
    BY <1>2, <1>4, TotalMonotone
  <1>6. Total(PromptBlocks, W) <= Total(held, W)
    BY <1>3, <1>4, TotalMonotone
  <1>7. Total(held, Others \cup W) = Total(held, Others) + Total(held, W)
    <2>1. Others \cap W = {} /\ Others \in SUBSET Requests /\ W \in SUBSET Requests
      BY <1>2, <1>3
    <2>2. held \in [Requests -> Nat] /\ IsFiniteSet(Requests)
      BY <1>4
    <2> QED BY <2>1, <2>2, TotalUnion
  <1>8. Total(held, Others \cup W) <= Total(held, On("GPU"))
    <2>1. Others \cup W \subseteq On("GPU") /\ On("GPU") \subseteq Requests
      BY <1>1, <1>2, <1>3 DEF On, TablesFollowQueues, Others
    <2>2. \A r \in Others \cup W : held[r] <= held[r]
      BY <1>2, <1>3, <1>4
    <2> QED BY <1>4, <2>1, <2>2, TotalMonotone
  <1>9. Total(held, On("GPU")) <= MaxNumGpuBlocks
    BY DEF HeldFacts
  <1>10. /\ Total(Blocks, Others) \in Nat /\ Total(held, Others) \in Nat
         /\ Total(PromptBlocks, W) \in Nat /\ Total(held, W) \in Nat
         /\ Total(held, On("GPU")) \in Nat /\ MaxNumGpuBlocks \in Nat
    <2>1. On("GPU") \subseteq Requests
      BY DEF On
    <2> QED BY <1>2, <1>3, <1>4, <2>1, TotalType, DecodingAssumption
  <1>11. Total(Blocks, Others) + Total(PromptBlocks, W) <= MaxNumGpuBlocks
    BY <1>5, <1>6, <1>7, <1>8, <1>9, <1>10
  <1> QED BY <1>1, <1>2, <1>10, <1>11 DEF Overbooked

LEMMA KeptLenExists ==
  ASSUME IInv, pc = "ready"
  PROVE  \E k \in 0 .. Len(batchQueues[NextIndex]) : IsKeptLen(k)
  <1> DEFINE old == batchQueues[NextIndex]
             K   == {k \in 0 .. Len(old) : ~Overbooked(FirstOf(old, k))}
  <1>1. old \in Seq(Requests) /\ Distinct(old)
    BY NextIndexValue DEF IInv, TypeOK, OnePlace
  <1> HIDE DEF old
  <1>2. Len(old) \in Nat /\ 0 \in 0 .. Len(old)
    BY <1>1
  <1>3. FirstOf(old, 0) \in Seq(Requests) /\ Range(FirstOf(old, 0)) = {}
    <2>1. FirstOf(old, 0) \in Seq(Requests)
      BY <1>1, <1>2, SplitSeq DEF FirstOf
    <2>2. Range(FirstOf(old, 0)) = {old[i] : i \in 1 .. 0}
      BY <1>1, <1>2, FirstOfRange
    <2> QED BY <2>1, <2>2
  <1>4. 0 \in K
    BY <1>2, <1>3, EmptyNotOverbooked
  <1>5. PICK k \in K : \A j \in K : j <= k
    BY <1>2, <1>4, Largest
  <1>6. ASSUME NEW j \in k + 1 .. Len(old) PROVE Overbooked(FirstOf(old, j))
    <2>1. j \in 0 .. Len(old) /\ ~(j <= k)
      BY <1>2
    <2> QED BY <1>5, <2>1
  <1> QED BY <1>6 DEF IsKeptLen, old

(* The code counts the blocks the requests of a batch need, and the block  *)
(* manager hands out what they lack: what is left of the requests' old     *)
(* tables is part of the count.                                            *)
LEMMA NextBatchAffordable ==
  ASSUME IInv, pc = "ready", NEW k \in 0 .. Len(batchQueues[NextIndex]),
         NEW n \in 0 .. Len(swappedQueue) + Len(SwappedOut(k)), NEW m \in 0 .. Len(waitingQueue),
         IsNextBatch(k, n, m)
  PROVE  Affordable(k, n, m)
  <1>1. TypeOK /\ OnePlace /\ TablesFollowQueues /\ HeldFacts
    BY DEF IInv
  <1>2. PICK old : old = batchQueues[NextIndex]
    OBVIOUS
  <1>3. PICK out : out = SwappedOut(k)
    OBVIOUS
  <1>4. PICK swapped : swapped = swappedQueue \o out
    OBVIOUS
  <1>5. PICK batch : batch = NextBatch(k, n, m)
    OBVIOUS
  <1>6. PICK first : first = FirstOf(old, k)
    OBVIOUS
  <1>7. PICK J : J = Range(FirstOf(swapped, n))
    OBVIOUS
  <1>8. PICK V : V = Range(FirstOf(waitingQueue, m))
    OBVIOUS
  <1>9. PICK left : left = Range(AfterFirst(waitingQueue, m))
    OBVIOUS
  <1>10. /\ Range(old) \subseteq InBatches(batchQueues) /\ first \in Seq(Requests)
         /\ Range(old) = Range(first) \cup Range(out)
         /\ swapped \in Seq(Requests) /\ n \in 0 .. Len(swapped)
         /\ J \subseteq Range(swappedQueue) \cup Range(out)
         /\ Range(waitingQueue) = V \cup left /\ V \cap left = {}
         /\ batch \in Seq(Requests) /\ Range(batch) = Range(first) \cup J \cup V
    BY <1>1, <1>2, <1>3, <1>4, <1>5, <1>6, <1>7, <1>8, <1>9, NextBatchFacts
  <1>11. FiveApart(Range(unacceptedQueue), Range(waitingQueue), Range(swappedQueue), migrating,
                   InBatches(batchQueues)) /\ migrating = {}
    BY <1>1 DEF OnePlace
  <1>12. /\ waitingQueue \in Seq(Requests) /\ held \in [Requests -> Nat] /\ IsFiniteSet(Requests)
         /\ Blocks \in [Requests -> Nat] /\ PromptBlocks \in [Requests -> Nat]
    BY <1>1, BlocksType, PromptBlocksType, DecodingAssumption DEF TypeOK
  <1>13. Range(waitingQueue) \subseteq Requests
    BY <1>12, RangeOfSeq
  <1>14. PICK X : X = Others \cup Range(batch)
    OBVIOUS
  <1>15. /\ Running(batch) = X /\ X \subseteq Requests
         /\ Running(first) = Others \cup Range(first)
    <2>1. Range(batch) \subseteq Requests
      BY <1>10, RangeOfSeq
    <2> QED BY <1>10, <1>14, <2>1, RunningFacts
  <1>16. left \subseteq Requests /\ X \cap left = {}
    <2>1. Range(waitingQueue) \cap (Range(swappedQueue) \cup InBatches(batchQueues)) = {}
      BY <1>11 DEF FiveApart
    <2> QED BY <1>10, <1>13, <1>14, <2>1 DEF Others
  (* What the code counts. *)
  <1>17. Total(Blocks, X) + Total(PromptBlocks, left) <= MaxNumGpuBlocks
    <2>1. Total(Blocks, X) \in Nat /\ Total(PromptBlocks, left) \in Nat /\ MaxNumGpuBlocks \in Nat
      BY <1>12, <1>15, <1>16, TotalType, DecodingAssumption
    <2>2. /\ IsKeptLen(k)
          /\ m > 0 => n = Len(swapped)
          /\ IsJoinLen(first, swapped \o waitingQueue, n + m)
      BY <1>2, <1>3, <1>4, <1>6 DEF IsNextBatch
    <2>3. PICK queue : queue = swapped \o waitingQueue
      OBVIOUS
    <2>4. /\ Range(FirstOf(queue, n + m)) = J \cup V
          /\ n + m > 0 => Range(FirstOf(queue, n + m - 1)) \subseteq Range(FirstOf(queue, n + m))
      BY <1>7, <1>8, <1>10, <1>12, <2>2, <2>3, FirstOfConcat
    <2>5. CASE n + m = 0
      <3>1. n = 0 /\ m = 0
        BY <1>10, <2>5
      <3>2. J = {} /\ V = {}
        <4>1. J = {swapped[i] : i \in 1 .. 0} /\ V = {waitingQueue[i] : i \in 1 .. 0}
          BY <1>7, <1>8, <1>10, <1>12, <3>1, FirstOfRange
        <4> QED BY <4>1
      <3>3. X = Running(first) /\ left = Range(waitingQueue)
        BY <1>10, <1>14, <1>15, <3>2
      <3>4. ~(Total(Blocks, X) + Total(PromptBlocks, left) > MaxNumGpuBlocks)
        BY <1>2, <1>6, <2>2, <3>3 DEF IsKeptLen, Overbooked
      <3> QED BY <2>1, <3>4
    <2>6. CASE n + m > 0
      <3>1. n + m \in 1 .. n + m
        BY <2>6
      <3>2. Fits(first, queue, n + m)
        BY <2>2, <2>3, <3>1 DEF IsJoinLen
      <3>3. PICK rest : rest = Range(waitingQueue) \ Range(FirstOf(queue, n + m - 1))
        OBVIOUS
      <3>4. Running(first) \cup Range(FirstOf(queue, n + m)) = X
        BY <1>10, <1>14, <1>15, <2>4
      <3>5. Total(Blocks, X) + Total(PromptBlocks, rest) <= MaxNumGpuBlocks
        <4>1. Total(Blocks, Running(first) \cup Range(FirstOf(queue, n + m)))
                + Total(PromptBlocks, Range(waitingQueue) \ Range(FirstOf(queue, n + m - 1)))
              <= MaxNumGpuBlocks
          BY <3>2 DEF Fits
        <4> QED BY <3>3, <3>4, <4>1, Zenon
      <3>6. left \subseteq rest /\ rest \subseteq Requests
        BY <1>10, <1>13, <1>14, <1>16, <2>4, <2>6, <3>3
      <3>7. Total(PromptBlocks, left) <= Total(PromptBlocks, rest)
        <4>1. \A r \in left : PromptBlocks[r] <= PromptBlocks[r]
          BY <1>12, <1>16
        <4> QED BY <1>12, <3>6, <4>1, TotalMonotone
      <3>8. Total(PromptBlocks, rest) \in Nat
        BY <1>12, <3>6, TotalType
      <3> QED BY <2>1, <3>5, <3>7, <3>8
    <2> QED BY <1>10, <2>5, <2>6
  (* What the block manager has to hand out. *)
  <1>18. PICK H : H = HeldAfter(batch)
    OBVIOUS
  <1>19. /\ H \in [Requests -> Nat]
         /\ \A r \in Requests : H[r] <= Blocks[r]
         /\ \A r \in left : H[r] <= PromptBlocks[r]
    <2>1. H = [r \in Requests |-> IF r \in Range(batch) /\ Blocks[r] > held[r] THEN Blocks[r] ELSE held[r]]
      BY <1>18 DEF HeldAfter
    <2>2. \A r \in Requests : held[r] \in Nat /\ Blocks[r] \in Nat /\ held[r] <= Blocks[r]
      BY <1>1, <1>12 DEF HeldFacts
    <2>3. H \in [Requests -> Nat] /\ \A r \in Requests : H[r] <= Blocks[r]
      BY <2>1, <2>2
    <2>4. ASSUME NEW r \in left PROVE H[r] <= PromptBlocks[r]
      <3>1. r \in Requests /\ r \notin Range(batch) /\ r \in Range(waitingQueue)
        BY <1>10, <1>14, <1>16
      <3>2. H[r] = held[r] /\ held[r] = PromptBlocks[r] /\ held[r] \in Nat
        BY <1>1, <2>1, <2>2, <3>1 DEF HeldFacts
      <3> QED BY <3>2
    <2> QED BY <2>3, <2>4
  <1>20. PICK G : G = {r \in Requests : WhereAfter(batch, out)[r] = "GPU"}
    OBVIOUS
  <1>21. G \subseteq X \cup left
    <2>1. SUFFICES ASSUME NEW r \in G, r \notin Range(batch) PROVE r \in Others \cup left
      BY <1>14
    <2>2. r \in Requests /\ r \notin Range(out) /\ where[r] = "GPU"
      BY <1>20, <2>1 DEF WhereAfter
    <2>3. r \in Range(waitingQueue) \cup InBatches(batchQueues)
      BY <1>1, <1>11, <2>2 DEF TablesFollowQueues
    <2> QED BY <1>2, <1>10, <2>1, <2>2, <2>3 DEF Others
  <1>22. Total(H, G) <= Total(H, X \cup left)
    <2>1. \A r \in G : H[r] <= H[r]
      BY <1>15, <1>16, <1>19, <1>21
    <2>2. X \cup left \in SUBSET Requests
      BY <1>15, <1>16
    <2> QED BY <1>12, <1>19, <1>21, <2>1, <2>2, TotalMonotone
  <1>23. Total(H, X \cup left) = Total(H, X) + Total(H, left)
    <2>1. X \cap left = {} /\ X \in SUBSET Requests /\ left \in SUBSET Requests
      BY <1>15, <1>16
    <2>2. H \in [Requests -> Nat] /\ IsFiniteSet(Requests)
      BY <1>12, <1>19
    <2> QED BY <2>1, <2>2, TotalUnion
  <1>24. Total(H, X) <= Total(Blocks, X)
    <2>1. \A r \in X : H[r] <= Blocks[r]
      BY <1>15, <1>19
    <2> QED BY <1>12, <1>15, <1>19, <2>1, TotalMonotone
  <1>25. Total(H, left) <= Total(PromptBlocks, left)
    BY <1>12, <1>16, <1>19, TotalMonotone
  <1>26. /\ Total(H, G) \in Nat /\ Total(H, X) \in Nat /\ Total(H, left) \in Nat
         /\ Total(Blocks, X) \in Nat /\ Total(PromptBlocks, left) \in Nat /\ MaxNumGpuBlocks \in Nat
    <2>1. G \subseteq Requests
      BY <1>20
    <2> QED BY <1>12, <1>15, <1>16, <1>19, <2>1, TotalType, DecodingAssumption
  <1>27. Total(H, G) <= MaxNumGpuBlocks
    BY <1>17, <1>22, <1>23, <1>24, <1>25, <1>26
  <1> QED BY <1>3, <1>5, <1>18, <1>20, <1>27 DEF Affordable

(***************************************************************************)
(* The theorems.                                                           *)
(***************************************************************************)

(* The queues, the tables and the loop keep their types, and there are     *)
(* never more batches in flight than stages.                               *)
THEOREM TypeCorrect == Spec => []TypeOK
  <1>1. IInv => TypeOK
    BY DEF IInv
  <1> QED BY Invariance, <1>1, PTL

LEMMA PositionOf ==
  ASSUME NEW S, NEW queue \in Seq(S), Distinct(queue), NEW r
  PROVE  /\ r \notin Range(queue) => {i \in DOMAIN queue : queue[i] = r} = {}
         /\ r \in Range(queue) => \E i \in DOMAIN queue : {j \in DOMAIN queue : queue[j] = r} = {i}
  <1>1. ASSUME r \in Range(queue)
        PROVE  \E i \in DOMAIN queue : {j \in DOMAIN queue : queue[j] = r} = {i}
    <2>1. PICK i \in DOMAIN queue : queue[i] = r
      BY <1>1 DEF Range
    <2>2. \A j \in DOMAIN queue : queue[j] = r => j = i
      BY <2>1 DEF Distinct
    <2> QED BY <2>1, <2>2
  <1> QED BY <1>1 DEF Range

(* A request that arrived and is not finished is in one of the queues or   *)
(* being migrated, once, and a finished one is nowhere.                    *)
THEOREM Consistency == Spec => []Consistent
  <1>1. IInv => Consistent
    <2> SUFFICES ASSUME IInv, NEW r \in Requests
                 PROVE  Cardinality(Places(r)) = IF r \in arrived \ finished THEN 1 ELSE 0
      BY DEF IInv, Consistent
    <2> DEFINE At(queue) == {i \in DOMAIN queue : queue[i] = r}
               U == {"unaccepted"} \X {0} \X At(unacceptedQueue)
               W == {"waiting"} \X {0} \X At(waitingQueue)
               S == {"swapped"} \X {0} \X At(swappedQueue)
               M == {"migrating"} \X {0} \X (migrating \cap {r})
               B(i) == {"batch"} \X {i} \X At(batchQueues[i])
    <2>1. Places(r) = U \cup W \cup S \cup M \cup UNION {B(i) : i \in Stages}
      BY Zenon DEF Places
    <2>2. /\ r \in Range(unacceptedQueue) => \E i : At(unacceptedQueue) = {i}
          /\ r \notin Range(unacceptedQueue) => At(unacceptedQueue) = {}
          /\ r \in Range(waitingQueue) => \E i : At(waitingQueue) = {i}
          /\ r \notin Range(waitingQueue) => At(waitingQueue) = {}
          /\ r \in Range(swappedQueue) => \E i : At(swappedQueue) = {i}
          /\ r \notin Range(swappedQueue) => At(swappedQueue) = {}
      <3>1. unacceptedQueue \in Seq(Requests) /\ Distinct(unacceptedQueue)
        BY DEF IInv, TypeOK, OnePlace
      <3>2. waitingQueue \in Seq(Requests) /\ Distinct(waitingQueue)
        BY DEF IInv, TypeOK, OnePlace
      <3>3. swappedQueue \in Seq(Requests) /\ Distinct(swappedQueue)
        BY DEF IInv, TypeOK, OnePlace
      <3>4. /\ r \in Range(unacceptedQueue) => \E i : At(unacceptedQueue) = {i}
            /\ r \notin Range(unacceptedQueue) => At(unacceptedQueue) = {}
        BY <3>1, PositionOf
      <3>5. /\ r \in Range(waitingQueue) => \E i : At(waitingQueue) = {i}
            /\ r \notin Range(waitingQueue) => At(waitingQueue) = {}
        BY <3>2, PositionOf
      <3>6. /\ r \in Range(swappedQueue) => \E i : At(swappedQueue) = {i}
            /\ r \notin Range(swappedQueue) => At(swappedQueue) = {}
        BY <3>3, PositionOf
      <3> HIDE DEF At
      <3> QED BY <3>4, <3>5, <3>6
    <2>3. \A i \in Stages : /\ r \in Range(batchQueues[i]) => \E j : At(batchQueues[i]) = {j}
                            /\ r \notin Range(batchQueues[i]) => At(batchQueues[i]) = {}
      <3>1. SUFFICES ASSUME NEW i \in Stages
                     PROVE  /\ r \in Range(batchQueues[i]) => \E j : At(batchQueues[i]) = {j}
                            /\ r \notin Range(batchQueues[i]) => At(batchQueues[i]) = {}
        OBVIOUS
      <3>2. batchQueues[i] \in Seq(Requests) /\ Distinct(batchQueues[i])
        BY DEF IInv, TypeOK, OnePlace
      <3> QED BY <3>2, PositionOf
    <2> HIDE DEF At
    <2>4. /\ r \notin Range(unacceptedQueue) => U = {}
          /\ r \notin Range(waitingQueue) => W = {}
          /\ r \notin Range(swappedQueue) => S = {}
          /\ r \notin migrating => M = {}
      BY <2>2
    <2>5. \A i \in Stages : r \notin Range(batchQueues[i]) => B(i) = {}
      BY <2>3
    <2>6. r \notin InBatches(batchQueues) => UNION {B(i) : i \in Stages} = {}
      <3>1. \A i \in Stages : Range(batchQueues[i]) \subseteq InBatches(batchQueues)
        BY BatchTypes DEF IInv, TypeOK
      <3> QED BY <2>5, <3>1
    <2>7. FiveApart(Range(unacceptedQueue), Range(waitingQueue), Range(swappedQueue), migrating,
                    InBatches(batchQueues))
          /\ (r \in arrived \ finished <=>
                \/ r \in Range(unacceptedQueue) \/ r \in Range(waitingQueue)
                \/ r \in Range(swappedQueue) \/ r \in migrating \/ r \in InBatches(batchQueues))
      BY DEF IInv, OnePlace
    <2>8. CASE r \notin arrived \ finished
      <3>1. Places(r) = {}
        <4> HIDE DEF U, W, S, M, B
        <4> QED BY <2>1, <2>4, <2>6, <2>7, <2>8
      <3> QED BY <2>8, <3>1, FS_EmptySet
    <2>9. CASE r \in arrived \ finished
      <3>1. SUFFICES \E e : Places(r) = {e}
        BY <2>9, FS_Singleton
      <3>2. CASE r \in Range(unacceptedQueue)
        <4>1. Places(r) = U
          <5> HIDE DEF U, W, S, M, B
          <5> QED BY <2>1, <2>4, <2>6, <2>7, <3>2 DEF FiveApart
        <4>2. PICK i : At(unacceptedQueue) = {i}
          BY <2>2, <3>2
        <4>3. U = {<<"unaccepted", 0, i>>}
          BY <4>2
        <4> QED BY <4>1, <4>3
      <3>3. CASE r \in Range(waitingQueue)
        <4>1. Places(r) = W
          <5> HIDE DEF U, W, S, M, B
          <5> QED BY <2>1, <2>4, <2>6, <2>7, <3>3 DEF FiveApart
        <4>2. PICK i : At(waitingQueue) = {i}
          BY <2>2, <3>3
        <4>3. W = {<<"waiting", 0, i>>}
          BY <4>2
        <4> QED BY <4>1, <4>3
      <3>4. CASE r \in Range(swappedQueue)
        <4>1. Places(r) = S
          <5> HIDE DEF U, W, S, M, B
          <5> QED BY <2>1, <2>4, <2>6, <2>7, <3>4 DEF FiveApart
        <4>2. PICK i : At(swappedQueue) = {i}
          BY <2>2, <3>4
        <4>3. S = {<<"swapped", 0, i>>}
          BY <4>2
        <4> QED BY <4>1, <4>3
      <3>5. CASE r \in migrating
        <4>1. Places(r) = M
          <5> HIDE DEF U, W, S, M, B
          <5> QED BY <2>1, <2>4, <2>6, <2>7, <3>5 DEF FiveApart
        <4>2. migrating \cap {r} = {r}
          BY <3>5
        <4>3. M = {<<"migrating", 0, r>>}
          BY <4>2
        <4> QED BY <4>1, <4>3
      <3>6. CASE r \in InBatches(batchQueues)
        <4>1. Places(r) = UNION {B(i) : i \in Stages}
          <5> HIDE DEF U, W, S, M, B
          <5> QED BY <2>1, <2>4, <2>7, <3>6 DEF FiveApart
        <4>2. PICK i \in Stages : r \in Range(batchQueues[i])
          BY <3>6, BatchTypes DEF IInv, TypeOK
        <4>3. \A j \in Stages : j # i => r \notin Range(batchQueues[j])
          BY <4>2 DEF IInv, OnePlace, BatchesApart
        <4>4. UNION {B(j) : j \in Stages} = B(i)
          <5> HIDE DEF B
          <5> QED BY <2>5, <4>2, <4>3
        <4>5. PICK j : At(batchQueues[i]) = {j}
          BY <2>3, <4>2
        <4>6. B(i) = {<<"batch", i, j>>}
          BY <4>5
        <4> QED BY <4>1, <4>4, <4>6
      <3> QED BY <2>7, <2>9, <3>2, <3>3, <3>4, <3>5, <3>6
    <2> QED BY <2>8, <2>9
  <1> QED BY Invariance, <1>1, PTL

(* A request has its blocks on the side of the queue it is in.             *)
THEOREM Tables == Spec => []TablesFollowQueues
  <1>1. IInv => TablesFollowQueues
    BY DEF IInv
  <1> QED BY Invariance, <1>1, PTL

(* GPU blocks are never the reason why a step of the loop fails.           *)
THEOREM GpuBlocks == Spec => []GpuBlocksSuffice
  <1>1. IInv => GpuBlocksSuffice
    <2> SUFFICES ASSUME IInv, pc = "ready"
                 PROVE  /\ \E k \in 0 .. Len(batchQueues[NextIndex]) : IsKeptLen(k)
                        /\ \A k \in 0 .. Len(batchQueues[NextIndex]) :
                           \A n \in 0 .. Len(swappedQueue) + Len(SwappedOut(k)),
                              m \in 0 .. Len(waitingQueue) :
                             IsNextBatch(k, n, m) => Affordable(k, n, m)
      BY Zenon DEF GpuBlocksSuffice
    <2> QED BY KeptLenExists, NextBatchAffordable
  <1> QED BY Invariance, <1>1, PTL

(* The requests of the batches in flight have a block for every token.     *)
THEOREM InFlightBlocks == Spec => []InFlightHasBlocks
  <1>1. IInv => InFlightHasBlocks
    <2> SUFFICES ASSUME IInv, NEW i \in InFlight, NEW r \in Range(batchQueues[i])
                 PROVE  where[r] = "GPU" /\ held[r] >= Blocks[r]
      BY DEF InFlightHasBlocks
    <2>1. i \in Stages /\ i \in Range(pipeline)
      BY DEF InFlight
    <2>2. r \in Requests /\ r \in InBatches(batchQueues)
      BY <2>1, BatchTypes DEF IInv, TypeOK
    <2>3. Blocks[r] <= held[r]
      BY <2>1 DEF IInv, HeldFacts
    <2>4. where[r] = "GPU"
      BY <2>2 DEF IInv, TablesFollowQueues
    <2>5. Blocks[r] \in Nat /\ held[r] \in Nat
      BY <2>2, BlocksType DEF IInv, TypeOK
    <2> QED BY <2>3, <2>4, <2>5
  <1> QED BY Invariance, <1>1, PTL

(* No step changes a batch while it is in flight.                          *)
THEOREM InFlightBatches == Spec => InFlightUntouched
  <1>1. IInv /\ [Next]_vars
          => [\A i \in InFlight : i \in Range(pipeline') => batchQueues'[i] = batchQueues[i]]_vars
    <2> SUFFICES ASSUME IInv, [Next]_vars, NEW i \in InFlight, i \in Range(pipeline')
                 PROVE  batchQueues'[i] = batchQueues[i]
      OBVIOUS
    <2>1. /\ i \in Stages /\ i \in Range(pipeline)
          /\ batchQueues \in [Stages -> Seq(Requests)]
          /\ curIndex \in Stages \cup {-1}
          /\ pipeline \in Seq(Stages \cup {Empty})
          /\ curIndex = -1 => pipeline = <<>>
          /\ OneAfterTheOther(pipeline, curIndex)
      BY DEF InFlight, IInv, TypeOK, LoopPlace
    <2>2. CASE Schedule
      <3>1. PICK batch : batchQueues' = [batchQueues EXCEPT ![NextIndex] = batch]
        BY <2>2 DEF Schedule
      <3>2. Len(pipeline) < PipelineSize
        BY <2>2 DEF Schedule, IInv, LoopPlace
      <3>3. i # NextIndex
        BY <2>1, <3>2, NextNotInFlight
      <3> QED BY <2>1, <3>1, <3>3
    <2>3. CASE FinishBatch
      <3>1. PICK batch : batchQueues' = [batchQueues EXCEPT ![LastStageBatch] = batch]
        BY <2>3 DEF FinishBatch
      <3>2. pipeline' = Tail(pipeline) /\ Len(pipeline) = PipelineSize /\ Head(pipeline) # Empty
        BY <2>3 DEF FinishBatch, IInv, LoopPlace
      <3>3. NextIndex \notin Range(Tail(pipeline)) /\ LastStageBatch = NextIndex
        BY <2>1, <3>2, OldestIsNext, NextIndexValue
      <3> QED BY <2>1, <3>1, <3>2, <3>3
    <2>4. CASE ~Schedule /\ ~FinishBatch
      <3>1. batchQueues' = batchQueues
        BY <2>4 DEF Next, vars, queueVars, AddRequest, SwapOutFails, WakeUp, BeginMigration, EndMigration,
                    EndStep
      <3> QED BY <3>1
    <2> QED BY <2>2, <2>3, <2>4
  <1> QED BY Invariance, <1>1, PTL DEF Spec, InFlightUntouched
=============================================================================
