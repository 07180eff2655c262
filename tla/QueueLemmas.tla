----------------------------- MODULE QueueLemmas -----------------------------
(***************************************************************************)
(* What the proofs about the schedulers rest on.  Totals are natural       *)
(* numbers and add up over disjoint sets; the queues, sequences without    *)
(* repetition, stay so when they are appended to, cut and joined; so do    *)
(* the batches of a pipeline, which have no request in common.             *)
(***************************************************************************)
EXTENDS Queues, FiniteSetTheorems, SequenceTheorems, TLAPS

(***************************************************************************)
(* Totals.                                                                 *)
(***************************************************************************)
LEMMA ItemsElements ==
  ASSUME NEW f, NEW S, NEW b
  PROVE  b \in Items(f, S) <=> \E r \in S : \E i \in 1 .. f[r] : b = <<r, i>>
  BY DEF Items

LEMMA ItemsFinite ==
  ASSUME NEW S, IsFiniteSet(S), NEW f \in [S -> Nat]
  PROVE  IsFiniteSet(Items(f, S))
  <1> DEFINE g == [r \in S |-> {r} \X (1 .. f[r])]
             T == {{r} \X (1 .. f[r]) : r \in S}
  <1>1. g \in Surjection(S, T)
    BY DEF Surjection
  <1>2. IsFiniteSet(T)
    BY <1>1, FS_Surjection
  <1>3. \A r \in S : IsFiniteSet({r} \X (1 .. f[r]))
    <2> TAKE r \in S
    <2>1. IsFiniteSet({r})
      BY FS_Singleton
    <2>2. IsFiniteSet(1 .. f[r])
      BY FS_Interval
    <2> QED BY <2>1, <2>2, FS_Product
  <1> QED BY <1>2, <1>3, FS_UNION DEF Items

LEMMA ItemsUnion ==
  ASSUME NEW f, NEW S, NEW T
  PROVE  Items(f, S \cup T) = Items(f, S) \cup Items(f, T)
  BY DEF Items

LEMMA ItemsDisjoint ==
  ASSUME NEW f, NEW S, NEW T, S \cap T = {}
  PROVE  Items(f, S) \cap Items(f, T) = {}
  BY DEF Items

LEMMA ItemsEmpty ==
  ASSUME NEW f
  PROVE  Items(f, {}) = {}
  BY DEF Items

LEMMA ItemsDifference ==
  ASSUME NEW f, NEW S, NEW T
  PROVE  Items(f, S \ T) = Items(f, S) \ Items(f, T)
  BY DEF Items

LEMMA TotalType ==
  ASSUME NEW S, IsFiniteSet(S), NEW f \in [S -> Nat], NEW T \in SUBSET S
  PROVE  /\ IsFiniteSet(Items(f, T))
         /\ Total(f, T) \in Nat
  <1>1. IsFiniteSet(T)
    BY FS_Subset
  <1>2. Items(f, T) = Items([r \in T |-> f[r]], T)
    BY DEF Items
  <1>3. IsFiniteSet(Items(f, T))
    BY <1>1, <1>2, ItemsFinite
  <1> QED BY <1>3, FS_CardinalityType DEF Total

LEMMA TotalEmpty ==
  ASSUME NEW f
  PROVE  Total(f, {}) = 0
  BY ItemsEmpty, FS_EmptySet DEF Total

LEMMA TotalUnion ==
  ASSUME NEW S, IsFiniteSet(S), NEW f \in [S -> Nat],
         NEW T \in SUBSET S, NEW U \in SUBSET S, T \cap U = {}
  PROVE  Total(f, T \cup U) = Total(f, T) + Total(f, U)
  <1>1. Items(f, T) \cap Items(f, U) = {} /\ Items(f, T \cup U) = Items(f, T) \cup Items(f, U)
    BY ItemsDisjoint, ItemsUnion
  <1>2. IsFiniteSet(Items(f, T)) /\ IsFiniteSet(Items(f, U))
    BY TotalType
  <1>3. Cardinality(Items(f, T) \cup Items(f, U))
          = Cardinality(Items(f, T)) + Cardinality(Items(f, U)) - Cardinality(Items(f, T) \cap Items(f, U))
    BY <1>2, FS_Union
  <1>4. Cardinality(Items(f, T) \cap Items(f, U)) = 0
    BY <1>1, FS_EmptySet
  <1>5. Cardinality(Items(f, T)) \in Nat /\ Cardinality(Items(f, U)) \in Nat
    BY <1>2, FS_CardinalityType
  <1>6. Total(f, T \cup U) = Cardinality(Items(f, T) \cup Items(f, U))
    BY <1>1, Zenon DEF Total
  <1>7. Total(f, T \cup U) = Cardinality(Items(f, T)) + Cardinality(Items(f, U))
    BY <1>3, <1>4, <1>5, <1>6
  <1> QED BY <1>7, Zenon DEF Total

LEMMA TotalDifference ==
  ASSUME NEW S, IsFiniteSet(S), NEW f \in [S -> Nat],
         NEW T \in SUBSET S, NEW U \in SUBSET T
  PROVE  Total(f, T \ U) = Total(f, T) - Total(f, U)
  <1>1. Total(f, (T \ U) \cup U) = Total(f, T \ U) + Total(f, U)
    BY TotalUnion
  <1>2. Total(f, T) = Total(f, (T \ U) \cup U)
    <2>1. (T \ U) \cup U = T
      OBVIOUS
    <2> QED BY <2>1
  <1>3. /\ Total(f, T \ U) \in Nat
        /\ Total(f, U) \in Nat
    BY TotalType
  <1> QED BY <1>1, <1>2, <1>3

(* Of a part, with no more of each request, the total is no larger. *)
LEMMA TotalMonotone ==
  ASSUME NEW S, IsFiniteSet(S), NEW f \in [S -> Nat], NEW g \in [S -> Nat],
         NEW U \in SUBSET S, NEW T \in SUBSET U, \A r \in T : f[r] <= g[r]
  PROVE  Total(f, T) <= Total(g, U)
  <1>1. Items(f, T) \subseteq Items(g, U)
    <2>1. SUFFICES ASSUME NEW r \in T, NEW i \in 1 .. f[r] PROVE <<r, i>> \in Items(g, U)
      BY DEF Items
    <2>2. f[r] \in Nat /\ g[r] \in Nat /\ f[r] <= g[r]
      OBVIOUS
    <2>3. i \in 1 .. g[r]
      BY <2>2
    <2> QED BY <2>3 DEF Items
  <1>2. IsFiniteSet(Items(g, U))
    BY TotalType
  <1> QED BY <1>1, <1>2, FS_Subset DEF Total

LEMMA TotalSingleton ==
  ASSUME NEW S, NEW f \in [S -> Nat], NEW r \in S
  PROVE  Total(f, {r}) = f[r]
  <1>1. IsFiniteSet({r}) /\ Cardinality({r}) = 1
    BY FS_Singleton
  <1>2. f[r] \in Nat
    OBVIOUS
  <1>3. IsFiniteSet(1 .. f[r]) /\ Cardinality(1 .. f[r]) = f[r]
    BY <1>2, FS_Interval
  <1>4. Cardinality({r} \X (1 .. f[r])) = f[r]
    <2>1. Cardinality({r} \X (1 .. f[r])) = Cardinality({r}) * Cardinality(1 .. f[r])
      BY <1>1, <1>3, FS_Product
    <2>2. 1 * f[r] = f[r]
      BY <1>2
    <2> QED BY <1>1, <1>3, <2>1, <2>2
  <1>5. Items(f, {r}) = {r} \X (1 .. f[r])
    BY DEF Items
  <1> QED BY <1>4, <1>5 DEF Total

(***************************************************************************)
(* Sequences without repetition.                                           *)
(***************************************************************************)
LEMMA AppendDistinct ==
  ASSUME NEW S, NEW s \in Seq(S), NEW e \in S, Distinct(s), e \notin Range(s)
  PROVE  Distinct(Append(s, e))
  BY DEF Distinct, Range

LEMMA AppendRange ==
  ASSUME NEW S, NEW s \in Seq(S), NEW e \in S
  PROVE  Range(Append(s, e)) = Range(s) \cup {e}
  <1>1. \A i \in 1 .. Len(s) : Append(s, e)[i] = s[i]
    OBVIOUS
  <1>2. Append(s, e)[Len(s) + 1] = e /\ DOMAIN Append(s, e) = 1 .. (Len(s) + 1)
    OBVIOUS
  <1>3. Range(s) = {s[i] : i \in 1 .. Len(s)}
    BY DEF Range
  <1>4. Range(Append(s, e)) = {Append(s, e)[i] : i \in 1 .. (Len(s) + 1)}
    BY <1>2 DEF Range
  <1> QED BY <1>1, <1>2, <1>3, <1>4

LEMMA HeadAndTail ==
  ASSUME NEW S, NEW s \in Seq(S), s # <<>>
  PROVE  /\ Head(s) \in Range(s)
         /\ Tail(s) \in Seq(S)
         /\ Range(s) = {Head(s)} \cup Range(Tail(s))
         /\ Distinct(s) => Distinct(Tail(s)) /\ Head(s) \notin Range(Tail(s))
  <1>1. /\ Tail(s) \in Seq(S) /\ Len(Tail(s)) = Len(s) - 1
        /\ \A i \in 1 .. Len(Tail(s)) : Tail(s)[i] = s[i + 1]
        /\ Head(s) = s[1] /\ Len(s) \in Nat \ {0}
    BY HeadTailProperties
  <1> DEFINE t == Tail(s)
  <1>2. /\ DOMAIN s = 1 .. Len(s) /\ DOMAIN t = 1 .. Len(s) - 1
        /\ 1 \in DOMAIN s
        /\ \A i \in DOMAIN t : t[i] = s[i + 1] /\ i + 1 \in DOMAIN s /\ i + 1 # 1
        /\ \A i \in DOMAIN s : i # 1 => i - 1 \in DOMAIN t /\ (i - 1) + 1 = i
    BY <1>1
  <1> HIDE DEF t
  <1>3. Head(s) \in Range(s)
    BY <1>1, <1>2 DEF Range
  <1>4. Range(t) \subseteq Range(s)
    <2>1. SUFFICES ASSUME NEW i \in DOMAIN t PROVE t[i] \in Range(s)
      BY Zenon DEF Range
    <2>2. t[i] = s[i + 1] /\ i + 1 \in DOMAIN s
      BY <1>2
    <2> QED BY <2>2, Zenon DEF Range
  <1>5. Range(s) \subseteq {Head(s)} \cup Range(t)
    <2>1. SUFFICES ASSUME NEW i \in DOMAIN s PROVE s[i] \in {Head(s)} \cup Range(t)
      BY Zenon DEF Range
    <2>2. CASE i = 1
      BY <1>1, <2>2
    <2>3. CASE i # 1
      <3>1. i - 1 \in DOMAIN t /\ (i - 1) + 1 = i
        BY <1>2, <2>3
      <3>2. t[i - 1] = s[i]
        BY <1>2, <3>1
      <3> QED BY <3>1, <3>2 DEF Range
    <2> QED BY <2>2, <2>3
  <1>6. ASSUME Distinct(s) PROVE Distinct(t)
    <2>1. SUFFICES ASSUME NEW i \in DOMAIN t, NEW j \in DOMAIN t, i # j PROVE t[i] # t[j]
      BY DEF Distinct
    <2>2. /\ t[i] = s[i + 1] /\ t[j] = s[j + 1]
          /\ i + 1 \in DOMAIN s /\ j + 1 \in DOMAIN s
      BY <1>2
    <2>3. i + 1 # j + 1
      BY <1>2, <2>1
    <2> QED BY <1>6, <2>2, <2>3 DEF Distinct
  <1>7. ASSUME Distinct(s) PROVE Head(s) \notin Range(t)
    <2>1. SUFFICES ASSUME NEW i \in DOMAIN t PROVE t[i] # Head(s)
      BY Zenon DEF Range
    <2>2. t[i] = s[i + 1] /\ i + 1 \in DOMAIN s /\ i + 1 # 1
      BY <1>2
    <2>3. s[i + 1] # s[1]
      BY <1>2, <1>7, <2>2 DEF Distinct
    <2> QED BY <1>1, <2>2, <2>3
  <1>8. Range(s) = {Head(s)} \cup Range(t)
    BY <1>3, <1>4, <1>5
  <1>9. Distinct(s) => Distinct(t) /\ Head(s) \notin Range(t)
    BY <1>6, <1>7
  <1> QED BY <1>1, <1>3, <1>8, <1>9 DEF t

LEMMA SplitSeq ==
  ASSUME NEW S, NEW s \in Seq(S), NEW n \in 0 .. Len(s), Distinct(s)
  PROVE  LET a == SubSeq(s, 1, n)
             b == SubSeq(s, n + 1, Len(s))
         IN  /\ a \in Seq(S) /\ b \in Seq(S) /\ Len(a) = n
             /\ Range(s) = Range(a) \cup Range(b)
             /\ Range(a) \cap Range(b) = {}
             /\ Distinct(a) /\ Distinct(b)
  <1> DEFINE a == SubSeq(s, 1, n)
             b == SubSeq(s, n + 1, Len(s))
  <1>1. /\ a \in Seq(S) /\ Len(a) = n
        /\ \A i \in 1 .. n : a[i] = s[i]
    OBVIOUS
  <1>2. /\ b \in Seq(S) /\ Len(b) = Len(s) - n
        /\ \A i \in 1 .. Len(s) - n : b[i] = s[n + i]
    OBVIOUS
  <1>3. /\ Range(a) = {s[i] : i \in 1 .. n}
        /\ Range(b) = {s[n + i] : i \in 1 .. Len(s) - n}
        /\ Range(s) = {s[i] : i \in 1 .. Len(s)}
    <2>1. DOMAIN a = 1 .. n /\ DOMAIN b = 1 .. Len(s) - n /\ DOMAIN s = 1 .. Len(s)
      BY <1>1, <1>2
    <2>2. Range(a) = {a[i] : i \in 1 .. n}
      BY <2>1, Zenon DEF Range
    <2>3. Range(b) = {b[i] : i \in 1 .. Len(s) - n}
      BY <2>1, Zenon DEF Range
    <2>4. Range(s) = {s[i] : i \in 1 .. Len(s)}
      BY <2>1, Zenon DEF Range
    <2> HIDE DEF a, b
    <2>5. {a[i] : i \in 1 .. n} = {s[i] : i \in 1 .. n}
      BY <1>1, Zenon
    <2>6. {b[i] : i \in 1 .. Len(s) - n} = {s[n + i] : i \in 1 .. Len(s) - n}
      BY <1>2, Zenon
    <2> QED BY <2>2, <2>3, <2>4, <2>5, <2>6, Zenon
  <1>4. \A i \in 1 .. Len(s) : i \in 1 .. n \/ (i - n \in 1 .. Len(s) - n /\ i = n + (i - n))
    OBVIOUS
  <1> HIDE DEF a, b
  <1>5. Range(s) = Range(a) \cup Range(b)
    <2>1. ASSUME NEW i \in 1 .. Len(s) PROVE s[i] \in Range(a) \cup Range(b)
      <3>1. CASE i \in 1 .. n
        BY <1>3, <3>1
      <3>2. CASE i \notin 1 .. n
        <4>1. i - n \in 1 .. Len(s) - n /\ s[n + (i - n)] = s[i]
          BY <1>4, <3>2
        <4>2. s[n + (i - n)] \in Range(b)
          BY <1>3, <4>1
        <4> QED BY <4>1, <4>2
      <3> QED BY <3>1, <3>2
    <2>2. \A i \in 1 .. Len(s) - n : n + i \in 1 .. Len(s)
      OBVIOUS
    <2>3. Range(a) \subseteq Range(s) /\ Range(b) \subseteq Range(s)
      BY <1>3, <2>2
    <2> QED BY <1>3, <2>1, <2>3
  <1>6. Range(a) \cap Range(b) = {}
    BY <1>3 DEF Distinct
  <1>7. Distinct(a)
    BY <1>1 DEF Distinct
  <1>8. Distinct(b)
    <2>1. SUFFICES ASSUME NEW i \in DOMAIN b, NEW j \in DOMAIN b, b[i] = b[j] PROVE i = j
      BY DEF Distinct
    <2>2. Len(s) \in Nat /\ DOMAIN s = 1 .. Len(s) /\ DOMAIN b = 1 .. Len(s) - n
      BY <1>2
    <2>3. i \in Int /\ j \in Int /\ n + i \in DOMAIN s /\ n + j \in DOMAIN s
      BY <2>2
    <2>4. s[n + i] = s[n + j]
      BY <1>2, <2>1, <2>2
    <2>5. n + i = n + j
      BY <2>3, <2>4 DEF Distinct
    <2> QED BY <2>3, <2>5
  <1> QED BY <1>1, <1>2, <1>5, <1>6, <1>7, <1>8 DEF a, b

LEMMA ConcatDistinct ==
  ASSUME NEW S, NEW s \in Seq(S), NEW t \in Seq(S),
         Distinct(s), Distinct(t), Range(s) \cap Range(t) = {}
  PROVE  s \o t \in Seq(S) /\ Distinct(s \o t) /\ Range(s \o t) = Range(s) \cup Range(t)
  <1>1. /\ s \o t \in Seq(S) /\ Len(s \o t) = Len(s) + Len(t)
        /\ \A i \in 1 .. Len(s) : (s \o t)[i] = s[i] /\ s[i] \in Range(s)
        /\ \A i \in Len(s) + 1 .. Len(s) + Len(t) :
             (s \o t)[i] = t[i - Len(s)] /\ t[i - Len(s)] \in Range(t)
    BY DEF Range
  <1>2. Distinct(s \o t)
    BY <1>1 DEF Distinct
  <1> QED BY <1>1, <1>2, RangeConcatenation

(* What is left of a queue is a part of it, and repeats nothing. *)
LEMMA SubsequenceFacts ==
  ASSUME NEW S, NEW queue \in Seq(S), NEW out \in Subsequences(queue)
  PROVE  out \in Seq(S) /\ Distinct(out) /\ Range(out) \subseteq Range(queue)
  <1>1. PICK k \in 0 .. Len(queue) : out \in [1 .. k -> Range(queue)]
    BY DEF Subsequences
  <1>2. Range(queue) \subseteq S
    BY RangeOfSeq
  <1>3. out \in Seq(S) /\ DOMAIN out = 1 .. k
    BY <1>1, <1>2
  <1>4. Range(out) \subseteq Range(queue)
    BY <1>1, <1>3 DEF Range
  <1>5. \A r \in Range(queue) : PositionIn(queue, r) \in DOMAIN queue
    BY DEF PositionIn, Range
  <1>6. \A i \in DOMAIN out : PositionIn(queue, out[i]) \in Int
    BY <1>1, <1>3, <1>5
  <1>7. \A i, j \in DOMAIN out : i < j => PositionIn(queue, out[i]) < PositionIn(queue, out[j])
    BY DEF Subsequences
  <1>8. Distinct(out)
    BY <1>3, <1>6, <1>7 DEF Distinct
  <1> QED BY <1>3, <1>4, <1>8

(***************************************************************************)
(* The batches in the pipeline.                                            *)
(***************************************************************************)
Pipe(p)     == UNION {Range(p[i]) : i \in DOMAIN p}
Separate(p) == \A i, j \in DOMAIN p : i # j => Range(p[i]) \cap Range(p[j]) = {}

LEMMA PipeAppend ==
  ASSUME NEW S, NEW p \in Seq(Seq(S)), NEW b \in Seq(S)
  PROVE  /\ Pipe(Append(p, b)) = Pipe(p) \cup Range(b)
         /\ Separate(p) /\ Pipe(p) \cap Range(b) = {} => Separate(Append(p, b))
  <1> DEFINE q == Append(p, b)
  <1>1. /\ DOMAIN q = 1 .. Len(p) + 1 /\ DOMAIN p = 1 .. Len(p) /\ Len(p) \in Nat
        /\ \A i \in 1 .. Len(p) : q[i] = p[i]
        /\ q[Len(p) + 1] = b
    OBVIOUS
  <1> HIDE DEF q
  <1>2. \A i \in 1 .. Len(p) + 1 : i \in 1 .. Len(p) \/ i = Len(p) + 1
    BY <1>1
  <1>3. \A i \in 1 .. Len(p) : i \in 1 .. Len(p) + 1
    BY <1>1
  <1>4. Len(p) + 1 \in 1 .. Len(p) + 1
    BY <1>1
  <1>5. Pipe(q) = Pipe(p) \cup Range(b)
    <2>1. ASSUME NEW x \in Pipe(q) PROVE x \in Pipe(p) \cup Range(b)
      <3>1. PICK i \in 1 .. Len(p) + 1 : x \in Range(q[i])
        BY <1>1, <2>1 DEF Pipe
      <3> QED BY <1>1, <1>2, <3>1 DEF Pipe
    <2>2. ASSUME NEW x \in Pipe(p) PROVE x \in Pipe(q)
      <3>1. PICK i \in 1 .. Len(p) : x \in Range(p[i])
        BY <1>1, <2>2 DEF Pipe
      <3>2. x \in Range(q[i]) /\ i \in DOMAIN q
        BY <1>1, <1>3, <3>1
      <3> QED BY <3>2 DEF Pipe
    <2>3. ASSUME NEW x \in Range(b) PROVE x \in Pipe(q)
      <3>1. x \in Range(q[Len(p) + 1]) /\ Len(p) + 1 \in DOMAIN q
        BY <1>1, <1>4, <2>3
      <3> QED BY <3>1 DEF Pipe
    <2> QED BY <2>1, <2>2, <2>3
  <1>6. ASSUME Separate(p), Pipe(p) \cap Range(b) = {} PROVE Separate(q)
    <2>1. \A i \in 1 .. Len(p) : Range(p[i]) \cap Range(b) = {}
      BY <1>1, <1>6 DEF Pipe
    <2>2. SUFFICES ASSUME NEW i \in DOMAIN q, NEW j \in DOMAIN q, i # j
                   PROVE  Range(q[i]) \cap Range(q[j]) = {}
      BY DEF Separate
    <2>3. i \in 1 .. Len(p) \/ i = Len(p) + 1
      BY <1>1, <1>2
    <2>4. j \in 1 .. Len(p) \/ j = Len(p) + 1
      BY <1>1, <1>2
    <2>5. CASE i \in 1 .. Len(p) /\ j \in 1 .. Len(p)
      <3>1. q[i] = p[i] /\ q[j] = p[j] /\ i \in DOMAIN p /\ j \in DOMAIN p
        BY <1>1, <2>5
      <3> QED BY <1>6, <2>2, <3>1 DEF Separate
    <2>6. CASE i \in 1 .. Len(p) /\ j = Len(p) + 1
      BY <1>1, <2>1, <2>6
    <2>7. CASE i = Len(p) + 1 /\ j \in 1 .. Len(p)
      BY <1>1, <2>1, <2>7
    <2> QED BY <2>2, <2>3, <2>4, <2>5, <2>6, <2>7
  <1> QED BY <1>5, <1>6 DEF q

LEMMA PipeTail ==
  ASSUME NEW S, NEW p \in Seq(Seq(S)), p # <<>>
  PROVE  /\ Head(p) \in Seq(S)
         /\ Tail(p) \in Seq(Seq(S))
         /\ Len(Tail(p)) = Len(p) - 1
         /\ Pipe(p) = Range(Head(p)) \cup Pipe(Tail(p))
         /\ Separate(p) => Separate(Tail(p)) /\ Range(Head(p)) \cap Pipe(Tail(p)) = {}
  <1> DEFINE t == Tail(p)
  <1>1. /\ t \in Seq(Seq(S)) /\ Len(t) = Len(p) - 1
        /\ \A i \in 1 .. Len(t) : t[i] = p[i + 1]
        /\ Head(p) = p[1] /\ Len(p) \in Nat \ {0} /\ Head(p) \in Seq(S)
    BY HeadTailProperties
  <1>2. DOMAIN p = 1 .. Len(p) /\ DOMAIN t = 1 .. Len(p) - 1
    BY <1>1
  <1> HIDE DEF t
  <1>3a. Len(p) \in Nat /\ (\A i \in 1 .. Len(p) - 1 : t[i] = p[i + 1])
    BY <1>1
  <1>3. ASSUME NEW i \in 1 .. Len(p), i # 1
        PROVE  i - 1 \in DOMAIN t /\ p[i] = t[i - 1]
    <2>1. i - 1 \in 1 .. Len(p) - 1 /\ (i - 1) + 1 = i
      BY <1>3, <1>3a
    <2>2. t[i - 1] = p[(i - 1) + 1]
      BY <2>1, <1>3a
    <2> QED BY <1>2, <2>1, <2>2
  <1>4. ASSUME NEW i \in DOMAIN t
        PROVE  i + 1 \in DOMAIN p /\ t[i] = p[i + 1] /\ i + 1 # 1
    <2>1. i \in 1 .. Len(p) - 1
      BY <1>2
    <2>2. i + 1 \in 1 .. Len(p) /\ i + 1 # 1
      BY <1>3a, <2>1
    <2> QED BY <1>2, <1>3a, <2>1, <2>2
  <1>5. 1 \in DOMAIN p
    BY <1>1, <1>2
  <1>6. Pipe(p) \subseteq Range(Head(p)) \cup Pipe(t)
    <2>1. SUFFICES ASSUME NEW i \in DOMAIN p, NEW x \in Range(p[i])
                   PROVE  x \in Range(Head(p)) \cup Pipe(t)
      BY Zenon DEF Pipe
    <2>2. CASE i = 1
      BY <1>1, <2>1, <2>2
    <2>3. CASE i # 1
      <3>1. i - 1 \in DOMAIN t /\ p[i] = t[i - 1]
        BY <1>2, <1>3, <2>3
      <3>2. x \in Range(t[i - 1])
        BY <2>1, <3>1
      <3> QED BY <3>1, <3>2 DEF Pipe
    <2> QED BY <2>2, <2>3
  <1>7. Pipe(t) \subseteq Pipe(p)
    BY <1>4 DEF Pipe
  <1>8. Range(Head(p)) \subseteq Pipe(p)
    BY <1>1, <1>5 DEF Pipe
  <1>9. ASSUME Separate(p) PROVE Separate(t) /\ Range(Head(p)) \cap Pipe(t) = {}
    <2>1. \A i, j \in DOMAIN t : i # j => i + 1 # j + 1
      BY <1>2
    <2>2. Separate(t)
      <3>1. SUFFICES ASSUME NEW i \in DOMAIN t, NEW j \in DOMAIN t, i # j
                     PROVE  Range(t[i]) \cap Range(t[j]) = {}
        BY Zenon DEF Separate
      <3>2. /\ t[i] = p[i + 1] /\ t[j] = p[j + 1]
            /\ i + 1 \in DOMAIN p /\ j + 1 \in DOMAIN p
        BY <1>4
      <3>3. i + 1 # j + 1
        BY <2>1, <3>1
      <3> QED BY <1>9, <3>2, <3>3 DEF Separate
    <2>3. ASSUME NEW i \in DOMAIN t PROVE Range(p[1]) \cap Range(t[i]) = {}
      <3>1. t[i] = p[i + 1] /\ i + 1 \in DOMAIN p /\ i + 1 # 1
        BY <1>4
      <3> QED BY <1>5, <1>9, <3>1 DEF Separate
    <2> QED BY <1>1, <2>2, <2>3 DEF Pipe
  <1> QED BY <1>1, <1>6, <1>7, <1>8, <1>9 DEF t

LEMMA PipeType ==
  ASSUME NEW S, NEW p \in Seq(Seq(S))
  PROVE  Pipe(p) \subseteq S
  <1>1. \A i \in DOMAIN p : p[i] \in Seq(S)
    OBVIOUS
  <1>2. \A i \in DOMAIN p : Range(p[i]) \subseteq S
    BY <1>1, RangeOfSeq
  <1> QED BY <1>2 DEF Pipe
=============================================================================
