--------------------------- MODULE Engine_proofs ----------------------------
(***************************************************************************)
(* The engine's start and the ROM decisions it then serves, for every      *)
(* model, parallel configuration, cluster, table and bandwidth.            *)
(*                                                                         *)
(* Startup: the groups of _init_placement_groups put the context and the   *)
(* decoding workers of a layer together, and an engine that calls itself   *)
(* initialized has all of its workers, with caches that fit.               *)
(*                                                                         *)
(* Weights: whoever finds a model's folder done finds its weights          *)
(* complete, of one dtype, and every head in one piece.                    *)
(*                                                                         *)
(* RomQueries: a decision below the breakeven is to migrate, also between  *)
(* the lengths of the table, and a faster link never speaks for            *)
(* recomputing.                                                            *)
(***************************************************************************)
EXTENDS RomQueries, Startup, Weights, FiniteSetTheorems, WellFoundedInduction, TLAPS


(***************************************************************************)
(* Arithmetic.                                                             *)
(***************************************************************************)
LEMMA TimesMonotone ==
  ASSUME NEW a \in Int, NEW b \in Int, NEW c \in Nat, a <= b
  PROVE  a * c <= b * c
  OBVIOUS

LEMMA TimesCancel ==
  ASSUME NEW a \in Int, NEW b \in Int, NEW c \in Nat \ {0}, a * c <= b * c
  PROVE  a <= b
  OBVIOUS

(***************************************************************************)
(* Bounded sets of natural numbers have a least and a greatest element.    *)
(***************************************************************************)
LEMMA LeastExists ==
  ASSUME NEW T \in SUBSET Nat, T # {}
  PROVE  \E x \in T : \A y \in T : x <= y
  <1>1. PICK x \in T : \A y \in T : ~(<<y, x>> \in OpToRel(<, Nat))
    BY WFMin, NatLessThanWellFounded
  <1>2. \A y \in T : ~(y < x)
    BY <1>1 DEF OpToRel
  <1> QED BY <1>2

LEMMA GreatestExists ==
  ASSUME NEW n \in Nat, NEW T \in SUBSET (0 .. n), T # {}
  PROVE  \E x \in T : \A y \in T : y <= x
  <1> DEFINE U == {n - x : x \in T}
  <1>1. U \in SUBSET Nat /\ U # {}
    <2>1. \A x \in T : x \in 0 .. n
      OBVIOUS
    <2>2. \A x \in T : n - x \in Nat
      BY <2>1
    <2> QED BY <2>2
  <1>2. PICK u \in U : \A v \in U : u <= v
    BY <1>1, LeastExists
  <1>3. PICK x \in T : u = n - x
    OBVIOUS
  <1>4. \A y \in T : n - x <= n - y
    BY <1>2, <1>3
  <1> QED BY <1>4

(***************************************************************************)
(* Prefill time tables.                                                    *)
(***************************************************************************)
IsTable(t) == /\ DOMAIN t # {}
              /\ DOMAIN t \subseteq 1 .. MaxSize
              /\ \A k \in DOMAIN t : t[k] \in Nat

LEMMA Ends ==
  ASSUME NEW t, IsTable(t)
  PROVE  IsLowest(Lowest(t), t) /\ IsHighest(Highest(t), t)
  <1>1. MaxSize \in Nat /\ DOMAIN t \in SUBSET (0 .. MaxSize) /\ DOMAIN t \in SUBSET Nat
    BY QueriesAssumption DEF IsTable
  <1>2. \E k \in DOMAIN t : \A j \in DOMAIN t : k <= j
    BY <1>1, LeastExists DEF IsTable
  <1>3. \E k \in DOMAIN t : \A j \in DOMAIN t : j <= k
    BY <1>1, GreatestExists DEF IsTable
  <1> QED BY <1>2, <1>3 DEF IsLowest, IsHighest, Lowest, Highest

LEMMA Neighbours ==
  ASSUME NEW t, IsTable(t), NEW x \in Nat, Lowest(t) <= x, x < Highest(t)
  PROVE  /\ Below(t, x) \in DOMAIN t /\ Above(t, x) \in DOMAIN t
         /\ Below(t, x) <= x /\ x < Above(t, x)
         /\ \A j \in DOMAIN t : j <= Below(t, x) \/ Above(t, x) <= j
  <1> DEFINE L == {k \in DOMAIN t : k <= x}
             H == {k \in DOMAIN t : x < k}
  <1>1. MaxSize \in Nat /\ DOMAIN t \subseteq 0 .. MaxSize
    BY QueriesAssumption DEF IsTable
  <1>2. L \in SUBSET (0 .. MaxSize) /\ H \in SUBSET Nat
    BY <1>1
  <1>3. Lowest(t) \in L /\ Highest(t) \in H
    BY Ends DEF IsLowest, IsHighest
  <1>4. PICK l \in L : \A j \in L : j <= l
    BY <1>1, <1>2, <1>3, GreatestExists
  <1>5. PICK h \in H : \A j \in H : h <= j
    BY <1>2, <1>3, LeastExists
  <1>6. \A j \in DOMAIN t : j \in L \/ x < j
    BY <1>1
  <1>7. /\ Below(t, x) \in DOMAIN t /\ Below(t, x) <= x
        /\ \A j \in DOMAIN t : j <= Below(t, x) \/ x < j
    BY <1>4, <1>6 DEF Below
  <1>8. /\ Above(t, x) \in DOMAIN t /\ x < Above(t, x)
        /\ \A j \in DOMAIN t : Above(t, x) <= j \/ j <= x
    <2>1. \A j \in DOMAIN t : j \in H \/ j <= x
      BY <1>1
    <2> QED BY <1>5, <2>1 DEF Above
  <1>9. \A j \in DOMAIN t : j \in Nat
    BY <1>1
  <1> QED BY <1>7, <1>8, <1>9

(* The value on a segment, as a mean of those at its ends. *)
LEMMA SegmentValue ==
  ASSUME NEW lo \in Nat, NEW hi \in Nat, NEW a \in Nat, NEW b \in Nat, NEW x \in Nat,
         lo <= x, x <= hi
  PROVE  /\ a * (hi - lo) + (x - lo) * (b - a) = a * (hi - x) + b * (x - lo)
         /\ a * (hi - x) + b * (x - lo) \in Nat
  <1>1. a * (hi - lo) + (x - lo) * (b - a) = a * (hi - x) + b * (x - lo)
    OBVIOUS
  <1>2. hi - x \in Nat /\ x - lo \in Nat
    OBVIOUS
  <1>3. a * (hi - x) \in Nat /\ b * (x - lo) \in Nat
    BY <1>2
  <1> QED BY <1>1, <1>3

(* A recomputation takes a time that is neither negative nor infinite. *)
LEMMA RecomputeType ==
  ASSUME NEW t, IsTable(t), NEW x \in Nat
  PROVE  CRecomp(x, t).num \in Nat /\ CRecomp(x, t).den \in Nat \ {0}
  <1>1. CASE x <= 0
    BY <1>1 DEF CRecomp, Fraction
  <1>2. CASE ~(x <= 0) /\ (x <= Lowest(t) \/ x >= Highest(t))
    <2>1. t[Lowest(t)] \in Nat /\ t[Highest(t)] \in Nat
      BY Ends DEF IsLowest, IsHighest, IsTable
    <2> QED BY <1>2, <2>1 DEF CRecomp, Interpolate, Fraction
  <1>3. CASE ~(x <= 0) /\ ~(x <= Lowest(t)) /\ ~(x >= Highest(t))
    <2>1. Lowest(t) \in Nat /\ Highest(t) \in Nat
      BY Ends, QueriesAssumption DEF IsLowest, IsHighest, IsTable
    <2>2. PICK lo, hi : lo = Below(t, x) /\ hi = Above(t, x)
      OBVIOUS
    <2>3. /\ lo \in DOMAIN t /\ hi \in DOMAIN t /\ lo <= x /\ x < hi
      BY <1>3, <2>1, <2>2, Neighbours
    <2>4. lo \in Nat /\ hi \in Nat /\ t[lo] \in Nat /\ t[hi] \in Nat
      BY <2>3, QueriesAssumption DEF IsTable
    <2>5. t[lo] * (hi - lo) + (x - lo) * (t[hi] - t[lo]) \in Nat
      BY <2>3, <2>4, SegmentValue
    <2>6. hi - lo \in Nat \ {0}
      BY <2>3, <2>4
    <2>7. CRecomp(x, t) = OnSegment(lo, hi, t[lo], t[hi], x)
      BY <1>3, <2>2 DEF CRecomp, Interpolate
    <2> QED BY <2>5, <2>6, <2>7 DEF OnSegment, Fraction
  <1> QED BY <1>1, <1>2, <1>3

(* At a length of the table the interpolation is the table's value: to     *)
(* compare the one is to compare the other.                                *)
LEMMA AtTableLength ==
  ASSUME NEW t, IsTable(t), NEW k \in DOMAIN t, NEW n \in Nat, NEW d \in Nat \ {0},
         ~AtMost(CRecomp(k, t), Fraction(n, d))
  PROVE  k \in Nat \ {0} /\ t[k] \in Nat /\ n < t[k] * d
  <1>1. k \in Nat \ {0} /\ t[k] \in Nat
    BY QueriesAssumption DEF IsTable
  <1>2. CASE k <= Lowest(t) \/ k >= Highest(t)
    <2>1. \/ k <= Lowest(t) /\ k = Lowest(t)
          \/ ~(k <= Lowest(t)) /\ k >= Highest(t) /\ k = Highest(t)
      BY <1>1, <1>2, Ends, QueriesAssumption DEF IsLowest, IsHighest, IsTable
    <2>2. CRecomp(k, t) = Fraction(t[k], 1)
      BY <1>1, <2>1 DEF CRecomp, Interpolate
    <2>3. ~(t[k] * d <= n * 1)
      BY <2>2 DEF AtMost, Fraction
    <2> QED BY <1>1, <2>3
  <1>3. CASE ~(k <= Lowest(t)) /\ ~(k >= Highest(t))
    <2>1. Lowest(t) \in Nat /\ Highest(t) \in Nat
      BY Ends, QueriesAssumption DEF IsLowest, IsHighest, IsTable
    <2>2. PICK lo, hi : lo = Below(t, k) /\ hi = Above(t, k)
      OBVIOUS
    <2>3. /\ lo \in DOMAIN t /\ hi \in DOMAIN t /\ lo <= k /\ k < hi
          /\ \A j \in DOMAIN t : j <= lo \/ hi <= j
      BY <1>1, <1>3, <2>1, <2>2, Neighbours
    <2>4. lo \in Nat /\ hi \in Nat /\ t[lo] \in Nat /\ t[hi] \in Nat
      BY <2>3, QueriesAssumption DEF IsTable
    <2>5. lo = k
      BY <1>1, <2>3, <2>4
    <2>6. CRecomp(k, t) = Fraction(t[k] * (hi - k) + (k - k) * (t[hi] - t[k]), hi - k)
      BY <1>1, <1>3, <2>2, <2>5 DEF CRecomp, Interpolate, OnSegment
    <2>7. t[k] * (hi - k) + (k - k) * (t[hi] - t[k]) = t[k] * (hi - k)
      BY <1>1, <2>4
    <2>8. ~((t[k] * (hi - k)) * d <= n * (hi - k))
      BY <2>6, <2>7 DEF AtMost, Fraction
    <2>9. PICK w \in Nat : w = hi - k
      BY <1>1, <2>3, <2>4
    <2>10. (t[k] * w) * d = (t[k] * d) * w
      BY <1>1
    <2>11. ~((t[k] * d) * w <= n * w)
      BY <2>8, <2>9, <2>10
    <2>12. t[k] * d \in Nat
      BY <1>1
    <2>13. ~(t[k] * d <= n)
      BY <2>11, <2>12, TimesMonotone
    <2> QED BY <1>1, <2>12, <2>13
  <1> QED BY <1>2, <1>3

(* If migrating is cheaper at both ends of a segment it is on the segment. *)
LEMMA CheaperOnSegment ==
  ASSUME NEW lo \in Nat, NEW hi \in Nat, NEW x \in Nat, lo <= x, x <= hi,
         NEW a \in Nat, NEW b \in Nat, NEW p \in Nat, NEW d \in Nat,
         p * lo <= a * d, p * hi <= b * d
  PROVE  (p * x) * (hi - lo) <= (a * (hi - lo) + (x - lo) * (b - a)) * d
  <1>1. PICK u \in Nat, v \in Nat : u = hi - x /\ v = x - lo
    OBVIOUS
  <1>2. p * lo \in Nat /\ a * d \in Nat /\ p * hi \in Nat /\ b * d \in Nat
    OBVIOUS
  <1>3. (p * lo) * u <= (a * d) * u /\ (p * hi) * v <= (b * d) * v
    BY <1>2, TimesMonotone
  <1>4. (p * x) * (hi - lo) = (p * lo) * u + (p * hi) * v
    BY <1>1
  <1>5. a * (hi - lo) + (x - lo) * (b - a) = a * u + b * v
    BY <1>1, SegmentValue
  <1>6. (a * u + b * v) * d = (a * d) * u + (b * d) * v
    OBVIOUS
  <1>7. /\ (p * lo) * u \in Nat /\ (p * hi) * v \in Nat
        /\ (a * d) * u \in Nat /\ (b * d) * v \in Nat
    BY <1>2
  <1> QED BY <1>3, <1>4, <1>5, <1>6, <1>7

-----------------------------------------------------------------------------

LEMMA ConfigTable ==
  ASSUME NEW c \in Configs
  PROVE  IsTable(c.table) /\ c.perToken \in Nat \ {0} /\ c.policy \in Policies
  BY QueriesAssumption DEF IsTable

LEMMA TypeInvariance == Spec => []TypeOK
  <1>1. Init => TypeOK
    BY DEF Init
  <1>2. TypeOK /\ [Next]_vars => TypeOK'
    BY DEF TypeOK, Next, Query, vars
  <1> QED BY <1>1, <1>2, PTL DEF Spec

(* The cost of migrating, for a link that is up. *)
LEMMA MigrationValue ==
  ASSUME NEW c \in Configs, NEW x \in Nat, NEW b \in Int, b > 0
  PROVE  /\ MigrationCost(x, Fraction(b, 1), c) = Fraction(c.perToken * x, b)
         /\ c.perToken * x \in Nat
  <1>1. c.perToken \in Nat
    BY ConfigTable
  <1>2. KvSizeBytes(x, c.perToken) = c.perToken * x
    <2>1. CASE x <= 0
      BY <1>1, <2>1 DEF KvSizeBytes
    <2>2. CASE ~(x <= 0)
      BY <2>2 DEF KvSizeBytes
    <2> QED BY <2>1, <2>2
  <1>3. (c.perToken * x) * 1 = c.perToken * x /\ c.perToken * x \in Nat
    BY <1>1
  <1> QED BY <1>2, <1>3 DEF MigrationCost, CMig, Fraction

(* A link that is down makes every length of the table a crossing. *)
LEMMA DownCrosses ==
  ASSUME NEW c \in Configs, NEW x \in Nat, NEW b \in Int, b <= 0
  PROVE  AtMost(RecomputeCost(x, c), MigrationCost(x, Fraction(b, 1), c))
  <1>1. MigrationCost(x, Fraction(b, 1), c) = [num |-> 1, den |-> 0]
    BY DEF MigrationCost, CMig, Fraction, Infinite
  <1>2. /\ RecomputeCost(x, c).num \in Nat
        /\ RecomputeCost(x, c).den \in Nat \ {0}
    BY ConfigTable, RecomputeType DEF RecomputeCost
  <1> QED BY <1>1, <1>2 DEF AtMost

(* If no length of the table up to k is a crossing, migrating costs less   *)
(* at all of them, and then at every length up to k.                       *)
LEMMA MigratesUpTo ==
  ASSUME NEW c \in Configs, NEW b \in Int, NEW k \in DOMAIN c.table,
         \A j \in DOMAIN c.table : j <= k => j \notin Crossings(Fraction(b, 1), c),
         NEW x \in Nat, x <= k
  PROVE  AtMost(MigrationCost(x, Fraction(b, 1), c), RecomputeCost(x, c))
  <1> DEFINE t == c.table
             p == c.perToken
  <1>1. IsTable(t) /\ p \in Nat \ {0}
    BY ConfigTable
  <1>2. \A j \in DOMAIN t : j \in Nat \ {0} /\ t[j] \in Nat
    BY <1>1, QueriesAssumption DEF IsTable
  <1>3. b > 0
    BY <1>2, DownCrosses DEF Crossings
  <1>4. \A j \in DOMAIN t : j <= k => p * j \in Nat /\ p * j < t[j] * b
    <2> TAKE j \in DOMAIN t
    <2> HAVE j <= k
    <2>1. ~AtMost(CRecomp(j, t), MigrationCost(j, Fraction(b, 1), c))
      BY DEF Crossings, RecomputeCost
    <2>2. ~AtMost(CRecomp(j, t), Fraction(p * j, b)) /\ p * j \in Nat
      BY <1>2, <1>3, <2>1, MigrationValue
    <2>3. b \in Nat \ {0}
      BY <1>3
    <2> QED BY <1>1, <2>2, <2>3, AtTableLength
  <1>5. MigrationCost(x, Fraction(b, 1), c) = Fraction(p * x, b) /\ p * x \in Nat
    BY <1>3, MigrationValue
  <1>6. /\ Lowest(t) \in DOMAIN t /\ Highest(t) \in DOMAIN t
        /\ \A j \in DOMAIN t : Lowest(t) <= j /\ j <= Highest(t)
    BY <1>1, Ends DEF IsLowest, IsHighest
  <1> HIDE DEF t, p
  <1>7. CASE x <= 0
    <2>1. x = 0 /\ p * x = 0
      BY <1>1, <1>7
    <2>2. RecomputeCost(x, c) = Fraction(0, 1)
      BY <1>7 DEF RecomputeCost, CRecomp
    <2> QED BY <1>3, <1>5, <2>1, <2>2 DEF AtMost, Fraction
  <1>8. CASE ~(x <= 0) /\ (x <= Lowest(t) \/ x >= Highest(t))
    <2>1. PICK e \in DOMAIN t : x <= e /\ e <= k /\ CRecomp(x, t) = Fraction(t[e], 1)
      <3>1. CASE x <= Lowest(t)
        BY <1>6, <1>8, <3>1 DEF CRecomp, Interpolate, t
      <3>2. CASE ~(x <= Lowest(t)) /\ x >= Highest(t)
        <4>1. x = Highest(t) /\ k = Highest(t)
          BY <1>2, <1>6, <3>2 DEF t
        <4> QED BY <1>6, <1>8, <3>2, <4>1 DEF CRecomp, Interpolate
      <3> QED BY <1>8, <3>1, <3>2
    <2>2. p * x <= p * e
      BY <1>1, <1>2, <2>1
    <2>3. p * x <= t[e] * b
      BY <1>2, <1>3, <1>4, <1>5, <2>1, <2>2
    <2> QED BY <1>2, <1>3, <1>5, <2>1, <2>3 DEF AtMost, Fraction, RecomputeCost, t
  <1>9. CASE ~(x <= 0) /\ ~(x <= Lowest(t)) /\ ~(x >= Highest(t))
    <2>1. Lowest(t) \in Nat /\ Highest(t) \in Nat
      BY <1>2, <1>6
    <2>2. PICK lo, hi : lo = Below(t, x) /\ hi = Above(t, x)
      OBVIOUS
    <2>3. /\ lo \in DOMAIN t /\ hi \in DOMAIN t /\ lo <= x /\ x < hi
          /\ \A j \in DOMAIN t : j <= lo \/ hi <= j
      BY <1>1, <1>9, <2>1, <2>2, Neighbours
    <2>4. RecomputeCost(x, c) = Fraction(t[lo] * (hi - lo) + (x - lo) * (t[hi] - t[lo]), hi - lo)
      BY <1>9, <2>2 DEF RecomputeCost, CRecomp, Interpolate, OnSegment, t
    <2>5. lo \in Nat /\ hi \in Nat /\ t[lo] \in Nat /\ t[hi] \in Nat
      BY <1>2, <2>3
    <2>6. PICK n \in Nat : n = t[lo] * (hi - lo) + (x - lo) * (t[hi] - t[lo])
      BY <2>3, <2>5, SegmentValue
    <2>7. CASE x = k
      <3>1. k \notin Crossings(Fraction(b, 1), c)
        BY <1>2 DEF t
      <3>2. ~AtMost(RecomputeCost(x, c), MigrationCost(x, Fraction(b, 1), c))
        BY <2>7, <3>1 DEF Crossings
      <3>3. ~(n * b <= (p * x) * (hi - lo))
        BY <1>5, <2>4, <2>6, <3>2 DEF AtMost, Fraction
      <3>4. n * b \in Int /\ (p * x) * (hi - lo) \in Int
        BY <1>5, <2>5
      <3>5. (p * x) * (hi - lo) <= n * b
        BY <3>3, <3>4
      <3> QED BY <1>5, <2>4, <2>6, <3>5 DEF AtMost, Fraction
    <2>8. CASE x # k
      <3>1. lo <= k /\ hi <= k
        BY <1>2, <2>3, <2>5, <2>8 DEF t
      <3>2. p * lo <= t[lo] * b /\ p * hi <= t[hi] * b
        BY <1>3, <1>4, <2>3, <2>5, <3>1
      <3>3. (p * x) * (hi - lo) <= n * b
        BY <1>1, <1>3, <2>3, <2>5, <2>6, <3>2, CheaperOnSegment
      <3> QED BY <1>5, <2>4, <2>6, <3>3 DEF AtMost, Fraction
    <2> QED BY <2>7, <2>8
  <1> QED BY <1>7, <1>8, <1>9

(* Whatever the table, the model and the bandwidth: no prompt up to a table*)
(* length before the breakeven is recomputed.                              *)
THEOREM Breakeven == Spec => []BelowBreakevenMigrates
  <1>1. TypeOK => BelowBreakevenMigrates
    <2> SUFFICES ASSUME TypeOK, config.policy = "rom",
                        NEW k \in DOMAIN config.table,
                        promptLen <= k, BreakevenAbove(k, AtBandwidth, config)
                 PROVE  Decision = "migrate"
      BY DEF BelowBreakevenMigrates
    <2>1. config \in Configs /\ promptLen \in Nat /\ bandwidth \in Int
      BY QueriesAssumption DEF TypeOK
    <2>2. \A j \in DOMAIN config.table : j \in Nat
      BY <2>1, ConfigTable, QueriesAssumption DEF IsTable
    <2>3. \A j \in DOMAIN config.table : j <= k => j \notin Crossings(Fraction(bandwidth, 1), config)
      BY <2>2 DEF BreakevenAbove, IsBreakeven, AtBandwidth, Crossings
    <2>4. AtMost(MigrationCost(promptLen, AtBandwidth, config), RecomputeCost(promptLen, config))
      BY <2>1, <2>3, MigratesUpTo DEF AtBandwidth
    <2> QED BY <2>4 DEF Decision, MakeDecision
  <1> QED BY <1>1, TypeInvariance, PTL

(* A faster link never turns a migration into a recomputation, for any     *)
(* prompt, table and policy.                                               *)
THEOREM Faster == Spec => FasterFavoursMigration
  <1>1. ASSUME NEW c \in Configs, NEW x \in Nat, NEW b \in Int, NEW d \in Int, b <= d,
               AtMost(MigrationCost(x, Fraction(b, 1), c), RecomputeCost(x, c))
        PROVE  AtMost(MigrationCost(x, Fraction(d, 1), c), RecomputeCost(x, c))
    <2>1. PICK n \in Nat, e \in Nat \ {0} : RecomputeCost(x, c).num = n /\ RecomputeCost(x, c).den = e
      BY ConfigTable, RecomputeType DEF RecomputeCost
    <2>2. b > 0 /\ d > 0
      <3>1. SUFFICES ASSUME b <= 0 PROVE FALSE
        BY <1>1
      <3>2. MigrationCost(x, Fraction(b, 1), c) = [num |-> 1, den |-> 0]
        BY <3>1 DEF MigrationCost, CMig, Fraction, Infinite
      <3>3. 1 * e <= n * 0
        BY <1>1, <2>1, <3>2 DEF AtMost
      <3> QED BY <3>3
    <2>3. PICK m \in Nat : /\ MigrationCost(x, Fraction(b, 1), c) = Fraction(m, b)
                           /\ MigrationCost(x, Fraction(d, 1), c) = Fraction(m, d)
      BY <2>2, MigrationValue
    <2>4. m * e <= n * b
      BY <1>1, <2>1, <2>3 DEF AtMost, Fraction
    <2>5. b * n <= d * n
      BY <1>1, TimesMonotone
    <2>6. m * e <= n * d
      BY <2>4, <2>5
    <2> QED BY <2>1, <2>3, <2>6 DEF AtMost, Fraction
  <1>2. TypeOK /\ TypeOK' /\ [Next]_vars =>
          [(/\ promptLen' = promptLen
            /\ bandwidth <= bandwidth'
            /\ Decision = "migrate") => Decision' = "migrate"]_vars
    <2> SUFFICES ASSUME TypeOK, TypeOK', [Next]_vars,
                        promptLen' = promptLen, bandwidth <= bandwidth', Decision = "migrate"
                 PROVE  Decision' = "migrate"
      OBVIOUS
    <2>1. config' = config
      BY DEF Next, Query, vars
    <2>2. PICK c, x, b, d : c = config /\ x = promptLen /\ b = bandwidth /\ d = bandwidth'
      OBVIOUS
    <2>3. c \in Configs /\ x \in Nat /\ b \in Int /\ d \in Int /\ b <= d
      BY <2>2, QueriesAssumption DEF TypeOK
    <2>4. MakeDecision(x, Fraction(b, 1), c) = "migrate"
      BY <2>2 DEF Decision, AtBandwidth
    <2>5. Decision' = MakeDecision(x, Fraction(d, 1), c)
      BY <2>1, <2>2 DEF Decision, AtBandwidth
    <2> HIDE <2>2
    <2>6. MakeDecision(x, Fraction(d, 1), c) = "migrate"
      BY <1>1, <2>3, <2>4 DEF MakeDecision
    <2> QED BY <2>5, <2>6
  <1> QED BY <1>2, TypeInvariance, PTL DEF Spec, FasterFavoursMigration

-----------------------------------------------------------------------------

(* The value at x > 0 of a table that grows, against its value at one of   *)
(* the table's lengths.                                                    *)
LEMMA ValueAndLength ==
  ASSUME NEW t, IsTable(t), Grows(t), NEW x \in Nat, x > 0, NEW k \in DOMAIN t
  PROVE  /\ x <= k => CRecomp(x, t).num <= t[k] * CRecomp(x, t).den
         /\ k <= x => t[k] * CRecomp(x, t).den <= CRecomp(x, t).num
  <1>1. \A j \in DOMAIN t : j \in Nat \ {0} /\ t[j] \in Nat
    BY QueriesAssumption DEF IsTable
  <1>2. /\ Lowest(t) \in DOMAIN t /\ Highest(t) \in DOMAIN t
        /\ \A j \in DOMAIN t : Lowest(t) <= j /\ j <= Highest(t)
    BY Ends DEF IsLowest, IsHighest
  <1>3. CASE x <= Lowest(t)
    <2>1. CRecomp(x, t) = Fraction(t[Lowest(t)], 1)
      BY <1>3 DEF CRecomp, Interpolate
    <2>2. t[Lowest(t)] <= t[k] /\ (k <= x => k = Lowest(t))
      BY <1>1, <1>2, <1>3 DEF Grows
    <2> QED BY <1>1, <1>2, <2>1, <2>2 DEF Fraction
  <1>4. CASE ~(x <= Lowest(t)) /\ x >= Highest(t)
    <2>1. CRecomp(x, t) = Fraction(t[Highest(t)], 1)
      BY <1>4 DEF CRecomp, Interpolate
    <2>2. t[k] <= t[Highest(t)] /\ (x <= k => k = Highest(t))
      BY <1>1, <1>2, <1>4 DEF Grows
    <2> QED BY <1>1, <1>2, <2>1, <2>2 DEF Fraction
  <1>5. CASE ~(x <= Lowest(t)) /\ ~(x >= Highest(t))
    <2>1. PICK lo, hi : lo = Below(t, x) /\ hi = Above(t, x)
      OBVIOUS
    <2>2. /\ lo \in DOMAIN t /\ hi \in DOMAIN t /\ lo <= x /\ x < hi
          /\ \A j \in DOMAIN t : j <= lo \/ hi <= j
      BY <1>1, <1>2, <1>5, <2>1, Neighbours
    <2>3. lo \in Nat /\ hi \in Nat /\ t[lo] \in Nat /\ t[hi] \in Nat /\ t[lo] <= t[hi]
      BY <1>1, <2>2 DEF Grows
    <2>4. PICK a \in Nat, b \in Nat, u \in Nat, v \in Nat :
            a = t[lo] /\ b = t[hi] /\ u = hi - x /\ v = x - lo
      BY <2>2, <2>3
    <2>5. CRecomp(x, t) = Fraction(a * u + b * v, u + v)
      <3>1. CRecomp(x, t) = Fraction(a * (hi - lo) + (x - lo) * (b - a), hi - lo)
        BY <1>5, <2>1, <2>4 DEF CRecomp, Interpolate, OnSegment
      <3>2. a * (hi - lo) + (x - lo) * (b - a) = a * (hi - x) + b * (x - lo)
        BY <2>2, <2>3, <2>4, SegmentValue
      <3>3. hi - lo = u + v
        BY <2>3, <2>4
      <3> QED BY <2>4, <3>1, <3>2, <3>3
    <2>6. ASSUME x <= k PROVE a * u + b * v <= t[k] * (u + v)
      <3>1. CASE hi <= k
        <4>1. b <= t[k] /\ a <= t[k]
          BY <1>1, <2>2, <2>3, <2>4, <3>1 DEF Grows
        <4>2. a * u <= t[k] * u /\ b * v <= t[k] * v
          BY <1>1, <4>1, TimesMonotone
        <4> QED BY <1>1, <4>2
      <3>2. CASE ~(hi <= k)
        <4>1. k = lo /\ x = lo
          BY <1>1, <2>2, <2>3, <2>6, <3>2
        <4>2. v = 0 /\ a = t[k]
          BY <2>3, <2>4, <4>1
        <4> QED BY <4>2
      <3> QED BY <3>1, <3>2
    <2>7. ASSUME k <= x PROVE t[k] * (u + v) <= a * u + b * v
      <3>1. t[k] <= a /\ t[k] <= b
        BY <1>1, <2>2, <2>3, <2>4, <2>7 DEF Grows
      <3>2. t[k] * u <= a * u /\ t[k] * v <= b * v
        BY <1>1, <3>1, TimesMonotone
      <3> QED BY <1>1, <3>2
    <2> QED BY <2>5, <2>6, <2>7 DEF Fraction
  <1> QED BY <1>3, <1>4, <1>5

LEMMA RecomputeGrows ==
  ASSUME NEW t, IsTable(t), Grows(t), NEW x \in Nat, NEW y \in Nat, x <= y
  PROVE  AtMost(CRecomp(x, t), CRecomp(y, t))
  <1>1. PICK n \in Nat, d \in Nat \ {0} : n = CRecomp(x, t).num /\ d = CRecomp(x, t).den
    BY RecomputeType
  <1>2. PICK m \in Nat, e \in Nat \ {0} : m = CRecomp(y, t).num /\ e = CRecomp(y, t).den
    BY RecomputeType
  <1> SUFFICES n * e <= m * d
    BY <1>1, <1>2 DEF AtMost
  <1>3. \A j \in DOMAIN t : j \in Nat \ {0} /\ t[j] \in Nat
    BY QueriesAssumption DEF IsTable
  <1>4. CASE x <= 0
    <2>1. n = 0
      BY <1>1, <1>4 DEF CRecomp, Fraction
    <2> QED BY <2>1
  <1>5. CASE x > 0 /\ \E k \in DOMAIN t : x <= k /\ k <= y
    <2>1. PICK k \in DOMAIN t : x <= k /\ k <= y
      BY <1>5
    <2>2. n <= t[k] * d /\ t[k] * e <= m
      BY <1>1, <1>2, <1>5, <2>1, ValueAndLength
    <2>3. n * e <= (t[k] * d) * e /\ (t[k] * e) * d <= m * d
      BY <1>3, <2>2, TimesMonotone
    <2>4. (t[k] * d) * e = (t[k] * e) * d
      BY <1>3
    <2> QED BY <1>3, <2>3, <2>4
  <1>6. CASE x > 0 /\ ~\E k \in DOMAIN t : x <= k /\ k <= y
    <2>1. /\ Lowest(t) \in DOMAIN t /\ Highest(t) \in DOMAIN t
      BY Ends DEF IsLowest, IsHighest
    <2>2. \/ y <= Lowest(t)
          \/ ~(y <= Lowest(t)) /\ ~(x <= Lowest(t)) /\ x >= Highest(t) /\ y >= Highest(t)
          \/ /\ ~(x <= Lowest(t)) /\ ~(x >= Highest(t))
             /\ ~(y <= Lowest(t)) /\ ~(y >= Highest(t))
      BY <1>3, <1>6, <2>1
    <2>3. CASE y <= Lowest(t)
      BY <1>1, <1>2, <1>3, <1>6, <2>1, <2>3 DEF CRecomp, Interpolate, Fraction
    <2>4. CASE ~(y <= Lowest(t)) /\ ~(x <= Lowest(t)) /\ x >= Highest(t) /\ y >= Highest(t)
      BY <1>1, <1>2, <1>6, <2>4 DEF CRecomp, Interpolate, Fraction
    <2>5. CASE /\ ~(x <= Lowest(t)) /\ ~(x >= Highest(t))
               /\ ~(y <= Lowest(t)) /\ ~(y >= Highest(t))
      <3>1. PICK lo, hi : lo = Below(t, x) /\ hi = Above(t, x)
        OBVIOUS
      <3>2. /\ lo \in DOMAIN t /\ hi \in DOMAIN t /\ lo <= x /\ x < hi
            /\ \A j \in DOMAIN t : j <= lo \/ hi <= j
        BY <1>3, <2>1, <2>5, <3>1, Neighbours
      <3>3. /\ Below(t, y) \in DOMAIN t /\ Above(t, y) \in DOMAIN t
            /\ Below(t, y) <= y /\ y < Above(t, y)
            /\ \A j \in DOMAIN t : j <= Below(t, y) \/ Above(t, y) <= j
        BY <1>3, <2>1, <2>5, Neighbours
      <3>4. lo = Below(t, y) /\ hi = Above(t, y)
        BY <1>3, <1>6, <3>2, <3>3
      <3>5. PICK a \in Nat, b \in Nat : a = t[lo] /\ b = t[hi] /\ a <= b
        BY <1>3, <3>2 DEF Grows
      <3>6. /\ n = a * (hi - lo) + (x - lo) * (b - a) /\ d = hi - lo
            /\ m = a * (hi - lo) + (y - lo) * (b - a) /\ e = hi - lo
        BY <1>1, <1>2, <1>6, <2>5, <3>1, <3>4, <3>5 DEF CRecomp, Interpolate, OnSegment, Fraction
      <3>7. PICK c \in Nat : c = b - a
        BY <3>5
      <3>8. lo \in Nat /\ hi \in Nat
        BY <1>3, <3>2
      <3>9. (x - lo) * c <= (y - lo) * c
        BY <3>8, TimesMonotone
      <3>10. (x - lo) * c \in Int /\ (y - lo) * c \in Int /\ a * (hi - lo) \in Int
        BY <3>8
      <3>11. n <= m /\ d = e
        BY <3>6, <3>7, <3>9, <3>10
      <3> QED BY <3>11, TimesMonotone
    <2> QED BY <2>2, <2>3, <2>4, <2>5
  <1> QED BY <1>4, <1>5, <1>6

(* For every table whose latencies grow with the length, the estimate of a *)
(* recomputation grows with the prompt, across all the table's segments    *)
(* and beyond its ends.                                                    *)
THEOREM Longer == Spec => LongerNeverCheaper
  <1>1. TypeOK /\ TypeOK' /\ [Next]_vars =>
          [(Grows(config.table) /\ promptLen <= promptLen')
             => AtMost(RecomputeCost(promptLen, config), RecomputeCost(promptLen', config))]_vars
    <2> SUFFICES ASSUME TypeOK, TypeOK', Grows(config.table), promptLen <= promptLen'
                 PROVE  AtMost(RecomputeCost(promptLen, config), RecomputeCost(promptLen', config))
      OBVIOUS
    <2>1. config \in Configs /\ promptLen \in Nat /\ promptLen' \in Nat
      BY QueriesAssumption DEF TypeOK
    <2> QED BY <2>1, ConfigTable, RecomputeGrows DEF RecomputeCost
  <1> QED BY <1>1, TypeInvariance, PTL DEF Spec, LongerNeverCheaper

-----------------------------------------------------------------------------
(***************************************************************************)
(* Startup.  Division of natural numbers.                                  *)
(***************************************************************************)
LEMMA Division ==
  ASSUME NEW n \in Nat, NEW d \in Nat \ {0}
  PROVE  /\ n \div d \in Nat /\ n % d \in 0 .. d - 1
         /\ n = d * (n \div d) + (n % d)
  OBVIOUS

LEMMA Quotient ==
  ASSUME NEW n \in Nat, NEW d \in Nat \ {0}, NEW q \in Nat, d * q <= n, n < d * (q + 1)
  PROVE  n \div d = q
  OBVIOUS

LEMMA Successor ==
  ASSUME NEW d \in Nat, NEW q \in Nat
  PROVE  d * (q + 1) = d * q + d /\ d * q \in Nat
  OBVIOUS

LEMMA Exact ==
  ASSUME NEW d \in Nat \ {0}, NEW q \in Nat
  PROVE  (d * q) % d = 0 /\ (d * q) \div d = q
  <1> DEFINE n == d * q
  <1>1. n \in Nat
    OBVIOUS
  <1>2. n \div d = q
    <2>1. n < d * (q + 1)
      OBVIOUS
    <2> QED BY <1>1, <2>1, Quotient
  <1>3. n % d \in 0 .. d - 1 /\ n = d * q + (n % d)
    BY <1>1, <1>2, Division
  <1> HIDE DEF n
  <1>4. n % d = 0
    <2>1. n = d * q
      BY DEF n
    <2> DEFINE r == n % d  e == d * q
    <2>2. r \in Int /\ e \in Int /\ n = e + r /\ n = e
      BY <1>3, <2>1
    <2> HIDE DEF r, e
    <2>3. r = 0
      BY <2>2
    <2> QED BY <2>3 DEF r
  <1> QED BY <1>2, <1>4 DEF n

LEMMA Divides ==
  ASSUME NEW n \in Nat, NEW d \in Nat \ {0}
  PROVE  n % d = 0 <=> \E q \in Nat : n = d * q
  <1>1. ASSUME n % d = 0 PROVE \E q \in Nat : n = d * q
    <2>1. n \div d \in Nat /\ n = d * (n \div d)
      <3> DEFINE q == n \div d  e == d * q  r == n % d
      <3>1. q \in Nat /\ n = e + r /\ r = 0
        BY <1>1, Division
      <3>2. e \in Int
        BY <3>1
      <3> HIDE DEF e, r
      <3>3. n = e
        BY <3>1, <3>2
      <3> QED BY <3>1, <3>3 DEF e
    <2> QED BY <2>1
  <1>2. ASSUME NEW q \in Nat, n = d * q PROVE n % d = 0
    BY <1>2, Exact
  <1> QED BY <1>1, <1>2

LEMMA AtLeastZero ==
  ASSUME NEW x \in Int
  PROVE  Max({0, x}) \in Nat /\ (Max({0, x}) > 0 => Max({0, x}) = x)
  BY DEF Max

LEMMA FloorBelow ==
  ASSUME NEW x \in Int, NEW y \in Nat \ {0}
  PROVE  x \div y \in Int /\ y * (x \div y) <= x
  OBVIOUS

LEMMA MinIsLeast ==
  ASSUME NEW T \in SUBSET Nat, T # {}
  PROVE  Min(T) \in T /\ \A y \in T : Min(T) <= y
  <1>1. \E x \in T : \A y \in T : x <= y
    BY LeastExists
  <1> QED BY <1>1 DEF Min

(***************************************************************************)
(* The numbers of a model and of its parallel configuration.               *)
(***************************************************************************)
LEMMA Sizes ==
  ASSUME model \in Models, parallel \in Parallel
  PROVE  /\ model.layers \in Nat \ {0} /\ model.hidden \in Nat \ {0} /\ model.heads \in Nat \ {0}
         /\ model.vocab \in Nat \ {0} /\ model.maxLens \in SUBSET Nat
         /\ KvHeads \in Nat \ {0} /\ GetHeadSize \in Nat /\ GetDtypeSize \in {2, 4}
         /\ BlockSize \in Nat \ {0}
         /\ \A s \in Stages :
              /\ parallel.pp[s] \in Nat \ {0} /\ parallel.tp[s] \in Nat \ {0}
              /\ GetNumLayers(s) \in Nat /\ GetNumHeads(s) \in Nat
  <1>1. /\ {model.layers, model.hidden, model.heads, model.vocab} \cup model.maxLens \subseteq Nat \ {0}
        /\ model.kvHeads \in Nat /\ model.multiQuery \in BOOLEAN
    BY StartupAssumption
  <1>2. parallel.pp \in [Stages -> Nat \ {0}] /\ parallel.tp \in [Stages -> Nat \ {0}]
    <2>1. {parallel.pp, parallel.tp} \subseteq [Stages -> Nat \ {0}]
      BY StartupAssumption
    <2> QED BY <2>1
  <1>3. BlockSize \in Nat \ {0}
    BY StartupAssumption
  <1>4. KvHeads \in Nat \ {0}
    BY <1>1 DEF KvHeads
  <1>5. GetHeadSize \in Nat
    BY <1>1, Division DEF GetHeadSize
  <1>6. GetDtypeSize \in {2, 4}
    BY DEF GetDtypeSize
  <1>7. ASSUME NEW s \in Stages
        PROVE  /\ parallel.pp[s] \in Nat \ {0} /\ parallel.tp[s] \in Nat \ {0}
               /\ GetNumLayers(s) \in Nat /\ GetNumHeads(s) \in Nat
    <2>1. parallel.pp[s] \in Nat \ {0} /\ parallel.tp[s] \in Nat \ {0}
      BY <1>2
    <2>2. GetNumLayers(s) \in Nat
      BY <1>1, <2>1, Division DEF GetNumLayers
    <2>3. GetNumHeads(s) \in Nat
      BY <1>4, <2>1, Division DEF GetNumHeads
    <2> QED BY <2>1, <2>2, <2>3
  <1> QED BY <1>1, <1>3, <1>4, <1>5, <1>6, <1>7

LEMMA Product ==
  ASSUME NEW a \in Nat, NEW b \in Nat
  PROVE  a * b \in Nat
  OBVIOUS

LEMMA BlockBytes ==
  ASSUME model \in Models, parallel \in Parallel, NEW s \in Stages
  PROVE  GetBlockSizeInBytes(s) \in Nat
  <1>1. /\ GetNumLayers(s) \in Nat /\ GetNumHeads(s) \in Nat /\ BlockSize \in Nat
        /\ GetHeadSize \in Nat /\ GetDtypeSize \in Nat
    BY Sizes
  <1>2. 2 * GetNumLayers(s) \in Nat
    BY <1>1
  <1>3. 2 * GetNumLayers(s) * GetNumHeads(s) \in Nat
    BY <1>1, <1>2, Product
  <1>4. 2 * GetNumLayers(s) * GetNumHeads(s) * BlockSize \in Nat
    BY <1>1, <1>3, Product
  <1>5. 2 * GetNumLayers(s) * GetNumHeads(s) * BlockSize * GetHeadSize \in Nat
    BY <1>1, <1>4, Product
  <1> QED BY <1>1, <1>5, Product DEF GetBlockSizeInBytes

(***************************************************************************)
(* The least common multiple divides every common multiple.                *)
(***************************************************************************)
LEMMA LcmDivides ==
  ASSUME NEW a \in Nat \ {0}, NEW b \in Nat \ {0}, NEW n \in Nat, n % a = 0, n % b = 0
  PROVE  /\ Lcm(a, b) \in Nat \ {0} /\ Lcm(a, b) % a = 0 /\ Lcm(a, b) % b = 0
         /\ n % Lcm(a, b) = 0
  <1> DEFINE K == {k \in 1 .. a * b : k % a = 0 /\ k % b = 0}
             m == Lcm(a, b)
  <1>1. a * b \in K
    <2>1. a * b \in Nat /\ a * b >= 1
      OBVIOUS
    <2>2. (a * b) % a = 0
      BY Exact
    <2>3. (b * a) % b = 0 /\ b * a = a * b
      BY Exact
    <2> QED BY <2>1, <2>2, <2>3
  <1>2. K \in SUBSET Nat /\ K # {}
    <2>1. \A k \in K : k \in Nat
      OBVIOUS
    <2> QED BY <1>1, <2>1
  <1>3. m = Min(K)
    BY DEF Lcm
  <1>4. m \in K /\ \A y \in K : m <= y
    <2> HIDE DEF K, m
    <2> QED BY <1>2, <1>3, MinIsLeast
  <1>5. m \in Nat \ {0} /\ m % a = 0 /\ m % b = 0 /\ m <= a * b
    BY <1>4
  <1> HIDE DEF m
  <1> DEFINE r == n % m
             q == n \div m
  <1>6. q \in Nat /\ r \in 0 .. m - 1 /\ n = m * q + r
    BY <1>5, Division
  <1> HIDE DEF r, q
  <1>7. ASSUME NEW d \in Nat \ {0}, n % d = 0, m % d = 0
        PROVE  r % d = 0
    <2>1. PICK u \in Nat : n = d * u
      BY <1>7, Divides
    <2>2. PICK v \in Nat : m = d * v
      BY <1>5, <1>7, Divides
    <2>3. m * q = d * (v * q)
      BY <2>2, <1>6
    <2> DEFINE e == v * q
    <2>4. e \in Nat
      BY <1>6
    <2> HIDE DEF e
    <2>5. r = d * u - d * e
      BY <1>6, <2>1, <2>3, <2>4 DEF e
    <2>6. r = d * (u - e)
      BY <2>4, <2>5
    <2>7. u - e \in Nat
      <3>1. SUFFICES ASSUME u - e < 0 PROVE FALSE
        BY <2>4
      <3>2. d * (u - e) < 0
        BY <2>4, <3>1
      <3> QED BY <2>6, <3>2, <1>6
    <2> QED BY <2>6, <2>7, Exact
  <1>8. r % a = 0 /\ r % b = 0
    BY <1>5, <1>7
  <1>9. r = 0
    <2>1. SUFFICES ASSUME r # 0 PROVE FALSE
      OBVIOUS
    <2>2. r \in 1 .. a * b
      BY <1>5, <1>6, <2>1
    <2>3. r \in K
      BY <2>2, <1>8
    <2> QED BY <2>3, <1>4, <1>5, <1>6
  <1> QED BY <1>5, <1>9 DEF m, r

(***************************************************************************)
(* The placement: the pipeline stages of a group, and its workers.         *)
(***************************************************************************)
PerGroup(s) == LayersPerGroup \div GetNumLayers(s)

LEMMA Factors ==
  ASSUME model \in Models, parallel \in Parallel, \A s \in Stages : LayersDivide(s)
  PROVE  /\ LayersPerGroup \in Nat \ {0} /\ NumGroups \in Nat \ {0}
         /\ model.layers = NumGroups * LayersPerGroup
         /\ model.layers \div NumGroups = LayersPerGroup
         /\ \A s \in Stages :
              /\ GetNumLayers(s) \in Nat \ {0} /\ PerGroup(s) \in Nat \ {0}
              /\ LayersPerGroup = GetNumLayers(s) * PerGroup(s)
              /\ parallel.pp[s] = NumGroups * PerGroup(s)
              /\ model.layers = parallel.pp[s] * GetNumLayers(s)
  <1> DEFINE n == model.layers  P == LayersPerGroup  G == NumGroups
  <1>1. n \in Nat \ {0}
    BY Sizes
  <1>2. ASSUME NEW s \in Stages
        PROVE  /\ GetNumLayers(s) \in Nat \ {0}
               /\ n = parallel.pp[s] * GetNumLayers(s)
               /\ n % GetNumLayers(s) = 0
    <2> DEFINE p == parallel.pp[s]  l == GetNumLayers(s)
    <2>1. p \in Nat \ {0} /\ n % p = 0 /\ l = n \div p
      BY Sizes DEF LayersDivide, GetNumLayers
    <2> HIDE DEF n, p, l
    <2>2. PICK q \in Nat : n = p * q
      BY <1>1, <2>1, Divides
    <2>3. l = q
      BY <2>1, <2>2, Exact
    <2>4. l \in Nat \ {0}
      BY <1>1, <2>1, <2>2, <2>3
    <2>5. n = l * p
      BY <2>1, <2>2, <2>3
    <2>6. n % l = 0
      <3>1. l \in Nat \ {0} /\ p \in Nat
        BY <2>1, <2>4
      <3>2. (l * p) % l = 0
        BY <3>1, Exact
      <3> QED BY <2>5, <3>2
    <2>7. n = p * l
      BY <2>2, <2>3
    <2>8. l \in Nat \ {0} /\ n = p * l /\ n % l = 0
      BY <2>4, <2>6, <2>7
    <2> QED BY <2>8 DEF n, p, l
  <1>3. /\ P \in Nat \ {0} /\ n % P = 0
        /\ \A s \in Stages : P % GetNumLayers(s) = 0
    <2> DEFINE a == GetNumLayers("context")  b == GetNumLayers("decoding")
    <2>1. a \in Nat \ {0} /\ b \in Nat \ {0} /\ n % a = 0 /\ n % b = 0
      BY <1>2 DEF Stages
    <2>2. P = Lcm(a, b)
      BY DEF LayersPerGroup
    <2> HIDE DEF a, b, n, P
    <2>3. P \in Nat \ {0} /\ P % a = 0 /\ P % b = 0 /\ n % P = 0
      BY <1>1, <2>1, <2>2, LcmDivides
    <2> QED BY <2>3 DEF a, b, Stages
  <1>4. G = n \div P
    BY DEF NumGroups
  <1> HIDE DEF n, P, G
  <1>5. /\ G \in Nat \ {0} /\ n = G * P /\ n \div G = P
    <2>1. PICK q \in Nat : n = P * q
      BY <1>1, <1>3, Divides
    <2>2. G = q
      BY <1>3, <1>4, <2>1, Exact
    <2>3. G \in Nat \ {0}
      BY <1>1, <1>3, <2>1, <2>2
    <2>4. n = G * P
      BY <1>3, <2>1, <2>2, <2>3
    <2>5. n \div G = P
      <3>1. G \in Nat \ {0} /\ P \in Nat
        BY <1>3, <2>3
      <3>2. (G * P) \div G = P
        BY <3>1, Exact
      <3> QED BY <2>4, <3>2
    <2> QED BY <2>3, <2>4, <2>5
  <1>6. ASSUME NEW s \in Stages
        PROVE  /\ PerGroup(s) \in Nat \ {0}
               /\ P = GetNumLayers(s) * PerGroup(s)
               /\ parallel.pp[s] = G * PerGroup(s)
    <2> DEFINE l == GetNumLayers(s)  u == PerGroup(s)  p == parallel.pp[s]
    <2>1. l \in Nat \ {0} /\ P % l = 0 /\ u = P \div l /\ n = p * l /\ p \in Nat \ {0}
      BY <1>2, <1>3, Sizes DEF PerGroup, P
    <2> HIDE DEF l, u, p
    <2>2. PICK q \in Nat : P = l * q
      BY <1>3, <2>1, Divides
    <2>3. u = q
      BY <2>1, <2>2, Exact
    <2>4. u \in Nat \ {0} /\ P = l * u
      BY <1>3, <2>1, <2>2, <2>3
    <2>5. p * l = (G * u) * l
      BY <1>5, <2>1, <2>4
    <2>6. p = G * u
      <3> DEFINE e == G * u
      <3>1. e \in Nat
        BY <1>5, <2>4
      <3> HIDE DEF e
      <3>2. p * l = e * l
        BY <2>5 DEF e
      <3>3. p = e
        BY <2>1, <3>1, <3>2
      <3> QED BY <3>3 DEF e
    <2> QED BY <2>4, <2>6 DEF l, u, p
  <1> QED BY <1>1, <1>2, <1>3, <1>5, <1>6 DEF n, P, G

LEMMA AssertionHolds ==
  ASSUME model \in Models, parallel \in Parallel, \A s \in Stages : LayersDivide(s)
  PROVE  GroupsAssertion
  <1> DEFINE a == PerGroup("context")  b == PerGroup("decoding")
             t == parallel.tp["context"]  u == parallel.tp["decoding"]  g == NumGroups
  <1>1. /\ a \in Nat /\ b \in Nat /\ t \in Nat /\ u \in Nat /\ g \in Nat
        /\ parallel.pp["context"] = g * a /\ parallel.pp["decoding"] = g * b
    BY Sizes, Factors DEF Stages
  <1>2. WorkersPerGroup = a * t + b * u
    BY DEF WorkersPerGroup, PerGroup
  <1>3. g * (a * t + b * u) = (g * a) * t + (g * b) * u
    <2> HIDE DEF a, b, t, u, g
    <2>1. g * (a * t + b * u) = g * (a * t) + g * (b * u)
      BY <1>1
    <2>2. g * (a * t) = (g * a) * t /\ g * (b * u) = (g * b) * u
      BY <1>1
    <2> QED BY <2>1, <2>2
  <1> QED BY <1>1, <1>2, <1>3 DEF GroupsAssertion

LEMMA GroupOfStage ==
  ASSUME model \in Models, parallel \in Parallel, \A s \in Stages : LayersDivide(s),
         Len(groups) = NumGroups, NEW s \in Stages, NEW i \in 0 .. parallel.pp[s] - 1
  PROVE  /\ GroupOf(s, i) = (i \div PerGroup(s)) + 1
         /\ i \div PerGroup(s) \in 0 .. NumGroups - 1
  <1>1. /\ PerGroup(s) \in Nat \ {0} /\ NumGroups \in Nat \ {0}
        /\ parallel.pp[s] = NumGroups * PerGroup(s)
    BY Factors
  <1>2. PpPerGroup(s) = PerGroup(s)
    BY Factors DEF PpPerGroup, PerGroup
  <1>3. i \in Nat
    BY <1>1
  <1> DEFINE u == PerGroup(s)  g == NumGroups  q == i \div u
  <1>4. q \in Nat /\ u * q <= i
    <2>1. u \in Nat \ {0} /\ i \in Int
      BY <1>1, <1>3
    <2> HIDE DEF u
    <2>2. q \in Nat
      BY <1>3, <2>1, Division
    <2> QED BY <2>1, <2>2, FloorBelow
  <1>5. q < g
    <2> HIDE DEF u, g, q
    <2>1. SUFFICES ASSUME g <= q PROVE FALSE
      BY <1>1, <1>4 DEF g
    <2>2. u * g <= u * q
      BY <1>1, <1>4, <2>1 DEF u, g
    <2>3. i < u * g
      BY <1>1 DEF u, g
    <2> QED BY <1>3, <1>4, <2>2, <2>3, <1>1 DEF u, g
  <1> QED BY <1>1, <1>2, <1>4, <1>5 DEF GroupOf

(* A pipeline stage's layers lie in the layers of its group. *)
LEMMA LayersOfGroup ==
  ASSUME model \in Models, parallel \in Parallel, \A s \in Stages : LayersDivide(s),
         Len(groups) = NumGroups, NEW s \in Stages, NEW i \in 0 .. parallel.pp[s] - 1,
         NEW layer \in LayersOf(s, i)
  PROVE  GroupOf(s, i) = (layer \div LayersPerGroup) + 1
  <1> DEFINE l == GetNumLayers(s)  u == PerGroup(s)  P == LayersPerGroup  k == i \div u
  <1>1. /\ l \in Nat \ {0} /\ u \in Nat \ {0} /\ P \in Nat \ {0} /\ P = l * u
        /\ parallel.pp[s] \in Nat
    BY Factors, Sizes
  <1>2. i \in Nat /\ layer \in i * l .. (i + 1) * l - 1
    BY <1>1 DEF LayersOf
  <1>3. GroupOf(s, i) = k + 1
    BY GroupOfStage
  <1>4. k \in Nat /\ u * k <= i /\ i + 1 <= u * (k + 1)
    <2>1. k \in Nat /\ i % u \in 0 .. u - 1 /\ i = u * k + (i % u)
      BY <1>1, <1>2, Division
    <2> DEFINE r == i % u
    <2>2. r \in Nat /\ r + 1 <= u /\ i = u * k + r
      BY <1>1, <2>1
    <2> HIDE DEF l, u, P, k, r
    <2> DEFINE e == u * k
    <2>3. u * (k + 1) = e + u /\ e \in Int /\ k \in Nat
      <3>1. u \in Nat /\ k \in Nat
        BY <1>1, <2>1
      <3> QED BY <3>1, Successor
    <2>4. i = e + r
      BY <2>2
    <2> HIDE DEF e
    <2>5. e <= i /\ i + 1 <= e + u
      BY <1>1, <1>2, <2>2, <2>3, <2>4
    <2> QED BY <2>3, <2>5 DEF e
  <1> HIDE DEF l, u, P, k
  <1>5. layer \in Nat /\ i * l <= layer /\ layer < (i + 1) * l
    BY <1>1, <1>2
  <1>6. P * k <= layer
    <2>1. P * k = (u * k) * l
      BY <1>1, <1>4
    <2>2. (u * k) * l <= i * l
      BY <1>1, <1>2, <1>4
    <2> QED BY <2>1, <2>2, <1>1, <1>4, <1>5
  <1>7. layer < P * (k + 1)
    <2>1. P * (k + 1) = (u * (k + 1)) * l
      BY <1>1, <1>4
    <2>2. (i + 1) * l <= (u * (k + 1)) * l
      BY <1>1, <1>2, <1>4
    <2> QED BY <2>1, <2>2, <1>1, <1>4, <1>5
  <1>8. layer \div P = k
    BY <1>1, <1>4, <1>5, <1>6, <1>7, Quotient
  <1> QED BY <1>3, <1>8 DEF P

With(s, A, B) == {s} \X A \X B

LEMMA Triples ==
  ASSUME NEW s, NEW A, NEW B, IsFiniteSet(A), IsFiniteSet(B)
  PROVE  /\ IsFiniteSet(With(s, A, B))
         /\ Cardinality(With(s, A, B)) = Cardinality(A) * Cardinality(B)
  <1> USE DEF With
  <1> DEFINE F == [p \in A \X B |-> <<s, p[1], p[2]>>]
             T == {s} \X A \X B
  <1>1. F \in [A \X B -> T]
    OBVIOUS
  <1>2. \A p, q \in A \X B : F[p] = F[q] => p = q
    OBVIOUS
  <1>3. \A t \in T : \E p \in A \X B : F[p] = t
    <2> SUFFICES ASSUME NEW t \in T PROVE \E p \in A \X B : F[p] = t
      OBVIOUS
    <2>1. PICK x \in A, y \in B : t = <<s, x, y>>
      OBVIOUS
    <2>2. <<x, y>> \in A \X B /\ F[<<x, y>>] = t
      BY <2>1
    <2> QED BY <2>2
  <1>4. DOMAIN F = A \X B
    OBVIOUS
  <1> HIDE DEF F, T
  <1>5. ExistsBijection(A \X B, T)
    BY <1>1, <1>2, <1>3, <1>4 DEF ExistsBijection, Bijection, Injection, Surjection, IsInjective
  <1>6. IsFiniteSet(A \X B) /\ Cardinality(A \X B) = Cardinality(A) * Cardinality(B)
    BY FS_Product
  <1>7. IsFiniteSet(T) /\ Cardinality(T) = Cardinality(A \X B)
    BY <1>5, <1>6, FS_Bijection
  <1> QED BY <1>6, <1>7 DEF T

LEMMA IntervalSize ==
  ASSUME NEW a \in Int, NEW n \in Nat \ {0}
  PROVE  IsFiniteSet(a .. a + n - 1) /\ Cardinality(a .. a + n - 1) = n
  <1> DEFINE b == a + n - 1
  <1>1. b \in Int /\ a <= b /\ b - a + 1 = n
    OBVIOUS
  <1> HIDE DEF b
  <1>2. IsFiniteSet(a .. b) /\ Cardinality(a .. b) = n
    <2>1. IsFiniteSet(a .. b) /\ Cardinality(a .. b) = IF a > b THEN 0 ELSE b - a + 1
      BY <1>1, FS_Interval
    <2>2. ~(a > b)
      BY <1>1
    <2> QED BY <2>1, <2>2, <1>1
  <1> QED BY <1>2 DEF b

LEMMA GroupIsFull ==
  ASSUME model \in Models, parallel \in Parallel, \A s \in Stages : LayersDivide(s),
         Len(groups) = NumGroups, NEW g \in 1 .. NumGroups
  PROVE  Cardinality(InGroup(g)) = WorkersPerGroup
  <1> DEFINE From(s) == (g - 1) * PerGroup(s)
             Slice(s) == From(s) .. From(s) + PerGroup(s) - 1
             Part(s) == {s} \X Slice(s) \X (0 .. parallel.tp[s] - 1)
  <1>1. NumGroups \in Nat /\ g \in Nat \ {0} /\ g <= NumGroups
    BY Factors
  <1>2. ASSUME NEW s \in Stages
        PROVE  /\ From(s) \in Nat /\ PerGroup(s) \in Nat \ {0}
               /\ \A i \in Nat : i \in Slice(s) <=> (i \in 0 .. parallel.pp[s] - 1 /\ GroupOf(s, i) = g)
    <2> DEFINE u == PerGroup(s)  G == NumGroups
    <2>1. u \in Nat \ {0} /\ parallel.pp[s] = G * u
      BY Factors
    <2>2. From(s) = (g - 1) * u /\ Slice(s) = From(s) .. From(s) + u - 1
      OBVIOUS
    <2> HIDE DEF u, G, Slice, From
    <2>3. From(s) \in Nat
      BY <1>1, <2>1, <2>2
    <2>4. ASSUME NEW i \in Nat, i \in Slice(s)
          PROVE  i \in 0 .. parallel.pp[s] - 1 /\ GroupOf(s, i) = g
      <3>1. u * (g - 1) <= i /\ i < u * ((g - 1) + 1)
        <4> DEFINE k == g - 1
        <4>1. k \in Nat /\ u \in Nat
          BY <1>1, <2>1
        <4>2. From(s) <= i /\ i <= From(s) + u - 1
          BY <2>2, <2>4
        <4>3. From(s) = k * u
          BY <2>2
        <4> HIDE DEF k
        <4>4. From(s) = u * k
          BY <4>1, <4>3
        <4>5. u * (k + 1) = From(s) + u
          BY <4>1, <4>4, Successor
        <4>6. i < From(s) + u
          BY <2>1, <2>3, <4>2
        <4> QED BY <4>2, <4>4, <4>5, <4>6 DEF k
      <3>2. i \div u = g - 1
        <4> DEFINE k == g - 1
        <4>1. k \in Nat
          BY <1>1
        <4>2. u * k <= i /\ i < u * (k + 1)
          BY <3>1
        <4> HIDE DEF k
        <4>3. i \div u = k
          BY <2>1, <4>1, <4>2, Quotient
        <4> QED BY <4>3 DEF k
      <3>3. u * g <= u * G
        BY <1>1, <2>1 DEF G
      <3>4. i \in 0 .. parallel.pp[s] - 1
        <4>1. (g - 1) + 1 = g /\ G \in Nat
          BY <1>1 DEF G
        <4>2. u * g \in Int /\ u * G \in Int
          BY <1>1, <2>1, <4>1
        <4>3. i < u * g
          BY <3>1, <4>1
        <4>4. parallel.pp[s] = u * G
          BY <2>1, <4>1
        <4> QED BY <3>3, <4>2, <4>3, <4>4
      <3>5. GroupOf(s, i) = (i \div u) + 1
        BY <3>4, GroupOfStage DEF u
      <3> QED BY <1>1, <3>2, <3>4, <3>5
    <2>5. ASSUME NEW i \in Nat, i \in 0 .. parallel.pp[s] - 1, GroupOf(s, i) = g
          PROVE  i \in Slice(s)
      <3> DEFINE k == i \div u
      <3>1. GroupOf(s, i) = k + 1
        BY <2>5, GroupOfStage DEF u
      <3>2. k \in Nat
        BY <2>1, Division
      <3>3. k = g - 1
        BY <1>1, <2>5, <3>1, <3>2
      <3> DEFINE r == i % u
                 e == u * k
      <3>4. r \in 0 .. u - 1 /\ i = e + r
        BY <2>1, Division
      <3>5. e = From(s)
        BY <1>1, <2>1, <2>2, <3>3
      <3> HIDE DEF r, e, k
      <3>6. i \in Nat /\ From(s) <= i /\ i <= From(s) + u - 1
        BY <2>1, <2>3, <3>4, <3>5
      <3> QED BY <2>1, <2>2, <2>3, <3>6
    <2> QED BY <2>1, <2>3, <2>4, <2>5 DEF u
  <1>3. ASSUME NEW s \in Stages
        PROVE  /\ IsFiniteSet(Part(s)) /\ Cardinality(Part(s)) = PerGroup(s) * parallel.tp[s]
               /\ Part(s) = {w \in Workers(s) : GroupOf(w[1], w[2]) = g}
    <2>1. From(s) \in Int /\ PerGroup(s) \in Nat \ {0} /\ parallel.tp[s] \in Nat \ {0}
          /\ parallel.pp[s] \in Nat
      BY <1>2, Sizes
    <2> HIDE DEF From
    <2>2. IsFiniteSet(Slice(s)) /\ Cardinality(Slice(s)) = PerGroup(s)
      BY <2>1, IntervalSize
    <2>3. /\ IsFiniteSet(0 .. parallel.tp[s] - 1)
          /\ Cardinality(0 .. parallel.tp[s] - 1) = parallel.tp[s]
      <3> DEFINE n == parallel.tp[s]
      <3>1. n \in Nat \ {0} /\ 0 \in Int
        BY <2>1
      <3> HIDE DEF n
      <3>2. 0 + n - 1 = n - 1
        BY <3>1
      <3>3. IsFiniteSet(0 .. 0 + n - 1) /\ Cardinality(0 .. 0 + n - 1) = n
        BY <3>1, IntervalSize
      <3>4. IsFiniteSet(0 .. n - 1) /\ Cardinality(0 .. n - 1) = n
        BY <3>2, <3>3
      <3> QED BY <3>4 DEF n
    <2>4. IsFiniteSet(Part(s)) /\ Cardinality(Part(s)) = PerGroup(s) * parallel.tp[s]
      <3> DEFINE A == Slice(s)  B == 0 .. parallel.tp[s] - 1
      <3>1. Part(s) = With(s, A, B)
        BY DEF With
      <3> HIDE DEF A, B, Slice, Part
      <3>2. IsFiniteSet(A) /\ IsFiniteSet(B)
        BY <2>2, <2>3 DEF A, B
      <3>3. IsFiniteSet(With(s, A, B)) /\ Cardinality(With(s, A, B)) = Cardinality(A) * Cardinality(B)
        BY <3>2, Triples
      <3> QED BY <3>1, <3>3, <2>2, <2>3 DEF A, B
    <2>5. \A i \in Slice(s) : i \in Nat
      BY <1>2, <2>1
    <2> HIDE DEF Slice
    <2>6. Part(s) \subseteq {w \in Workers(s) : GroupOf(w[1], w[2]) = g}
      <3> SUFFICES ASSUME NEW w \in Part(s)
                   PROVE  w \in Workers(s) /\ GroupOf(w[1], w[2]) = g
        OBVIOUS
      <3>1. PICK i \in Slice(s), k \in 0 .. parallel.tp[s] - 1 : w = <<s, i, k>>
        OBVIOUS
      <3>2. i \in 0 .. parallel.pp[s] - 1 /\ GroupOf(s, i) = g
        BY <1>2, <2>5
      <3> QED BY <3>1, <3>2 DEF Workers
    <2>7. {w \in Workers(s) : GroupOf(w[1], w[2]) = g} \subseteq Part(s)
      <3> SUFFICES ASSUME NEW w \in Workers(s), GroupOf(w[1], w[2]) = g
                   PROVE  w \in Part(s)
        OBVIOUS
      <3>1. PICK i \in 0 .. parallel.pp[s] - 1, k \in 0 .. parallel.tp[s] - 1 : w = <<s, i, k>>
        BY DEF Workers
      <3>2. GroupOf(s, i) = g
        BY <3>1
      <3>3. i \in Slice(s)
        BY <1>2, <2>1, <3>2
      <3> QED BY <3>1, <3>3
    <2> QED BY <2>4, <2>6, <2>7
  <1> HIDE DEF Part
  <1> DEFINE a == Part("context")  b == Part("decoding")
  <1>4. "context" \in Stages /\ "decoding" \in Stages /\ Stages = {"context", "decoding"}
    BY DEF Stages
  <1>5. InGroup(g) = a \cup b
    BY <1>3, <1>4 DEF InGroup
  <1>6. a \cap b = {}
    <2>1. \A w \in a : w[1] = "context"
      BY <1>3, <1>4 DEF Workers
    <2>2. \A w \in b : w[1] = "decoding"
      BY <1>3, <1>4 DEF Workers
    <2> QED BY <2>1, <2>2
  <1>7. /\ IsFiniteSet(a) /\ Cardinality(a) = PerGroup("context") * parallel.tp["context"]
        /\ IsFiniteSet(b) /\ Cardinality(b) = PerGroup("decoding") * parallel.tp["decoding"]
    BY <1>3, <1>4
  <1> HIDE DEF a, b
  <1>8. Cardinality(a \cap b) = 0
    BY <1>6, FS_EmptySet
  <1>9. Cardinality(a \cup b) = Cardinality(a) + Cardinality(b) - Cardinality(a \cap b)
    BY <1>7, FS_Union
  <1>10. Cardinality(a) \in Nat /\ Cardinality(b) \in Nat
    BY <1>7, FS_CardinalityType
  <1>11. Cardinality(InGroup(g)) = Cardinality(a) + Cardinality(b)
    BY <1>5, <1>8, <1>9, <1>10
  <1> QED BY <1>7, <1>11 DEF WorkersPerGroup, PerGroup

(***************************************************************************)
(* The invariant of the start: what each stage of it has established.      *)
(***************************************************************************)
Placed == (\A s \in Stages : LayersDivide(s)) /\ Len(groups) = NumGroups

Sized(s) == IF s = "context" THEN [ProfileNumAvailableBlocks(s) EXCEPT !.cpu = 1]
            ELSE ProfileNumAvailableBlocks(s)
Profiled(s) == numBlocks[s] = Sized(s) /\ GetBlockSizeInBytes(s) > 0 /\ model.maxLens # {}

Shapes(s) == [kv |-> CacheShape(s, numBlocks[s].gpu), swap |-> CacheShape(s, numBlocks[s].cpu)]
Cached(s) == \A w \in Workers(s) : w \in DOMAIN cache /\ cache[w] = Shapes(s)

Complete ==
  /\ pc \notin {"configs", "groups", "raised"} => Placed
  /\ pc \in {"starting", "scheduler", "initialized"} =>
       rom = UpdateFromModelConfig(FromEnv) /\ rom.dtypeBytes \in Nat
  /\ \A s \in Stages : stage[s] \in {"caches", "scheduling", "done"} => Profiled(s)
  /\ \A s \in Stages : stage[s] \in {"scheduling", "done"} => Cached(s)
  /\ pc \in {"scheduler", "initialized"} => \A s \in Stages : stage[s] = "done"
  /\ pc = "initialized" => 0 .. parallel.pp["decoding"] - 1 \subseteq registered

StartInv == StartTypeOK /\ DOMAIN numBlocks = Stages /\ Complete

(* What depends on the configurations alone stays. *)
LEMMA InputsStay ==
  ASSUME UNCHANGED inputs
  PROVE  /\ \A s \in Stages : /\ Workers(s)' = Workers(s) /\ Sized(s)' = Sized(s)
                              /\ LayersDivide(s)' <=> LayersDivide(s)
                              /\ GetBlockSizeInBytes(s)' = GetBlockSizeInBytes(s)
         /\ NumGroups' = NumGroups /\ FromEnv' = FromEnv
         /\ UpdateFromModelConfig(FromEnv)' = UpdateFromModelConfig(FromEnv)
         /\ (UNION {Workers(s) : s \in Stages})' = UNION {Workers(s) : s \in Stages}
  <1>1. model' = model /\ parallel' = parallel /\ env' = env
    BY DEF inputs
  <1>2. /\ KvHeads' = KvHeads /\ GetHeadSize' = GetHeadSize /\ GetDtypeSize' = GetDtypeSize
        /\ FromEnv' = FromEnv
    BY <1>1 DEF KvHeads, GetHeadSize, GetDtypeSize, FromEnv
  <1>3. UpdateFromModelConfig(FromEnv)' = UpdateFromModelConfig(FromEnv)
    BY <1>1, <1>2 DEF UpdateFromModelConfig
  <1>4. ASSUME NEW s \in Stages
        PROVE  /\ Workers(s)' = Workers(s) /\ GetNumLayers(s)' = GetNumLayers(s)
               /\ GetNumHeads(s)' = GetNumHeads(s)
               /\ (LayersDivide(s)' <=> LayersDivide(s))
    BY <1>1, <1>2 DEF Workers, GetNumLayers, GetNumHeads, LayersDivide
  <1>5. ASSUME NEW s \in Stages
        PROVE  GetBlockSizeInBytes(s)' = GetBlockSizeInBytes(s)
    BY <1>2, <1>4 DEF GetBlockSizeInBytes
  <1>6. GetMaxModelLen' = GetMaxModelLen
    BY <1>1 DEF GetMaxModelLen
  <1>7. ASSUME NEW s \in Stages
        PROVE  ModelSizeTimesTp(s)' = ModelSizeTimesTp(s)
    BY <1>1, <1>2, <1>4, <1>6 DEF ModelSizeTimesTp
  <1>8. ASSUME NEW s \in Stages
        PROVE  Sized(s)' = Sized(s)
    BY <1>1, <1>5, <1>7 DEF Sized, ProfileNumAvailableBlocks
  <1>9. GetNumLayers("context")' = GetNumLayers("context")
        /\ GetNumLayers("decoding")' = GetNumLayers("decoding")
    BY <1>4 DEF Stages
  <1>10. LayersPerGroup' = LayersPerGroup
    BY <1>9 DEF LayersPerGroup, Lcm
  <1>11. NumGroups' = NumGroups
    BY <1>1, <1>10 DEF NumGroups
  <1>12. (UNION {Workers(s) : s \in Stages})' = UNION {Workers(s) : s \in Stages}
    BY <1>4
  <1> QED BY <1>2, <1>3, <1>4, <1>5, <1>8, <1>11, <1>12

LEMMA PlacedStays ==
  ASSUME UNCHANGED <<inputs, groups>>, Placed
  PROVE  Placed'
  BY InputsStay DEF Placed

LEMMA ProfiledStays ==
  ASSUME UNCHANGED inputs, NEW s \in Stages, numBlocks'[s] = numBlocks[s], Profiled(s)
  PROVE  Profiled(s)'
  <1>1. model' = model
    BY DEF inputs
  <1> QED BY <1>1, InputsStay DEF Profiled

LEMMA CachedStays ==
  ASSUME UNCHANGED inputs, NEW s \in Stages, numBlocks'[s] = numBlocks[s], Cached(s),
         \A w \in Workers(s) : w \in DOMAIN cache => (w \in DOMAIN cache' /\ cache'[w] = cache[w])
  PROVE  Cached(s)'
  <1>1. Workers(s)' = Workers(s)
    BY InputsStay
  <1>2. Shapes(s)' = Shapes(s)
    BY DEF inputs, Shapes, CacheShape, GetNumLayers, GetNumHeads, GetHeadSize, KvHeads
  <1> QED BY <1>1, <1>2 DEF Cached

(***************************************************************************)
(* What _profile_num_available_blocks promises.                            *)
(***************************************************************************)
LEMMA ModelBytes ==
  ASSUME model \in Models, parallel \in Parallel, NEW s \in Stages, model.maxLens # {}
  PROVE  ModelSizeTimesTp(s) \in Nat
  <1> DEFINE l == GetNumLayers(s)  h == model.hidden  v == model.vocab  m == GetMaxModelLen
             t == parallel.tp[s]  d == GetDtypeSize
  <1>1. l \in Nat /\ h \in Nat /\ v \in Nat /\ t \in Nat /\ d \in Nat
    BY Sizes
  <1>2. m \in Nat
    BY Sizes, MinIsLeast DEF GetMaxModelLen
  <1>3. ModelSizeTimesTp(s) = (12 * l * h * h + (v + m + 5 * l) * h * t) * d
    BY DEF ModelSizeTimesTp
  <1> HIDE DEF l, h, v, m, t, d
  <1>4. 12 * l \in Nat /\ v + m + 5 * l \in Nat
    BY <1>1, <1>2
  <1>5. 12 * l * h \in Nat /\ (v + m + 5 * l) * h \in Nat
    BY <1>1, <1>4, Product
  <1>6. 12 * l * h * h \in Nat /\ (v + m + 5 * l) * h * t \in Nat
    BY <1>1, <1>5, Product
  <1>7. 12 * l * h * h + (v + m + 5 * l) * h * t \in Nat
    BY <1>6
  <1> QED BY <1>1, <1>3, <1>7, Product

LEMMA SizedFits ==
  ASSUME model \in Models, parallel \in Parallel, NEW s \in Stages,
         GetBlockSizeInBytes(s) > 0, model.maxLens # {}
  PROVE  /\ Sized(s).gpu \in Nat /\ Sized(s).cpu \in Nat
         /\ Sized(s).gpu > 0 =>
              100 * parallel.tp[s] * GetBlockSizeInBytes(s) * Sized(s).gpu
                <= GpuMemory * (Utilization - 1) * parallel.tp[s] - 100 * ModelSizeTimesTp(s)
         /\ s = "decoding" => GetBlockSizeInBytes(s) * Sized(s).cpu <= CpuSwapSpace
  <1> DEFINE t == parallel.tp[s]  b == GetBlockSizeInBytes(s)
             x == GpuMemory * (Utilization - 1) * t - 100 * ModelSizeTimesTp(s)
             y == 100 * t * b
             n == ProfileNumAvailableBlocks(s)
  <1>1. t \in Nat \ {0} /\ b \in Nat \ {0}
    BY Sizes, BlockBytes
  <1>2. x \in Int
    <2>1. ModelSizeTimesTp(s) \in Int /\ GpuMemory \in Int /\ Utilization \in Int
      BY ModelBytes, StartupAssumption
    <2> DEFINE e == GpuMemory * (Utilization - 1)
    <2>2. e \in Int
      BY <2>1
    <2> HIDE DEF t, e
    <2>3. e * t \in Int
      BY <1>1, <2>2
    <2> QED BY <2>1, <2>3 DEF e
  <1>3. y \in Nat \ {0}
    BY <1>1
  <1>4. n = [gpu |-> Max({0, x \div y}), cpu |-> CpuSwapSpace \div b]
    BY DEF ProfileNumAvailableBlocks
  <1> HIDE DEF t, b, x, y, n
  <1>5. x \div y \in Int /\ y * (x \div y) <= x
    BY <1>2, <1>3, FloorBelow
  <1>6. n.gpu \in Nat /\ (n.gpu > 0 => n.gpu = x \div y)
    BY <1>4, <1>5, AtLeastZero
  <1>7. n.gpu > 0 => y * n.gpu <= x
    BY <1>5, <1>6
  <1>8. n.cpu \in Nat /\ b * n.cpu <= CpuSwapSpace
    <2>1. CpuSwapSpace \in Nat
      BY StartupAssumption
    <2>2. CpuSwapSpace \div b \in Nat
      BY <1>1, <2>1, Division
    <2>3. b * (CpuSwapSpace \div b) <= CpuSwapSpace
      BY <1>1, <2>1, FloorBelow
    <2> QED BY <1>4, <2>2, <2>3
  <1>9. /\ Sized(s).gpu = n.gpu /\ Sized(s).cpu \in Nat
        /\ s = "decoding" => Sized(s) = n
    BY <1>4, <1>8 DEF Sized, n
  <1> QED BY <1>6, <1>7, <1>8, <1>9 DEF t, b, x, y

(***************************************************************************)
(* The start keeps its types.                                              *)
(***************************************************************************)
StageNames == {"workers", "models", "profile", "caches", "scheduling", "done"}

LEMMA StartTypes ==
  ASSUME StartInv, StartNext
  PROVE  StartTypeOK' /\ (DOMAIN numBlocks)' = Stages
  <1>1. StartTypeOK /\ DOMAIN numBlocks = Stages
    BY DEF StartInv
  <1>2. UNCHANGED inputs
    BY DEF StartNext, MakeConfigs, ConfigsFail, PlaceGroup, PlacementFails, RomInit, RomInitFails,
           InitWorkers, InitModel, Profile, ProfileFails, InitKvCache, MakeScheduler, SchedulerFails,
           RegisterMemHandles, RegisterRomWorkers, Raise, inputs
  <1> DEFINE All == UNION {Workers(s) : s \in Stages}
  <1>3. /\ \A s \in Stages : Workers(s)' = Workers(s)
        /\ All' = All /\ FromEnv' = FromEnv
    BY <1>2, InputsStay
  <1>4. \A s \in Stages : Workers(s) \subseteq All
    OBVIOUS
  <1>5. "context" \in Stages /\ "decoding" \in Stages
    BY DEF Stages
  <1>6. /\ StartTypeOK <=>
             /\ model \in Models /\ parallel \in Parallel /\ policy \in SchedPolicies
             /\ env \in Environments
             /\ pc \in {"configs", "groups", "rom", "starting", "scheduler", "initialized", "raised"}
             /\ groups \in Seq(DOMAIN Cluster)
             /\ DOMAIN rom = DOMAIN Default
             /\ stage \in [Stages -> StageNames]
             /\ \A s \in Stages : {numBlocks[s].gpu, numBlocks[s].cpu} \subseteq Nat
             /\ loaded \cup DOMAIN cache \subseteq alive
             /\ alive \subseteq All /\ mapped \subseteq Workers("decoding")
             /\ registered \subseteq Nat
        /\ StartTypeOK' <=>
             /\ model' \in Models /\ parallel' \in Parallel /\ policy' \in SchedPolicies
             /\ env' \in Environments
             /\ pc' \in {"configs", "groups", "rom", "starting", "scheduler", "initialized", "raised"}
             /\ groups' \in Seq(DOMAIN Cluster)
             /\ DOMAIN rom' = DOMAIN Default
             /\ stage' \in [Stages -> StageNames]
             /\ \A s \in Stages : {numBlocks'[s].gpu, numBlocks'[s].cpu} \subseteq Nat
             /\ loaded' \cup DOMAIN cache' \subseteq alive'
             /\ alive' \subseteq All /\ mapped' \subseteq Workers("decoding")
             /\ registered' \subseteq Nat
    BY <1>3, <1>5 DEF StartTypeOK, StageNames
  <1> HIDE DEF All
  <1>7. CASE MakeConfigs \/ ConfigsFail \/ PlacementFails \/ RomInitFails
             \/ \E s \in Stages : ProfileFails(s) \/ SchedulerFails(s)
    BY <1>1, <1>2, <1>6, <1>7
       DEF MakeConfigs, ConfigsFail, PlacementFails, RomInitFails, ProfileFails, SchedulerFails,
           Raise, inputs
  <1>8. CASE PlaceGroup
    BY <1>1, <1>2, <1>6, <1>8 DEF PlaceGroup, inputs
  <1>9. CASE RomInit
    <2>1. rom' = UpdateFromModelConfig(FromEnv) /\ pc' = "starting"
          /\ UNCHANGED <<inputs, groups, stage, alive, loaded, numBlocks, cache, mapped, registered>>
      BY <1>9 DEF RomInit
    <2>2. DOMAIN rom' = DOMAIN Default
      BY <2>1 DEF UpdateFromModelConfig, FromEnv
    <2> QED BY <1>1, <1>2, <1>6, <2>1, <2>2 DEF inputs
  <1>10. ASSUME NEW s \in Stages, InitWorkers(s)
         PROVE  StartTypeOK' /\ (DOMAIN numBlocks)' = Stages
    <2>1. alive \subseteq alive' /\ alive' \subseteq All
      BY <1>1, <1>4, <1>6, <1>10 DEF InitWorkers
    <2>2. stage' \in [Stages -> StageNames]
      BY <1>1, <1>6, <1>10 DEF InitWorkers, StageNames
    <2> QED BY <1>1, <1>2, <1>6, <1>10, <2>1, <2>2 DEF InitWorkers, inputs
  <1>11. ASSUME NEW s \in Stages, InitModel(s)
         PROVE  StartTypeOK' /\ (DOMAIN numBlocks)' = Stages
    <2>1. loaded' \subseteq loaded \cup alive
      BY <1>11 DEF InitModel
    <2>2. stage' \in [Stages -> StageNames]
      BY <1>1, <1>6, <1>11 DEF InitModel, StageNames
    <2> QED BY <1>1, <1>2, <1>6, <1>11, <2>1, <2>2 DEF InitModel, inputs
  <1>12. ASSUME NEW s \in Stages, Profile(s)
         PROVE  StartTypeOK' /\ (DOMAIN numBlocks)' = Stages
    <2>1. /\ numBlocks' = [numBlocks EXCEPT ![s] = Sized(s)]
          /\ GetBlockSizeInBytes(s) > 0 /\ model.maxLens # {}
      BY <1>12 DEF Profile, Sized, CanProfile
    <2>2. Sized(s).gpu \in Nat /\ Sized(s).cpu \in Nat
      BY <1>1, <1>6, <2>1, SizedFits
    <2>3. \A r \in Stages : {numBlocks'[r].gpu, numBlocks'[r].cpu} \subseteq Nat
      BY <1>1, <1>6, <2>1, <2>2
    <2>4. stage' \in [Stages -> StageNames] /\ DOMAIN numBlocks' = Stages
      BY <1>1, <1>6, <1>12, <2>1 DEF Profile, StageNames
    <2> QED BY <1>1, <1>2, <1>6, <1>12, <2>3, <2>4 DEF Profile, inputs
  <1>13. ASSUME NEW s \in Stages, InitKvCache(s)
         PROVE  StartTypeOK' /\ (DOMAIN numBlocks)' = Stages
    <2>1. PICK ok \in SUBSET (Workers(s) \cap alive) : cache' = WithCaches(s, ok)
      BY <1>13 DEF InitKvCache
    <2>2. DOMAIN cache' = ok \cup DOMAIN cache
      BY <2>1 DEF WithCaches
    <2>3. stage' \in [Stages -> StageNames] /\ pc' \in {pc, "raised"}
      BY <1>1, <1>6, <1>13 DEF InitKvCache, StageNames
    <2>4. UNCHANGED <<inputs, groups, rom, alive, loaded, numBlocks, mapped, registered>>
      BY <1>13 DEF InitKvCache
    <2> QED BY <1>1, <1>2, <1>6, <2>2, <2>3, <2>4 DEF inputs
  <1>14. ASSUME NEW s \in Stages, MakeScheduler(s)
         PROVE  StartTypeOK' /\ (DOMAIN numBlocks)' = Stages
    <2>1. stage' \in [Stages -> StageNames]
      BY <1>1, <1>6, <1>14 DEF MakeScheduler, StageNames
    <2> QED BY <1>1, <1>2, <1>6, <1>14, <2>1 DEF MakeScheduler, inputs
  <1>15. CASE RegisterMemHandles
    BY <1>1, <1>2, <1>6, <1>15 DEF RegisterMemHandles, inputs
  <1>16. CASE RegisterRomWorkers
    <2>1. parallel.pp["decoding"] \in Nat
      BY <1>1, <1>5, <1>6, Sizes
    <2>2. registered' \subseteq Nat /\ pc' \in {"initialized", "raised"}
          /\ UNCHANGED <<inputs, groups, rom, stage, alive, loaded, numBlocks, cache, mapped>>
      <3>1. registered \subseteq Nat
        BY <1>1, <1>6
      <3> QED BY <1>16, <2>1, <3>1 DEF RegisterRomWorkers
    <2> QED BY <1>1, <1>2, <1>6, <2>2 DEF inputs
  <1> QED BY <1>7, <1>8, <1>9, <1>10, <1>11, <1>12, <1>13, <1>14, <1>15, <1>16 DEF StartNext

(***************************************************************************)
(* What each stage of the start has established stays.                     *)
(***************************************************************************)
LEMMA CompleteStep ==
  ASSUME StartInv, StartNext
  PROVE  Complete'
  <1>1. StartTypeOK /\ DOMAIN numBlocks = Stages /\ Complete
    BY DEF StartInv
  <1>2. stage \in [Stages -> StageNames]
    BY <1>1 DEF StartTypeOK, StageNames
  <1>3. ASSUME UNCHANGED <<inputs, numBlocks, cache>>
        PROVE  \A s \in Stages : (Profiled(s) => Profiled(s)') /\ (Cached(s) => Cached(s)')
    <2> SUFFICES ASSUME NEW s \in Stages
                 PROVE  (Profiled(s) => Profiled(s)') /\ (Cached(s) => Cached(s)')
      OBVIOUS
    <2>1. /\ numBlocks'[s] = numBlocks[s]
          /\ \A w \in Workers(s) : w \in DOMAIN cache => (w \in DOMAIN cache' /\ cache'[w] = cache[w])
      BY <1>3
    <2>2. Profiled(s) => Profiled(s)'
      BY <1>3, <2>1, ProfiledStays
    <2>3. Cached(s) => Cached(s)'
      BY <1>3, <2>1, CachedStays
    <2> QED BY <2>2, <2>3
  <1>4. ASSUME UNCHANGED <<inputs, rom, stage, numBlocks, cache>>, pc' \notin {"scheduler", "initialized"},
               pc' \notin {"configs", "groups", "raised"} => Placed',
               pc' = "starting" => pc = "starting"
        PROVE  Complete'
    <2>1. UpdateFromModelConfig(FromEnv)' = UpdateFromModelConfig(FromEnv)
      BY <1>4, InputsStay
    <2>2. \A s \in Stages : stage'[s] \in {"caches", "scheduling", "done"} => Profiled(s)'
      BY <1>1, <1>3, <1>4 DEF Complete
    <2>3. \A s \in Stages : stage'[s] \in {"scheduling", "done"} => Cached(s)'
      BY <1>1, <1>3, <1>4 DEF Complete
    <2> QED BY <1>1, <1>4, <2>1, <2>2, <2>3 DEF Complete
  <1>5. CASE MakeConfigs
    <2>1. UNCHANGED <<inputs, rom, stage, numBlocks, cache>> /\ pc' = "groups"
      BY <1>5 DEF MakeConfigs
    <2> QED BY <1>4, <2>1
  <1>6. ASSUME Raise
        PROVE  Complete'
    <2>1. UNCHANGED <<inputs, rom, stage, numBlocks, cache>> /\ pc' = "raised"
      BY <1>6 DEF Raise
    <2> QED BY <1>4, <2>1
  <1>7. CASE PlaceGroup
    <2>1. UNCHANGED <<inputs, rom, stage, numBlocks, cache>> /\ UNCHANGED inputs
      BY <1>7 DEF PlaceGroup
    <2>2. pc' = (IF Len(groups') = NumGroups THEN "rom" ELSE "groups")
          /\ \A s \in Stages : LayersDivide(s)
      BY <1>7 DEF PlaceGroup, CanPlace
    <2>3. pc' = "rom" => Placed'
      BY <2>1, <2>2, InputsStay DEF Placed
    <2> QED BY <1>4, <2>1, <2>2, <2>3
  <1>8. CASE RomInit
    <2>1. /\ UNCHANGED <<inputs, groups, stage, numBlocks, cache>> /\ UNCHANGED inputs
          /\ rom' = UpdateFromModelConfig(FromEnv) /\ pc' = "starting" /\ pc = "rom"
      BY <1>8 DEF RomInit
    <2>2. rom' = UpdateFromModelConfig(FromEnv)' /\ rom'.dtypeBytes \in Nat
      <3>1. FromEnv.dtypeBytes \in Nat
        BY <1>8 DEF RomInit, Validates
      <3>2. rom'.dtypeBytes = FromEnv.dtypeBytes
        BY <2>1 DEF UpdateFromModelConfig, FromEnv, Default
      <3> QED BY <2>1, <3>1, <3>2, InputsStay
    <2>3. Placed'
      BY <1>1, <2>1, PlacedStays DEF Complete
    <2>4. \A s \in Stages : stage'[s] \in {"caches", "scheduling", "done"} => Profiled(s)'
      BY <1>1, <1>3, <2>1 DEF Complete
    <2>5. \A s \in Stages : stage'[s] \in {"scheduling", "done"} => Cached(s)'
      BY <1>1, <1>3, <2>1 DEF Complete
    <2> QED BY <2>1, <2>2, <2>3, <2>4, <2>5 DEF Complete
  <1>9. ASSUME NEW s \in Stages, UNCHANGED <<inputs, pc, groups, rom>>, pc = "starting",
               stage' \in [Stages -> StageNames],
               \A r \in Stages \ {s} :
                 /\ stage'[r] = stage[r]
                 /\ Profiled(r) => Profiled(r)'
                 /\ Cached(r) => Cached(r)',
               stage'[s] \in {"caches", "scheduling", "done"} => Profiled(s)',
               stage'[s] \in {"scheduling", "done"} => Cached(s)'
        PROVE  Complete'
    <2>1. Placed'
      BY <1>1, <1>9, PlacedStays DEF Complete
    <2>2. UpdateFromModelConfig(FromEnv)' = UpdateFromModelConfig(FromEnv)
      BY <1>9, InputsStay
    <2>3. \A r \in Stages : stage'[r] \in {"caches", "scheduling", "done"} => Profiled(r)'
      BY <1>1, <1>9 DEF Complete
    <2>4. \A r \in Stages : stage'[r] \in {"scheduling", "done"} => Cached(r)'
      BY <1>1, <1>9 DEF Complete
    <2> QED BY <1>1, <1>9, <2>1, <2>2, <2>3, <2>4 DEF Complete
  <1>10. ASSUME NEW s \in Stages, InitWorkers(s) \/ InitModel(s)
         PROVE  Complete'
    <2>1. /\ UNCHANGED <<inputs, pc, groups, rom, numBlocks, cache>>
          /\ pc = "starting"
          /\ stage' = [stage EXCEPT ![s] = "models"] \/ stage' = [stage EXCEPT ![s] = "profile"]
      BY <1>10 DEF InitWorkers, InitModel
    <2>2. /\ stage' \in [Stages -> StageNames] /\ stage'[s] \in {"models", "profile"}
          /\ \A r \in Stages \ {s} : stage'[r] = stage[r]
      BY <1>2, <2>1 DEF StageNames
    <2>3. \A r \in Stages : (Profiled(r) => Profiled(r)') /\ (Cached(r) => Cached(r)')
      BY <1>3, <2>1
    <2> QED BY <1>9, <2>1, <2>2, <2>3
  <1>11. ASSUME NEW s \in Stages, Profile(s)
         PROVE  Complete'
    <2>1. /\ UNCHANGED <<inputs, pc, groups, rom, cache>> /\ UNCHANGED inputs
          /\ pc = "starting" /\ stage' = [stage EXCEPT ![s] = "caches"]
          /\ numBlocks' = [numBlocks EXCEPT ![s] = Sized(s)]
          /\ GetBlockSizeInBytes(s) > 0 /\ model.maxLens # {}
      BY <1>11 DEF Profile, Sized, CanProfile
    <2>2. /\ stage' \in [Stages -> StageNames] /\ stage'[s] = "caches"
          /\ \A r \in Stages \ {s} : stage'[r] = stage[r]
      BY <1>2, <2>1 DEF StageNames
    <2>3. numBlocks'[s] = Sized(s) /\ \A r \in Stages \ {s} : numBlocks'[r] = numBlocks[r]
      BY <1>1, <2>1
    <2>4. Profiled(s)'
      <3>1. model' = model
        BY <2>1 DEF inputs
      <3>2. Sized(s)' = Sized(s) /\ GetBlockSizeInBytes(s)' = GetBlockSizeInBytes(s)
        BY <2>1, InputsStay
      <3> QED BY <2>1, <2>3, <3>1, <3>2 DEF Profiled
    <2>5. ASSUME NEW r \in Stages \ {s}
          PROVE  (Profiled(r) => Profiled(r)') /\ (Cached(r) => Cached(r)')
      <3>1. r \in Stages /\ numBlocks'[r] = numBlocks[r]
        BY <2>3
      <3>2. \A w \in Workers(r) : w \in DOMAIN cache => (w \in DOMAIN cache' /\ cache'[w] = cache[w])
        BY <2>1
      <3> QED BY <2>1, <3>1, <3>2, ProfiledStays, CachedStays
    <2> QED BY <1>9, <2>1, <2>2, <2>4, <2>5
  <1>12. ASSUME NEW s \in Stages, InitKvCache(s)
         PROVE  Complete'
    <2>1. PICK ok \in SUBSET (Workers(s) \cap alive) :
            /\ cache' = WithCaches(s, ok)
            /\ IF ok = Workers(s) THEN stage' = [stage EXCEPT ![s] = "scheduling"] /\ UNCHANGED pc
                                  ELSE pc' = "raised" /\ UNCHANGED stage
      BY <1>12 DEF InitKvCache
    <2>2. /\ UNCHANGED <<inputs, groups, rom, numBlocks>> /\ UNCHANGED inputs
          /\ pc = "starting" /\ stage[s] = "caches"
      BY <1>12 DEF InitKvCache
    <2>3. /\ DOMAIN cache' = ok \cup DOMAIN cache
          /\ \A w \in ok \cup DOMAIN cache : cache'[w] = IF w \in ok THEN Shapes(s) ELSE cache[w]
      BY <2>1 DEF WithCaches, Shapes
    <2>4. ASSUME NEW r \in Stages \ {s}
          PROVE  (Profiled(r) => Profiled(r)') /\ (Cached(r) => Cached(r)')
      <3>1. \A w \in Workers(r) : w \notin ok
        <4>1. \A w \in Workers(r) : w[1] = r
          BY DEF Workers
        <4>2. \A w \in ok : w[1] = s
          BY DEF Workers
        <4> QED BY <4>1, <4>2
      <3>2. \A w \in Workers(r) : w \in DOMAIN cache => (w \in DOMAIN cache' /\ cache'[w] = cache[w])
        BY <2>3, <3>1
      <3>3. numBlocks'[r] = numBlocks[r] /\ r \in Stages
        BY <2>2
      <3> QED BY <2>2, <3>2, <3>3, ProfiledStays, CachedStays
    <2>5. numBlocks'[s] = numBlocks[s] /\ Profiled(s) /\ Profiled(s)'
      BY <1>1, <2>2, ProfiledStays DEF Complete
    <2>6. CASE ok = Workers(s)
      <3>1. /\ stage' \in [Stages -> StageNames] /\ stage'[s] = "scheduling" /\ pc' = pc
            /\ \A r \in Stages \ {s} : stage'[r] = stage[r]
        BY <1>2, <2>1, <2>6 DEF StageNames
      <3>2. Cached(s)'
        <4>1. Shapes(s)' = Shapes(s)
          BY <2>2 DEF inputs, Shapes, CacheShape, GetNumLayers, GetNumHeads, GetHeadSize, KvHeads
        <4>2. Workers(s)' = Workers(s)
          BY <2>2, InputsStay
        <4> QED BY <2>3, <2>6, <4>1, <4>2 DEF Cached
      <3> QED BY <1>9, <2>2, <2>4, <2>5, <3>1, <3>2
    <2>7. CASE ok # Workers(s)
      <3>1. pc' = "raised" /\ stage' = stage
        BY <2>1, <2>7
      <3>2. \A r \in Stages : stage'[r] \in {"caches", "scheduling", "done"} => Profiled(r)'
        BY <1>1, <2>4, <2>5, <3>1 DEF Complete
      <3>3. \A r \in Stages : stage'[r] \in {"scheduling", "done"} => Cached(r)'
        BY <1>1, <2>2, <2>4, <3>1 DEF Complete
      <3> QED BY <3>1, <3>2, <3>3 DEF Complete
    <2> QED BY <2>6, <2>7
  <1>13. ASSUME NEW s \in Stages, MakeScheduler(s)
         PROVE  Complete'
    <2>1. /\ UNCHANGED <<inputs, pc, groups, rom, numBlocks, cache>> /\ pc = "starting"
          /\ stage[s] = "scheduling" /\ stage' = [stage EXCEPT ![s] = "done"]
      BY <1>13 DEF MakeScheduler
    <2>2. /\ stage' \in [Stages -> StageNames] /\ stage'[s] = "done"
          /\ \A r \in Stages \ {s} : stage'[r] = stage[r]
      BY <1>2, <2>1 DEF StageNames
    <2>3. \A r \in Stages : (Profiled(r) => Profiled(r)') /\ (Cached(r) => Cached(r)')
      BY <1>3, <2>1
    <2>4. Profiled(s) /\ Cached(s)
      BY <1>1, <2>1 DEF Complete
    <2> QED BY <1>9, <2>1, <2>2, <2>3, <2>4
  <1>14. CASE RegisterMemHandles
    <2>1. /\ UNCHANGED <<inputs, groups, rom, stage, numBlocks, cache>> /\ UNCHANGED inputs
          /\ pc = "starting" /\ pc' = "scheduler" /\ \A s \in Stages : stage[s] = "done"
      BY <1>14 DEF RegisterMemHandles
    <2>2. Placed'
      BY <1>1, <2>1, PlacedStays DEF Complete
    <2>3. UpdateFromModelConfig(FromEnv)' = UpdateFromModelConfig(FromEnv)
      BY <2>1, InputsStay
    <2>4. \A s \in Stages : Profiled(s)' /\ Cached(s)'
      BY <1>1, <1>3, <2>1 DEF Complete
    <2> QED BY <1>1, <2>1, <2>2, <2>3, <2>4 DEF Complete
  <1>15. CASE RegisterRomWorkers
    <2>1. /\ UNCHANGED <<inputs, groups, rom, stage, numBlocks, cache>> /\ UNCHANGED inputs
          /\ pc = "scheduler" /\ pc' \in {"initialized", "raised"}
          /\ pc' = "initialized" => 0 .. parallel.pp["decoding"] - 1 \subseteq registered'
      BY <1>15 DEF RegisterRomWorkers
    <2>2. Placed'
      BY <1>1, <2>1, PlacedStays DEF Complete
    <2>3. UpdateFromModelConfig(FromEnv)' = UpdateFromModelConfig(FromEnv) /\ parallel' = parallel
      BY <2>1, InputsStay DEF inputs
    <2>4. \A s \in Stages : stage'[s] = "done" /\ Profiled(s)' /\ Cached(s)'
      BY <1>1, <1>3, <2>1 DEF Complete
    <2> QED BY <1>1, <2>1, <2>2, <2>3, <2>4 DEF Complete
  <1>16. ConfigsFail \/ PlacementFails \/ RomInitFails
           \/ (\E s \in Stages : ProfileFails(s) \/ SchedulerFails(s)) => Raise
    BY DEF ConfigsFail, PlacementFails, RomInitFails, ProfileFails, SchedulerFails
  <1> QED BY <1>5, <1>6, <1>7, <1>8, <1>10, <1>11, <1>12, <1>13, <1>14, <1>15, <1>16 DEF StartNext

LEMMA StartInductive ==
  StartSpec => []StartInv
  <1>1. StartInit => StartInv
    <2> SUFFICES ASSUME StartInit PROVE StartInv
      OBVIOUS
    <2>1. /\ DOMAIN numBlocks = Stages /\ \A s \in Stages : numBlocks[s] = [gpu |-> 0, cpu |-> 0]
          /\ DOMAIN cache = {}
      BY DEF StartInit
    <2>2. \A s \in Stages : stage[s] = "workers"
      BY DEF StartInit
    <2>3. StartTypeOK
      BY <2>1, StartupAssumption DEF StartInit, StartTypeOK
    <2>4. Complete
      BY <2>2 DEF StartInit, Complete
    <2> QED BY <2>1, <2>3, <2>4 DEF StartInv
  <1>2. StartInv /\ [StartNext]_startVars => StartInv'
    <2> SUFFICES ASSUME StartInv, [StartNext]_startVars PROVE StartInv'
      OBVIOUS
    <2>1. CASE StartNext
      BY <2>1, StartTypes, CompleteStep DEF StartInv
    <2>2. CASE UNCHANGED startVars
      <3>1. /\ UNCHANGED <<inputs, groups, numBlocks, cache>> /\ UNCHANGED inputs
            /\ UNCHANGED <<pc, rom, stage, alive, loaded, mapped, registered>>
        BY <2>2 DEF startVars, inputs
      <3>2. \A s \in Stages : (Profiled(s) => Profiled(s)') /\ (Cached(s) => Cached(s)')
        BY <3>1, ProfiledStays, CachedStays
      <3>3. /\ UpdateFromModelConfig(FromEnv)' = UpdateFromModelConfig(FromEnv)
            /\ \A s \in Stages : Workers(s)' = Workers(s)
            /\ (UNION {Workers(s) : s \in Stages})' = UNION {Workers(s) : s \in Stages}
        BY <3>1, InputsStay
      <3>4. Placed => Placed'
        BY <3>1, PlacedStays
      <3>5. Complete'
        <4>1. parallel' = parallel
          BY <3>1 DEF inputs
        <4> QED BY <3>1, <3>2, <3>3, <3>4, <4>1 DEF StartInv, Complete
      <3>6. StartTypeOK'
        <4>1. "decoding" \in Stages
          BY DEF Stages
        <4> QED BY <3>1, <3>3, <4>1 DEF StartInv, StartTypeOK, inputs
      <3> QED BY <3>1, <3>5, <3>6 DEF StartInv
    <2> QED BY <2>1, <2>2
  <1> QED BY <1>1, <1>2, PTL DEF StartSpec

(***************************************************************************)
(* Every group has as many workers as GPUs, the workers of a layer are in  *)
(* one group, whatever the shape of the pipelines: _init_placement_groups  *)
(* and the pp_per_group of _init_workers agree about the groups.           *)
(***************************************************************************)
THEOREM Alignment ==
  StartSpec => []LayersAreAligned
  <1>1. StartInv => LayersAreAligned
    <2> SUFFICES ASSUME StartInv PROVE LayersAreAligned
      OBVIOUS
    <2>1. StartTypeOK /\ model \in Models /\ parallel \in Parallel
      BY DEF StartInv, StartTypeOK
    <2>2. (\A s \in Stages : LayersDivide(s)) => GroupsAssertion
      BY <2>1, AssertionHolds
    <2>3. ASSUME pc \notin {"configs", "groups", "raised"}
          PROVE  /\ \A g \in DOMAIN groups : Cardinality(InGroup(g)) = WorkersPerGroup
                 /\ \A i \in 0 .. parallel.pp["context"] - 1, j \in 0 .. parallel.pp["decoding"] - 1 :
                      LayersOf("context", i) \cap LayersOf("decoding", j) # {}
                        => groups[GroupOf("context", i)] = groups[GroupOf("decoding", j)]
      <3>1. (\A s \in Stages : LayersDivide(s)) /\ Len(groups) = NumGroups
        BY <2>3 DEF StartInv, Complete, Placed
      <3>2. DOMAIN groups = 1 .. NumGroups
        BY <2>1, <3>1 DEF StartTypeOK
      <3>3. \A g \in DOMAIN groups : Cardinality(InGroup(g)) = WorkersPerGroup
        BY <2>1, <3>1, <3>2, GroupIsFull
      <3>4. ASSUME NEW i \in 0 .. parallel.pp["context"] - 1, NEW j \in 0 .. parallel.pp["decoding"] - 1,
                   LayersOf("context", i) \cap LayersOf("decoding", j) # {}
            PROVE  GroupOf("context", i) = GroupOf("decoding", j)
        <4>1. PICK layer : layer \in LayersOf("context", i) /\ layer \in LayersOf("decoding", j)
          BY <3>4
        <4>2. "context" \in Stages /\ "decoding" \in Stages
          BY DEF Stages
        <4>3. GroupOf("context", i) = (layer \div LayersPerGroup) + 1
          BY <2>1, <3>1, <4>1, <4>2, LayersOfGroup
        <4>4. GroupOf("decoding", j) = (layer \div LayersPerGroup) + 1
          BY <2>1, <3>1, <4>1, <4>2, LayersOfGroup
        <4> QED BY <4>3, <4>4
      <3> QED BY <3>3, <3>4
    <2> QED BY <2>1, <2>2, <2>3 DEF LayersAreAligned
  <1> QED BY <1>1, StartInductive, PTL

(***************************************************************************)
(* The estimate of the ROM cost model and the allocation.                  *)
(***************************************************************************)
LEMMA EstimateProduct ==
  ASSUME NEW p \in Nat, NEW l \in Nat, NEW t \in Nat, NEW h \in Nat, NEW k \in Nat, NEW x \in Nat,
         NEW d \in Nat, NEW e \in Nat
  PROVE  k * 2 * (p * l) * (t * h) * x * e * d = p * t * (2 * l * h * k * x * d) * e
  OBVIOUS

LEMMA ShapeProduct ==
  ASSUME NEW n \in Nat, NEW l \in Nat, NEW h \in Nat, NEW k \in Nat, NEW x \in Nat, NEW d \in Nat
  PROVE  2 * n * l * h * k * x * d = (2 * l * h * k * x * d) * n
  OBVIOUS

LEMMA Estimate ==
  ASSUME model \in Models, parallel \in Parallel, \A s \in Stages : LayersDivide(s),
         rom = UpdateFromModelConfig(FromEnv), rom.dtypeBytes \in Nat, NEW s \in Stages
  PROVE  EstimateIsAllocation(s)
  <1> SUFFICES ASSUME KvHeads % parallel.tp[s] = 0
               PROVE  BlockSize * 2 * rom.numLayers * rom.numKvHeads * rom.headDim * rom.dtypeBytes
                          * GetDtypeSize
                        = parallel.pp[s] * parallel.tp[s] * GetBlockSizeInBytes(s) * rom.dtypeBytes
    BY DEF EstimateIsAllocation
  <1> DEFINE p == parallel.pp[s]  t == parallel.tp[s]  l == GetNumLayers(s)  h == GetNumHeads(s)
             x == GetHeadSize  d == GetDtypeSize  e == rom.dtypeBytes
  <1>1. /\ p \in Nat /\ t \in Nat \ {0} /\ l \in Nat /\ h \in Nat /\ x \in Nat /\ d \in Nat
        /\ e \in Nat /\ BlockSize \in Nat /\ KvHeads \in Nat \ {0}
    BY Sizes
  <1>2. rom.numLayers = model.layers /\ rom.numKvHeads = KvHeads /\ rom.headDim = x
    BY DEF UpdateFromModelConfig, FromEnv, Default
  <1>3. model.layers = p * l
    BY Factors
  <1>4. KvHeads = t * h
    <2>1. PICK q \in Nat : KvHeads = t * q
      BY <1>1, Divides
    <2>2. KvHeads \div t = q
      BY <1>1, <2>1, Exact
    <2>3. CASE model.multiQuery
      <3>1. KvHeads = 1 /\ h = 1
        BY <2>3 DEF KvHeads, GetNumHeads
      <3> HIDE DEF t, h
      <3>2. t = 1
        BY <1>1, <2>1, <3>1
      <3> QED BY <3>1, <3>2
    <2>4. CASE ~model.multiQuery
      <3>1. h = q
        BY <2>2, <2>4 DEF GetNumHeads
      <3> QED BY <2>1, <3>1
    <2> QED BY <2>3, <2>4
  <1>5. GetBlockSizeInBytes(s) = 2 * l * h * BlockSize * x * d
    BY DEF GetBlockSizeInBytes
  <1> HIDE DEF p, t, l, h, x, d, e
  <1>6. BlockSize * 2 * (p * l) * (t * h) * x * e * d = p * t * (2 * l * h * BlockSize * x * d) * e
    BY <1>1, EstimateProduct
  <1> QED BY <1>2, <1>3, <1>4, <1>5, <1>6 DEF p, t, d, e

LEMMA Allocation ==
  ASSUME model \in Models, parallel \in Parallel, NEW s \in Stages, Profiled(s), Cached(s),
         NEW w \in Workers(s)
  PROVE  AllocationFits(w)
  <1> DEFINE t == parallel.tp[s]  b == GetBlockSizeInBytes(s)  n == numBlocks[s]
             m == ModelSizeTimesTp(s)
  <1>1. w[1] = s
    BY DEF Workers
  <1>2. cache[w] = Shapes(s)
    BY DEF Cached
  <1>3. n = Sized(s) /\ b > 0 /\ model.maxLens # {}
    BY DEF Profiled
  <1>4. /\ t \in Nat /\ b \in Nat /\ m \in Nat /\ n.gpu \in Nat /\ n.cpu \in Nat
        /\ GpuMemory \in Nat /\ Utilization \in Nat
    BY <1>3, Sizes, BlockBytes, ModelBytes, SizedFits, StartupAssumption
  <1>5. ASSUME NEW blocks \in Nat
        PROVE  Bytes(CacheShape(s, blocks)) = b * blocks
    <2> DEFINE l == GetNumLayers(s)  h == GetNumHeads(s)  x == GetHeadSize  d == GetDtypeSize
    <2>1. l \in Nat /\ h \in Nat /\ x \in Nat /\ d \in Nat /\ BlockSize \in Nat
      BY Sizes
    <2>2. Bytes(CacheShape(s, blocks)) = 2 * blocks * l * h * BlockSize * x * d
      BY DEF Bytes, CacheShape
    <2>3. b = 2 * l * h * BlockSize * x * d
      BY DEF GetBlockSizeInBytes
    <2> HIDE DEF l, h, x, d, b
    <2> QED BY <2>1, <2>2, <2>3, ShapeProduct
  <1>6. cache[w].kv[1] = n.gpu /\ cache[w].kv = CacheShape(s, n.gpu) /\ cache[w].swap = CacheShape(s, n.cpu)
    BY <1>2 DEF Shapes, CacheShape
  <1>7. ASSUME n.gpu > 0
        PROVE  100 * (m + t * (b * n.gpu)) <= GpuMemory * Utilization * t
    <2>1. 100 * t * b * n.gpu <= GpuMemory * (Utilization - 1) * t - 100 * m
      BY <1>3, <1>7, SizedFits
    <2> DEFINE g == n.gpu
    <2>2. g \in Nat
      BY <1>4
    <2> HIDE DEF t, b, n, m, g
    <2>3. 100 * t * b * g = 100 * (t * (b * g))
      BY <1>4, <2>2
    <2>4. GpuMemory * (Utilization - 1) * t <= GpuMemory * Utilization * t
      <3>1. GpuMemory * Utilization * t = GpuMemory * (Utilization - 1) * t + GpuMemory * t
        BY <1>4
      <3>2. GpuMemory * t \in Nat
        BY <1>4
      <3>3. GpuMemory * (Utilization - 1) * t \in Int
        BY <1>4
      <3> QED BY <3>1, <3>2, <3>3
    <2> DEFINE e == t * (b * g)  u == GpuMemory * (Utilization - 1) * t  v == GpuMemory * Utilization * t
    <2>5. e \in Int /\ u \in Int /\ v \in Int
      BY <1>4, <2>2
    <2>6. 100 * e <= u - 100 * m /\ u <= v
      BY <2>1, <2>3, <2>4 DEF g
    <2> HIDE DEF e, u, v
    <2>7. 100 * (m + e) <= v
      BY <1>4, <2>5, <2>6
    <2> QED BY <2>7 DEF e, v, g
  <1>8. cache[w].kv[1] > 0 =>
          100 * (ModelSizeTimesTp(w[1]) + parallel.tp[w[1]] * Bytes(cache[w].kv))
            <= GpuMemory * Utilization * parallel.tp[w[1]]
    BY <1>1, <1>4, <1>5, <1>6, <1>7
  <1>9. w[1] = "decoding" => Bytes(cache[w].swap) <= CpuSwapSpace
    BY <1>1, <1>3, <1>4, <1>5, <1>6, SizedFits
  <1> QED BY <1>8, <1>9 DEF AllocationFits

(***************************************************************************)
(* An engine that says it is initialized has all of its workers, each with *)
(* caches that fit and that its block manager counts right, and the ROM    *)
(* scheduler knows its pipeline, although asyncio.wait hides what the      *)
(* workers raise in three of the four calls.  The models and the handles   *)
(* of the context stage's caches are not in it: they may be missing.       *)
(***************************************************************************)
THEOREM Started ==
  StartSpec => []StartedWithCaches
  <1>1. StartInv => StartedWithCaches
    <2> SUFFICES ASSUME StartInv, pc = "initialized"
                 PROVE  /\ \A s \in Stages : \A w \in Workers(s) :
                             /\ w \in alive /\ w \in DOMAIN cache /\ AllocationFits(w)
                             /\ cache[w].kv[1] = numBlocks[s].gpu
                             /\ cache[w].swap[1] = numBlocks[s].cpu
                        /\ {w[2] : w \in Workers("decoding")} \subseteq registered
                        /\ \A s \in Stages : EstimateIsAllocation(s)
      BY DEF StartedWithCaches
    <2>1. /\ model \in Models /\ parallel \in Parallel /\ loaded \cup DOMAIN cache \subseteq alive
          /\ Complete
      BY DEF StartInv, StartTypeOK
    <2>2. /\ \A s \in Stages : LayersDivide(s) /\ Profiled(s) /\ Cached(s)
          /\ rom = UpdateFromModelConfig(FromEnv)
          /\ rom.dtypeBytes \in Nat
          /\ 0 .. parallel.pp["decoding"] - 1 \subseteq registered
      BY <2>1 DEF Complete, Placed
    <2>3. ASSUME NEW s \in Stages, NEW w \in Workers(s)
          PROVE  /\ w \in alive /\ w \in DOMAIN cache /\ AllocationFits(w)
                 /\ cache[w].kv[1] = numBlocks[s].gpu /\ cache[w].swap[1] = numBlocks[s].cpu
      <3>1. w \in DOMAIN cache /\ cache[w] = Shapes(s)
        BY <2>2 DEF Cached
      <3>2. AllocationFits(w)
        BY <2>1, <2>2, Allocation
      <3> QED BY <2>1, <3>1, <3>2 DEF Shapes, CacheShape
    <2>4. {w[2] : w \in Workers("decoding")} \subseteq registered
      <3>1. \A w \in Workers("decoding") : w[2] \in 0 .. parallel.pp["decoding"] - 1
        BY DEF Workers
      <3> QED BY <2>2, <3>1
    <2>5. \A s \in Stages : EstimateIsAllocation(s)
      BY <2>1, <2>2, Estimate
    <2> QED BY <2>3, <2>4, <2>5
  <1> QED BY <1>1, StartInductive, PTL

-----------------------------------------------------------------------------
LEMMA Piece ==
  ASSUME NEW n \in Int, NEW h \in 0 .. n - 1
  PROVE  \E i \in 0 .. NumPieces - 1 : \A j \in 0 .. NumPieces - 1 : h \in HeadsOf(n, j) <=> i = j
  <1> DEFINE e == n \div NumPieces
  <1>1. n \in Nat /\ h \in Nat /\ h < n
    OBVIOUS
  <1>2. e \in Nat /\ 8 * e <= n /\ n < 8 * e + 8
    BY <1>1 DEF NumPieces
  <1>3. \A j \in 0 .. NumPieces - 1 :
          HeadsOf(n, j) = j * e .. (IF j < 7 THEN (j + 1) * e ELSE n) - 1
    BY DEF HeadsOf, NumPieces
  <1> HIDE DEF e
  <1>4. \A j \in 0 .. NumPieces - 1 :
          h \in HeadsOf(n, j) <=> /\ j = 0 => (0 <= h /\ h < e)
                                  /\ j = 1 => (e <= h /\ h < 2 * e)
                                  /\ j = 2 => (2 * e <= h /\ h < 3 * e)
                                  /\ j = 3 => (3 * e <= h /\ h < 4 * e)
                                  /\ j = 4 => (4 * e <= h /\ h < 5 * e)
                                  /\ j = 5 => (5 * e <= h /\ h < 6 * e)
                                  /\ j = 6 => (6 * e <= h /\ h < 7 * e)
                                  /\ j = 7 => 7 * e <= h
    <2> SUFFICES ASSUME NEW j \in 0 .. NumPieces - 1
                 PROVE  h \in HeadsOf(n, j) <=> /\ j = 0 => (0 <= h /\ h < e)
                                                /\ j = 1 => (e <= h /\ h < 2 * e)
                                                /\ j = 2 => (2 * e <= h /\ h < 3 * e)
                                                /\ j = 3 => (3 * e <= h /\ h < 4 * e)
                                                /\ j = 4 => (4 * e <= h /\ h < 5 * e)
                                                /\ j = 5 => (5 * e <= h /\ h < 6 * e)
                                                /\ j = 6 => (6 * e <= h /\ h < 7 * e)
                                                /\ j = 7 => 7 * e <= h
      OBVIOUS
    <2>1. j \in {0, 1, 2, 3, 4, 5, 6, 7}
      BY DEF NumPieces
    <2>2. HeadsOf(n, j) = j * e .. (IF j < 7 THEN (j + 1) * e ELSE n) - 1
      BY <1>3
    <2>3. CASE j = 0 BY <1>1, <1>2, <2>2, <2>3
    <2>4. CASE j = 1 BY <1>1, <1>2, <2>2, <2>4
    <2>5. CASE j = 2 BY <1>1, <1>2, <2>2, <2>5
    <2>6. CASE j = 3 BY <1>1, <1>2, <2>2, <2>6
    <2>7. CASE j = 4 BY <1>1, <1>2, <2>2, <2>7
    <2>8. CASE j = 5 BY <1>1, <1>2, <2>2, <2>8
    <2>9. CASE j = 6 BY <1>1, <1>2, <2>2, <2>9
    <2>10. CASE j = 7 BY <1>1, <1>2, <2>2, <2>10
    <2> QED BY <2>1, <2>3, <2>4, <2>5, <2>6, <2>7, <2>8, <2>9, <2>10
  <1> DEFINE i == IF h < e THEN 0 ELSE IF h < 2 * e THEN 1 ELSE IF h < 3 * e THEN 2
                  ELSE IF h < 4 * e THEN 3 ELSE IF h < 5 * e THEN 4 ELSE IF h < 6 * e THEN 5
                  ELSE IF h < 7 * e THEN 6 ELSE 7
  <1>5. i \in 0 .. NumPieces - 1
    BY DEF NumPieces
  <1>6. ASSUME NEW j \in 0 .. NumPieces - 1
        PROVE  h \in HeadsOf(n, j) <=> i = j
    <2>1. j \in {0, 1, 2, 3, 4, 5, 6, 7}
      BY DEF NumPieces
    <2>2. h \in Int /\ e \in Int
      BY <1>1, <1>2
    <2>3. CASE j = 0 BY <1>1, <1>2, <1>4, <2>3
    <2>4. CASE j = 1 BY <1>1, <1>2, <1>4, <2>4
    <2>5. CASE j = 2 BY <1>1, <1>2, <1>4, <2>5
    <2>6. CASE j = 3 BY <1>1, <1>2, <1>4, <2>6
    <2>7. CASE j = 4 BY <1>1, <1>2, <1>4, <2>7
    <2>8. CASE j = 5 BY <1>1, <1>2, <1>4, <2>8
    <2>9. CASE j = 6 BY <1>1, <1>2, <1>4, <2>9
    <2>10. CASE j = 7 BY <1>1, <1>2, <1>4, <2>10
    <2> QED BY <2>1, <2>3, <2>4, <2>5, <2>6, <2>7, <2>8, <2>9, <2>10
  <1> HIDE DEF i
  <1> QED BY <1>5, <1>6

(* Every name that a model is loaded from is the new name of a tensor in the
   dictionary that is saved. *)
LEMMA Covered ==
  ASSUME checkpoint.type \in {"opt", "llama", "gpt2"}
  PROVE  /\ \A n \in LayerNames(checkpoint.type) : \E p :
              /\ NewName(p) = n /\ p \notin Ignored(checkpoint.type)
              /\ \A l \in LayerIds : <<p, l>> \in Preprocessed
         /\ \A n \in OutsideNames(checkpoint.type) : \E p :
              /\ NewName(p) = n /\ p \notin Ignored(checkpoint.type)
              /\ <<p, NoLayer>> \in Preprocessed
  <1> DEFINE Layered(p, n) == /\ NewName(p) = n /\ p \notin Ignored(checkpoint.type)
                              /\ \A l \in LayerIds : <<p, l>> \in Preprocessed
             Outside(p, n) == /\ NewName(p) = n /\ p \notin Ignored(checkpoint.type)
                              /\ <<p, NoLayer>> \in Preprocessed
  <1>1. NoLayer \notin LayerIds
    BY DEF NoLayer, LayerIds
  <1>2. CASE checkpoint.type = "opt"
    <2> DEFINE Kept == {"out_proj.weight", "out_proj.bias", "self_attn_layer_norm.weight",
                 "self_attn_layer_norm.bias", "fc1.weight", "fc1.bias", "fc2.weight", "fc2.bias",
                 "final_layer_norm.weight", "final_layer_norm.bias"}
    <2>1. \A p \in Kept \cup {"qkv_proj.weight", "qkv_proj.bias"} : Layered(p, p)
      <3>1. \A p \in Kept \cup {"qkv_proj.weight", "qkv_proj.bias"} :
              NewName(p) = p /\ p \notin Ignored(checkpoint.type)
        BY <1>2 DEF NewName, optNameTranslator, Ignored
      <3>2. \A p \in Kept, l \in LayerIds : <<p, l>> \in StateDict
        BY <1>2 DEF StateDict, StandardOfLayer
      <3>3. \A p \in Kept : p \notin QkvWeights \cup QkvBiases
        BY DEF QkvWeights, QkvBiases
      <3>4. \A p \in Kept, l \in LayerIds : <<p, l>> \in Preprocessed
        BY <1>2, <3>2, <3>3 DEF Preprocessed
      <3>5. \A p \in {"qkv_proj.weight", "qkv_proj.bias"}, l \in LayerIds : <<p, l>> \in Preprocessed
        BY <1>2 DEF Preprocessed
      <3> QED BY <3>1, <3>4, <3>5
    <2>2. LayerNames(checkpoint.type) = Kept \cup {"qkv_proj.weight", "qkv_proj.bias"}
      BY <1>2 DEF LayerNames
    <2>3. /\ Outside("decoder.embed_tokens.weight", "decoder.embed_tokens.weight")
          /\ Outside("decoder.embed_positions.weight", "decoder.embed_positions.weight")
          /\ Outside("decoder.final_layer_norm.weight", "decoder.layer_norm.weight")
          /\ Outside("decoder.final_layer_norm.bias", "decoder.layer_norm.bias")
          /\ Outside(OutputProjection, OutputProjection)
      <3>1. \A p \in StandardOutside("opt") : <<p, NoLayer>> \in StateDict
        BY <1>2 DEF StateDict
      <3>2. \A p \in StandardOutside("opt") : <<p, NoLayer>> \in Preprocessed
        BY <1>1, <1>2, <3>1 DEF Preprocessed
      <3>3. <<OutputProjection, NoLayer>> \in Preprocessed
        BY <1>2 DEF Preprocessed
      <3> QED BY <1>2, <3>2, <3>3
              DEF StandardOutside, NewName, optNameTranslator, Ignored, OutputProjection
    <2>4. OutsideNames(checkpoint.type) =
            {"decoder.embed_tokens.weight", OutputProjection, "decoder.layer_norm.weight",
             "decoder.embed_positions.weight", "decoder.layer_norm.bias"}
      BY <1>2 DEF OutsideNames
    <2> HIDE DEF Layered, Outside, Kept
    <2>5. /\ \A n \in LayerNames(checkpoint.type) : \E p : Layered(p, n)
          /\ \A n \in OutsideNames(checkpoint.type) : \E p : Outside(p, n)
      BY <2>1, <2>2, <2>3, <2>4
    <2> QED BY <2>5 DEF Layered, Outside
  <1>3. CASE checkpoint.type = "llama"
    <2>1. /\ Layered("o_proj.weight", "out_proj.weight")
          /\ Layered("gate_proj.weight", "fc1.weight")
          /\ Layered("down_proj.weight", "fc2.weight")
          /\ Layered("up_proj.weight", "fc3.weight")
          /\ Layered("input_layernorm.weight", "self_attn_layer_norm.weight")
          /\ Layered("post_attention_layernorm.weight", "final_layer_norm.weight")
          /\ Layered("attention.wqkv.weight", "qkv_proj.weight")
      <3> DEFINE Kept == {"o_proj.weight", "gate_proj.weight", "down_proj.weight", "up_proj.weight",
                          "input_layernorm.weight", "post_attention_layernorm.weight"}
      <3>1. \A p \in Kept, l \in LayerIds : <<p, l>> \in StateDict
        BY <1>3 DEF StateDict, StandardOfLayer
      <3>2. \A p \in Kept : p \notin QkvWeights
        BY DEF QkvWeights
      <3>3. \A p \in Kept, l \in LayerIds : <<p, l>> \in Preprocessed
        BY <1>3, <3>1, <3>2 DEF Preprocessed
      <3>4. \A l \in LayerIds : <<"attention.wqkv.weight", l>> \in Preprocessed
        BY <1>3 DEF Preprocessed
      <3>5. \A p \in Kept \cup {"attention.wqkv.weight"} : p \notin Ignored(checkpoint.type)
        BY <1>3 DEF Ignored
      <3> QED BY <1>3, <3>3, <3>4, <3>5 DEF NewName, llama2NameTranslator
    <2>2. LayerNames(checkpoint.type) =
            {"out_proj.weight", "fc1.weight", "fc2.weight", "fc3.weight", "self_attn_layer_norm.weight",
             "final_layer_norm.weight", "qkv_proj.weight"}
      BY <1>3 DEF LayerNames
    <2>3. /\ Outside("embed_tokens.weight", "decoder.embed_tokens.weight")
          /\ Outside("lm_head.weight", OutputProjection)
          /\ Outside("norm.weight", "decoder.layer_norm.weight")
      <3>1. \A p \in StandardOutside("llama") : <<p, NoLayer>> \in StateDict
        BY <1>3 DEF StateDict
      <3>2. \A p \in StandardOutside("llama") : <<p, NoLayer>> \in Preprocessed
        BY <1>1, <1>3, <3>1 DEF Preprocessed
      <3> QED BY <1>3, <3>2 DEF StandardOutside, NewName, llama2NameTranslator, Ignored
    <2>4. OutsideNames(checkpoint.type) =
            {"decoder.embed_tokens.weight", OutputProjection, "decoder.layer_norm.weight"}
      BY <1>3 DEF OutsideNames
    <2> HIDE DEF Layered, Outside
    <2>5. /\ \A n \in LayerNames(checkpoint.type) : \E p : Layered(p, n)
          /\ \A n \in OutsideNames(checkpoint.type) : \E p : Outside(p, n)
      BY <2>1, <2>2, <2>3, <2>4
    <2> QED BY <2>5 DEF Layered, Outside
  <1>4. CASE checkpoint.type = "gpt2"
    <2>1. /\ Layered("attn.c_proj.weight", "out_proj.weight") /\ Layered("attn.c_proj.bias", "out_proj.bias")
          /\ Layered("ln_1.weight", "self_attn_layer_norm.weight")
          /\ Layered("ln_1.bias", "self_attn_layer_norm.bias")
          /\ Layered("mlp.c_fc.weight", "fc1.weight") /\ Layered("mlp.c_fc.bias", "fc1.bias")
          /\ Layered("mlp.c_proj.weight", "fc2.weight") /\ Layered("mlp.c_proj.bias", "fc2.bias")
          /\ Layered("ln_2.weight", "final_layer_norm.weight")
          /\ Layered("ln_2.bias", "final_layer_norm.bias")
          /\ Layered("attn.c_attn.weight", "qkv_proj.weight")
          /\ Layered("attn.c_attn.bias", "qkv_proj.bias")
      <3>1. \A p \in StandardOfLayer("gpt2"), l \in LayerIds : <<p, l>> \in Preprocessed
        BY <1>4 DEF StateDict, Preprocessed
      <3>2. \A p \in StandardOfLayer("gpt2") : p \notin Ignored(checkpoint.type)
        BY <1>4 DEF Ignored, StandardOfLayer
      <3> QED BY <1>4, <3>1, <3>2 DEF StandardOfLayer, NewName, gpt2NameTranslator, OutputProjection
    <2>2. LayerNames(checkpoint.type) =
            {"out_proj.weight", "out_proj.bias", "self_attn_layer_norm.weight", "self_attn_layer_norm.bias",
             "fc1.weight", "fc1.bias", "fc2.weight", "fc2.bias", "final_layer_norm.weight",
             "final_layer_norm.bias", "qkv_proj.weight", "qkv_proj.bias"}
      BY <1>4 DEF LayerNames
    <2>3. /\ Outside("wte.weight", "decoder.embed_tokens.weight")
          /\ Outside("wpe.weight", "decoder.embed_positions.weight")
          /\ Outside("ln_f.weight", "decoder.layer_norm.weight")
          /\ Outside("ln_f.bias", "decoder.layer_norm.bias")
          /\ Outside(OutputProjection, OutputProjection)
      <3>1. \A p \in StandardOutside("gpt2") : <<p, NoLayer>> \in Preprocessed
        BY <1>4 DEF StateDict, Preprocessed
      <3>2. <<OutputProjection, NoLayer>> \in Preprocessed
        BY <1>4 DEF Preprocessed
      <3> QED BY <1>4, <3>1, <3>2
              DEF StandardOutside, NewName, gpt2NameTranslator, Ignored, OutputProjection
    <2>4. OutsideNames(checkpoint.type) =
            {"decoder.embed_tokens.weight", OutputProjection, "decoder.layer_norm.weight",
             "decoder.embed_positions.weight", "decoder.layer_norm.bias"}
      BY <1>4 DEF OutsideNames
    <2> HIDE DEF Layered, Outside
    <2>5. /\ \A n \in LayerNames(checkpoint.type) : \E p : Layered(p, n)
          /\ \A n \in OutsideNames(checkpoint.type) : \E p : Outside(p, n)
      BY <2>1, <2>2, <2>3, <2>4
    <2> QED BY <2>5 DEF Layered, Outside
  <1> QED BY <1>2, <1>3, <1>4

(***************************************************************************)
(* The invariant of the lock and the folder: whoever writes holds the      *)
(* lock, the folder is not marked yet, and what it has taken off its list  *)
(* is there with its dtype.                                                *)
(***************************************************************************)
KnownDtypes == {"fp16", "fp32"}
KnownTypes  == {"opt", "llama", "gpt2"}

Saved(t, d) == \A f \in FilesOf(t) : f \in DOMAIN folder /\ folder[f] = Content(f, d)

WeightsInv ==
  /\ checkpoint.hidden \in Int /\ checkpoint.kvSize \in Int
  /\ DOMAIN at = Callers /\ DOMAIN dtype = Callers
  /\ \A c \in Callers : at[c] \in {"locked", "writing"} => lock = c
  /\ \A c \in Callers : at[c] = "returned" => done
  /\ \A c \in Callers : at[c] = "writing" =>
       /\ ~done /\ dtype[c] \in KnownDtypes /\ checkpoint.type \in KnownTypes
       /\ \A t \in Preprocessed \ left : Saved(t, dtype[c])
  /\ done =>
       /\ checkpoint.type \in KnownTypes
       /\ \E d \in KnownDtypes : \A t \in Preprocessed : Saved(t, d)

LEMMA CheckpointStays ==
  ASSUME UNCHANGED checkpoint
  PROVE  /\ \A t : FilesOf(t)' = FilesOf(t)
         /\ \A f, d : Content(f, d)' = Content(f, d)
         /\ Preprocessed' = Preprocessed
  <1>1. HeadDim' = HeadDim /\ NumQHeads' = NumQHeads /\ LayerIds' = LayerIds
    BY DEF HeadDim, NumQHeads, LayerIds
  <1>2. NumKvHeads' = NumKvHeads
    BY <1>1 DEF NumKvHeads, QkvSize
  <1>3. \A f, d : Content(f, d)' = Content(f, d)
    BY <1>1, <1>2 DEF Content
  <1>4. ASSUME NEW t PROVE FilesOf(t)' = FilesOf(t)
    <2>1. NewName(t[1])' = NewName(t[1])
      BY DEF NewName
    <2> QED BY <2>1 DEF FilesOf
  <1>5. StateDict' = StateDict
    BY <1>1 DEF StateDict
  <1>6. Preprocessed' = Preprocessed
    BY <1>1, <1>5 DEF Preprocessed
  <1> QED BY <1>3, <1>4, <1>6

LEMMA SavedStays ==
  ASSUME UNCHANGED <<checkpoint, folder>>, NEW t, NEW d, Saved(t, d)
  PROVE  Saved(t, d)'
  BY CheckpointStays DEF Saved

(* The actions that leave the folder and its mark alone, and do not begin a
   conversion *)
LEMMA OutsideFolder ==
  ASSUME WeightsInv, UNCHANGED <<checkpoint, folder, done>>, NEW c \in Callers,
         \A b \in Callers \ {c} : at'[b] = at[b] /\ dtype'[b] = dtype[b],
         DOMAIN at' = Callers, DOMAIN dtype' = Callers,
         at'[c] \in {"outside", "locked", "returned", "failed"},
         at'[c] = "locked" => lock' = c,
         at'[c] = "returned" => done,
         \A b \in Callers \ {c} : at[b] \in {"locked", "writing"} => (lock' = lock /\ left' = left)
  PROVE  WeightsInv'
  <1>1. Preprocessed' = Preprocessed
    BY CheckpointStays
  <1>2. \A t, d : Saved(t, d) => Saved(t, d)'
    BY SavedStays
  <1>3. \A b \in Callers : at'[b] \in {"locked", "writing"} => lock' = b
    BY DEF WeightsInv
  <1>4. \A b \in Callers : at'[b] = "returned" => done'
    BY DEF WeightsInv
  <1>5. ASSUME NEW b \in Callers, at'[b] = "writing"
        PROVE  /\ ~done' /\ dtype'[b] \in KnownDtypes /\ checkpoint'.type \in KnownTypes
               /\ \A t \in Preprocessed' \ left' : Saved(t, dtype[b])'
    <2>1. b # c /\ at[b] = "writing" /\ dtype'[b] = dtype[b] /\ left' = left
      BY <1>5
    <2>2. /\ ~done /\ dtype[b] \in KnownDtypes /\ checkpoint.type \in KnownTypes
          /\ \A t \in Preprocessed \ left : Saved(t, dtype[b])
      BY <2>1 DEF WeightsInv
    <2>3. PICK d \in KnownDtypes : dtype[b] = d
      BY <2>2
    <2>4. \A t \in Preprocessed' \ left' : Saved(t, d)'
      BY <1>1, <1>2, <2>1, <2>2, <2>3
    <2>5. dtype'[b] = d
      BY <2>1, <2>3
    <2>6. \A t \in Preprocessed' \ left' : Saved(t, dtype[b])'
      BY <2>4, <2>5 DEF Saved
    <2> QED BY <2>1, <2>2, <2>6
  <1>6. done' => /\ checkpoint'.type \in KnownTypes
                 /\ \E d \in KnownDtypes : \A t \in Preprocessed' : Saved(t, d)'
    BY <1>1, <1>2 DEF WeightsInv
  <1> QED BY <1>3, <1>4, <1>5, <1>6 DEF WeightsInv

LEMMA WeightsStep ==
  ASSUME WeightsInv, WeightsNext
  PROVE  WeightsInv'
  <1> SUFFICES ASSUME NEW c \in Callers,
                      Acquire(c) \/ FindCached(c) \/ Refuse(c) \/ BeginConversion(c) \/ SaveTensor(c)
                        \/ SaveFails(c) \/ MarkDone(c) \/ Die(c) \/ CallAgain(c)
               PROVE  WeightsInv'
    BY DEF WeightsNext
  <1>1. DOMAIN at = Callers /\ DOMAIN dtype = Callers
    BY DEF WeightsInv
  <1>2. \A b \in Callers : at[b] \in {"locked", "writing"} => lock = b
    BY DEF WeightsInv
  <1>3. UNCHANGED checkpoint
    BY DEF Acquire, FindCached, Refuse, BeginConversion, SaveTensor, SaveFails, MarkDone, Die, CallAgain
  <1>4. Preprocessed' = Preprocessed /\ (\A t : FilesOf(t)' = FilesOf(t))
        /\ (\A f, d : Content(f, d)' = Content(f, d))
    BY <1>3, CheckpointStays
  <1>5. CASE Acquire(c)
    <2>1. /\ UNCHANGED <<checkpoint, folder, done, dtype, left>>
          /\ lock' = c /\ lock = Nobody /\ at' = [at EXCEPT ![c] = "locked"]
      BY <1>5 DEF Acquire
    <2>2. \A b \in Callers : at[b] \notin {"locked", "writing"}
      BY <1>2, <2>1, WeightsAssumption
    <2>3. at'[c] = "locked" /\ DOMAIN at' = Callers /\ \A b \in Callers \ {c} : at'[b] = at[b]
      BY <1>1, <2>1
    <2> QED BY <1>1, <2>1, <2>2, <2>3, OutsideFolder
  <1>6. ASSUME NEW outcome \in {"returned", "failed"}, Release(c, outcome),
               at[c] \in {"locked", "writing"}, outcome = "returned" => done,
               UNCHANGED <<checkpoint, folder, done, dtype>>
        PROVE  WeightsInv'
    <2>1. at' = [at EXCEPT ![c] = outcome]
      BY <1>6 DEF Release
    <2>2. \A b \in Callers \ {c} : at[b] \notin {"locked", "writing"}
      BY <1>2, <1>6
    <2>3. at'[c] = outcome /\ DOMAIN at' = Callers /\ \A b \in Callers \ {c} : at'[b] = at[b]
      BY <1>1, <2>1
    <2> QED BY <1>1, <1>6, <2>2, <2>3, OutsideFolder
  <1>7. CASE FindCached(c) \/ Refuse(c) \/ SaveFails(c)
    BY <1>6, <1>7 DEF FindCached, Refuse, SaveFails
  <1>8. CASE BeginConversion(c)
    <2>1. /\ UNCHANGED <<folder, done, dtype, lock>> /\ at[c] = "locked"
          /\ at' = [at EXCEPT ![c] = "writing"] /\ left' = Preprocessed /\ ~done
          /\ dtype[c] \in KnownDtypes /\ checkpoint.type \in KnownTypes
      BY <1>8 DEF BeginConversion, Accepts, KnownDtypes, KnownTypes
    <2>2. at'[c] = "writing" /\ DOMAIN at' = Callers /\ \A b \in Callers \ {c} : at'[b] = at[b]
      BY <1>1, <2>1
    <2>3. \A b \in Callers \ {c} : at[b] \notin {"locked", "writing"}
      BY <1>2, <2>1
    <2>4. Preprocessed' \ left' = {}
      BY <1>4, <2>1
    <2>5. \A b \in Callers : at'[b] = "returned" => done'
      BY <2>1, <2>2 DEF WeightsInv
    <2> QED BY <1>1, <1>2, <1>3, <2>1, <2>2, <2>3, <2>4, <2>5 DEF WeightsInv
  <1>9. CASE SaveTensor(c)
    <2>0. PICK n : n = NextTensor
      OBVIOUS
    <2>1. /\ UNCHANGED <<dtype, at, lock, done>> /\ at[c] = "writing"
          /\ left # {} /\ folder' = WithFiles(FilesOf(n), dtype[c]) /\ left' = left \ {n}
      BY <1>9, <2>0 DEF SaveTensor
    <2>2. /\ ~done /\ dtype[c] \in KnownDtypes /\ checkpoint.type \in KnownTypes
          /\ \A t \in Preprocessed \ left : Saved(t, dtype[c])
      BY <2>1 DEF WeightsInv
    <2>3. PICK d \in KnownDtypes : dtype[c] = d
      BY <2>2
    <2>4. /\ DOMAIN folder' = FilesOf(n) \cup DOMAIN folder
          /\ \A f \in FilesOf(n) : folder'[f] = Content(f, d)
          /\ \A f \in DOMAIN folder : f \notin FilesOf(n) => folder'[f] = folder[f]
      BY <2>1, <2>3 DEF WithFiles
    <2>5. Saved(n, d)'
      BY <1>4, <2>4 DEF Saved
    <2>6. ASSUME NEW t, Saved(t, d) PROVE Saved(t, d)'
      BY <1>4, <2>4, <2>6 DEF Saved
    <2>7. \A t \in Preprocessed' \ left' : Saved(t, d)'
      <3> SUFFICES ASSUME NEW t \in Preprocessed' \ left' PROVE Saved(t, d)'
        OBVIOUS
      <3>1. CASE t = n
        BY <2>5, <3>1
      <3>2. CASE t # n
        <4>1. t \in Preprocessed \ left
          BY <1>4, <2>1, <3>2
        <4> QED BY <2>2, <2>3, <2>6, <4>1
      <3> QED BY <3>1, <3>2
    <2>8. dtype'[c] = d
      BY <2>1, <2>3
    <2>9. \A t \in Preprocessed' \ left' : Saved(t, dtype[c])'
      BY <2>7, <2>8 DEF Saved
    <2>10. \A b \in Callers \ {c} : at'[b] \notin {"locked", "writing"}
      BY <1>2, <2>1
    <2>11. \A b \in Callers : at'[b] = "returned" => done'
      BY <2>1 DEF WeightsInv
    <2> QED BY <1>1, <1>2, <1>3, <2>1, <2>2, <2>9, <2>10, <2>11 DEF WeightsInv
  <1>10. CASE MarkDone(c)
    <2>1. /\ UNCHANGED <<dtype, folder>> /\ at[c] = "writing" /\ left = {} /\ done' = TRUE
          /\ at' = [at EXCEPT ![c] = "returned"]
      BY <1>10 DEF MarkDone, Release
    <2>2. /\ dtype[c] \in KnownDtypes /\ checkpoint.type \in KnownTypes
          /\ \A t \in Preprocessed \ left : Saved(t, dtype[c])
      BY <2>1 DEF WeightsInv
    <2>3. PICK d \in KnownDtypes : dtype[c] = d
      BY <2>2
    <2>4. \A t \in Preprocessed' : Saved(t, d)'
      BY <1>3, <1>4, <2>1, <2>2, <2>3, SavedStays
    <2>5. DOMAIN at' = Callers /\ \A b \in Callers : at'[b] \notin {"locked", "writing"}
      BY <1>1, <1>2, <2>1
    <2> QED BY <1>1, <1>3, <2>1, <2>2, <2>4, <2>5 DEF WeightsInv
  <1>11. CASE Die(c)
    <2>1. /\ at[c] \in {"locked", "writing"} /\ Release(c, "failed") /\ UNCHANGED <<dtype, done>>
      BY <1>11 DEF Die
    <2>2. CASE UNCHANGED folder
      BY <1>3, <1>6, <2>1, <2>2
    <2>3. CASE folder' # folder
      <3>1. at[c] = "writing"
        BY <1>11, <2>3 DEF Die
      <3>3. at' = [at EXCEPT ![c] = "failed"]
        BY <2>1 DEF Release
      <3>4. DOMAIN at' = Callers /\ \A b \in Callers : at'[b] \notin {"locked", "writing"}
        BY <1>1, <1>2, <2>1, <3>3
      <3>5. \A b \in Callers : at'[b] = "returned" => done'
        BY <1>1, <2>1, <3>3 DEF WeightsInv
      <3>6. ~done
        BY <3>1 DEF WeightsInv
      <3> QED BY <1>1, <1>3, <2>1, <3>4, <3>5, <3>6 DEF WeightsInv
    <2> QED BY <2>2, <2>3
  <1>12. CASE CallAgain(c)
    <2>1. /\ UNCHANGED <<checkpoint, lock, left, folder, done>>
          /\ at' = [at EXCEPT ![c] = "outside"]
          /\ \E d \in Dtypes : dtype' = [dtype EXCEPT ![c] = d]
      BY <1>12 DEF CallAgain
    <2>2. /\ at'[c] = "outside" /\ DOMAIN at' = Callers /\ DOMAIN dtype' = Callers
          /\ \A b \in Callers \ {c} : at'[b] = at[b] /\ dtype'[b] = dtype[b]
      BY <1>1, <2>1
    <2> QED BY <2>1, <2>2, OutsideFolder
  <1> QED BY <1>5, <1>7, <1>8, <1>9, <1>10, <1>11, <1>12

(* The files that are needed are files of tensors that are saved. *)
LEMMA NeededIsSaved ==
  ASSUME checkpoint.type \in KnownTypes, NEW f \in NeededFiles
  PROVE  /\ \E t \in Preprocessed : f \in FilesOf(t)
         /\ f[1] \in Qkv => \A j \in 0 .. NumPieces - 1 : <<f[1], f[2], j>> \in NeededFiles
  <1>1. ASSUME NEW n, NEW l, NEW i \in PiecesOf(n), NEW p,
               NewName(p) = n, p \notin Ignored(checkpoint.type), f = <<n, l, i>>
        PROVE  f \in FilesOf(<<p, l>>)
    <2>1. <<p, l>>[1] = p /\ <<p, l>>[2] = l
      OBVIOUS
    <2>2. FilesOf(<<p, l>>) = IF n \in Whole THEN {<<n, l, NumPieces>>}
                              ELSE {<<n, l, j>> : j \in 0 .. NumPieces - 1}
      BY <1>1, <2>1 DEF FilesOf
    <2> QED BY <1>1, <2>2 DEF PiecesOf
  <1>2. \A n \in Qkv : PiecesOf(n) = 0 .. NumPieces - 1
    BY DEF Qkv, PiecesOf, Whole, OutputProjection
  <1>5. \/ \E n \in LayerNames(checkpoint.type), l \in LayerIds : \E i \in PiecesOf(n) : f = <<n, l, i>>
        \/ \E n \in OutsideNames(checkpoint.type) : \E i \in PiecesOf(n) : f = <<n, NoLayer, i>>
    BY DEF NeededFiles
  <1>3. CASE \E n \in LayerNames(checkpoint.type), l \in LayerIds : \E i \in PiecesOf(n) : f = <<n, l, i>>
    <2>1. PICK n \in LayerNames(checkpoint.type), l \in LayerIds : \E i \in PiecesOf(n) : f = <<n, l, i>>
      BY <1>3
    <2>2. PICK p : /\ NewName(p) = n /\ p \notin Ignored(checkpoint.type)
                   /\ \A k \in LayerIds : <<p, k>> \in Preprocessed
      BY <2>1, Covered DEF KnownTypes
    <2>3. f \in FilesOf(<<p, l>>) /\ <<p, l>> \in Preprocessed
      BY <1>1, <2>1, <2>2
    <2>4. ASSUME f[1] \in Qkv, NEW j \in 0 .. NumPieces - 1
          PROVE  <<f[1], f[2], j>> \in NeededFiles
      <3>1. f[1] = n /\ f[2] = l /\ j \in PiecesOf(n) /\ j \in 0 .. NumPieces
        BY <1>2, <2>1, <2>4 DEF NumPieces
      <3> QED BY <2>1, <3>1 DEF NeededFiles
    <2> QED BY <2>3, <2>4
  <1>4. CASE \E n \in OutsideNames(checkpoint.type) : \E i \in PiecesOf(n) : f = <<n, NoLayer, i>>
    <2>1. PICK n \in OutsideNames(checkpoint.type) : \E i \in PiecesOf(n) : f = <<n, NoLayer, i>>
      BY <1>4
    <2>2. PICK p : /\ NewName(p) = n /\ p \notin Ignored(checkpoint.type)
                   /\ <<p, NoLayer>> \in Preprocessed
      BY <2>1, Covered DEF KnownTypes
    <2>3. f \in FilesOf(<<p, NoLayer>>)
      BY <1>1, <2>1, <2>2
    <2>4. ASSUME f[1] \in Qkv, NEW j \in 0 .. NumPieces - 1
          PROVE  <<f[1], f[2], j>> \in NeededFiles
      <3>1. f[1] = n /\ f[2] = NoLayer /\ j \in PiecesOf(n) /\ j \in 0 .. NumPieces
        BY <1>2, <2>1, <2>4 DEF NumPieces
      <3> QED BY <2>1, <3>1 DEF NeededFiles
    <2> QED BY <2>2, <2>3, <2>4
  <1> QED BY <1>3, <1>4, <1>5

(***************************************************************************)
(* Whoever finds the file done finds the weights of the model complete,    *)
(* of one dtype, with every head in one piece, however many processes      *)
(* called, and wherever they died.                                         *)
(***************************************************************************)
THEOREM WeightsComplete ==
  WeightsSpec => []WeightsAreComplete
  <1>1. WeightsInit => WeightsInv
    <2> SUFFICES ASSUME WeightsInit PROVE WeightsInv
      OBVIOUS
    <2>1. DOMAIN at = Callers /\ DOMAIN dtype = Callers /\ ~done
      BY DEF WeightsInit
    <2>2. \A c \in Callers : at[c] = "outside"
      BY DEF WeightsInit
    <2>3. checkpoint.hidden \in Int /\ checkpoint.kvSize \in Int
      BY WeightsAssumption DEF WeightsInit
    <2> QED BY <2>1, <2>2, <2>3 DEF WeightsInv
  <1>2. WeightsInv /\ [WeightsNext]_weightVars => WeightsInv'
    <2> SUFFICES ASSUME WeightsInv, [WeightsNext]_weightVars PROVE WeightsInv'
      OBVIOUS
    <2>1. CASE WeightsNext
      BY <2>1, WeightsStep
    <2>2. CASE UNCHANGED weightVars
      <3>1. UNCHANGED <<checkpoint, folder, dtype, at, lock, left, done>>
        BY <2>2 DEF weightVars
      <3>2. Preprocessed' = Preprocessed /\ \A t, d : Saved(t, d) => Saved(t, d)'
        BY <3>1, CheckpointStays, SavedStays
      <3>3. ASSUME NEW c \in Callers, at[c] = "writing"
            PROVE  \A t \in Preprocessed' \ left' : Saved(t, dtype[c])'
        <4>1. dtype[c] \in KnownDtypes /\ \A t \in Preprocessed \ left : Saved(t, dtype[c])
          BY <3>3 DEF WeightsInv
        <4>2. PICK d \in KnownDtypes : dtype[c] = d
          BY <4>1
        <4>3. \A t \in Preprocessed' \ left' : Saved(t, d)'
          BY <3>1, <3>2, <4>1, <4>2
        <4>4. dtype'[c] = d
          BY <3>1, <4>2
        <4> QED BY <4>3, <4>4 DEF Saved
      <3> QED BY <3>1, <3>2, <3>3 DEF WeightsInv
    <2> QED BY <2>1, <2>2
  <1>3. WeightsInv => WeightsAreComplete
    <2> SUFFICES ASSUME WeightsInv, done
                 PROVE  /\ \E d \in {"fp16", "fp32"} :
                             \A f \in NeededFiles : f \in DOMAIN folder /\ folder[f].dtype = d
                        /\ \A f \in NeededFiles : f[1] \in Qkv =>
                             /\ \A h \in 0 .. NumQHeads - 1 :
                                  \E i \in 0 .. NumPieces - 1 : \A j \in 0 .. NumPieces - 1 :
                                    h \in folder[<<f[1], f[2], j>>].heads.q <=> i = j
                             /\ \A h \in 0 .. NumKvHeads - 1 :
                                  \E i \in 0 .. NumPieces - 1 : \A j \in 0 .. NumPieces - 1 :
                                    h \in folder[<<f[1], f[2], j>>].heads.kv <=> i = j
      BY DEF WeightsInv, WeightsAreComplete
    <2>1. checkpoint.type \in KnownTypes
      BY DEF WeightsInv
    <2>2. PICK d \in KnownDtypes : \A t \in Preprocessed : Saved(t, d)
      BY DEF WeightsInv
    <2>3. \A f \in NeededFiles : f \in DOMAIN folder /\ folder[f] = Content(f, d)
      BY <2>1, <2>2, NeededIsSaved DEF Saved
    <2>4. \A f \in NeededFiles : folder[f].dtype = d
      <3> SUFFICES ASSUME NEW f \in NeededFiles PROVE folder[f].dtype = d
        OBVIOUS
      <3>1. folder[f] = Content(f, d)
        BY <2>3
      <3>2. Content(f, d).dtype = d
        BY DEF Content
      <3> QED BY <3>1, <3>2
    <2>5. ASSUME NEW f \in NeededFiles, f[1] \in Qkv
          PROVE  \A j \in 0 .. NumPieces - 1 :
                   /\ folder[<<f[1], f[2], j>>].heads.q = HeadsOf(NumQHeads, j)
                   /\ folder[<<f[1], f[2], j>>].heads.kv = HeadsOf(NumKvHeads, j)
      <3> SUFFICES ASSUME NEW j \in 0 .. NumPieces - 1
                   PROVE  /\ folder[<<f[1], f[2], j>>].heads.q = HeadsOf(NumQHeads, j)
                          /\ folder[<<f[1], f[2], j>>].heads.kv = HeadsOf(NumKvHeads, j)
        OBVIOUS
      <3> DEFINE g == <<f[1], f[2], j>>
      <3>1. g \in NeededFiles
        BY <2>1, <2>5, NeededIsSaved
      <3>2. g[1] \in Qkv /\ g[3] = j
        BY <2>5
      <3> HIDE DEF g
      <3>3. folder[g] = Content(g, d)
        BY <2>3, <3>1
      <3>4. Content(g, d).heads = [q |-> HeadsOf(NumQHeads, j), kv |-> HeadsOf(NumKvHeads, j)]
        BY <3>2 DEF Content
      <3> QED BY <3>3, <3>4 DEF g
    <2>6. NumQHeads \in Int /\ NumKvHeads \in Int
      <3>1. checkpoint.hidden \in Int /\ checkpoint.kvSize \in Int
        BY DEF WeightsInv
      <3>2. HeadDim \in Nat \ {0}
        BY DEF HeadDim
      <3>3. NumQHeads \in Int
        BY <3>1, <3>2 DEF NumQHeads
      <3>4. QkvSize \in Int
        BY <3>1 DEF QkvSize
      <3> QED BY <3>2, <3>3, <3>4 DEF NumKvHeads
    <2> HIDE DEF NeededFiles
    <2>7. ASSUME NEW f \in NeededFiles, f[1] \in Qkv
          PROVE  /\ \A h \in 0 .. NumQHeads - 1 :
                      \E i \in 0 .. NumPieces - 1 : \A j \in 0 .. NumPieces - 1 :
                        h \in folder[<<f[1], f[2], j>>].heads.q <=> i = j
                 /\ \A h \in 0 .. NumKvHeads - 1 :
                      \E i \in 0 .. NumPieces - 1 : \A j \in 0 .. NumPieces - 1 :
                        h \in folder[<<f[1], f[2], j>>].heads.kv <=> i = j
      BY <2>5, <2>6, <2>7, Piece
    <2> QED BY <2>3, <2>4, <2>7 DEF KnownDtypes
  <1> QED BY <1>1, <1>2, <1>3, PTL DEF WeightsSpec
=============================================================================
