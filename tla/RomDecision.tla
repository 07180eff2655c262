---------------------------- MODULE RomDecision ----------------------------
(***************************************************************************)
(* src/distserve/rom_decision.py: what it costs to migrate the KV cache of *)
(* a request, what it costs to compute it again, and which of the two the  *)
(* policy takes.                                                           *)
(*                                                                         *)
(* The code's floats are exact fractions here, [num, den], with [1, 0] for *)
(* math.inf; the unit of time absorbs the factor 10^6 of MB/s.  A prefill  *)
(* time table is a function from its prompt lengths to latencies, as the   *)
(* dictionary is; a configuration is a record [policy, perToken, table],   *)
(* where perToken is 2 * num_layers * num_kv_heads * head_dim * dtype_bytes.*)
(***************************************************************************)
EXTENDS Integers

Policies == {"rom", "always_migrate", "always_recompute"}

Fraction(n, d) == [num |-> n, den |-> d]
Infinite == Fraction(1, 0)

(* a <= b, for a and b that are not negative or infinite. *)
AtMost(a, b) == a.num * b.den <= b.num * a.den

(* compute_kv_size_bytes *)
KvSizeBytes(len, perToken) == IF len <= 0 THEN 0 ELSE perToken * len

(* mutant: the bandwidth as a factor *)
MutCMig(bytes, bandwidth) ==
  IF bandwidth.num <= 0 THEN Infinite ELSE Fraction(bytes * bandwidth.num, bandwidth.den)

(* compute_c_mig *)
CMig(bytes, bandwidth) ==
  IF bandwidth.num <= 0 THEN Infinite ELSE Fraction(bytes * bandwidth.den, bandwidth.num)

(* The first and the last length of a table, and those around x. *)
IsLowest(k, table)  == k \in DOMAIN table /\ \A j \in DOMAIN table : k <= j
IsHighest(k, table) == k \in DOMAIN table /\ \A j \in DOMAIN table : j <= k
Lowest(table)       == CHOOSE k \in DOMAIN table : IsLowest(k, table)
Highest(table)      == CHOOSE k \in DOMAIN table : IsHighest(k, table)
Below(table, x)     == CHOOSE k \in DOMAIN table :
                         k <= x /\ \A j \in DOMAIN table : j <= k \/ x < j
Above(table, x)     == CHOOSE k \in DOMAIN table :
                         x < k /\ \A j \in DOMAIN table : k <= j \/ j <= x

(* mutant: the fraction is measured from the wrong end *)
MutOnSegment(lo, hi, atLo, atHi, x) == Fraction(atLo * (hi - lo) + (hi - x) * (atHi - atLo), hi - lo)

(* t_lo + frac * (t_hi - t_lo) *)
OnSegment(lo, hi, atLo, atHi, x) == Fraction(atLo * (hi - lo) + (x - lo) * (atHi - atLo), hi - lo)

(* _interpolate: flat outside of the table, linear within. *)
Interpolate(table, x) ==
  IF x <= Lowest(table) THEN Fraction(table[Lowest(table)], 1)
  ELSE IF x >= Highest(table) THEN Fraction(table[Highest(table)], 1)
  ELSE OnSegment(Below(table, x), Above(table, x),
                 table[Below(table, x)], table[Above(table, x)], x)

(* compute_c_recomp *)
CRecomp(len, table) == IF len <= 0 THEN Fraction(0, 1) ELSE Interpolate(table, len)

MigrationCost(len, bandwidth, config) == CMig(KvSizeBytes(len, config.perToken), bandwidth)
RecomputeCost(len, config) == CRecomp(len, config.table)

(* make_decision *)
MakeDecision(len, bandwidth, config) ==
  IF \/ config.policy = "always_migrate"
     \/ /\ config.policy = "rom"
        /\ AtMost(MigrationCost(len, bandwidth, config), RecomputeCost(len, config))
  THEN "migrate"
  ELSE "recompute"

(* The table lengths at which breakeven_prompt_len would return. *)
Crossings(bandwidth, config) ==
  {k \in DOMAIN config.table :
     AtMost(RecomputeCost(k, config), MigrationCost(k, bandwidth, config))}

(* mutant: the search returns the last crossing *)
MutIsBreakeven(k, bandwidth, config) ==
  /\ k \in Crossings(bandwidth, config)
  /\ \A j \in Crossings(bandwidth, config) : j <= k

(* breakeven_prompt_len returns k; sys.maxsize is returned if no k is. *)
IsBreakeven(k, bandwidth, config) ==
  /\ k \in Crossings(bandwidth, config)
  /\ \A j \in Crossings(bandwidth, config) : k <= j

(* What breakeven_prompt_len returns is above x. *)
BreakevenAbove(x, bandwidth, config) ==
  \/ Crossings(bandwidth, config) = {}
  \/ \E k \in Crossings(bandwidth, config) : IsBreakeven(k, bandwidth, config) /\ x < k
=============================================================================
