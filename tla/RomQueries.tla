----------------------------- MODULE RomQueries -----------------------------
(***************************************************************************)
(* Decisions asked one after the other: the failure monitor asks for each  *)
(* affected request, and the endpoint GET /v1/rom/decision                 *)
(* (src/distserve/api_server/distserve_api_server.py) for any request in   *)
(* flight, with a bandwidth of the caller's if it gives one.  All of them  *)
(* go through LLMEngine.get_rom_decision, under the one ROMConfig that was *)
(* read at the start.  The last query is the state, so that invariants     *)
(* speak of every query and action properties of every two.                *)
(***************************************************************************)
EXTENDS RomDecision

CONSTANTS
  Configs,      \* the configurations ROMConfig.validate lets through
  MaxSize,      \* sys.maxsize, above every length
  Lengths,      \* prompt lengths; 0 for a request that is not in _prompt_len_map
  Bandwidths    \* integers, also those <= 0 that a caller may pass

ASSUME QueriesAssumption ==
  /\ MaxSize \in Nat
  /\ \A config \in Configs :
       /\ config.policy \in Policies
       /\ config.perToken \in Nat \ {0}
       /\ DOMAIN config.table # {}
       /\ DOMAIN config.table \subseteq 1 .. MaxSize
       /\ \A k \in DOMAIN config.table : config.table[k] \in Nat
  /\ Lengths \subseteq Nat
  /\ Bandwidths \subseteq Int

VARIABLES config, promptLen, bandwidth

vars == <<config, promptLen, bandwidth>>

TypeOK ==
  /\ config \in Configs
  /\ promptLen \in Lengths
  /\ bandwidth \in Bandwidths

Init == TypeOK

(* get_rom_decision(request_id, bandwidth) *)
Query(len, b) ==
  /\ promptLen' = len
  /\ bandwidth' = b
  /\ UNCHANGED config

Next == \E len \in Lengths, b \in Bandwidths : Query(len, b)

Spec == Init /\ [][Next]_vars

AtBandwidth == Fraction(bandwidth, 1)
Decision == MakeDecision(promptLen, AtBandwidth, config)

-----------------------------------------------------------------------------

(* breakeven_prompt_len only looks at the lengths of the table, yet what   *)
(* it returns holds between them too: every prompt up to some table length *)
(* before the breakeven, also one shorter than the whole table, migrates.  *)
BelowBreakevenMigrates ==
  (/\ config.policy = "rom"
   /\ \E k \in DOMAIN config.table :
        promptLen <= k /\ BreakevenAbove(k, AtBandwidth, config)) => Decision = "migrate"

(* For one prompt, a faster link never turns a migration into a            *)
(* recomputation.                                                          *)
FasterFavoursMigration ==
  [][(/\ promptLen' = promptLen
      /\ bandwidth <= bandwidth'
      /\ Decision = "migrate") => Decision' = "migrate"]_vars

Grows(table) == \A j, k \in DOMAIN table : j <= k => table[j] <= table[k]

(* With measured latencies that grow with the prompt, a longer prompt never*)
(* costs less to recompute, on whichever segments of the table the two lie.*)
LongerNeverCheaper ==
  [][(Grows(config.table) /\ promptLen <= promptLen')
       => AtMost(RecomputeCost(promptLen, config), RecomputeCost(promptLen', config))]_vars
=============================================================================
