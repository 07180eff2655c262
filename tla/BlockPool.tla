------------------------------ MODULE BlockPool ------------------------------
(***************************************************************************)
(* What BlockManager promises the schedulers: a pool of GPU blocks and a   *)
(* pool of CPU blocks, of which they only ever see the counts              *)
(* (get_num_avail_gpu_blocks, get_allocated_num_blocks, get_location).     *)
(* Which block a request gets, and whether the manager had to wait for     *)
(* swaps to give it out, are invisible at this level.                      *)
(***************************************************************************)
EXTENDS Integers

CONSTANTS
  Requests,     \* the requests that may own blocks
  NumBlocks     \* [{"GPU", "CPU"} -> Nat]: max_num_gpu_blocks, max_num_cpu_blocks

Locations == {"GPU", "CPU"}

VARIABLES
  avail,        \* [Locations -> Nat]: blocks that can be handed out
  held,         \* [Requests -> Nat]: blocks a request owns
  where         \* [Requests -> Locations \cup {"none"}]

vars == <<avail, held, where>>

Init ==
  /\ avail = NumBlocks
  /\ held  = [r \in Requests |-> 0]
  /\ where = [r \in Requests |-> "none"]

(* A request gets its first blocks, or grows on the GPU. *)
Allocate(r, n) ==
  /\ where[r] # "CPU"
  /\ avail' = [avail EXCEPT !["GPU"] = @ - n]
  /\ held'  = [held  EXCEPT ![r] = @ + n]
  /\ where' = [where EXCEPT ![r] = "GPU"]

Free(r) ==
  /\ where[r] # "none"
  /\ avail' = [avail EXCEPT ![where[r]] = @ + held[r]]
  /\ held'  = [held  EXCEPT ![r] = 0]
  /\ where' = [where EXCEPT ![r] = "none"]

(* All blocks of a request change sides; the source blocks are available   *)
(* again at once, as far as a scheduler can tell.                          *)
Swap(r, from, to) ==
  /\ where[r] = from
  /\ held[r] <= avail[to]
  /\ avail' = [avail EXCEPT ![to] = @ - held[r], ![from] = @ + held[r]]
  /\ where' = [where EXCEPT ![r] = to]
  /\ UNCHANGED held

Next ==
  \E r \in Requests :
    \/ \E n \in 1 .. avail["GPU"] : Allocate(r, n)
    \/ Free(r)
    \/ Swap(r, "GPU", "CPU")
    \/ Swap(r, "CPU", "GPU")

Spec == Init /\ [][Next]_vars
=============================================================================
