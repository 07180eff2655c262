------------------------------- MODULE Queues -------------------------------
(***************************************************************************)
(* What the schedulers do with their queues of requests.                   *)
(*                                                                         *)
(* They write sum([f(req) for req in queue]) all over.  Here the total of  *)
(* f over a set S of requests is the number of the items <<r, i>> with     *)
(* r \in S and 1 <= i <= f[r].  The items are of use of their own: a block *)
(* table is the set of its requests' items, its logical blocks.            *)
(***************************************************************************)
EXTENDS Integers, Sequences, FiniteSets, Functions

Items(f, S) == UNION {{r} \X (1 .. f[r]) : r \in S}
Total(f, S) == Cardinality(Items(f, S))

(* No request is in the queue twice. *)
Distinct(queue) == \A i, j \in DOMAIN queue : queue[i] = queue[j] => i = j

(* What can be left of a queue without repetitions when requests are taken *)
(* out anywhere in it: the others keep their order.                        *)
PositionIn(queue, r) == CHOOSE i \in DOMAIN queue : queue[i] = r

Subsequences(queue) ==
  {out \in UNION {[1 .. k -> Range(queue)] : k \in 0 .. Len(queue)} :
     \A i, j \in DOMAIN out : i < j => PositionIn(queue, out[i]) < PositionIn(queue, out[j])}
=============================================================================
