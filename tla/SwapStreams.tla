---------------------------- MODULE SwapStreams -----------------------------
(***************************************************************************)
(* The swaps of BlockManager as one worker carries them out                *)
(* (ParaWorker.swap_blocks and what goes with it, src/distserve/worker.py).*)
(* The calls of the block manager queue up in the worker's actor.  A copy  *)
(* runs in the CUDA stream of its direction: in the order of that stream,  *)
(* and beside everything else.                                             *)
(*                                                                         *)
(* swap_blocks records an event in the stream and then issues the copy, so *)
(* an event stands for the copies issued before that one.  The table of    *)
(* events is keyed by the Request objects of the call, which Ray unpickles *)
(* anew each time, while step and clear_request_resource look up request   *)
(* ids: no lookup ever finds an event, so no stream is made to wait, and   *)
(* the table is left out.  What remains is the latest event of a stream.   *)
(***************************************************************************)
EXTENDS BlockManager, Sequences

CONSTANT MaxCalls      \* bound on the calls in the actor's queue

NoEvent == -1

VARIABLES
  calls,     \* the actor's queue
  copies,    \* a stream: the copies issued and not ended, by the side they copy from
  latest     \* latest_swap_out_event ("GPU") and latest_swap_in_event ("CPU"):
             \*   how many of the copies it comes after, or NoEvent

streamVars == <<calls, copies, latest>>

Wait(from)           == [call |-> "wait", from |-> from, source |-> {}, target |-> {}]
Swap(from, src, dst) == [call |-> "swap", from |-> from, source |-> src, target |-> dst]

StreamInit ==
  /\ Init
  /\ calls  = <<>>
  /\ copies = [from \in Locations |-> <<>>]
  /\ latest = [from \in Locations |-> NoEvent]

(* The calls that _get_free_blocks(n, loc) makes *)
Flush(n, loc) == IF MustFlush(n, loc) THEN <<Wait(loc)>> ELSE <<>>

Send(new) == Len(calls) + Len(new) <= MaxCalls /\ calls' = calls \o new

Allocate(r, needed) ==
  /\ AllocateBlocks(r, needed)
  /\ Send(Flush(needed - Cardinality(blockTable[r]), "GPU"))
  /\ UNCHANGED <<copies, latest>>

Free(r) == FreeBlocks(r) /\ UNCHANGED streamVars

SwapTo(r, to) ==
  /\ SwapRequest(r, Other(to), to)
  /\ Send(Flush(Cardinality(blockTable[r]), to) \o <<Swap(Other(to), blockTable[r], blockTable'[r])>>)
  /\ UNCHANGED <<copies, latest>>

(* swap_blocks *)
IssueCopy ==
  /\ calls # <<>> /\ Head(calls).call = "swap"
  /\ LET from == Head(calls).from IN
       /\ latest' = [latest EXCEPT ![from] = Len(copies[from])]
       /\ copies' = [copies EXCEPT ![from] = Append(@, Head(calls))]
  /\ calls' = Tail(calls)
  /\ UNCHANGED vars

(* wait_for_all_swap_in, wait_for_all_swap_out: event.synchronize() holds
   the worker until the copies before the event have ended. *)
WaitForAll ==
  /\ calls # <<>> /\ Head(calls).call = "wait"
  /\ latest[Head(calls).from] \in {NoEvent, 0}
  /\ latest' = [latest EXCEPT ![Head(calls).from] = NoEvent]
  /\ calls' = Tail(calls)
  /\ UNCHANGED <<vars, copies>>

(* The oldest copy of a stream ends. *)
CopyEnds(from) ==
  /\ copies[from] # <<>>
  /\ copies' = [copies EXCEPT ![from] = Tail(@)]
  /\ latest' = [latest EXCEPT ![from] = IF @ > 0 THEN @ - 1 ELSE @]
  /\ UNCHANGED <<vars, calls>>

StreamNext ==
  \/ \E r \in Requests :
       \/ \E needed \in 1 .. Cardinality(GpuBlocks) : Allocate(r, needed)
       \/ Free(r)
       \/ \E to \in Locations : SwapTo(r, to)
  \/ IssueCopy \/ WaitForAll
  \/ \E from \in Locations : CopyEnds(from)

StreamSpec == StreamInit /\ [][StreamNext]_<<vars, streamVars>>

-----------------------------------------------------------------------------

(* Requirement 2 of block_manager.py: "When swapping in/out, we need to    *)
(* ensure that the target blocks (i.e. blocks that we are copying to) are  *)
(* free.  If there were another swapping operation which use them as       *)
(* source, we must wait for that operation to finish."  A copy, once       *)
(* issued, waits for the copies of its own stream only.                    *)
Requirement2 ==
  [][IssueCopy =>
       \A i \in DOMAIN copies[Other(Head(calls).from)] :
         copies[Other(Head(calls).from)][i].source \cap Head(calls).target = {}
    ]_<<vars, streamVars>>
=============================================================================
