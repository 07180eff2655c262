--------------------------- MODULE MCSwapStreams ----------------------------
(* SwapStreams with two requests, two GPU and two CPU blocks. *)
EXTENDS SwapStreams
=============================================================================
