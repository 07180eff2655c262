--------------------------- MODULE MCContextStage ---------------------------
(***************************************************************************)
(* ContextStage on a small instance: four requests of 2, 1, 2 and 1 blocks *)
(* on a pipeline of two batches with four blocks.                          *)
(***************************************************************************)
EXTENDS ContextStage

FourRequests == 1 .. 4
FourPrompts  == <<3, 1, 4, 2>>
=============================================================================
