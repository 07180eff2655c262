--------------------------- MODULE MCDecodingStage ---------------------------
(* DecodingStage on small instances. *)
EXTENDS DecodingStage

(* Four requests of one or two blocks that would grow to eleven blocks in  *)
(* all, of the six there are: batches lose one or several requests at a    *)
(* time, and a swap-out may find too few of the two CPU blocks.            *)
FourRequests == 1 .. 4
FourPrompts  == <<1, 2, 2, 2>>
FourMaxima   == <<4, 4, 4, 4>>

(* A request that outgrows its blocks while another waits. *)
TwoRequests == 1 .. 2
TwoPrompts  == <<3, 3>>
TwoMaxima   == <<4, 2>>
=============================================================================
