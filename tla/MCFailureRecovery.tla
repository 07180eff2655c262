------------------------- MODULE MCFailureRecovery -------------------------
(***************************************************************************)
(* FailureRecovery with requests of 1 and 4 tokens: at the configured      *)
(* bandwidth both migrate, at the measured one the second is recomputed.   *)
(***************************************************************************)
EXTENDS FailureRecovery, TLC

TwoRequests == 1 .. 2
TwoPrompts  == <<1, 4>>
OneRequest  == {1}
OnePrompt   == <<1>>
Config      == [policy |-> "rom", perToken |-> 2, table |-> 1 :> 1 @@ 4 :> 2]
OneMeasurement == {1}
=============================================================================
