----------------------------- MODULE MCServing ------------------------------
(***************************************************************************)
(* Serving with two requests behind the API server and a third that it     *)
(* refuses, and with two calls of OfflineLLM.generate.                     *)
(***************************************************************************)
EXTENDS Serving, TLC

CONSTANTS r1, r2, r3

ThreeRequests == {r1, r2, r3}
TwoRequests   == {r1, r2}
LongPrompts   == r1 :> 2 @@ r2 :> 3 @@ r3 :> 2
Prompts       == [r \in TwoRequests |-> LongPrompts[r]]

WithStop(maxTokens) ==
  [BenchmarkParams(maxTokens, 1, FALSE) EXCEPT !.stop = TRUE, !.ignoreEos = FALSE]

(* The first token would be one too many for a maximum of 0. *)
ServerSampling  == r1 :> [WithStop(3) EXCEPT !.temperature = 0] @@ r2 :> WithStop(2)
                   @@ r3 :> BenchmarkParams(0, 1, FALSE)
OfflineSampling == [r \in TwoRequests |-> ServerSampling[r]]

ThirdOne      == {r3}
SecondOne     == {r2}
OneCall       == <<ThreeRequests>>
TwoCalls      == <<{r1}, {r2}>>
=============================================================================
