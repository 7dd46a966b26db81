------------------------------- MODULE MCSteps -------------------------------
(* Two registered steps and a sleep in a row, beside a registered step that *)
(* another flow calls from a timer.                                        *)
EXTENDS Steps, TLC

MCProgram == ("main" :> <<"a", "nap">>) @@ ("side" :> <<"c">>)
MCCatches == [s \in Calls |-> IF s = "a" THEN {"user", "signal"} ELSE {}]
=============================================================================
