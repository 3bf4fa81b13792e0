-------------------------- MODULE MCSensorPipeline --------------------------
(***************************************************************************)
(* Two records: an alert before a normal record whose failure repeats the  *)
(* batch, two alerts that share a batch of the producer or follow each     *)
(* other, and an alert before a malformed record.  The delivery timeout    *)
(* and the function's timeout are both 120 s: two ticks.                   *)
(***************************************************************************)
EXTENDS SensorPipeline

CONSTANTS b1, b2

MCBatch == {b1, b2}
MCRecord == 1..2
MCInputs == {<<"alert", "normal">>, <<"alert", "alert">>, <<"alert", "bad">>}

=============================================================================
