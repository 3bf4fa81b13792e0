---------------------------- MODULE MCLoadEngine ----------------------------
(***************************************************************************)
(* Two HTTP threads and two runs: enough for a start or a stop between the *)
(* statements of another start, and for the timer of the first run among   *)
(* the statements of the second.                                           *)
(***************************************************************************)
EXTENDS LoadEngine

CONSTANTS h1, h2, r1, r2

MCHandlers == {h1, h2}
MCRuns == {r1, r2}

=============================================================================
