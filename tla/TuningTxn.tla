----------------------------- MODULE TuningTxn -----------------------------
(***************************************************************************)
(* What 3과제/terraform/README.md and optimize.ps1 promise of a tuning run: *)
(* a configuration is tried on the live cluster and then either becomes    *)
(* the accepted one or gives way to exactly the one accepted before.       *)
(***************************************************************************)
CONSTANT Configs

VARIABLES live, best, phase

vars == <<live, best, phase>>

Init ==
    /\ live \in Configs
    /\ best = live
    /\ phase = "settled"

\* The cluster moves, in one step or in several.
Try ==
    /\ live' \in Configs
    /\ phase' = "trial"
    /\ UNCHANGED best

Accept ==
    /\ phase = "trial"
    /\ best' = live
    /\ phase' = "settled"
    /\ UNCHANGED live

RollBack ==
    /\ phase = "trial"
    /\ live' = best
    /\ phase' = "settled"
    /\ UNCHANGED best

Next == Try \/ Accept \/ RollBack

Spec == Init /\ [][Next]_vars

\* Outside a trial the cluster runs the accepted configuration.
SettledOnBest == phase = "settled" => live = best

=============================================================================
