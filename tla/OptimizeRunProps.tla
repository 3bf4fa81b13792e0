-------------------------- MODULE OptimizeRunProps --------------------------
(***************************************************************************)
(* What a run of optimize.ps1 must and must not do.                        *)
(***************************************************************************)
EXTENDS OptimizeRun, FiniteSets

\* Types of the script's variables, of the file and of the cluster.
TypeOK ==
    /\ pc \in Pcs
    /\ file \in File
    /\ live \in Cluster
    /\ bestKnobs \in Tuning
    /\ bestScore \in Score
    /\ step \in KnobSets
    /\ pending \in Apps \cup {NoApp}
    /\ outcome \in Outcomes
    /\ aux_best \in Cluster
    /\ aux_trial \in BOOLEAN
    /\ aux_trusted \in BOOLEAN

\* A run that ends normally leaves the cluster exactly as it was when the best
\* score was measured: an adopted candidate stays whole, a rejected one leaves
\* nothing behind, in the applications it touched and in the others.
EndsOnBest == aux_trusted /\ outcome = "normal" => live = aux_best

\* The knobs printed at the end (line 315) are those of the cluster, and the
\* file says the same, so that a later apply changes nothing (line 316).
ReportIsTrue ==
    aux_trusted /\ outcome = "normal" => InSync /\ bestKnobs = live

\* A candidate of one application that is interrupted at any point, its apply
\* half done included, is gone once the rollback of `finally` has succeeded.
LoneTrialUndone ==
    aux_trusted /\ pc = "done" /\ outcome = "interrupted" /\ Touched = {pending}
        => live = aux_best /\ InSync

\* No application is ever left with a zero request or with an HPA that the API
\* rejects, in the cluster or in the file, crashes included.
AlwaysServing == aux_trusted => Serving /\ AllComplete

\* An apply moves the applications of the current knob set only, although it
\* always covers all of them.
OnlyTouchedMove ==
    [][aux_trusted' => \A a \in Apps \ Touched : live'[a] = live[a]]_vars

\* Every run ends, whatever fails in it.
EventuallyDone == <>(pc = "done")

\* The run implements the promised transaction.
Txn == INSTANCE TuningTxn WITH
    Configs <- Cluster,
    best <- aux_best,
    phase <- IF aux_trial THEN "trial" ELSE "settled"

ImplementsTxn == Txn!Spec

----------------------------------------------------------------------------
\* The inductive strengthening of the above, statement by statement.

Serves(settings) == settings["request"] >= 1 /\ HpaAccepted(settings)

\* What runs, what the next apply would bring and what a rollback goes back to.
Healthy ==
    /\ AllComplete
    /\ \A a \in Apps : Serves(live[a]) /\ Serves(aux_best[a])
    /\ file.whole => \A a \in Apps : Serves(Effective(file.map)[a])

\* What the cluster becomes when the knob set is applied.
OnTrial(config) ==
    \A a \in Apps : config[a] = IF a \in Touched THEN step[a] ELSE bestKnobs[a]

\* The applications that a trial did not name.
OthersOnBest ==
    \A a \in Apps \ Touched :
        live[a] = aux_best[a] /\ Effective(file.map)[a] = aux_best[a]

AtRest == InSync /\ live = aux_best /\ ~aux_trial

InBaseline == pc = "baseline" => AtRest /\ pending = NoApp

InSettled ==
    pc \in {"presize", "plan", "report"}
        => AtRest /\ pending = NoApp /\ bestKnobs = aux_best

InPresize ==
    /\ pc \in {"presize", "presize_apply"} =>
         \A a \in Touched : step[a]["min"] = bestKnobs[a]["min"]
                           /\ step[a]["max"] = bestKnobs[a]["max"]
    /\ pc = "presize_apply" =>
         /\ file.whole /\ OnTrial(Effective(file.map))
         /\ live = aux_best /\ bestKnobs = aux_best
         /\ pending = NoApp /\ aux_trial
    /\ pc = "presize_measure" =>
         InSync /\ bestKnobs = live /\ pending = NoApp /\ aux_trial

InTrial ==
    /\ pc \in {"cand_write", "cand_apply", "cand_measure", "adopt", "settle",
                "undo_write", "undo_apply"}
         => pending \in Touched /\ bestKnobs = aux_best /\ OthersOnBest
    /\ pc = "cand_write" => AtRest
    /\ pc = "cand_apply" =>
         file.whole /\ aux_trial /\ live = aux_best /\ OnTrial(Effective(file.map))
    /\ pc \in {"cand_measure", "adopt", "undo_write"} =>
         InSync /\ aux_trial /\ OnTrial(live)
    /\ pc = "settle" => AtRest
    /\ pc = "undo_apply" =>
         file.whole /\ aux_trial /\ Effective(file.map) = aux_best

InFinally ==
    /\ pc \in {"finally", "finally_write", "finally_apply"} =>
         /\ file.whole
         /\ pending # NoApp => pending \in Touched /\ bestKnobs = aux_best /\ OthersOnBest
         /\ pending # NoApp /\ ~aux_trial => live = aux_best /\ Effective(file.map) = aux_best
         /\ outcome = "interrupted"
    /\ pc \in {"finally_write", "finally_apply"} => pending # NoApp
    /\ pc = "finally_apply" => Effective(file.map)[pending] = aux_best[pending]

InDone ==
    /\ pc \in TryPcs => outcome = "running"
    /\ pc = "done" /\ outcome = "normal" => AtRest /\ bestKnobs = aux_best
    /\ pc = "done" /\ outcome = "interrupted" /\ Touched = {pending}
         => InSync /\ live = aux_best

\* Where file, cluster, $bestKnobs and the measured configuration must agree,
\* at each statement of a trusted run; the other invariants follow from it.
Consistent ==
    aux_trusted =>
        /\ Healthy
        /\ InBaseline /\ InSettled /\ InPresize /\ InTrial /\ InFinally /\ InDone

----------------------------------------------------------------------------
\* What the documents say and the code does not do.

\* optimize.ps1:140-141: a 0m is never recorded, an existing value is kept.
ZeroNeverRecorded ==
    [][\A a \in Apps : file'.map[a]["request"] = 0 => file.map[a]["request"] = 0]_vars

\* terraform/README.md:381-383: a candidate that fails or is interrupted gives
\* way to exactly the snapshot before it, of however many applications it is.
InterruptRestores ==
    aux_trusted /\ pc = "done" /\ outcome = "interrupted" /\ pending # NoApp
        => live = aux_best

=============================================================================
