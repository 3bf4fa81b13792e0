---------------------------- MODULE OptimizeRun ----------------------------
(***************************************************************************)
(* One run of 3과제/tuning/optimize.ps1: measure a baseline, size requests  *)
(* once, try one candidate that may touch several applications, adopt it   *)
(* or roll it back, and on an exception or Ctrl+C roll back in `finally`.  *)
(* Every change goes to the tuning file first and then, by a terraform     *)
(* apply, to the cluster.  The clock is the business of RunBudget: here    *)
(* Test-TimeFor may answer either way.                                     *)
(***************************************************************************)
EXTENDS TuningStore

CONSTANTS
    InitFiles,     \* tuning files that a run may find
    InitClusters,  \* live settings that a run may find
    Knobs,         \* settings that the planner may propose
    Scores,        \* results of score.py
    AvailFloor, PerfFloor,
    AllowRequestChange,  \* the switch of the same name
    NoApp          \* $null

VARIABLES
    pc,            \* the statement that runs next
    file,          \* tuning.auto.tfvars.json
    live,          \* Deployments and HPAs of the cluster
    bestKnobs,     \* $bestKnobs
    bestScore,     \* $bestScore
    step,          \* $first.presize, then $knobSet
    pending,       \* $pending
    outcome,       \* how the script ended
    aux_best,      \* the cluster when the candidate last accepted was measured
    aux_trial,     \* a trial was written, and neither accepted nor put back
    aux_trusted    \* no drift at the start, complete entries, first read ok

world == <<file, live>>
accepted == <<bestKnobs, bestScore, aux_best>>
trial == <<step, pending, aux_trial>>
vars == <<pc, world, accepted, trial, outcome, aux_trusted>>

Score == [total : Nat, avail : Nat, perf : Nat, cost : BOOLEAN]

\* score.py printed nothing: a $null that compares like zero.
NoScore == [total |-> 0, avail |-> 0, perf |-> 0, cost |-> FALSE]

\* What optimize.py prints for an application that kubectl did not return.
UnreadKnob == [f \in Fields |-> 0]

ASSUME InitAssumption == InitFiles \subseteq File /\ InitClusters \subseteq Cluster
ASSUME KnobsAssumption ==
    Knobs \subseteq {k \in Settings : k["request"] >= 1 /\ HpaAccepted(k)}
ASSUME ScoresAssumption == Scores \subseteq Score /\ NoScore \in Scores
ASSUME FloorsAssumption == AvailFloor \in Nat /\ PerfFloor \in Nat
ASSUME SwitchAssumption == AllowRequestChange \in BOOLEAN
ASSUME NoAppAssumption == NoApp \notin Apps

TryPcs == {"baseline", "presize", "presize_apply", "presize_measure", "plan",
           "cand_write", "cand_apply", "cand_measure", "adopt", "settle",
           "undo_write", "undo_apply", "report"}
WritePcs == {"presize", "cand_write", "undo_write", "finally_write"}
Pcs == TryPcs \cup {"finally", "finally_write", "finally_apply", "done"}

Outcomes == {"running", "normal", "interrupted", "rollback_failed", "killed"}

KnobSets == [Apps -> Knobs \cup {NoEntry}]

Touched == Listed(step)

----------------------------------------------------------------------------

\* terraform plan would be empty.
InSync == file.whole /\ live = Effective(file.map)

AllComplete == \A a \in Listed(file.map) : Complete(file.map[a])

Serving == \A a \in Apps : live[a]["request"] >= 1 /\ HpaAccepted(live[a])

Init ==
    /\ pc = "baseline"
    /\ file \in InitFiles
    /\ live \in InitClusters
    /\ bestKnobs = NoTuning
    /\ bestScore = NoScore
    /\ step = NoTuning
    /\ pending = NoApp
    /\ outcome = "running"
    /\ aux_best = live
    /\ aux_trial = FALSE
    /\ aux_trusted = (InSync /\ AllComplete /\ Serving)

\* Get-Score and Get-NextStep on the baseline.  The planner reads the cluster
\* with kubectl; when that fails its rows hold $null and it proposes nothing.
\* Without -Apply, or without -RunTerraform, the run only reports.
Baseline ==
    /\ pc = "baseline"
    /\ bestScore' \in Scores
    /\ aux_best' = live
    /\ \/ /\ bestKnobs' = live
          /\ step' \in {m \in KnobSets :
                          \A a \in Listed(m) :
                              m[a]["min"] = live[a]["min"] /\ m[a]["max"] = live[a]["max"]}
          /\ UNCHANGED aux_trusted
       \/ /\ bestKnobs' = [a \in Apps |-> UnreadKnob]
          /\ step' = NoTuning
          /\ aux_trusted' = FALSE
    /\ pc' \in {"presize", "report"}
    /\ UNCHANGED <<world, pending, aux_trial, outcome>>

\* Write-Tuning: the whole map, merged from what Read-Tuning returned.
Record(knobs) == file' = Written(SetEntries(ReadTuning(file), knobs))

PresizeSkip ==
    /\ pc = "presize"
    /\ pc' = "plan"
    /\ UNCHANGED <<world, accepted, trial, outcome, aux_trusted>>

PresizeWrite ==
    /\ pc = "presize"
    /\ Touched # {}
    /\ Record(step)
    /\ aux_trial' = TRUE
    /\ pc' = "presize_apply"
    /\ UNCHANGED <<live, accepted, step, pending, outcome, aux_trusted>>

\* A defect to tell apart: the target that moved with the request is forgotten.
SizedKnobs_RequestOnly ==
    [a \in Apps |->
        IF a \in Touched
        THEN [bestKnobs[a] EXCEPT !["request"] = step[a]["request"]]
        ELSE bestKnobs[a]]

\* Line 270: request and target of the sized applications, min and max stay.
SizedKnobs ==
    [a \in Apps |->
        IF a \in Touched
        THEN [bestKnobs[a] EXCEPT !["request"] = step[a]["request"],
                                  !["target"] = step[a]["target"]]
        ELSE bestKnobs[a]]

PresizeApply ==
    /\ pc = "presize_apply"
    /\ ApplySucceeds(live, file.map, live')
    /\ bestKnobs' = SizedKnobs
    /\ pc' = "presize_measure"
    /\ UNCHANGED <<file, bestScore, aux_best, trial, outcome, aux_trusted>>

\* Line 273: the new score replaces the old one, whatever it is.
PresizeMeasure ==
    /\ pc = "presize_measure"
    /\ bestScore' \in Scores
    /\ aux_best' = live
    /\ aux_trial' = FALSE
    /\ pc' = "plan"
    /\ UNCHANGED <<world, bestKnobs, step, pending, outcome, aux_trusted>>

\* No time left, nothing to improve, or a cluster that could not be read.
PlanNothing ==
    /\ pc = "plan"
    /\ step' = NoTuning
    /\ pc' = "report"
    /\ UNCHANGED <<world, accepted, pending, aux_trial, outcome, aux_trusted>>

\* --hpa-only: a knob carries the request read from the cluster.  A 0m there
\* is falsy in _current_dict, which puts its smallest request instead.
KeepsRequest(knob, now) == now["request"] > 0 => knob["request"] = now["request"]

PlanCandidate ==
    /\ pc = "plan"
    /\ step' \in {m \in KnobSets :
                    \A a \in Listed(m) : AllowRequestChange \/ KeepsRequest(m[a], live[a])}
    /\ pending' \in Listed(step')
    /\ pc' = "cand_write"
    /\ UNCHANGED <<world, accepted, aux_trial, outcome, aux_trusted>>

CandidateWrite ==
    /\ pc = "cand_write"
    /\ Record(step)
    /\ aux_trial' = TRUE
    /\ pc' = "cand_apply"
    /\ UNCHANGED <<live, accepted, step, pending, outcome, aux_trusted>>

CandidateApply ==
    /\ pc = "cand_apply"
    /\ ApplySucceeds(live, file.map, live')
    /\ pc' = "cand_measure"
    /\ UNCHANGED <<file, accepted, trial, outcome, aux_trusted>>

Gate(s) == s.avail >= AvailFloor /\ s.perf >= PerfFloor /\ s.cost

Safety(s, best) == s.perf > best.perf \/ s.avail > best.avail

Better(s, best) == Safety(s, best) \/ (Gate(s) /\ s.total >= best.total)

\* Lines 302-304 are statements of their own: $bestScore, $bestKnobs, $pending.
AdoptScore ==
    /\ pc = "cand_measure"
    /\ \E s \in Scores : Better(s, bestScore) /\ bestScore' = s
    /\ pc' = "adopt"
    /\ UNCHANGED <<world, bestKnobs, aux_best, trial, outcome, aux_trusted>>

AdoptKnobs ==
    /\ pc = "adopt"
    /\ bestKnobs' = [a \in Apps |-> IF a \in Touched THEN step[a] ELSE bestKnobs[a]]
    /\ aux_best' = live
    /\ aux_trial' = FALSE
    /\ pc' = "settle"
    /\ UNCHANGED <<world, bestScore, step, pending, outcome, aux_trusted>>

\* $pending = $null, after either verdict.
Settle ==
    /\ pc = "settle"
    /\ pending' = NoApp
    /\ pc' = "report"
    /\ UNCHANGED <<world, accepted, step, aux_trial, outcome, aux_trusted>>

Reject ==
    /\ pc = "cand_measure"
    /\ \E s \in Scores : ~Better(s, bestScore)
    /\ pc' = "undo_write"
    /\ UNCHANGED <<world, accepted, trial, outcome, aux_trusted>>

\* A defect to tell apart: a bundle is put back through its first application.
UndoWrite_LeadOnly ==
    /\ pc = "undo_write"
    /\ Record(Only({pending}, bestKnobs))
    /\ pc' = "undo_apply"
    /\ UNCHANGED <<live, accepted, trial, outcome, aux_trusted>>

\* Set-TuningMany $touched $bestKnobs
UndoWrite ==
    /\ pc = "undo_write"
    /\ Record(Only(Touched, bestKnobs))
    /\ pc' = "undo_apply"
    /\ UNCHANGED <<live, accepted, trial, outcome, aux_trusted>>

UndoApply ==
    /\ pc = "undo_apply"
    /\ ApplySucceeds(live, file.map, live')
    /\ aux_trial' = FALSE
    /\ pc' = "settle"
    /\ UNCHANGED <<file, accepted, step, pending, outcome, aux_trusted>>

\* Lines 311-316, and the early return of line 261.
Report ==
    /\ pc = "report"
    /\ outcome' = "normal"
    /\ pc' = "done"
    /\ UNCHANGED <<world, accepted, trial, aux_trusted>>

\* Line 122: a failed apply throws, and leaves the cluster anywhere between.
ApplyThrows ==
    /\ pc \in {"presize_apply", "cand_apply", "undo_apply"}
    /\ ApplyFails(live, file.map, live')
    /\ outcome' = "interrupted"
    /\ pc' = "finally"
    /\ UNCHANGED <<file, accepted, trial, aux_trusted>>

\* Ctrl+C, or an exception of any statement of the try block.
Interrupt ==
    /\ pc \in TryPcs
    /\ outcome' = "interrupted"
    /\ pc' = "finally"
    /\ UNCHANGED <<world, accepted, trial, aux_trusted>>

\* Lines 319-321: only $pending is put back.
FinallyIdle ==
    /\ pc = "finally"
    /\ pending = NoApp
    /\ pc' = "done"
    /\ UNCHANGED <<world, accepted, trial, outcome, aux_trusted>>

FinallyStart ==
    /\ pc = "finally"
    /\ pending # NoApp
    /\ pc' = "finally_write"
    /\ UNCHANGED <<world, accepted, trial, outcome, aux_trusted>>

\* A defect to tell apart: the knobs of the trial are written once more.
FinallyWrite_Trial ==
    /\ pc = "finally_write"
    /\ Record(Only({pending}, step))
    /\ pc' = "finally_apply"
    /\ UNCHANGED <<live, accepted, trial, outcome, aux_trusted>>

FinallyWrite ==
    /\ pc = "finally_write"
    /\ Record(Only({pending}, bestKnobs))
    /\ pc' = "finally_apply"
    /\ UNCHANGED <<live, accepted, trial, outcome, aux_trusted>>

\* A defect to tell apart: a failed rollback is tried again, without a limit.
FinallyApply_Retries ==
    /\ pc = "finally_apply"
    /\ \/ /\ ApplySucceeds(live, file.map, live')
          /\ aux_trial' = (aux_trial /\ Touched # {pending})
          /\ pc' = "done"
       \/ /\ ApplyFails(live, file.map, live')
          /\ UNCHANGED aux_trial
          /\ pc' = "finally"
    /\ UNCHANGED <<file, accepted, step, pending, outcome, aux_trusted>>

\* The catch of line 320 only reports, and nothing is tried again.
FinallyApply ==
    /\ pc = "finally_apply"
    /\ \/ /\ ApplySucceeds(live, file.map, live')
          /\ aux_trial' = (aux_trial /\ Touched # {pending})
          /\ UNCHANGED outcome
       \/ /\ ApplyFails(live, file.map, live')
          /\ outcome' = "rollback_failed"
          /\ UNCHANGED aux_trial
    /\ pc' = "done"
    /\ UNCHANGED <<file, accepted, step, pending, aux_trusted>>

\* The process dies: no finally, and a write may be cut short.
Kill ==
    /\ pc # "done"
    /\ \/ UNCHANGED file
       \/ /\ pc \in WritePcs /\ Touched # {}
          /\ file' = Torn
    /\ outcome' = "killed"
    /\ pc' = "done"
    /\ UNCHANGED <<live, accepted, trial, aux_trusted>>

Terminated == pc = "done" /\ UNCHANGED vars

Runner ==
    \/ Baseline
    \/ PresizeSkip \/ PresizeWrite \/ PresizeApply \/ PresizeMeasure
    \/ PlanNothing \/ PlanCandidate
    \/ CandidateWrite \/ CandidateApply
    \/ AdoptScore \/ AdoptKnobs \/ Reject \/ UndoWrite \/ UndoApply \/ Settle \/ Report
    \/ FinallyIdle \/ FinallyStart \/ FinallyWrite \/ FinallyApply

Next == Runner \/ ApplyThrows \/ Interrupt \/ Kill \/ Terminated

Spec == Init /\ [][Next]_vars

\* The same run under the conditions it assumes of its surroundings: file and
\* cluster agree when it starts, and its first kubectl reads succeed.
TrustedInit == Init /\ aux_trusted
TrustedNext == Next /\ aux_trusted'

\* Every statement of the script returns: terraform, kubectl and hey all end.
TrustedSpec ==
    TrustedInit /\ [][TrustedNext]_vars /\ WF_vars((Runner \/ ApplyThrows) /\ aux_trusted')

=============================================================================
