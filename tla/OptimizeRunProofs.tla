------------------------- MODULE OptimizeRunProofs -------------------------
(***************************************************************************)
(* Proofs about a run of optimize.ps1, for any applications, defaults,     *)
(* scores, floors, initial files and initial clusters.                     *)
(***************************************************************************)
EXTENDS OptimizeRunProps, TuningStoreLemmas

\* The planner proposes settings that the cluster accepts.
LEMMA KnobSetsType ==
    ASSUME NEW m \in KnobSets
    PROVE  /\ m \in Tuning
           /\ KnobSet(m)
           /\ \A a \in Listed(m) : m[a] \in Knobs /\ m[a] \in Settings /\ Serves(m[a])
  <1>1. ASSUME NEW a \in Apps
        PROVE  /\ m[a] \in Entry
               /\ m[a] = NoEntry \/ (m[a] \in Settings /\ m[a]["request"] > 0)
               /\ Recorded(m[a]) => m[a] \in Knobs /\ m[a] \in Settings /\ Serves(m[a])
    <2>1. CASE m[a] = NoEntry
      BY <2>1, NoEntryIsEntry
    <2>2. CASE m[a] \in Knobs
      <3>1. m[a] \in Settings /\ Serves(m[a])
        BY <2>2, KnobsAssumption DEF Serves
      <3>2. m[a]["request"] > 0
        BY <3>1 DEF Serves, Settings, Fields
      <3> QED
        BY <2>2, <3>1, <3>2, SettingsRecorded
    <2> QED
      BY <2>1, <2>2 DEF KnobSets
  <1> QED
    BY <1>1 DEF KnobSets, Tuning, KnobSet, Listed

\* Write-Tuning leaves a file that can be read again.
LEMMA WrittenType ==
    ASSUME NEW map \in Tuning
    PROVE  Written(map) \in File
  BY FileTypes

\* So does any read, merge and write, of whatever knobs.
LEMMA RecordType ==
    ASSUME file \in File, NEW knobs \in Tuning, Record(knobs)
    PROVE  file' \in File
  BY ReadTuningType, SetEntriesType, WrittenType DEF Record

\* An apply leaves a setting for every application, whatever its exit code.
LEMMA ApplyType ==
    ASSUME file \in File, live \in Cluster,
           ApplySucceeds(live, file.map, live') \/ ApplyFails(live, file.map, live')
    PROVE  live' \in Cluster
  <1>1. file.map \in Tuning
    BY DEF File
  <1> QED
    BY <1>1, EffectiveType, ApplySucceedsExact, ApplyFailsBetween

\* Every variable keeps its type in every run, a first read of the cluster
\* that failed, drift at the start and a crash in a write included.
THEOREM TypeCorrect == Spec => []TypeOK
<1>1. Init => TypeOK
  <2> SUFFICES ASSUME Init PROVE TypeOK
    OBVIOUS
  <2>1. NoTuning \in Tuning /\ NoTuning \in KnobSets
    BY NoEntryIsEntry DEF NoTuning, Tuning, KnobSets
  <2> QED
    BY <2>1, InitAssumption, ScoresAssumption
       DEF Init, TypeOK, Pcs, TryPcs, Outcomes
<1>2. TypeOK /\ [Next]_vars => TypeOK'
  <2> SUFFICES ASSUME TypeOK, [Next]_vars PROVE TypeOK'
    OBVIOUS
  <2> USE DEF TypeOK
  <2>1. CASE Baseline
    <3>1. bestKnobs' \in Tuning
      BY <2>1, ClusterIsTuning DEF Baseline, UnreadKnob, Tuning, Entry
    <3>2. step' \in KnobSets
      BY <2>1, NoEntryIsEntry DEF Baseline, KnobSets, NoTuning
    <3> QED
      BY <2>1, <3>1, <3>2, ScoresAssumption DEF Baseline, world, Pcs, TryPcs
  <2>2. CASE PresizeSkip
    BY <2>2 DEF PresizeSkip, world, accepted, trial, Pcs, TryPcs
  <2>3. CASE PresizeWrite
    <3>1. file' \in File
      BY <2>3, KnobSetsType, RecordType DEF PresizeWrite
    <3> QED
      BY <2>3, <3>1 DEF PresizeWrite, accepted, Pcs, TryPcs
  <2>4. CASE PresizeApply
    <3>1. live' \in Cluster
      BY <2>4, ApplyType DEF PresizeApply
    <3>2. SizedKnobs \in Tuning
      <4>1. \A a \in Touched : step[a] \in Settings
        BY KnobSetsType DEF Touched
      <4>2. ASSUME NEW a \in Touched
            PROVE  [bestKnobs[a] EXCEPT !["request"] = step[a]["request"],
                                        !["target"] = step[a]["target"]] \in Entry
        BY <4>1 DEF Touched, Listed, Tuning, Entry, Settings, Fields
      <4> QED
        BY <4>2 DEF SizedKnobs, Tuning
    <3> QED
      BY <2>4, <3>1, <3>2 DEF PresizeApply, trial, Pcs, TryPcs
  <2>5. CASE PresizeMeasure
    BY <2>5, ScoresAssumption DEF PresizeMeasure, world, Pcs, TryPcs
  <2>6. CASE PlanNothing
    BY <2>6, NoEntryIsEntry DEF PlanNothing, world, accepted, Pcs, TryPcs, NoTuning, KnobSets
  <2>7. CASE PlanCandidate
    BY <2>7 DEF PlanCandidate, world, accepted, Pcs, TryPcs, Listed
  <2>8. CASE CandidateWrite
    <3>1. file' \in File
      BY <2>8, KnobSetsType, RecordType DEF CandidateWrite
    <3> QED
      BY <2>8, <3>1 DEF CandidateWrite, accepted, Pcs, TryPcs
  <2>9. CASE CandidateApply
    BY <2>9, ApplyType DEF CandidateApply, accepted, trial, Pcs, TryPcs
  <2>10. CASE AdoptKnobs
    <3>1. bestKnobs' \in Tuning
      BY <2>10, KnobSetsType DEF AdoptKnobs, Tuning
    <3> QED
      BY <2>10, <3>1 DEF AdoptKnobs, world, Pcs, TryPcs
  <2>23. CASE AdoptScore
    BY <2>23, ScoresAssumption DEF AdoptScore, world, trial, Pcs, TryPcs
  <2>24. CASE Settle
    BY <2>24 DEF Settle, world, accepted, Pcs, TryPcs
  <2>11. CASE Reject
    BY <2>11 DEF Reject, world, accepted, trial, Pcs, TryPcs
  <2>12. CASE UndoWrite
    <3>1. file' \in File
      BY <2>12, OnlyType, RecordType DEF UndoWrite
    <3> QED
      BY <2>12, <3>1 DEF UndoWrite, accepted, trial, Pcs, TryPcs
  <2>13. CASE UndoApply
    BY <2>13, ApplyType DEF UndoApply, accepted, Pcs, TryPcs
  <2>14. CASE Report
    BY <2>14 DEF Report, world, accepted, trial, Pcs, Outcomes
  <2>15. CASE FinallyIdle
    BY <2>15 DEF FinallyIdle, world, accepted, trial, Pcs
  <2>16. CASE FinallyStart
    BY <2>16 DEF FinallyStart, world, accepted, trial, Pcs
  <2>17. CASE FinallyWrite
    <3>1. file' \in File
      BY <2>17, OnlyType, RecordType DEF FinallyWrite
    <3> QED
      BY <2>17, <3>1 DEF FinallyWrite, accepted, trial, Pcs
  <2>18. CASE FinallyApply
    BY <2>18, ApplyType DEF FinallyApply, accepted, Pcs, Outcomes
  <2>19. CASE ApplyThrows
    BY <2>19, ApplyType DEF ApplyThrows, accepted, trial, Pcs, Outcomes
  <2>20. CASE Interrupt
    BY <2>20 DEF Interrupt, world, accepted, trial, Pcs, Outcomes
  <2>21. CASE Kill
    <3>1. file' \in File
      BY <2>21, NoEntryIsEntry, FileTypes DEF Kill, NoTuning, Tuning
    <3> QED
      BY <2>21, <3>1 DEF Kill, accepted, trial, Pcs, Outcomes
  <2>22. CASE UNCHANGED vars
    BY <2>22 DEF vars, world, accepted, trial
  <2> QED
    BY <2>1, <2>2, <2>3, <2>4, <2>5, <2>6, <2>7, <2>8, <2>9, <2>10, <2>11,
       <2>12, <2>13, <2>14, <2>15, <2>16, <2>17, <2>18, <2>19, <2>20, <2>21,
       <2>22, <2>23, <2>24 DEF Next, Runner, Terminated
<1> QED
  BY <1>1, <1>2, PTL DEF Spec

----------------------------------------------------------------------------
\* The three ways in which a trusted run changes file and cluster.

\* A knob set whose knobs can serve keeps every entry complete, and Terraform
\* will give the named applications the knobs and the others what they had.
LEMMA RecordEffect ==
    ASSUME file \in File, file.whole, AllComplete,
           \A a \in Apps : Serves(Effective(file.map)[a]),
           NEW knobs \in Tuning, KnobSet(knobs),
           \A a \in Listed(knobs) : Serves(knobs[a]),
           Record(knobs)
    PROVE  /\ file'.whole
           /\ \A a \in Apps : Effective(file'.map)[a]
                = IF a \in Listed(knobs) THEN knobs[a] ELSE Effective(file.map)[a]
           /\ AllComplete'
           /\ \A a \in Apps : Serves(Effective(file'.map)[a])
  <1>1. file.map \in Tuning /\ ReadTuning(file) = file.map
    BY ReadTuningComplete DEF File, AllComplete
  <1>2. file' = Written(SetEntries(file.map, knobs))
    BY <1>1 DEF Record
  <1>3. file'.whole /\ file'.map = SetEntries(file.map, knobs)
    BY <1>2 DEF Written
  <1>4. \A a \in Apps : file'.map[a] = IF a \in Listed(knobs) THEN knobs[a] ELSE file.map[a]
    BY <1>1, <1>3, SetEntriesValue DEF Listed
  <1>5. \A a \in Apps : Effective(file'.map)[a]
              = IF a \in Listed(knobs) THEN knobs[a] ELSE Effective(file.map)[a]
    BY <1>1, <1>3, SetEntriesEffective DEF Listed
  <1>6. ASSUME NEW a \in Listed(file'.map)
        PROVE  Complete(file'.map[a])
    <2>1. CASE a \in Listed(knobs)
      <3>1. Serves(knobs[a]) /\ knobs[a] \in Settings
        BY <2>1, NoEntryIsEntry DEF KnobSet, Listed
      <3>2. Complete(knobs[a])
        BY <3>1, SettingsRecorded DEF Complete, Serves, HpaAccepted, Settings, Fields
      <3> QED
        BY <2>1, <3>2, <1>4 DEF Listed
    <2>2. CASE a \notin Listed(knobs)
      BY <2>2, <1>4 DEF Listed, AllComplete
    <2> QED
      BY <2>1, <2>2
  <1> QED
    BY <1>3, <1>5, <1>6 DEF AllComplete

\* A successful apply makes the cluster what the file says.
LEMMA SuccessEffect ==
    ASSUME file \in File, ApplySucceeds(live, file.map, live')
    PROVE  live' = Effective(file.map)
  BY ApplySucceedsExact DEF File

\* A failed one leaves every application able to serve, and those alone that
\* were not about to change.
LEMMA FailureEffect ==
    ASSUME file \in File, live \in Cluster,
           \A a \in Apps : Serves(live[a]) /\ Serves(Effective(file.map)[a]),
           ApplyFails(live, file.map, live')
    PROVE  \A a \in Apps :
             /\ Serves(live'[a])
             /\ live[a] = Effective(file.map)[a] => live'[a] = live[a]
  <1>1. file.map \in Tuning /\ Effective(file.map) \in Cluster
    BY EffectiveType DEF File
  <1>2. SUFFICES ASSUME NEW a \in Apps
                 PROVE  /\ Serves(live'[a])
                        /\ live[a] = Effective(file.map)[a] => live'[a] = live[a]
    OBVIOUS
  <1>3. /\ live' \in Cluster
        /\ live'[a]["request"] \in {live[a]["request"], Effective(file.map)[a]["request"]}
        /\ \/ \A f \in HpaFields : live'[a][f] = live[a][f]
           \/ \A f \in HpaFields : live'[a][f] = Effective(file.map)[a][f]
    BY <1>1, ApplyFailsBetween
  <1>4. Serves(live'[a])
    BY <1>3 DEF Serves, HpaAccepted, HpaFields
  <1>5. ASSUME live[a] = Effective(file.map)[a]
        PROVE  live'[a] = live[a]
    <2>1. \A f \in Fields : live'[a][f] = live[a][f]
      BY <1>3, <1>5 DEF HpaFields, Fields
    <2>2. live'[a] \in Settings /\ live[a] \in Settings
      BY <1>3 DEF Cluster
    <2> QED
      BY <2>1, <2>2 DEF Settings
  <1> QED
    BY <1>4, <1>5

----------------------------------------------------------------------------
\* The conjuncts that a step must establish for the statement it leads to.
Placed ==
    InBaseline /\ InSettled /\ InPresize /\ InTrial /\ InFinally /\ InDone

\* A run that lost its trust, by a first read that failed, never regains it.
LEMMA TrustKept ==
    ASSUME TypeOK, [Next]_vars, aux_trusted'
    PROVE  aux_trusted
  BY DEF TypeOK, Next, Runner, Baseline, PresizeSkip, PresizeWrite, PresizeApply,
         PresizeMeasure, PlanNothing, PlanCandidate, CandidateWrite,
         CandidateApply, AdoptScore, AdoptKnobs, Settle, Reject, UndoWrite, UndoApply,
         Report,
         FinallyIdle, FinallyStart, FinallyWrite, FinallyApply, ApplyThrows,
         Interrupt, Kill, Terminated, vars

\* A trusted run starts with everything in agreement.
LEMMA ConsistentInit ==
    ASSUME Init
    PROVE  Consistent
  <1> SUFFICES ASSUME aux_trusted PROVE Healthy /\ Placed
    BY DEF Consistent, Placed
  <1>1. /\ pc = "baseline" /\ pending = NoApp /\ outcome = "running"
        /\ aux_best = live /\ ~aux_trial
        /\ InSync /\ AllComplete /\ Serving
    BY DEF Init
  <1>2. Healthy
    BY <1>1 DEF Healthy, Serving, InSync, Serves
  <1>3. Placed
    BY <1>1 DEF Placed, InBaseline, AtRest, InSettled, InPresize, InTrial,
                InFinally, InDone
  <1> QED
    BY <1>2, <1>3

\* Steps that leave file and cluster alone, and measure at most.
LEMMA HealthyKept ==
    ASSUME Healthy, UNCHANGED world, aux_best' \in {aux_best, live}
    PROVE  Healthy'
  BY DEF Healthy, AllComplete, Listed, world

\* Every statement keeps a trusted run consistent.
LEMMA ConsistentStep ==
    ASSUME TypeOK, Consistent, [Next]_vars
    PROVE  Consistent'
  <1> SUFFICES ASSUME aux_trusted' PROVE Healthy' /\ Placed'
    BY DEF Consistent, Placed
  <1>1. aux_trusted
    BY TrustKept
  <1>2. Healthy /\ Placed
    BY <1>1 DEF Consistent, Placed
  <1>3. CASE Baseline
    <2>1. /\ AtRest /\ pending = NoApp /\ outcome = "running"
      BY <1>2, <1>3 DEF Placed, InBaseline, InDone, Baseline, TryPcs
    <2>2. /\ UNCHANGED <<file, live, pending, aux_trial, outcome>>
          /\ aux_best' = live /\ bestKnobs' = live
          /\ pc' \in {"presize", "report"}
          /\ \A a \in Listed(step') : step'[a]["min"] = live[a]["min"]
                                   /\ step'[a]["max"] = live[a]["max"]
      BY <1>3 DEF Baseline, world
    <2>3. Healthy'
      BY <1>2, <2>2, HealthyKept DEF world
    <2>4. Placed'
      BY <2>1, <2>2 DEF Placed, InBaseline, AtRest, InSync, InSettled, InPresize,
                        InTrial, InFinally, InDone, TryPcs, Touched
    <2> QED
      BY <2>3, <2>4
  <1>4. CASE PresizeSkip
    <2>1. Healthy'
      BY <1>2, <1>4, HealthyKept DEF PresizeSkip, world, accepted
    <2>2. Placed'
      BY <1>2, <1>4 DEF PresizeSkip, Placed, InBaseline, AtRest, InSync, InSettled, InPresize,
                   InTrial, InFinally, InDone, OnTrial, OthersOnBest, TryPcs, Touched,
                   world, accepted, trial
    <2> QED
      BY <2>1, <2>2
  <1>5. CASE PresizeMeasure
    <2>1. Healthy'
      BY <1>2, <1>5, HealthyKept DEF PresizeMeasure, world, accepted
    <2>2. Placed'
      BY <1>2, <1>5 DEF PresizeMeasure, Placed, InBaseline, AtRest, InSync, InSettled, InPresize,
                   InTrial, InFinally, InDone, OnTrial, OthersOnBest, TryPcs, Touched,
                   world, accepted, trial
    <2> QED
      BY <2>1, <2>2
  <1>6. CASE PlanNothing
    <2>1. Healthy'
      BY <1>2, <1>6, HealthyKept DEF PlanNothing, world, accepted
    <2>2. Placed'
      BY <1>2, <1>6 DEF PlanNothing, Placed, InBaseline, AtRest, InSync, InSettled, InPresize,
                   InTrial, InFinally, InDone, OnTrial, OthersOnBest, TryPcs, Touched,
                   world, accepted, trial
    <2> QED
      BY <2>1, <2>2
  <1>7. CASE PlanCandidate
    <2>1. Healthy'
      BY <1>2, <1>7, HealthyKept DEF PlanCandidate, world, accepted
    <2>2. Placed'
      BY <1>2, <1>7 DEF PlanCandidate, Placed, InBaseline, AtRest, InSync, InSettled, InPresize,
                   InTrial, InFinally, InDone, OnTrial, OthersOnBest, TryPcs, Touched,
                   world, accepted, trial
    <2> QED
      BY <2>1, <2>2
  <1>8. CASE AdoptKnobs
    <2>1. Healthy'
      BY <1>2, <1>8, HealthyKept DEF AdoptKnobs, world
    <2>2. bestKnobs' = live
      <3>1. OnTrial(live)
        BY <1>2, <1>8 DEF AdoptKnobs, Placed, InTrial
      <3> QED
        BY <1>8, <3>1 DEF AdoptKnobs, OnTrial, TypeOK, Cluster
    <2>3. Placed'
      BY <1>2, <1>8, <2>2
         DEF AdoptKnobs, Placed, InBaseline, AtRest, InSync, InSettled, InPresize, InTrial,
             InFinally, InDone, OthersOnBest, TryPcs, Touched, world
    <2> QED
      BY <2>1, <2>3
  <1>25. CASE AdoptScore
    <2>1. Healthy'
      BY <1>2, <1>25, HealthyKept DEF AdoptScore, world
    <2>2. UNCHANGED <<world, bestKnobs, aux_best, trial, outcome>>
          /\ pc = "cand_measure" /\ pc' = "adopt"
      BY <1>25 DEF AdoptScore
    <2>3. Placed'
      BY <1>2, <2>2
         DEF Placed, InBaseline, InSync, InSettled, InPresize, InTrial, InFinally, InDone,
             OnTrial, OthersOnBest, TryPcs, Touched, world, trial
    <2> QED
      BY <2>1, <2>3
  <1>27. CASE Settle
    <2>1. Healthy'
      BY <1>2, <1>27, HealthyKept DEF Settle, world, accepted
    <2>2. UNCHANGED <<world, accepted, step, aux_trial, outcome>> /\ pending' = NoApp
          /\ pc = "settle" /\ pc' = "report"
      BY <1>27 DEF Settle
    <2>3. Placed'
      BY <1>2, <2>2
         DEF Placed, InBaseline, AtRest, InSync, InSettled, InPresize, InTrial, InFinally,
             InDone, TryPcs, world, accepted
    <2> QED
      BY <2>1, <2>3
  <1>9. CASE Reject
    <2>1. Healthy'
      BY <1>2, <1>9, HealthyKept DEF Reject, world, accepted
    <2>2. Placed'
      BY <1>2, <1>9 DEF Reject, Placed, InBaseline, AtRest, InSync, InSettled, InPresize,
                   InTrial, InFinally, InDone, OnTrial, OthersOnBest, TryPcs, Touched,
                   world, accepted, trial
    <2> QED
      BY <2>1, <2>2
  <1>10. CASE Report
    <2>1. Healthy'
      BY <1>2, <1>10, HealthyKept DEF Report, world, accepted
    <2>2. Placed'
      BY <1>2, <1>10 DEF Report, Placed, InBaseline, AtRest, InSync, InSettled, InPresize,
                   InTrial, InFinally, InDone, OnTrial, OthersOnBest, TryPcs, Touched,
                   world, accepted, trial
    <2> QED
      BY <2>1, <2>2
  <1>11. CASE FinallyIdle
    <2>1. Healthy'
      BY <1>2, <1>11, HealthyKept DEF FinallyIdle, world, accepted
    <2>2. pending \notin Touched
      BY <1>11, NoAppAssumption DEF FinallyIdle, Touched, Listed
    <2>3. Placed'
      BY <1>2, <1>11, <2>2
         DEF FinallyIdle, Placed, InBaseline, InSettled, InPresize, InTrial, InFinally,
             InDone, TryPcs, Touched, world, accepted, trial
    <2> QED
      BY <2>1, <2>3
  <1>12. CASE FinallyStart
    <2>1. Healthy'
      BY <1>2, <1>12, HealthyKept DEF FinallyStart, world, accepted
    <2>2. Placed'
      BY <1>2, <1>12 DEF FinallyStart, Placed, InBaseline, AtRest, InSync, InSettled, InPresize,
                   InTrial, InFinally, InDone, OnTrial, OthersOnBest, TryPcs, Touched,
                   world, accepted, trial
    <2> QED
      BY <2>1, <2>2
  <1>13. CASE Interrupt
    <2>1. Healthy'
      BY <1>2, <1>13, HealthyKept DEF Interrupt, world, accepted
    <2>2. Placed'
      BY <1>2, <1>13 DEF Interrupt, Placed, InBaseline, AtRest, InSync, InSettled, InPresize,
                   InTrial, InFinally, InDone, OnTrial, OthersOnBest, TryPcs, Touched,
                   world, accepted, trial
    <2> QED
      BY <2>1, <2>2
  <1>14. CASE Kill
    <2>1. UNCHANGED <<live, aux_best>> /\ (file' = file \/ file' = Torn)
      BY <1>14 DEF Kill, accepted
    <2>2. file' = file => Healthy'
      BY <1>2, <2>1 DEF Healthy, AllComplete, Listed
    <2>4. file' = Torn => Healthy'
      BY <1>2, <2>1, NoEntryIsEntry DEF Healthy, AllComplete, Listed, Torn, NoTuning
    <2>3. Placed'
      BY <1>14 DEF Kill, Placed, InBaseline, InSettled, InPresize, InTrial, InFinally,
                  InDone, TryPcs
    <2> QED
      BY <2>1, <2>2, <2>3, <2>4
  <1>15. CASE PresizeWrite \/ CandidateWrite
    <2>1. /\ AtRest /\ bestKnobs = aux_best /\ outcome = "running"
          /\ pc = "presize" => pending = NoApp
      BY <1>2, <1>15 DEF Placed, InSettled, InTrial, InDone, TryPcs, PresizeWrite,
                        CandidateWrite
    <2>2. Record(step) /\ UNCHANGED <<live, step, pending, bestKnobs, aux_best, outcome>>
      BY <1>15 DEF PresizeWrite, CandidateWrite, accepted
    <2>3. /\ file'.whole /\ AllComplete'
          /\ \A a \in Apps : /\ Serves(Effective(file'.map)[a])
                             /\ Effective(file'.map)[a]
                                 = IF a \in Touched THEN step[a] ELSE bestKnobs[a]
      BY <1>2, <2>1, <2>2, RecordEffect, KnobSetsType
         DEF Healthy, TypeOK, AtRest, InSync, Touched
    <2>4. Healthy'
      BY <1>2, <2>2, <2>3 DEF Healthy
    <2>5. Placed'
      BY <1>2, <1>15, <2>1, <2>2, <2>3
         DEF Placed, PresizeWrite, CandidateWrite, InBaseline, AtRest, InSettled, InPresize,
             InTrial, InFinally, InDone, OnTrial, OthersOnBest, TryPcs, Touched
    <2> QED
      BY <2>4, <2>5
  <1>16. CASE UndoWrite \/ FinallyWrite
    <2> DEFINE names == IF pc = "undo_write" THEN Touched ELSE {pending}
    <2>1. /\ file.whole /\ bestKnobs = aux_best /\ OthersOnBest
          /\ names \subseteq Touched /\ names # {}
      BY <1>2, <1>16 DEF Placed, InTrial, InFinally, InSync, UndoWrite, FinallyWrite
    <2>2. /\ Record(Only(names, bestKnobs))
          /\ UNCHANGED <<live, step, pending, bestKnobs, aux_best, aux_trial, outcome>>
      BY <1>16 DEF UndoWrite, FinallyWrite, accepted, trial
    <2>3. /\ Only(names, bestKnobs) \in Tuning /\ KnobSet(Only(names, bestKnobs))
          /\ Listed(Only(names, bestKnobs)) = names
          /\ \A a \in names : Only(names, bestKnobs)[a] = aux_best[a] /\ Serves(aux_best[a])
      <3>1. names \subseteq Apps
        BY <2>1 DEF Touched, Listed
      <3>2. \A a \in Apps : /\ aux_best[a] \in Settings /\ aux_best[a]["request"] > 0
                            /\ Serves(aux_best[a]) /\ Recorded(aux_best[a])
        BY <1>2, SettingsRecorded DEF Healthy, TypeOK, Serves, Cluster, Settings, Fields
      <3>3. Only(names, bestKnobs)
              = [a \in Apps |-> IF a \in names THEN aux_best[a] ELSE NoEntry]
        BY <2>1 DEF Only
      <3> HIDE DEF names
      <3>4. Only(names, bestKnobs) \in Tuning
        BY OnlyType DEF TypeOK
      <3> QED
        BY <3>1, <3>2, <3>3, <3>4, NoEntryIsEntry DEF KnobSet, Listed
    <2> HIDE DEF names
    <2>4. /\ file'.whole /\ AllComplete'
          /\ \A a \in Apps :
               /\ Serves(Effective(file'.map)[a])
               /\ Effective(file'.map)[a]
                    = IF a \in names THEN aux_best[a] ELSE Effective(file.map)[a]
      BY <1>2, <2>1, <2>2, <2>3, RecordEffect DEF Healthy, TypeOK
    <2>5. Healthy'
      BY <1>2, <2>2, <2>4 DEF Healthy
    <2>6. Effective(file'.map) \in Cluster /\ aux_best \in Cluster
          /\ Effective(file.map) \in Cluster
      <3>1. file' \in File
        BY <2>2, <2>3, RecordType DEF TypeOK
      <3> QED
        BY <3>1, EffectiveType DEF TypeOK, File
    <2>7. CASE UndoWrite
      <3>1. names = Touched
        BY <2>7 DEF UndoWrite, names
      <3>2. \A a \in Apps : Effective(file'.map)[a] = aux_best[a]
        BY <2>1, <2>4, <3>1 DEF OthersOnBest
      <3>3. Effective(file'.map) = aux_best
        BY <2>6, <3>2 DEF Cluster
      <3> QED
        BY <1>2, <2>1, <2>2, <2>4, <2>5, <2>7, <3>3
           DEF Placed, UndoWrite, InBaseline, InSettled, InPresize, InTrial, InFinally,
               InDone, OthersOnBest, TryPcs, Touched
    <2>8. CASE FinallyWrite
      <3>1. names = {pending}
        BY <2>8 DEF FinallyWrite, names
      <3>2. ~aux_trial => Effective(file'.map) = aux_best
        <4>1. SUFFICES ASSUME ~aux_trial PROVE Effective(file'.map) = aux_best
          OBVIOUS
        <4>2. Effective(file.map) = aux_best
          BY <1>2, <2>8, <4>1 DEF Placed, InFinally, FinallyWrite
        <4>3. \A a \in Apps : Effective(file'.map)[a] = aux_best[a]
          BY <2>4, <4>2
        <4> QED
          BY <2>6, <4>3 DEF Cluster
      <3>3. pending \in Apps
        BY <2>1, <3>1 DEF Touched, Listed
      <3> QED
        BY <1>2, <2>1, <2>2, <2>4, <2>5, <2>8, <3>1, <3>2, <3>3
           DEF Placed, FinallyWrite, InBaseline, InSettled, InPresize, InTrial, InFinally,
               InDone, OthersOnBest, TryPcs, Touched
    <2> QED
      BY <1>16, <2>7, <2>8
  <1>17. ASSUME file.whole, ApplySucceeds(live, file.map, live'), UNCHANGED <<file, aux_best>>
        PROVE  live' = Effective(file'.map) /\ Healthy'
    <2>1. live' = Effective(file.map)
      BY <1>17, SuccessEffect DEF TypeOK
    <2> QED
      BY <1>2, <1>17, <2>1 DEF Healthy, AllComplete, Listed
  <1>18. ASSUME file.whole, ApplyFails(live, file.map, live'), UNCHANGED <<file, aux_best>>
        PROVE  /\ Healthy'
               /\ \A a \in Apps : live[a] = Effective(file.map)[a] => live'[a] = live[a]
    <2>1. \A a \in Apps : /\ Serves(live'[a])
                          /\ live[a] = Effective(file.map)[a] => live'[a] = live[a]
      BY <1>2, <1>18, FailureEffect DEF TypeOK, Healthy
    <2>2. AllComplete' /\ \A a \in Apps : Serves(Effective(file'.map)[a]) /\ Serves(aux_best'[a])
      BY <1>2, <1>18 DEF Healthy, AllComplete, Listed
    <2>3. Healthy'
      BY <2>1, <2>2 DEF Healthy
    <2> QED
      BY <2>1, <2>3
  <1>26. PresizeApply \/ CandidateApply \/ UndoApply \/ ApplyThrows \/ FinallyApply => file.whole
    BY <1>2 DEF Placed, InPresize, InTrial, InFinally, PresizeApply, CandidateApply, UndoApply,
                ApplyThrows, FinallyApply
  <1>19. CASE PresizeApply
    <2>1. /\ live' = Effective(file'.map) /\ Healthy'
          /\ UNCHANGED <<file, aux_best, step, pending, aux_trial, outcome>>
          /\ bestKnobs' = SizedKnobs
      BY <1>19, <1>17, <1>26 DEF PresizeApply, trial
    <2>2. /\ file.whole /\ OnTrial(Effective(file.map)) /\ bestKnobs = aux_best
          /\ pending = NoApp /\ aux_trial
          /\ \A a \in Touched : step[a]["min"] = bestKnobs[a]["min"]
                              /\ step[a]["max"] = bestKnobs[a]["max"]
      BY <1>2, <1>19 DEF Placed, InPresize, PresizeApply
    <2>3. SizedKnobs = live'
      <3>1. live' \in Cluster
        BY <2>1, EffectiveType DEF TypeOK, File
      <3>2. ASSUME NEW a \in Apps
            PROVE  SizedKnobs[a] = live'[a]
        <4>1. CASE a \notin Touched
          BY <2>1, <2>2, <4>1 DEF SizedKnobs, OnTrial
        <4>2. CASE a \in Touched
          <5>1. bestKnobs[a] \in Settings /\ step[a] \in Settings
            BY <2>2, <4>2, KnobSetsType DEF TypeOK, Cluster, Touched
          <5>2. [bestKnobs[a] EXCEPT !["request"] = step[a]["request"],
                                     !["target"] = step[a]["target"]] = step[a]
            BY <2>2, <4>2, <5>1 DEF Settings, Fields
          <5> QED
            BY <2>1, <2>2, <4>2, <5>2 DEF SizedKnobs, OnTrial
        <4> QED
          BY <4>1, <4>2
      <3> QED
        BY <3>1, <3>2 DEF SizedKnobs, Cluster
    <2> QED
      BY <1>2, <1>19, <2>1, <2>2, <2>3
         DEF Placed, PresizeApply, InBaseline, InSettled, InPresize, InTrial, InFinally,
             InDone, InSync, TryPcs
  <1>20. CASE CandidateApply
    <2>1. /\ live' = Effective(file'.map) /\ Healthy'
          /\ UNCHANGED <<file, bestKnobs, aux_best, step, pending, aux_trial, outcome>>
      BY <1>20, <1>17, <1>26 DEF CandidateApply, accepted, trial
    <2> QED
      BY <1>2, <1>20, <2>1
         DEF Placed, CandidateApply, InBaseline, InSettled, InPresize, InTrial, InFinally,
             InDone, InSync, OnTrial, OthersOnBest, TryPcs, Touched
  <1>21. CASE UndoApply
    <2>1. /\ live' = Effective(file'.map) /\ Healthy'
          /\ UNCHANGED <<file, bestKnobs, aux_best, step, pending, outcome>>
      BY <1>21, <1>17, <1>26 DEF UndoApply, accepted
    <2> QED
      BY <1>2, <1>21, <2>1
         DEF Placed, UndoApply, InBaseline, InSettled, InPresize, InTrial, InFinally,
             InDone, InSync, AtRest, OthersOnBest, TryPcs, Touched
  <1>22. CASE ApplyThrows
    <2>1. /\ Healthy'
          /\ \A a \in Apps : live[a] = Effective(file.map)[a] => live'[a] = live[a]
          /\ UNCHANGED <<file, bestKnobs, aux_best, step, pending, aux_trial>>
      BY <1>22, <1>18, <1>26 DEF ApplyThrows, accepted, trial
    <2>2. pending # NoApp => OthersOnBest'
      BY <1>2, <1>22, <2>1 DEF Placed, ApplyThrows, InPresize, InTrial, OthersOnBest, Touched
    <2> QED
      BY <1>2, <1>22, <2>1, <2>2
         DEF Placed, ApplyThrows, InBaseline, InSettled, InPresize, InTrial, InFinally,
             InDone, TryPcs, Touched
  <1>23. CASE FinallyApply
    <2>1. /\ UNCHANGED <<file, bestKnobs, aux_best, step, pending>> /\ pc' = "done"
      BY <1>23 DEF FinallyApply, accepted
    <2>2. CASE ApplySucceeds(live, file.map, live') /\ UNCHANGED outcome
      <3>1. live' = Effective(file'.map) /\ Healthy'
        BY <1>23, <1>26, <2>1, <2>2, <1>17
      <3>2. file.whole /\ OthersOnBest /\ pending \in Apps
            /\ Effective(file.map)[pending] = aux_best[pending] /\ outcome = "interrupted"
        BY <1>2, <1>23 DEF Placed, InFinally, FinallyApply, Touched, Listed
      <3>3. Touched = {pending} => live' = aux_best
        <4>1. SUFFICES ASSUME Touched = {pending} PROVE live' = aux_best
          OBVIOUS
        <4>2. \A a \in Apps : Effective(file.map)[a] = aux_best[a]
          BY <3>2, <4>1 DEF OthersOnBest
        <4>3. live' \in Cluster /\ aux_best \in Cluster
          BY <3>1, <2>1, EffectiveType DEF TypeOK, File
        <4> QED
          BY <2>1, <3>1, <4>2, <4>3 DEF Cluster
      <3> QED
        BY <2>1, <2>2, <3>1, <3>2, <3>3
           DEF Placed, InBaseline, InSettled, InPresize, InTrial, InFinally,
               InDone, InSync, TryPcs, Touched
    <2>3. CASE ApplyFails(live, file.map, live') /\ outcome' = "rollback_failed"
      <3>1. Healthy'
        BY <1>23, <1>26, <2>1, <2>3, <1>18
      <3> QED
        BY <2>1, <2>3, <3>1
           DEF Placed, InBaseline, InSettled, InPresize, InTrial, InFinally, InDone, TryPcs
    <2> QED
      BY <1>23, <2>2, <2>3 DEF FinallyApply
  <1>24. CASE UNCHANGED vars
    BY <1>2, <1>24
       DEF vars, world, accepted, trial, Healthy, AllComplete, Listed, Placed, InBaseline,
           AtRest, InSync, InSettled, InPresize, InTrial, InFinally, InDone, OnTrial,
           OthersOnBest, Touched
  <1> QED
    BY <1>3, <1>4, <1>5, <1>6, <1>7, <1>8, <1>9, <1>10, <1>11, <1>12, <1>13,
       <1>14, <1>15, <1>16, <1>19, <1>20, <1>21, <1>22, <1>23, <1>24, <1>25, <1>27
       DEF Next, Runner, Terminated

\* The strengthening holds in every run.
THEOREM RunsConsistent == Spec => []Consistent
<1>1. Init => Consistent
  BY ConsistentInit
<1>2. TypeOK /\ Consistent /\ [Next]_vars => Consistent'
  BY ConsistentStep
<1> QED
  BY <1>1, <1>2, TypeCorrect, PTL DEF Spec

----------------------------------------------------------------------------
\* What follows for the caller of optimize.ps1.

\* The strengthening implies the four invariants.
LEMMA ConsistentMeans ==
    ASSUME TypeOK, Consistent
    PROVE  EndsOnBest /\ ReportIsTrue /\ LoneTrialUndone /\ AlwaysServing
  <1> SUFFICES ASSUME aux_trusted
               PROVE  EndsOnBest /\ ReportIsTrue /\ LoneTrialUndone /\ AlwaysServing
    BY DEF EndsOnBest, ReportIsTrue, LoneTrialUndone, AlwaysServing
  <1>1. Healthy /\ InFinally /\ InDone
    BY DEF Consistent
  <1>2. outcome = "normal" => pc = "done" /\ AtRest /\ bestKnobs = aux_best
    BY <1>1 DEF InFinally, InDone, TypeOK, Pcs
  <1>3. AlwaysServing
    BY <1>1 DEF AlwaysServing, Serving, Healthy, Serves
  <1> QED
    BY <1>1, <1>2, <1>3 DEF EndsOnBest, ReportIsTrue, LoneTrialUndone, InDone, AtRest

\* A run that ends normally leaves the cluster as it was when the best score
\* was measured (optimize.ps1:304, 307), for any number of applications.
THEOREM NormalEndIsBest == Spec => []EndsOnBest
  BY TypeCorrect, RunsConsistent, ConsistentMeans, PTL

\* What the run prints at its end and what the file says is what runs
\* (optimize.ps1:315-316).
THEOREM ReportCorrect == Spec => []ReportIsTrue
  BY TypeCorrect, RunsConsistent, ConsistentMeans, PTL

\* The rollback of `finally` (optimize.ps1:319-321) undoes a candidate of one
\* application from any point of its trial.
THEOREM LoneRollback == Spec => []LoneTrialUndone
  BY TypeCorrect, RunsConsistent, ConsistentMeans, PTL

\* No statement, failed apply, interrupt or crash of a trusted run leaves an
\* application with a zero request or an HPA that the API rejects.
THEOREM ServingKept == Spec => []AlwaysServing
  BY TypeCorrect, RunsConsistent, ConsistentMeans, PTL

\* Where an apply runs, file and cluster differ on the knob set only.
LEMMA OnlyTouchedStep ==
    ASSUME TypeOK, Consistent, [Next]_vars, aux_trusted'
    PROVE  \A a \in Apps \ Touched : live'[a] = live[a]
  <1>1. aux_trusted
    BY TrustKept
  <1>2. Healthy /\ Placed
    BY <1>1 DEF Consistent, Placed
  <1>3. CASE UNCHANGED live
    BY <1>3
  <1>4. CASE PresizeApply \/ CandidateApply \/ UndoApply \/ ApplyThrows \/ FinallyApply
    <2>1. pc \in {"presize_apply", "cand_apply", "undo_apply", "finally_apply"}
          /\ (ApplySucceeds(live, file.map, live') \/ ApplyFails(live, file.map, live'))
      BY <1>4 DEF PresizeApply, CandidateApply, UndoApply, ApplyThrows, FinallyApply
    <2>2. file.whole /\ \A a \in Apps \ Touched : live[a] = Effective(file.map)[a]
      BY <1>2, <2>1 DEF Placed, InPresize, InTrial, InFinally, OnTrial, OthersOnBest
    <2>3. CASE ApplySucceeds(live, file.map, live')
      BY <2>2, <2>3, SuccessEffect DEF TypeOK
    <2>4. CASE ApplyFails(live, file.map, live')
      BY <1>2, <2>2, <2>4, FailureEffect DEF TypeOK, Healthy
    <2> QED
      BY <2>1, <2>3, <2>4
  <1>5. UNCHANGED live \/ PresizeApply \/ CandidateApply \/ UndoApply \/ ApplyThrows
          \/ FinallyApply
    BY DEF Next, Runner, Baseline, PresizeSkip, PresizeWrite,
           PresizeMeasure, PlanNothing, PlanCandidate, CandidateWrite,
           AdoptScore, AdoptKnobs, Settle, Reject, UndoWrite, Report,
           FinallyIdle, FinallyStart, FinallyWrite,
           Interrupt, Kill, Terminated, vars, world
  <1> QED
    BY <1>3, <1>4, <1>5

\* The targeted apply of optimize.ps1:118 covers all applications and moves
\* only those of the knob set.
THEOREM OthersUntouched == Spec => OnlyTouchedMove
<1>1. TypeOK /\ Consistent /\ [Next]_vars
        => [aux_trusted' => \A a \in Apps \ Touched : live'[a] = live[a]]_vars
  BY OnlyTouchedStep
<1> QED
  BY <1>1, TypeCorrect, RunsConsistent, PTL DEF Spec, OnlyTouchedMove

----------------------------------------------------------------------------
\* The run implements the transaction that the documents promise.

\* Every step of a trusted run tries, accepts, rolls back or stutters.
LEMMA TxnStep ==
    ASSUME TypeOK, TypeOK', Consistent, aux_trusted, aux_trusted', [Next]_vars
    PROVE  [Txn!Next]_(Txn!vars)
  <1>1. Placed
    BY DEF Consistent, Placed
  <1> USE DEF Txn!Next, Txn!vars
  <1>2. ASSUME live' = live, aux_best' = aux_best, aux_trial' = aux_trial
        PROVE  [Txn!Next]_(Txn!vars)
    BY <1>2
  <1>3. ASSUME aux_best' = aux_best, aux_trial'
        PROVE  Txn!Try
    BY <1>3 DEF TypeOK, Txn!Try
  <1>4. CASE Baseline
    <2>1. live' = live /\ aux_best' = aux_best /\ aux_trial' = aux_trial
      BY <1>1, <1>4 DEF Baseline, Placed, InBaseline, AtRest, world
    <2> QED
      BY <1>2, <2>1
  <1>5. CASE PresizeWrite \/ CandidateWrite
    <2>1. aux_best' = aux_best /\ aux_trial'
      BY <1>5 DEF PresizeWrite, CandidateWrite, accepted
    <2> QED
      BY <1>3, <2>1
  <1>6. CASE PresizeApply \/ CandidateApply \/ ApplyThrows
    <2>1. aux_best' = aux_best /\ aux_trial'
      BY <1>1, <1>6 DEF PresizeApply, CandidateApply, ApplyThrows, accepted, trial,
                        Placed, InPresize, InTrial
    <2> QED
      BY <1>3, <2>1
  <1>7. CASE PresizeMeasure \/ AdoptKnobs
    <2>1. aux_trial /\ live' = live /\ aux_best' = live /\ ~aux_trial'
      BY <1>1, <1>7 DEF PresizeMeasure, AdoptKnobs, world, Placed, InPresize, InTrial
    <2> QED
      BY <2>1 DEF Txn!Accept
  <1>8. CASE UndoApply
    <2>1. aux_trial /\ live' = aux_best /\ aux_best' = aux_best /\ ~aux_trial'
      BY <1>1, <1>8, SuccessEffect
         DEF UndoApply, accepted, Placed, InTrial, TypeOK
    <2> QED
      BY <2>1 DEF Txn!RollBack
  <1>9. CASE FinallyApply
    <2>1. /\ file.whole /\ OthersOnBest /\ pending \in Touched
          /\ Effective(file.map)[pending] = aux_best[pending]
          /\ ~aux_trial => live = aux_best /\ Effective(file.map) = aux_best
          /\ aux_best' = aux_best
      BY <1>1, <1>9 DEF Placed, InFinally, FinallyApply, accepted
    <2>2. Effective(file.map) \in Cluster
      BY EffectiveType DEF TypeOK, File
    <2>3. CASE aux_trial'
      BY <1>3, <2>1, <2>3
    <2>4. CASE ~aux_trial' /\ aux_trial
      <3>1. Touched = {pending} /\ live' = Effective(file.map)
        BY <1>9, <2>4, SuccessEffect DEF FinallyApply, TypeOK
      <3>2. \A a \in Apps : Effective(file.map)[a] = aux_best[a]
        BY <2>1, <3>1 DEF OthersOnBest
      <3>3. live' = aux_best
        BY <2>2, <3>1, <3>2 DEF TypeOK, Cluster
      <3> QED
        BY <2>1, <2>4, <3>3 DEF Txn!RollBack
    <2>5. CASE ~aux_trial' /\ ~aux_trial
      <3>1. CASE ApplySucceeds(live, file.map, live')
        BY <1>2, <2>1, <2>5, <3>1, SuccessEffect DEF TypeOK
      <3>2. CASE ApplyFails(live, file.map, live')
        <4>1. Healthy
          BY DEF Consistent
        <4>2. \A a \in Apps : live'[a] = live[a]
          BY <2>1, <2>5, <3>2, <4>1, FailureEffect DEF TypeOK, Healthy
        <4>3. live' = live
          BY <4>2 DEF TypeOK, Cluster
        <4> QED
          BY <1>2, <2>1, <2>5, <4>3
      <3> QED
        BY <1>9, <3>1, <3>2 DEF FinallyApply
    <2> QED
      BY <2>3, <2>4, <2>5
  <1>10. CASE PresizeSkip \/ PlanNothing \/ PlanCandidate \/ Reject \/ UndoWrite \/ Report
            \/ FinallyIdle \/ FinallyStart \/ FinallyWrite \/ Interrupt \/ Kill
            \/ AdoptScore \/ Settle \/ UNCHANGED vars
    <2>1. live' = live /\ aux_best' = aux_best /\ aux_trial' = aux_trial
      BY <1>10 DEF PresizeSkip, PlanNothing, PlanCandidate, Reject, UndoWrite, Report,
             FinallyIdle, FinallyStart, FinallyWrite, Interrupt, Kill, AdoptScore, Settle,
             vars, world, accepted, trial
    <2> QED
      BY <1>2, <2>1
  <1> QED
    BY <1>4, <1>5, <1>6, <1>7, <1>8, <1>9, <1>10 DEF Next, Runner, Terminated

\* A trusted run is a transaction: the cluster leaves the accepted
\* configuration for a trial only, and a trial ends with the whole of its
\* configuration accepted or with the whole of the one before it back.
THEOREM RunImplementsTxn == TrustedSpec => ImplementsTxn
<1>1. TrustedInit => Txn!Init
  <2> SUFFICES ASSUME Init PROVE Txn!Init
    BY DEF TrustedInit
  <2> QED
    BY InitAssumption DEF Init, Txn!Init
<1>2. TrustedSpec => Spec
  <2>1. TrustedInit => Init
    BY DEF TrustedInit
  <2>2. [TrustedNext]_vars => [Next]_vars
    BY DEF TrustedNext
  <2> QED
    BY <2>1, <2>2, PTL DEF TrustedSpec, Spec
<1>3. TrustedSpec => []aux_trusted
  <2>1. TrustedInit => aux_trusted
    BY DEF TrustedInit
  <2>2. aux_trusted /\ [TrustedNext]_vars => aux_trusted'
    BY DEF TrustedNext, vars
  <2> QED
    BY <2>1, <2>2, PTL DEF TrustedSpec
<1>4. TypeOK /\ TypeOK' /\ Consistent /\ aux_trusted /\ aux_trusted' /\ [Next]_vars
        => [Txn!Next]_(Txn!vars)
  BY TxnStep
<1> QED
  BY <1>1, <1>2, <1>3, <1>4, TypeCorrect, RunsConsistent, PTL
     DEF ImplementsTxn, Txn!Spec, Spec, TrustedSpec

=============================================================================
