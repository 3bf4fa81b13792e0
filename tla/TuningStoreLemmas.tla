------------------------- MODULE TuningStoreLemmas -------------------------
(***************************************************************************)
(* What the operators of TuningStore return and preserve, for any set of   *)
(* applications and any defaults.                                          *)
(***************************************************************************)
EXTENDS TuningStore, TLAPS

\* A knob set as the scripts hand it to Set-TuningSet: settings with a
\* positive request for some applications, nothing for the others.
KnobSet(knobs) ==
    \A a \in Apps : \/ knobs[a] = NoEntry
                    \/ knobs[a] \in Settings /\ knobs[a]["request"] > 0

\* Only an entry without any field is not recorded.
LEMMA NotRecorded ==
    ASSUME NEW e \in Entry
    PROVE  Recorded(e) \/ e = NoEntry
  BY DEF Recorded, NoEntry, Entry

\* Settings are entries, and always recorded.
LEMMA SettingsRecorded ==
    ASSUME NEW e \in Settings
    PROVE  /\ e \in Entry
           /\ Recorded(e)
           /\ \A f \in Fields : e[f] # Absent
  BY AbsentAssumption DEF Recorded, Settings, Entry, Fields

\* The entry of an application that the file does not list is one, and not
\* recorded.
LEMMA NoEntryIsEntry == NoEntry \in Entry /\ ~Recorded(NoEntry)
  BY DEF NoEntry, Entry, Recorded

\* A written file and what a torn write leaves are files.
LEMMA FileTypes ==
    ASSUME NEW map \in Tuning
    PROVE  Written(map) \in File /\ Torn \in File
  BY NoEntryIsEntry DEF Written, Torn, File, NoTuning, Tuning

\* The settings of a cluster can be recorded as they are, as the engine does.
LEMMA ClusterIsTuning == Cluster \subseteq Tuning
  BY DEF Cluster, Settings, Tuning, Entry

\* Set-TuningOne and Set-TuningMany hand on a map of the same kind.
LEMMA OnlyType ==
    ASSUME NEW names, NEW knobs \in Tuning
    PROVE  Only(names, knobs) \in Tuning
  BY NoEntryIsEntry DEF Only, Tuning

\* What Terraform makes of any map is a setting for every application.
LEMMA EffectiveType ==
    ASSUME NEW map \in Tuning
    PROVE  Effective(map) \in Cluster
  BY DefaultsAssumption, AbsentAssumption
     DEF Effective, Tuning, Entry, Cluster, Settings

\* Read-Tuning returns a map whatever the file holds.
LEMMA ReadTuningType ==
    ASSUME NEW file \in File
    PROVE  ReadTuning(file) \in Tuning
  <1>1. file.map \in Tuning
    BY DEF File
  <1>2. ASSUME NEW a \in Apps
        PROVE  [f \in Fields |->
                  IF file.map[a][f] = Absent THEN 0 ELSE file.map[a][f]] \in Entry
    BY <1>1 DEF Tuning, Entry
  <1> QED
    BY <1>2, NoEntryIsEntry DEF ReadTuning, Tuning

\* A file whose entries are complete reads as what it lists: the [int] casts
\* of Read-Tuning change nothing in it.
LEMMA ReadTuningComplete ==
    ASSUME NEW file \in File, file.whole,
           \A a \in Listed(file.map) : Complete(file.map[a])
    PROVE  ReadTuning(file) = file.map
  <1>1. file.map \in Tuning
    BY DEF File
  <1>2. ASSUME NEW a \in Apps, Recorded(file.map[a])
        PROVE  [f \in Fields |->
                  IF file.map[a][f] = Absent THEN 0 ELSE file.map[a][f]] = file.map[a]
    <2>1. \A f \in Fields : file.map[a][f] # Absent
      BY <1>2 DEF Listed, Complete
    <2> QED
      BY <1>1, <2>1 DEF Tuning, Entry
  <1>3. ASSUME NEW a \in Apps, ~Recorded(file.map[a])
        PROVE  file.map[a] = NoEntry
    BY <1>1, <1>3, NotRecorded DEF Tuning
  <1> QED
    BY <1>1, <1>2, <1>3 DEF ReadTuning, Tuning

\* Set-TuningSet writes one entry per named application, the knob itself, and
\* leaves the other entries as they were read.
LEMMA SetEntriesValue ==
    ASSUME NEW map \in Tuning, NEW knobs, KnobSet(knobs), NEW a \in Apps
    PROVE  SetEntries(map, knobs)[a] = IF Recorded(knobs[a]) THEN knobs[a] ELSE map[a]
  <1>1. CASE knobs[a] = NoEntry
    BY <1>1, NoEntryIsEntry DEF SetEntries
  <1>2. CASE knobs[a] \in Settings /\ knobs[a]["request"] > 0
    <2>1. Recorded(knobs[a])
      BY <1>2, SettingsRecorded
    <2>2. RequestToRecord(knobs[a], map[a]) = knobs[a]["request"]
      BY <1>2 DEF RequestToRecord
    <2>3. [f \in Fields |->
             IF f = "request" THEN RequestToRecord(knobs[a], map[a]) ELSE knobs[a][f]]
            = knobs[a]
      BY <1>2, <2>2 DEF Settings
    <2> QED
      BY <2>1, <2>3 DEF SetEntries
  <1> QED
    BY <1>1, <1>2 DEF KnobSet

\* The new map is one that the file can hold, zeros and gaps in the knobs and
\* in what was read included.
LEMMA SetEntriesType ==
    ASSUME NEW map \in Tuning, NEW knobs \in Tuning
    PROVE  SetEntries(map, knobs) \in Tuning
  <1>1. ASSUME NEW a \in Apps
        PROVE  [f \in Fields |-> IF f = "request"
                                 THEN RequestToRecord(knobs[a], map[a])
                                 ELSE knobs[a][f]] \in Entry
    BY DEF RequestToRecord, Tuning, Entry, Fields
  <1> QED
    BY <1>1 DEF SetEntries, Tuning

\* With the knob set applied Terraform gives the named applications the knobs
\* and the others what they had.
LEMMA SetEntriesEffective ==
    ASSUME NEW map \in Tuning, NEW knobs, KnobSet(knobs), NEW a \in Apps
    PROVE  Effective(SetEntries(map, knobs))[a]
             = IF Recorded(knobs[a]) THEN knobs[a] ELSE Effective(map)[a]
  <1>1. CASE ~Recorded(knobs[a])
    BY <1>1, SetEntriesValue DEF Effective
  <1>2. CASE Recorded(knobs[a])
    <2>1. knobs[a] \in Settings
      BY <1>2, NoEntryIsEntry DEF KnobSet
    <2>2. \A f \in Fields : knobs[a][f] # Absent
      BY <2>1, SettingsRecorded
    <2>3. SetEntries(map, knobs)[a] = knobs[a]
      BY <1>2, SetEntriesValue
    <2>4. Effective(SetEntries(map, knobs))[a] = [f \in Fields |-> knobs[a][f]]
      BY <2>2, <2>3 DEF Effective
    <2> QED
      BY <1>2, <2>1, <2>4 DEF Settings
  <1> QED
    BY <1>1, <1>2

\* A targeted apply that succeeds makes the cluster what the file says: it
\* covers every application, and no field depends on what ran before.
LEMMA ApplySucceedsExact ==
    ASSUME NEW live, NEW map \in Tuning, NEW result,
           ApplySucceeds(live, map, result)
    PROVE  result = Effective(map)
  <1>1. result = [a \in Apps |-> [f \in Fields |-> Effective(map)[a][f]]]
    BY DEF ApplySucceeds, Updated
  <1>2. Effective(map) \in Cluster
    BY EffectiveType
  <1> QED
    BY <1>1, <1>2 DEF Cluster, Settings

\* One that fails leaves every application with the request of one side and
\* the HPA of one side: an HPA is never half updated.
LEMMA ApplyFailsBetween ==
    ASSUME NEW live \in Cluster, NEW map \in Tuning, NEW result,
           ApplyFails(live, map, result)
    PROVE  /\ result \in Cluster
           /\ \A a \in Apps :
                /\ result[a]["request"] \in
                     {live[a]["request"], Effective(map)[a]["request"]}
                /\ \/ \A f \in HpaFields : result[a][f] = live[a][f]
                   \/ \A f \in HpaFields : result[a][f] = Effective(map)[a][f]
  <1> DEFINE want == Effective(map)
  <1>1. want \in Cluster
    BY EffectiveType
  <1>2. PICK deps, hpas : result = Updated(live, want, deps, hpas)
    BY DEF ApplyFails
  <1>3. result = [a \in Apps |->
                    [f \in Fields |->
                        IF a \in (IF f = "request" THEN deps ELSE hpas)
                        THEN want[a][f] ELSE live[a][f]]]
    BY <1>2 DEF Updated
  <1> HIDE DEF want
  <1>4. result \in Cluster
    BY <1>1, <1>3 DEF Cluster, Settings
  <1>5. ASSUME NEW a \in Apps
        PROVE  /\ result[a]["request"] \in {live[a]["request"], want[a]["request"]}
               /\ \/ \A f \in HpaFields : result[a][f] = live[a][f]
                  \/ \A f \in HpaFields : result[a][f] = want[a][f]
    <2>1. \A f \in Fields : result[a][f] = IF a \in (IF f = "request" THEN deps ELSE hpas)
                                           THEN want[a][f] ELSE live[a][f]
      BY <1>3
    <2>2. CASE a \in hpas
      BY <2>1, <2>2 DEF Fields, HpaFields
    <2>3. CASE a \notin hpas
      BY <2>1, <2>3 DEF Fields, HpaFields
    <2> QED
      BY <2>2, <2>3
  <1> QED
    BY <1>4, <1>5 DEF want

=============================================================================
