---------------------------- MODULE TuningStore ----------------------------
(***************************************************************************)
(* tuning.auto.tfvars.json, the file through which every tuning script of  *)
(* 3과제/tuning talks to Terraform, and what Terraform makes of it.          *)
(*                                                                         *)
(* The file lists, per application, some of four fields.  A field that is  *)
(* not listed falls back to the value of terraform.tfvars (apps.tf); a     *)
(* field that IS listed is taken as it stands, zero included.  All the     *)
(* operators below are pure: the scripts' state machines use them.         *)
(***************************************************************************)
EXTENDS Naturals

CONSTANTS
    Apps,       \* applications deployed by apps.tf
    Defaults,   \* what terraform.tfvars and app_defaults give each of them
    Absent      \* a field that the file does not list

Fields == {"request", "target", "min", "max"}
HpaFields == {"target", "min", "max"}

Entry == [Fields -> Nat \cup {Absent}]
Tuning == [Apps -> Entry]
Settings == [Fields -> Nat]
Cluster == [Apps -> Settings]

ASSUME AbsentAssumption == Absent \notin Nat
ASSUME DefaultsAssumption == Defaults \in Cluster

NoEntry == [f \in Fields |-> Absent]
NoTuning == [a \in Apps |-> NoEntry]

\* The application appears in the file.  A script never writes an entry
\* without a field, so an entry without one is an application not listed.
Recorded(e) == \E f \in Fields : e[f] # Absent

Listed(map) == {a \in Apps : Recorded(map[a])}

Complete(e) == \A f \in Fields : e[f] # Absent /\ e[f] > 0

\* A missing file reads as a written one with no entries, for the scripts and
\* for Terraform alike.
Written(map) == [whole |-> TRUE, map |-> map]

\* What WriteAllText leaves while it has emptied the file and not yet filled
\* it, or for good when the process dies there: it does not parse, and what
\* was recorded is gone.
Torn == [whole |-> FALSE, map |-> NoTuning]

\* The file on disk.
File == {f \in [whole : BOOLEAN, map : Tuning] : f.whole \/ f = Torn}

\* A defect to tell apart: an application that the file does not list is
\* filled up with zeros as well.
ReadTuning_FillsAll(file) ==
    [a \in Apps |->
        [f \in Fields |->
            IF ~file.whole \/ file.map[a][f] = Absent THEN 0 ELSE file.map[a][f]]]

\* Read-Tuning of optimize.ps1: every entry comes back with four integers,
\* the fields it did not list as [int]$null = 0; a file that does not parse
\* comes back empty.
ReadTuning(file) ==
    [a \in Apps |->
        IF file.whole /\ Recorded(file.map[a])
        THEN [f \in Fields |->
                IF file.map[a][f] = Absent THEN 0 ELSE file.map[a][f]]
        ELSE NoEntry]

\* The cpu_request_m that Set-TuningSet records for a knob set: the knob's
\* own when it is positive, else the one already recorded, else none.
RequestToRecord(knob, recorded) ==
    IF knob["request"] > 0 THEN knob["request"]
    ELSE IF recorded["request"] # 0 THEN recorded["request"]
    ELSE Absent

\* A defect to tell apart: the file is written from the knob set alone.
SetEntries_DropsOthers(map, knobs) ==
    [a \in Apps |->
        IF Recorded(knobs[a])
        THEN [f \in Fields |->
                IF f = "request" THEN RequestToRecord(knobs[a], map[a])
                ELSE knobs[a][f]]
        ELSE NoEntry]

\* Set-TuningSet of optimize.ps1: one new entry per application of `knobs`
\* (the others are NoEntry there), the other entries as they were read.
SetEntries(map, knobs) ==
    [a \in Apps |->
        IF Recorded(knobs[a])
        THEN [f \in Fields |->
                IF f = "request" THEN RequestToRecord(knobs[a], map[a])
                ELSE knobs[a][f]]
        ELSE map[a]]

\* The knobs of some applications only, as Set-TuningOne and Set-TuningMany
\* build them.
Only(names, knobs) ==
    [a \in Apps |-> IF a \in names THEN knobs[a] ELSE NoEntry]

\* A defect to tell apart: no fallback for the request.
Effective_NoRequestDefault(map) ==
    [a \in Apps |->
        [f \in Fields |->
            IF map[a][f] # Absent \/ f = "request" THEN map[a][f] ELSE Defaults[a][f]]]

\* apps.tf: app_tuning, field by field, over the values of terraform.tfvars.
Effective(map) ==
    [a \in Apps |->
        [f \in Fields |->
            IF map[a][f] # Absent THEN map[a][f] ELSE Defaults[a][f]]]

\* An HPA object that the Kubernetes API accepts.  A Deployment that requests
\* 0m is accepted too: nothing but the comments in the scripts forbids it.
HpaAccepted(e) == e["target"] >= 1 /\ e["min"] >= 1 /\ e["max"] >= e["min"]

\* The cluster after a targeted apply that updated the Deployments of `deps`
\* and the HPAs of `hpas` to what `want` says.
Updated(live, want, deps, hpas) ==
    [a \in Apps |->
        [f \in Fields |->
            IF a \in (IF f = "request" THEN deps ELSE hpas)
            THEN want[a][f] ELSE live[a][f]]]

\* A defect to tell apart: what the file does not list is set to null.
ApplySucceeds_NoFallback(live, map, result) ==
    /\ \A a \in Apps : HpaAccepted(Effective(map)[a])
    /\ result = Updated(live, map, Apps, Apps)

\* terraform apply -target deployment.app -target hpa.app with exit code 0:
\* every application, tuned in this call or not, is as the file says.
ApplySucceeds(live, map, result) ==
    /\ \A a \in Apps : HpaAccepted(Effective(map)[a])
    /\ result = Updated(live, Effective(map), Apps, Apps)

\* ... with another exit code: some resources were updated and some were not
\* (a rejected object, a rollout that timed out, a lock, an API error).
ApplyFails(live, map, result) ==
    \E deps \in SUBSET Apps,
       hpas \in SUBSET {a \in Apps : HpaAccepted(Effective(map)[a])} :
        result = Updated(live, Effective(map), deps, hpas)

=============================================================================
