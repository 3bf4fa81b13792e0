--------------------------- MODULE TuningWriters ---------------------------
(***************************************************************************)
(* The commands an operator gives beside optimize.ps1, from one terminal   *)
(* or several: apply.ps1 -App, apply.ps1 -Clear, rollback.ps1 with and     *)
(* without -App, and the apply and rollback texts that the engine prints   *)
(* for the dashboard, which are made from a snapshot of the cluster and    *)
(* pasted later.  All of them read something, write the tuning file in a   *)
(* separate step, and may run a targeted terraform apply after that.       *)
(***************************************************************************)
EXTENDS TuningStore

CONSTANTS
    Procs,         \* shells
    Edits,         \* what apply.ps1 -App is asked to change: Absent for 0
    Knobs,         \* settings that the engine may propose
    InitFiles, InitClusters,
    MaxCommands,   \* bound on the commands and drifts of a behaviour
    NoProc         \* nobody holds the state lock

VARIABLES
    file, live,
    pc,            \* pc[p]: the next statement of the command in shell p
    kind, app,     \* the command and its -App
    terraform,     \* -RunTerraform; a pasted text always calls terraform
    edit,          \* edit[p]: the fields given to apply.ps1
    got,           \* got[p]: the map that p is about to write
    base,          \* base[p]: the snapshot in p's pasted texts
    planned,       \* planned[p]: the map that p's terraform read
    lock,          \* holder of the Terraform state lock
    commands,      \* commands given and drifts made so far
    aux_alone,     \* aux_alone[p]: no other command ran while p's did
    aux_before     \* aux_before[p]: the file when p's command began

cluster == <<file, live, lock>>
command == <<kind, app, terraform, edit, base>>
vars == <<cluster, command, pc, got, planned, commands, aux_alone, aux_before>>

Kinds == {"set", "clear", "drop", "paste", "back"}
Pcs == {"idle", "write", "fill", "remove", "tfvars", "lock", "apply",
        "ok", "nothing", "failed", "refused"}
Texts == {"paste", "back"}
FirstApp == CHOOSE a \in Apps : TRUE
Active == {p \in Procs : pc[p] # "idle"}

ASSUME EditsAssumption ==
    Edits \subseteq {e \in Entry : Recorded(e) /\ \A f \in Fields : e[f] # 0}
ASSUME KnobsAssumption ==
    Knobs \subseteq {k \in Settings : k["request"] >= 1 /\ HpaAccepted(k)}
ASSUME InitAssumption == InitFiles \subseteq File /\ InitClusters \subseteq Cluster
ASSUME AppsAssumption == Apps # {}
ASSUME NoProcAssumption == NoProc \notin Procs
ASSUME MaxCommandsAssumption == MaxCommands \in Nat

----------------------------------------------------------------------------

Init ==
    /\ file \in InitFiles
    /\ live \in InitClusters
    /\ pc = [p \in Procs |-> "idle"]
    /\ kind = [p \in Procs |-> "set"]
    /\ app = [p \in Procs |-> FirstApp]
    /\ terraform = [p \in Procs |-> FALSE]
    /\ edit = [p \in Procs |-> NoEntry]
    /\ got = [p \in Procs |-> NoTuning]
    /\ base = [p \in Procs |-> Defaults]
    /\ planned = [p \in Procs |-> NoTuning]
    /\ lock = NoProc
    /\ commands = 0
    /\ aux_alone = [p \in Procs |-> TRUE]
    /\ aux_before = [p \in Procs |-> NoTuning]

\* A defect to tell apart: the switches that were not given are recorded too.
Merged_Zeros(entry, change) ==
    [f \in Fields |-> IF change[f] # Absent THEN change[f] ELSE 0]

\* apply.ps1 lines 84-92: what was recorded, and over it what was given.
Merged(entry, change) ==
    [f \in Fields |-> IF change[f] # Absent THEN change[f] ELSE entry[f]]

\* A defect to tell apart: the other applications are not written back.
WithEntry_Alone(map, a, e) == [NoTuning EXCEPT ![a] = e]

\* apply.ps1 line 96
WithEntry(map, a, e) == [map EXCEPT ![a] = e]

\* A defect to tell apart: the recorded request survives the removal.
Without_HpaOnly(map, a) ==
    [map EXCEPT ![a] = [NoEntry EXCEPT !["request"] = map[a]["request"]]]

\* rollback.ps1 lines 64-72
Without(map, a) == [map EXCEPT ![a] = NoEntry]

\* Test-Path: there is a file, readable or not.
FileThere == file.whole => Listed(file.map) # {}

\* The first read of a command.  An unreadable file throws in apply.ps1 -App
\* and in rollback.ps1 -App; the removal of the whole file does not read it.
Begin(p, k, a, tf) ==
    /\ pc[p] = "idle"
    /\ commands < MaxCommands
    /\ commands' = commands + 1
    /\ kind' = [kind EXCEPT ![p] = k]
    /\ app' = [app EXCEPT ![p] = a]
    /\ terraform' = [terraform EXCEPT ![p] = tf]
    /\ aux_before' = [aux_before EXCEPT ![p] = file.map]
    /\ aux_alone' = [q \in Procs |->
                        IF q = p THEN Active = {} ELSE aux_alone[q] /\ q \notin Active]
    /\ UNCHANGED <<cluster, planned>>

Set(p, a, tf) ==
    /\ Begin(p, "set", a, tf)
    /\ \E e \in Edits :
          /\ edit' = [edit EXCEPT ![p] = e]
          /\ got' = [got EXCEPT ![p] =
                       WithEntry(file.map, a, Merged(file.map[a], e))]
    /\ pc' = [pc EXCEPT ![p] = IF file.whole THEN "write" ELSE "failed"]
    /\ base' = [base EXCEPT ![p] = Defaults]

Clear(p, tf) ==
    /\ Begin(p, "clear", FirstApp, tf)
    /\ got' = [got EXCEPT ![p] = NoTuning]
    /\ pc' = [pc EXCEPT ![p] = IF FileThere THEN "remove" ELSE "nothing"]
    /\ base' = [base EXCEPT ![p] = Defaults]
    /\ UNCHANGED edit

Drop(p, a, tf) ==
    /\ Begin(p, "drop", a, tf)
    /\ LET rest == Without(file.map, a)
       IN  /\ got' = [got EXCEPT ![p] = rest]
           /\ pc' = [pc EXCEPT ![p] =
                       IF ~FileThere THEN "nothing"
                       ELSE IF ~file.whole THEN "failed"
                       ELSE IF Listed(rest) = {} THEN "remove"
                       ELSE "write"]
    /\ base' = [base EXCEPT ![p] = Defaults]
    /\ UNCHANGED edit

\* _current_dict: what Python takes for false gives way to a default.
Fallback(settings) ==
    [f \in Fields |->
        CASE f = "request" -> 100 [] f = "target" -> 70 [] f = "min" -> 1
          [] f = "max" -> IF settings["min"] > 2 THEN settings["min"] ELSE 2]

Snapshot(config) ==
    [a \in Apps |->
        [f \in Fields |->
            IF config[a][f] # 0 THEN config[a][f] ELSE Fallback(config[a])[f]]]

\* _merged_tuning: the snapshot of every application, one candidate over it.
Paste(p, a, k) ==
    /\ Begin(p, "paste", a, TRUE)
    /\ base' = [base EXCEPT ![p] = Snapshot(live)]
    /\ got' = [got EXCEPT ![p] = [Snapshot(live) EXCEPT ![a] = k]]
    /\ pc' = [pc EXCEPT ![p] = "write"]
    /\ UNCHANGED edit

\* A defect to tell apart: a text that names the candidate's application only.
PasteBack_TouchedOnly(p) ==
    /\ kind[p] = "paste"
    /\ Begin(p, "back", app[p], TRUE)
    /\ got' = [got EXCEPT ![p] = WithEntry(NoTuning, app[p], base[p][app[p]])]
    /\ pc' = [pc EXCEPT ![p] = "write"]
    /\ UNCHANGED <<edit, base>>

\* The rollback text of the same candidate: the snapshot as it was.
PasteBack(p) ==
    /\ kind[p] = "paste"
    /\ Begin(p, "back", app[p], TRUE)
    /\ got' = [got EXCEPT ![p] = base[p]]
    /\ pc' = [pc EXCEPT ![p] = "write"]
    /\ UNCHANGED <<edit, base>>

\* WriteAllText opens the file for itself, and empties it first.
Truncate(p) ==
    /\ pc[p] = "write"
    /\ IF \E q \in Procs : pc[q] = "fill"
       THEN pc' = [pc EXCEPT ![p] = "failed"] /\ UNCHANGED file
       ELSE pc' = [pc EXCEPT ![p] = "fill"] /\ file' = Torn
    /\ UNCHANGED <<live, lock, command, got, planned, commands, aux_alone, aux_before>>

\* A defect to tell apart: the apply is skipped and reported as done.
Applying_Never(p) == "ok"

Applying(p) == IF terraform[p] THEN "tfvars" ELSE "ok"

Fill(p) ==
    /\ pc[p] = "fill"
    /\ file' = Written(got[p])
    /\ pc' = [pc EXCEPT ![p] = Applying(p)]
    /\ UNCHANGED <<live, lock, command, got, planned, commands, aux_alone, aux_before>>

\* Remove-Item -Force
Remove(p) ==
    /\ pc[p] = "remove"
    /\ IF \E q \in Procs : pc[q] = "fill"
       THEN pc' = [pc EXCEPT ![p] = "failed"] /\ UNCHANGED file
       ELSE pc' = [pc EXCEPT ![p] = Applying(p)] /\ file' = Written(NoTuning)
    /\ UNCHANGED <<live, lock, command, got, planned, commands, aux_alone, aux_before>>

\* The texts pass each target as one unquoted word, -target=a.b.  PowerShell
\* makes two words of it, and terraform ends on its command line.
TerraformRefuses(p) ==
    /\ pc[p] = "tfvars" /\ kind[p] \in Texts
    /\ pc' = [pc EXCEPT ![p] = "refused"]
    /\ UNCHANGED <<cluster, command, got, planned, commands, aux_alone, aux_before>>

\* Terraform reads the variable files before it takes the state lock.
TerraformReads(p) ==
    /\ pc[p] = "tfvars" /\ kind[p] \notin Texts
    /\ planned' = [planned EXCEPT ![p] = file.map]
    /\ pc' = [pc EXCEPT ![p] = IF file.whole THEN "lock" ELSE "failed"]
    /\ UNCHANGED <<cluster, command, got, commands, aux_alone, aux_before>>

TerraformLocks(p) ==
    /\ pc[p] = "lock"
    /\ IF lock = NoProc
       THEN pc' = [pc EXCEPT ![p] = "apply"] /\ lock' = p
       ELSE pc' = [pc EXCEPT ![p] = "failed"] /\ UNCHANGED lock
    /\ UNCHANGED <<file, live, command, got, planned, commands, aux_alone, aux_before>>

TerraformApplies(p) ==
    /\ pc[p] = "apply"
    /\ \/ ApplySucceeds(live, planned[p], live') /\ pc' = [pc EXCEPT ![p] = "ok"]
       \/ ApplyFails(live, planned[p], live') /\ pc' = [pc EXCEPT ![p] = "failed"]
    /\ lock' = NoProc
    /\ UNCHANGED <<file, command, got, planned, commands, aux_alone, aux_before>>

\* The prompt is back, and the operator has read how the command ended.  Only
\* the two pasted texts of a candidate outlive their command.
Return(p) ==
    /\ pc[p] \in {"ok", "nothing", "failed", "refused"}
    /\ pc' = [pc EXCEPT ![p] = "idle"]
    /\ edit' = [edit EXCEPT ![p] = NoEntry]
    /\ got' = [got EXCEPT ![p] = NoTuning]
    /\ planned' = [planned EXCEPT ![p] = NoTuning]
    /\ aux_before' = [aux_before EXCEPT ![p] = NoTuning]
    /\ aux_alone' = [aux_alone EXCEPT ![p] = TRUE]
    /\ terraform' = [terraform EXCEPT ![p] = FALSE]
    /\ IF kind[p] = "paste"
       THEN UNCHANGED <<kind, app, base>>
       ELSE /\ kind' = [kind EXCEPT ![p] = "set"]
            /\ app' = [app EXCEPT ![p] = FirstApp]
            /\ base' = [base EXCEPT ![p] = Defaults]
    /\ UNCHANGED <<cluster, commands>>

\* The shell is closed: what it was doing stops where it is.
Kill(p) ==
    /\ pc[p] \in {"write", "fill", "remove", "tfvars", "lock", "apply"}
    /\ pc' = [pc EXCEPT ![p] = "failed"]
    /\ lock' = IF lock = p THEN NoProc ELSE lock
    /\ UNCHANGED <<file, live, command, got, planned, commands, aux_alone, aux_before>>

\* kubectl patch by hand, past Terraform.
Drift ==
    /\ commands < MaxCommands
    /\ commands' = commands + 1
    /\ \E a \in Apps, k \in Knobs : live' = [live EXCEPT ![a] = k]
    /\ aux_alone' = [p \in Procs |-> aux_alone[p] /\ p \notin Active]
    /\ UNCHANGED <<file, lock, command, pc, got, planned, aux_before>>

Command(p) ==
    \/ \E a \in Apps, tf \in BOOLEAN : Set(p, a, tf) \/ Drop(p, a, tf)
    \/ \E tf \in BOOLEAN : Clear(p, tf)
    \/ \E a \in Apps, k \in Knobs : Paste(p, a, k)
    \/ PasteBack(p)

Proceed(p) ==
    \/ Truncate(p) \/ Fill(p) \/ Remove(p)
    \/ TerraformRefuses(p) \/ TerraformReads(p) \/ TerraformLocks(p)
    \/ TerraformApplies(p) \/ Return(p)

Quiescent == Active = {} /\ UNCHANGED vars

Next == Drift \/ (\E p \in Procs : Command(p) \/ Proceed(p) \/ Kill(p)) \/ Quiescent

Spec == Init /\ [][Next]_vars

\* Only these commands change the cluster, and it starts as the file says.
SyncedSpec ==
    /\ Init /\ file.whole /\ live = Effective(file.map)
    /\ [][Next /\ ~Drift]_vars

----------------------------------------------------------------------------

\* Types of the shells' variables, of the file and of the cluster.
TypeOK ==
    /\ file \in File
    /\ live \in Cluster
    /\ pc \in [Procs -> Pcs]
    /\ kind \in [Procs -> Kinds]
    /\ app \in [Procs -> Apps]
    /\ terraform \in [Procs -> BOOLEAN]
    /\ edit \in [Procs -> Entry]
    /\ got \in [Procs -> Tuning]
    /\ base \in [Procs -> Cluster]
    /\ planned \in [Procs -> Tuning]
    /\ lock \in Procs \cup {NoProc}
    /\ commands \in 0..MaxCommands
    /\ aux_alone \in [Procs -> BOOLEAN]
    /\ aux_before \in [Procs -> Tuning]

Ended(p, kinds) == pc[p] = "ok" /\ kind[p] \in kinds /\ aux_alone[p]

\* An apply covers every application: the others have what the file had listed
\* for them, recorded by whatever came before.
OthersAsRecorded(p) ==
    \A a \in Apps \ {app[p]} : live[a] = Effective(aux_before[p])[a]

\* A command that ran alone, with -RunTerraform and successfully has given the
\* cluster every value it was asked for, whatever was recorded or patched
\* before it.  It also brings in what was only recorded for the others, that
\* of a text whose apply was refused included.
SetTakesEffect ==
    \A p \in Procs : Ended(p, {"set"}) /\ terraform[p] =>
        /\ \A f \in Fields : edit[p][f] # Absent => live[app[p]][f] = edit[p][f]
        /\ OthersAsRecorded(p)

\* rollback.ps1:9-10: after a removal that was applied the application is back
\* at its terraform.tfvars values and the others have what was recorded for
\* them; after the whole file's, every application is back.
RemovalTakesEffect ==
    \A p \in Procs :
        /\ Ended(p, {"drop"}) /\ terraform[p] =>
              live[app[p]] = Defaults[app[p]] /\ OthersAsRecorded(p)
        /\ Ended(p, {"clear"}) /\ terraform[p] => live = Defaults

\* The engine's rollback text, pasted alone and not cut off, leaves a file that
\* is the snapshot whole, whatever was recorded since: the next apply, of
\* whichever command, brings every application back to it.
BackRecorded ==
    \A p \in Procs : pc[p] = "refused" /\ kind[p] = "back" /\ aux_alone[p] =>
        file.whole /\ Effective(file.map) = base[p]

\* apply.ps1 -App and rollback.ps1 -App never lose the other applications'
\* entries in silence: they are as they were found, or the command failed and
\* what it left does not parse.
OthersKept ==
    \A p \in Procs :
        pc[p] \in {"ok", "nothing", "failed"} /\ kind[p] \in {"set", "drop"} /\ aux_alone[p]
            => \/ \A a \in Apps \ {app[p]} : file.map[a] = aux_before[p][a]
               \/ pc[p] = "failed" /\ ~file.whole

\* 0 means "leave it" to apply.ps1, and no command records or applies a zero,
\* commands that overtake each other included.
NothingZero ==
    \A a \in Apps, f \in Fields : file.map[a][f] # 0 /\ live[a][f] # 0

----------------------------------------------------------------------------
\* What the documents say and the code does not do.

\* tuning_engine.py:1264-1265: the rollback is exact, and the file tells which
\* settings the cluster runs.  Of a rollback text that ran to its end, alone.
BackRestores ==
    \A p \in Procs : pc[p] \in {"ok", "refused"} /\ kind[p] = "back" /\ aux_alone[p] =>
        live = base[p] /\ live = Effective(file.map)

=============================================================================
