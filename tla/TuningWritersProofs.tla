------------------------ MODULE TuningWritersProofs ------------------------
(***************************************************************************)
(* The commands beside optimize.ps1, for any applications, shells, edits,  *)
(* settings, files and clusters to begin with, and any number of commands. *)
(*                                                                         *)
(* A command that has been alone so far (Alone) is described by what it    *)
(* read when it began: the map in its hands is its own change of the file  *)
(* it found (Intends), and the file, the map that Terraform read and the   *)
(* cluster are as far on the way to that map as its next statement says    *)
(* (Reached).  What the file held, or the cluster, drops out: an apply     *)
(* that succeeds covers every application.                                 *)
(***************************************************************************)
EXTENDS TuningWriters, TuningStoreLemmas

\* p's map is its command's change of the file that it found.
Intends(p) ==
    /\ kind[p] = "set" =>
          got[p] = WithEntry(aux_before[p], app[p], Merged(aux_before[p][app[p]], edit[p]))
    /\ kind[p] = "clear" => got[p] = NoTuning
    /\ kind[p] = "drop" => got[p] = Without(aux_before[p], app[p])
    /\ kind[p] = "back" => got[p] = base[p] /\ terraform[p]
    /\ pc[p] = "remove" => got[p] = NoTuning

\* How far the file and the cluster are, by p's next statement.
Reached(p) ==
    /\ pc[p] \in {"write", "remove", "nothing"} => file.map = aux_before[p]
    /\ pc[p] = "fill" => file = Torn
    /\ pc[p] \in {"tfvars", "lock", "apply", "ok", "refused"} => file = Written(got[p])
    /\ pc[p] \in {"lock", "apply"} => planned[p] = got[p]
    /\ pc[p] = "ok" /\ terraform[p] => live = Effective(got[p])
    /\ pc[p] = "failed" => file = Torn \/ file.map \in {aux_before[p], got[p]}

Alone(p) == p \in Active /\ aux_alone[p]

Intended == \A p \in Active : Intends(p)
AloneReached == \A p \in Procs : Alone(p) => Active = {p} /\ Reached(p)

WritersInv == TypeOK /\ Intended /\ AloneReached

\* The four ways to change a map lead to maps.
LEMMA ChangeTypes ==
    ASSUME NEW map \in Tuning, NEW a \in Apps, NEW e \in Entry
    PROVE  /\ Merged(map[a], e) \in Entry
           /\ WithEntry(map, a, Merged(map[a], e)) \in Tuning
           /\ Without(map, a) \in Tuning
           /\ NoTuning \in Tuning /\ NoEntry \in Entry
<1>1. map[a] \in Entry /\ NoEntry \in Entry
  BY NoEntryIsEntry DEF Tuning
<1>2. Merged(map[a], e) \in Entry
  BY <1>1 DEF Merged, Entry
<1> QED BY <1>1, <1>2 DEF WithEntry, Without, NoTuning, Tuning

LEMMA KnobTypes ==
    ASSUME NEW a \in Apps, NEW k \in Knobs, NEW config \in Cluster
    PROVE  [config EXCEPT ![a] = k] \in Cluster /\ [config EXCEPT ![a] = k] \in Tuning
<1>1. k \in Settings
  BY KnobsAssumption
<1>2. [config EXCEPT ![a] = k] \in Cluster
  BY <1>1 DEF Cluster
<1> QED BY <1>2, ClusterIsTuning

\* A snapshot is a cluster's settings with every field positive.
LEMMA SnapshotValue ==
    ASSUME NEW config \in Cluster
    PROVE  /\ Snapshot(config) \in Cluster
           /\ \A a \in Apps, f \in Fields : Snapshot(config)[a][f] # 0
<1>1. ASSUME NEW a \in Apps, NEW f \in Fields
      PROVE  Snapshot(config)[a][f] \in Nat /\ Snapshot(config)[a][f] # 0
  <2>1. config[a][f] \in Nat /\ config[a]["min"] \in Nat
    BY DEF Cluster, Settings, Fields
  <2>2. Fallback(config[a])[f] \in Nat /\ Fallback(config[a])[f] # 0
    BY <2>1 DEF Fallback, Fields
  <2> QED BY <2>1, <2>2 DEF Snapshot
<1>2. \A a \in Apps : Snapshot(config)[a] \in [Fields -> Nat]
  BY <1>1 DEF Snapshot
<1> QED BY <1>1, <1>2 DEF Snapshot, Cluster, Settings

LEMMA FirstAppType == FirstApp \in Apps
BY AppsAssumption DEF FirstApp

LEMMA NothingListed ==
    ASSUME NEW map \in Tuning, Listed(map) = {}
    PROVE  map = NoTuning
<1>1. \A a \in Apps : map[a] = NoEntry
  BY NotRecorded DEF Listed, Tuning
<1> QED BY <1>1 DEF NoTuning, Tuning

(***************************************************************************)
(* Types.                                                                  *)
(***************************************************************************)

\* What the first statement of a command leaves to its own action.
LEMMA BeginTyped ==
    ASSUME TypeOK, NEW p \in Procs, NEW k \in Kinds, NEW a \in Apps, NEW tf \in BOOLEAN,
           Begin(p, k, a, tf), pc' \in [Procs -> Pcs], edit' \in [Procs -> Entry],
           got' \in [Procs -> Tuning], base' \in [Procs -> Cluster]
    PROVE  TypeOK'
<1> USE DEF TypeOK, Begin
<1>1. file.map \in Tuning
  BY DEF File
<1>2. aux_before' \in [Procs -> Tuning] /\ commands' \in 0..MaxCommands
  BY <1>1, MaxCommandsAssumption
<1>3. aux_alone' \in [Procs -> BOOLEAN]
  BY Zenon
<1>4. kind' \in [Procs -> Kinds] /\ app' \in [Procs -> Apps] /\ terraform' \in [Procs -> BOOLEAN]
  BY Zenon
<1>5. UNCHANGED <<file, live, lock, planned>>
  BY DEF cluster
<1> QED BY <1>2, <1>3, <1>4, <1>5

LEMMA CommandTyped == ASSUME TypeOK, NEW p \in Procs, Command(p) PROVE TypeOK'
<1>0. /\ file.map \in Tuning /\ live \in Cluster /\ Defaults \in Cluster
      /\ pc \in [Procs -> Pcs] /\ got \in [Procs -> Tuning] /\ base \in [Procs -> Cluster]
      /\ edit \in [Procs -> Entry] /\ app \in [Procs -> Apps]
  BY DefaultsAssumption DEF TypeOK, File
<1>1. ASSUME NEW a \in Apps, NEW tf \in BOOLEAN, Set(p, a, tf) PROVE TypeOK'
  <2>1. PICK e \in Edits :
          /\ edit' = [edit EXCEPT ![p] = e]
          /\ got' = [got EXCEPT ![p] = WithEntry(file.map, a, Merged(file.map[a], e))]
    BY <1>1 DEF Set
  <2>2. edit' \in [Procs -> Entry] /\ got' \in [Procs -> Tuning]
    <3>1. e \in Entry
      BY EditsAssumption
    <3> QED BY <1>0, <2>1, <3>1, ChangeTypes
  <2>3. pc' \in [Procs -> Pcs] /\ base' \in [Procs -> Cluster]
    BY <1>0, <1>1 DEF Set, Pcs
  <2>4. Begin(p, "set", a, tf) /\ "set" \in Kinds
    BY <1>1 DEF Set, Kinds
  <2> QED BY <2>2, <2>3, <2>4, BeginTyped
<1>2. ASSUME NEW a \in Apps, NEW tf \in BOOLEAN, Drop(p, a, tf) PROVE TypeOK'
  <2>1. got' = [got EXCEPT ![p] = Without(file.map, a)]
    BY <1>2 DEF Drop
  <2>2. got' \in [Procs -> Tuning]
    BY <1>0, <2>1, ChangeTypes, NoEntryIsEntry
  <2>3. pc' \in [Procs -> Pcs] /\ base' \in [Procs -> Cluster] /\ edit' = edit
    BY <1>0, <1>2 DEF Drop, Pcs
  <2>4. Begin(p, "drop", a, tf) /\ "drop" \in Kinds
    BY <1>2 DEF Drop, Kinds
  <2> QED BY <1>0, <2>2, <2>3, <2>4, BeginTyped
<1>3. ASSUME NEW tf \in BOOLEAN, Clear(p, tf) PROVE TypeOK'
  <2>1. got' \in [Procs -> Tuning]
    BY <1>0, <1>3, NoEntryIsEntry DEF Clear, NoTuning, Tuning
  <2>2. pc' \in [Procs -> Pcs] /\ base' \in [Procs -> Cluster] /\ edit' = edit
    BY <1>0, <1>3 DEF Clear, Pcs
  <2>3. Begin(p, "clear", FirstApp, tf) /\ "clear" \in Kinds
    BY <1>3 DEF Clear, Kinds
  <2> QED BY <1>0, <2>1, <2>2, <2>3, FirstAppType, BeginTyped
<1>4. ASSUME NEW a \in Apps, NEW k \in Knobs, Paste(p, a, k) PROVE TypeOK'
  <2>0. Snapshot(live) \in Cluster
    BY <1>0, SnapshotValue
  <2>1. got' \in [Procs -> Tuning]
    BY <1>0, <1>4, <2>0, KnobTypes DEF Paste
  <2>2. pc' \in [Procs -> Pcs] /\ base' \in [Procs -> Cluster] /\ edit' = edit
    BY <1>0, <1>4, <2>0 DEF Paste, Pcs
  <2>3. Begin(p, "paste", a, TRUE) /\ "paste" \in Kinds
    BY <1>4 DEF Paste, Kinds
  <2> QED BY <1>0, <2>1, <2>2, <2>3, BeginTyped
<1>5. CASE PasteBack(p)
  <2>1. got' \in [Procs -> Tuning]
    BY <1>0, <1>5, ClusterIsTuning DEF PasteBack
  <2>2. pc' \in [Procs -> Pcs] /\ base' = base /\ edit' = edit
    BY <1>0, <1>5 DEF PasteBack, Pcs
  <2>3. Begin(p, "back", app[p], TRUE) /\ "back" \in Kinds
    BY <1>5 DEF PasteBack, Kinds
  <2> QED BY <1>0, <2>1, <2>2, <2>3, BeginTyped
<1> QED BY <1>1, <1>2, <1>3, <1>4, <1>5 DEF Command

LEMMA ProceedTyped == ASSUME TypeOK, NEW p \in Procs, Proceed(p) PROVE TypeOK'
<1> USE DEF TypeOK, command, Pcs
<1>0. file.map \in Tuning /\ got[p] \in Tuning /\ planned[p] \in Tuning /\ NoTuning \in Tuning
  BY NoEntryIsEntry DEF File, NoTuning, Tuning
<1>1. CASE Truncate(p)
  <2>1. pc' \in [Procs -> Pcs]
    BY <1>1 DEF Truncate
  <2>2. file' \in File
    BY <1>0, <1>1, FileTypes DEF Truncate
  <2> QED BY <1>1, <2>1, <2>2 DEF Truncate
<1>2. CASE Fill(p)
  BY <1>0, <1>2, FileTypes DEF Fill, Applying
<1>3. CASE Remove(p)
  BY <1>0, <1>3, FileTypes DEF Remove, Applying
<1>4. CASE TerraformReads(p) \/ TerraformRefuses(p)
  BY <1>0, <1>4 DEF TerraformReads, TerraformRefuses, cluster
<1>5. CASE TerraformLocks(p)
  BY <1>5 DEF TerraformLocks
<1>6. CASE TerraformApplies(p)
  <2>1. live' \in Cluster
    <3>1. CASE ApplySucceeds(live, planned[p], live')
      BY <1>0, <3>1, ApplySucceedsExact, EffectiveType
    <3>2. CASE ApplyFails(live, planned[p], live')
      BY <1>0, <3>2, ApplyFailsBetween
    <3> QED BY <1>6, <3>1, <3>2 DEF TerraformApplies
  <2>2. pc' \in [Procs -> Pcs]
    BY <1>6 DEF TerraformApplies
  <2> QED BY <1>6, <2>1, <2>2 DEF TerraformApplies
<1>7. CASE Return(p)
  <2>1. /\ pc' \in [Procs -> Pcs] /\ aux_alone' \in [Procs -> BOOLEAN]
        /\ terraform' \in [Procs -> BOOLEAN]
    BY <1>7 DEF Return
  <2>2. /\ edit' \in [Procs -> Entry] /\ got' \in [Procs -> Tuning]
        /\ planned' \in [Procs -> Tuning] /\ aux_before' \in [Procs -> Tuning]
    BY <1>0, <1>7, NoEntryIsEntry DEF Return
  <2>3. /\ kind' \in [Procs -> Kinds] /\ app' \in [Procs -> Apps]
        /\ base' \in [Procs -> Cluster]
    BY <1>7, FirstAppType, DefaultsAssumption DEF Return, Kinds
  <2>4. UNCHANGED <<file, live, lock, commands>>
    BY <1>7 DEF Return, cluster
  <2> QED BY <2>1, <2>2, <2>3, <2>4
<1> QED BY <1>1, <1>2, <1>3, <1>4, <1>5, <1>6, <1>7 DEF Proceed

LEMMA DriftTyped == ASSUME TypeOK, Drift PROVE TypeOK'
<1> USE DEF TypeOK
<1>1. live' \in Cluster
  <2>1. \A a \in Apps, k \in Knobs : [live EXCEPT ![a] = k] \in Cluster
    BY KnobTypes
  <2> QED BY <2>1 DEF Drift
<1>2. aux_alone' \in [Procs -> BOOLEAN] /\ commands' \in 0..MaxCommands
  BY MaxCommandsAssumption DEF Drift
<1> QED BY <1>1, <1>2 DEF Drift, command

LEMMA WritersTyped == TypeOK /\ [Next]_vars => TypeOK'
<1> SUFFICES ASSUME TypeOK, [Next]_vars PROVE TypeOK'
  OBVIOUS
<1>1. ASSUME NEW p \in Procs, Kill(p) PROVE TypeOK'
  BY <1>1 DEF Kill, TypeOK, command, Pcs
<1>2. CASE UNCHANGED vars
  BY <1>2 DEF vars, cluster, command, TypeOK
<1> QED BY <1>1, <1>2, CommandTyped, ProceedTyped, DriftTyped DEF Next, Quiescent

(***************************************************************************)
(* The commands that are alone.                                            *)
(***************************************************************************)

LEMMA WritersStart == Init => WritersInv
<1> SUFFICES ASSUME Init PROVE WritersInv
  OBVIOUS
<1>1. file \in File /\ live \in Cluster
  BY InitAssumption DEF Init
<1>2. NoEntry \in Entry /\ NoTuning \in Tuning /\ FirstApp \in Apps
  BY NoEntryIsEntry, FirstAppType DEF NoTuning, Tuning
<1>3. TypeOK
  BY <1>1, <1>2, DefaultsAssumption, MaxCommandsAssumption DEF Init, TypeOK, Pcs, Kinds
<1>4. Active = {}
  BY DEF Init, Active
<1> QED BY <1>3, <1>4 DEF WritersInv, Intended, AloneReached, Alone

\* A command that begins is alone or not; no other one is any more.
LEMMA BeginAlone ==
    ASSUME WritersInv, NEW p \in Procs, NEW k, NEW a, NEW tf, Begin(p, k, a, tf),
           NEW x, x # "idle", pc' = [pc EXCEPT ![p] = x],
           Intends(p)', aux_alone'[p] => Reached(p)',
           \A q \in Procs \ {p} : got'[q] = got[q] /\ base'[q] = base[q] /\ edit'[q] = edit[q]
    PROVE  Intended' /\ AloneReached'
<1> USE DEF WritersInv, TypeOK
<1>1. pc[p] = "idle" /\ Active' = Active \cup {p}
  BY DEF Begin, Active
<1>2. aux_alone' = [q \in Procs |-> IF q = p THEN Active = {} ELSE aux_alone[q] /\ q \notin Active]
  BY DEF Begin
<1>3. Intended'
  <2> SUFFICES ASSUME NEW q \in Procs, q \in Active, q # p PROVE Intends(q)'
    BY <1>1 DEF Intended, Active
  <2>1. Intends(q)
    BY DEF Intended
  <2>2. /\ kind'[q] = kind[q] /\ app'[q] = app[q] /\ terraform'[q] = terraform[q]
        /\ aux_before'[q] = aux_before[q] /\ pc'[q] = pc[q]
    BY DEF Begin
  <2> QED BY <2>1, <2>2 DEF Intends
<1>4. AloneReached'
  <2> SUFFICES ASSUME NEW q \in Procs, q \in Active', aux_alone'[q]
               PROVE  Active' = {q} /\ Reached(q)'
    BY DEF AloneReached, Alone
  <2>1. q = p
    BY <1>1, <1>2
  <2>2. Active = {}
    BY <1>2, <2>1
  <2> QED BY <1>1, <2>1, <2>2
<1> QED BY <1>3, <1>4

LEMMA CommandAlone ==
    ASSUME WritersInv, NEW p \in Procs, Command(p)
    PROVE  Intended' /\ AloneReached'
<1> USE DEF WritersInv, TypeOK
<1>0. /\ file.map \in Tuning
      /\ \A k, a, tf : Begin(p, k, a, tf) =>
            /\ file' = file
            /\ kind'[p] = k /\ app'[p] = a /\ terraform'[p] = tf
            /\ aux_before'[p] = file.map
  BY DEF File, Begin, cluster
<1>1. ASSUME NEW a \in Apps, NEW tf \in BOOLEAN, Set(p, a, tf)
      PROVE  Intended' /\ AloneReached'
  <2>1. PICK e \in Edits :
          /\ edit' = [edit EXCEPT ![p] = e]
          /\ got' = [got EXCEPT ![p] = WithEntry(file.map, a, Merged(file.map[a], e))]
    BY <1>1 DEF Set
  <2> DEFINE x == IF file.whole THEN "write" ELSE "failed"
  <2>2. /\ Begin(p, "set", a, tf) /\ base' = [base EXCEPT ![p] = Defaults]
        /\ pc' = [pc EXCEPT ![p] = x]
    BY <1>1 DEF Set
  <2>3. Intends(p)'
    BY <1>0, <2>1, <2>2 DEF Intends
  <2>4. Reached(p)'
    BY <1>0, <2>2 DEF Reached
  <2>5. x # "idle"
    OBVIOUS
  <2> HIDE DEF x
  <2> QED BY <2>1, <2>2, <2>3, <2>4, <2>5, BeginAlone
<1>2. ASSUME NEW a \in Apps, NEW tf \in BOOLEAN, Drop(p, a, tf)
      PROVE  Intended' /\ AloneReached'
  <2> DEFINE rest == Without(file.map, a)
             x == IF ~FileThere THEN "nothing"
                  ELSE IF ~file.whole THEN "failed"
                  ELSE IF Listed(rest) = {} THEN "remove" ELSE "write"
  <2>1. /\ Begin(p, "drop", a, tf) /\ base' = [base EXCEPT ![p] = Defaults]
        /\ got' = [got EXCEPT ![p] = rest] /\ edit' = edit
        /\ pc' = [pc EXCEPT ![p] = x]
    BY <1>2 DEF Drop
  <2>2. rest \in Tuning
    BY <1>0, ChangeTypes, NoEntryIsEntry
  <2>3. Intends(p)'
    <3>1. x = "remove" => rest = NoTuning
      BY <2>2, NothingListed
    <3>2. pc'[p] = x /\ got'[p] = rest /\ kind'[p] = "drop" /\ app'[p] = a
          /\ aux_before'[p] = file.map
      BY <1>0, <2>1
    <3> HIDE DEF x
    <3> QED BY <3>1, <3>2 DEF Intends
  <2>4. Reached(p)'
    <3>1. x \in {"nothing", "failed", "remove", "write"}
      OBVIOUS
    <3> HIDE DEF x
    <3> QED BY <1>0, <2>1, <3>1 DEF Reached
  <2>5. x # "idle"
    OBVIOUS
  <2> HIDE DEF x
  <2> QED BY <2>1, <2>3, <2>4, <2>5, BeginAlone
<1>3. ASSUME NEW tf \in BOOLEAN, Clear(p, tf)
      PROVE  Intended' /\ AloneReached'
  <2> DEFINE x == IF FileThere THEN "remove" ELSE "nothing"
  <2>1. /\ Begin(p, "clear", FirstApp, tf) /\ base' = [base EXCEPT ![p] = Defaults]
        /\ got' = [got EXCEPT ![p] = NoTuning] /\ edit' = edit
        /\ pc' = [pc EXCEPT ![p] = x]
    BY <1>3 DEF Clear
  <2>2. Intends(p)'
    BY <1>0, <2>1 DEF Intends
  <2>3. Reached(p)'
    BY <1>0, <2>1 DEF Reached
  <2>4. x # "idle"
    OBVIOUS
  <2> HIDE DEF x
  <2> QED BY <2>1, <2>2, <2>3, <2>4, BeginAlone
<1>4. ASSUME NEW a \in Apps, NEW k \in Knobs, Paste(p, a, k)
      PROVE  Intended' /\ AloneReached'
  <2>1. /\ Begin(p, "paste", a, TRUE) /\ base' = [base EXCEPT ![p] = Snapshot(live)]
        /\ got' = [got EXCEPT ![p] = [Snapshot(live) EXCEPT ![a] = k]] /\ edit' = edit
        /\ pc' = [pc EXCEPT ![p] = "write"]
    BY <1>4 DEF Paste
  <2>2. Intends(p)'
    <3>1. kind'[p] = "paste" /\ pc'[p] = "write"
      BY <1>0, <2>1
    <3> QED BY <3>1 DEF Intends
  <2>3. Reached(p)'
    BY <1>0, <2>1 DEF Reached
  <2> QED BY <2>1, <2>2, <2>3, BeginAlone
<1>5. CASE PasteBack(p)
  <2>1. /\ Begin(p, "back", app[p], TRUE) /\ base' = base
        /\ got' = [got EXCEPT ![p] = base[p]] /\ edit' = edit
        /\ pc' = [pc EXCEPT ![p] = "write"]
    BY <1>5 DEF PasteBack
  <2>2. Intends(p)'
    <3>1. kind'[p] = "back" /\ terraform'[p] /\ pc'[p] = "write"
      BY <1>0, <2>1
    <3>2. got'[p] = base'[p]
      BY <2>1
    <3> QED BY <3>1, <3>2 DEF Intends
  <2>3. Reached(p)'
    BY <1>0, <2>1 DEF Reached
  <2> QED BY <2>1, <2>2, <2>3, BeginAlone
<1> QED BY <1>1, <1>2, <1>3, <1>4, <1>5 DEF Command

\* A later statement of a command that may be alone or not.
LEMMA GoOnAlone ==
    ASSUME WritersInv, NEW p \in Active, NEW x, pc' = [pc EXCEPT ![p] = x], x \notin {"idle", "remove"},
           UNCHANGED <<command, got, aux_alone, aux_before>>,
           Intends(p) /\ Reached(p) => Reached(p)'
    PROVE  Intended' /\ AloneReached'
<1> USE DEF WritersInv, TypeOK
<1>1. p \in Procs /\ Active' = Active
  BY DEF Active
<1>2. Intended'
  <2> SUFFICES ASSUME NEW q \in Active PROVE Intends(q)'
    BY <1>1 DEF Intended
  <2>1. Intends(q) /\ (pc'[q] = "remove" => pc[q] = "remove")
    BY <1>1 DEF Intended, Active
  <2> QED BY <2>1 DEF Intends, command
<1>3. AloneReached'
  <2> SUFFICES ASSUME NEW q \in Procs, q \in Active, aux_alone[q]
               PROVE  Active = {q} /\ Reached(q)'
    BY <1>1 DEF AloneReached, Alone
  <2>1. Active = {q} /\ Reached(q)
    BY DEF AloneReached, Alone
  <2>2. q = p /\ Intends(p)
    BY <2>1 DEF Intended
  <2> QED BY <2>1, <2>2
<1> QED BY <1>2, <1>3

LEMMA ProceedAlone ==
    ASSUME WritersInv, NEW p \in Procs, Proceed(p) \/ Kill(p)
    PROVE  Intended' /\ AloneReached'
<1> USE DEF WritersInv, TypeOK
<1>0. file.map \in Tuning /\ got[p] \in Tuning
  BY DEF File
<1>1. CASE Truncate(p)
  <2>1. /\ p \in Active
        /\ UNCHANGED <<command, got, aux_alone, aux_before>>
        /\ \/ pc' = [pc EXCEPT ![p] = "failed"]
           \/ pc' = [pc EXCEPT ![p] = "fill"]
    BY <1>1 DEF Truncate, Active
  <2>2. pc[p] = "write" /\ (pc' = [pc EXCEPT ![p] = "fill"] => file' = Torn)
        /\ (pc' = [pc EXCEPT ![p] = "failed"] => file' = file)
    BY <1>1 DEF Truncate
  <2>3. Reached(p) => Reached(p)'
    BY <2>1, <2>2 DEF Reached
  <2> QED BY <2>1, <2>3, GoOnAlone
<1>2. CASE Fill(p)
  <2>1. /\ p \in Active /\ UNCHANGED <<command, got, aux_alone, aux_before>>
        /\ pc' = [pc EXCEPT ![p] = Applying(p)]
    BY <1>2 DEF Fill, Active
  <2>2. Applying(p) \in {"tfvars", "ok"} /\ (Applying(p) = "ok" => ~terraform[p])
    BY DEF Applying
  <2>3. Reached(p)'
    BY <1>2, <2>1, <2>2 DEF Fill, Reached, command
  <2> QED BY <2>1, <2>2, <2>3, GoOnAlone
<1>3. CASE Remove(p)
  <2>1. pc[p] = "remove" /\ p \in Active /\ UNCHANGED <<command, got, aux_alone, aux_before>>
    BY <1>3 DEF Remove, Active
  <2>2. CASE pc' = [pc EXCEPT ![p] = "failed"] /\ file' = file
    <3>1. Reached(p) => Reached(p)'
      BY <2>1, <2>2 DEF Reached
    <3> QED BY <2>1, <2>2, <3>1, GoOnAlone
  <2>3. CASE pc' = [pc EXCEPT ![p] = Applying(p)] /\ file' = Written(NoTuning)
    <3>1. Applying(p) \in {"tfvars", "ok"} /\ (Applying(p) = "ok" => ~terraform[p])
      BY DEF Applying
    <3>2. Intends(p) => Reached(p)'
      BY <2>1, <2>3, <3>1 DEF Intends, Reached, command
    <3> QED BY <2>1, <2>3, <3>1, <3>2, GoOnAlone
  <2> QED BY <1>3, <2>2, <2>3 DEF Remove
<1>4. CASE TerraformReads(p)
  <2> DEFINE x == IF file.whole THEN "lock" ELSE "failed"
  <2>1. /\ pc[p] = "tfvars" /\ p \in Active /\ UNCHANGED <<command, got, aux_alone, aux_before>>
        /\ pc' = [pc EXCEPT ![p] = x] /\ planned'[p] = file.map /\ file' = file
    BY <1>4 DEF TerraformReads, Active, cluster
  <2>2. Reached(p) => Reached(p)'
    BY <2>1 DEF Reached, Written
  <2>3. x \notin {"idle", "remove"}
    OBVIOUS
  <2> HIDE DEF x
  <2> QED BY <2>1, <2>2, <2>3, GoOnAlone
<1>9. CASE TerraformRefuses(p)
  <2>1. /\ pc[p] = "tfvars" /\ p \in Active /\ pc' = [pc EXCEPT ![p] = "refused"]
        /\ UNCHANGED <<file, live, command, got, planned, aux_alone, aux_before>>
    BY <1>9 DEF TerraformRefuses, Active, cluster
  <2>2. Reached(p) => Reached(p)'
    BY <2>1 DEF Reached
  <2> QED BY <2>1, <2>2, GoOnAlone
<1>5. CASE TerraformLocks(p)
  <2>1. /\ pc[p] = "lock" /\ p \in Active
        /\ UNCHANGED <<file, live, command, got, planned, aux_alone, aux_before>>
        /\ pc' = [pc EXCEPT ![p] = "apply"] \/ pc' = [pc EXCEPT ![p] = "failed"]
    BY <1>5 DEF TerraformLocks, Active
  <2>2. Reached(p) => Reached(p)'
    BY <2>1 DEF Reached, Written
  <2> QED BY <2>1, <2>2, GoOnAlone
<1>6. CASE TerraformApplies(p)
  <2>1. /\ pc[p] = "apply" /\ p \in Active
        /\ UNCHANGED <<file, command, got, planned, aux_alone, aux_before>>
        /\ \/ ApplySucceeds(live, planned[p], live') /\ pc' = [pc EXCEPT ![p] = "ok"]
           \/ pc' = [pc EXCEPT ![p] = "failed"]
    BY <1>6 DEF TerraformApplies, Active
  <2>2. ApplySucceeds(live, planned[p], live') => live' = Effective(planned[p])
    BY ApplySucceedsExact
  <2>3. Reached(p) => Reached(p)'
    BY <2>1, <2>2 DEF Reached, Written
  <2> QED BY <2>1, <2>3, GoOnAlone
<1>7. CASE Return(p)
  <2>1. /\ pc[p] # "idle" /\ pc' = [pc EXCEPT ![p] = "idle"]
        /\ \A q \in Procs \ {p} :
              /\ kind'[q] = kind[q] /\ app'[q] = app[q] /\ terraform'[q] = terraform[q]
              /\ edit'[q] = edit[q] /\ base'[q] = base[q] /\ got'[q] = got[q]
              /\ aux_alone'[q] = aux_alone[q] /\ aux_before'[q] = aux_before[q]
    BY <1>7 DEF Return
  <2>2. p \in Active /\ Active' = Active \ {p}
    BY <2>1 DEF Active
  <2>3. Intended'
    <3> SUFFICES ASSUME NEW q \in Active, q # p PROVE Intends(q)'
      BY <2>2 DEF Intended
    <3>1. Intends(q) /\ q \in Procs /\ pc'[q] = pc[q]
      BY <2>1 DEF Intended, Active
    <3> QED BY <2>1, <3>1 DEF Intends
  <2>4. AloneReached'
    <3> SUFFICES ASSUME NEW q \in Procs, q \in Active', aux_alone'[q] PROVE FALSE
      BY DEF AloneReached, Alone
    <3>1. q # p /\ q \in Active /\ aux_alone[q]
      BY <2>1, <2>2
    <3> QED BY <2>2, <3>1 DEF AloneReached, Alone
  <2> QED BY <2>3, <2>4
<1>8. CASE Kill(p)
  <2>1. /\ pc[p] \in {"write", "fill", "remove", "tfvars", "lock", "apply"}
        /\ p \in Active /\ pc' = [pc EXCEPT ![p] = "failed"]
        /\ UNCHANGED <<file, live, command, got, planned, aux_alone, aux_before>>
    BY <1>8 DEF Kill, Active
  <2>2. Reached(p) => Reached(p)'
    BY <2>1 DEF Reached, Written
  <2> QED BY <2>1, <2>2, GoOnAlone
<1> QED BY <1>1, <1>2, <1>3, <1>4, <1>5, <1>6, <1>7, <1>8, <1>9 DEF Proceed

LEMMA WritersStep == WritersInv /\ [Next]_vars => WritersInv'
<1> SUFFICES ASSUME WritersInv, [Next]_vars PROVE WritersInv'
  OBVIOUS
<1>1. TypeOK'
  BY WritersTyped DEF WritersInv
<1>2. CASE Drift
  <2>1. Active' = Active /\ UNCHANGED <<file, command, pc, got, planned, aux_before>>
    BY <1>2 DEF Drift, Active
  <2>2. \A p \in Procs : aux_alone'[p] => p \notin Active
    BY <1>2 DEF Drift
  <2>3. Intended'
    BY <2>1 DEF WritersInv, Intended, Intends, command
  <2>4. AloneReached'
    BY <2>1, <2>2 DEF AloneReached, Alone
  <2> QED BY <1>1, <2>3, <2>4 DEF WritersInv
<1>3. CASE UNCHANGED vars
  <2>1. Active' = Active
    BY <1>3 DEF vars, Active
  <2> QED BY <1>1, <1>3, <2>1
          DEF vars, cluster, command, WritersInv, Intended, Intends, AloneReached, Alone, Reached
<1> QED BY <1>1, <1>2, <1>3, CommandAlone, ProceedAlone DEF Next, Quiescent, WritersInv

LEMMA WritersInvariant == Spec => []WritersInv
BY WritersStart, WritersStep, PTL DEF Spec

\* What an ended, lone command knows.
LEMMA EndedKnows ==
    ASSUME WritersInv, NEW p \in Procs, NEW kinds, Ended(p, kinds)
    PROVE  /\ kind[p] \in kinds
           /\ Intends(p)
           /\ file = Written(got[p])
           /\ terraform[p] => live = Effective(got[p])
<1>1. Alone(p) /\ pc[p] = "ok" /\ kind[p] \in kinds
  BY DEF Ended, Alone, Active
<1> QED BY <1>1 DEF WritersInv, Intended, AloneReached, Alone, Reached

\* The shells' variables, the file and the cluster keep their types.
THEOREM CommandTypes == Spec => []TypeOK
<1>1. WritersInv => TypeOK
  BY DEF WritersInv
<1> QED BY <1>1, WritersInvariant, PTL

\* The change that a lone command on one application intends leaves the other
\* applications' entries.
LEMMA OthersIntended ==
    ASSUME WritersInv, NEW p \in Procs, Intends(p), kind[p] \in {"set", "drop"},
           NEW a \in Apps \ {app[p]}
    PROVE  got[p][a] = aux_before[p][a]
BY DEF Intends, WithEntry, Without, WritersInv, TypeOK, Tuning

\* So an apply brings the others to what had been recorded for them.
LEMMA OthersApplied ==
    ASSUME WritersInv, NEW p \in Procs, Ended(p, {"set", "drop"}), terraform[p]
    PROVE  OthersAsRecorded(p)
<1>1. Intends(p) /\ kind[p] \in {"set", "drop"} /\ live = Effective(got[p])
  BY EndedKnows
<1>2. \A a \in Apps \ {app[p]} : got[p][a] = aux_before[p][a]
  BY <1>1, OthersIntended
<1> QED BY <1>1, <1>2 DEF OthersAsRecorded, Effective

\* apply.ps1 -App with -RunTerraform: whatever was recorded or patched before,
\* the values that were given are in the cluster, and so is what had been
\* recorded for the other applications.
THEOREM SetApplied == Spec => []SetTakesEffect
<1>1. ASSUME WritersInv, NEW p \in Procs, Ended(p, {"set"}), terraform[p]
      PROVE  /\ \A f \in Fields : edit[p][f] # Absent => live[app[p]][f] = edit[p][f]
             /\ OthersAsRecorded(p)
  <2>1. /\ got[p] = WithEntry(aux_before[p], app[p], Merged(aux_before[p][app[p]], edit[p]))
        /\ live = Effective(got[p])
    BY <1>1, EndedKnows DEF Intends
  <2>2. app[p] \in Apps /\ aux_before[p] \in Tuning
    BY <1>1 DEF WritersInv, TypeOK
  <2>3. ASSUME NEW f \in Fields, edit[p][f] # Absent
        PROVE  live[app[p]][f] = edit[p][f]
    <3>1. got[p][app[p]][f] = edit[p][f]
      BY <2>1, <2>2, <2>3 DEF WithEntry, Merged, Tuning
    <3> QED BY <2>1, <2>2, <2>3, <3>1 DEF Effective
  <2>4. Ended(p, {"set", "drop"})
    BY <1>1 DEF Ended
  <2> QED BY <1>1, <2>3, <2>4, OthersApplied
<1>2. WritersInv => SetTakesEffect
  BY <1>1 DEF SetTakesEffect
<1> QED BY <1>2, WritersInvariant, PTL

\* rollback.ps1 and apply.ps1 -Clear: what was removed is back at the values
\* of terraform.tfvars, and the rest at what is recorded.
THEOREM RemovalApplied == Spec => []RemovalTakesEffect
<1>1. \A f \in Fields : NoEntry[f] = Absent
  BY DEF NoEntry
<1>2. ASSUME WritersInv, NEW p \in Procs, Ended(p, {"drop"}), terraform[p]
      PROVE  live[app[p]] = Defaults[app[p]] /\ OthersAsRecorded(p)
  <2>1. got[p] = Without(aux_before[p], app[p]) /\ live = Effective(got[p])
    BY <1>2, EndedKnows DEF Intends
  <2>2. app[p] \in Apps /\ aux_before[p] \in Tuning /\ Defaults[app[p]] \in [Fields -> Nat]
    BY <1>2, DefaultsAssumption DEF WritersInv, TypeOK, Cluster, Settings
  <2>3. got[p][app[p]] = NoEntry
    BY <2>1, <2>2 DEF Without, Tuning
  <2>4. live[app[p]] = [f \in Fields |-> Defaults[app[p]][f]]
    BY <1>1, <2>1, <2>2, <2>3 DEF Effective
  <2>5. Ended(p, {"set", "drop"})
    BY <1>2 DEF Ended
  <2> QED BY <1>2, <2>2, <2>4, <2>5, OthersApplied
<1>3. ASSUME WritersInv, NEW p \in Procs, Ended(p, {"clear"}), terraform[p]
      PROVE  live = Defaults
  <2>1. live = Effective(NoTuning)
    BY <1>3, EndedKnows DEF Intends
  <2>2. live = [a \in Apps |-> [f \in Fields |-> Defaults[a][f]]]
    BY <1>1, <2>1 DEF Effective, NoTuning
  <2> QED BY <2>2, DefaultsAssumption DEF Cluster, Settings
<1>4. WritersInv => RemovalTakesEffect
  BY <1>2, <1>3 DEF RemovalTakesEffect
<1> QED BY <1>4, WritersInvariant, PTL

\* The engine's rollback text: the file is the snapshot, for every application.
THEOREM SnapshotRecorded == Spec => []BackRecorded
<1>1. ASSUME WritersInv, NEW p \in Procs, pc[p] = "refused", kind[p] = "back", aux_alone[p]
      PROVE  file.whole /\ Effective(file.map) = base[p]
  <2>1. got[p] = base[p] /\ file = Written(got[p])
    BY <1>1 DEF WritersInv, Intended, AloneReached, Alone, Active, Intends, Reached
  <2>2. base[p] \in Cluster
    BY <1>1 DEF WritersInv, TypeOK
  <2>3. \A a \in Apps, f \in Fields : base[p][a][f] # Absent
    BY <2>2, AbsentAssumption DEF Cluster, Settings
  <2>4. Effective(base[p]) = [a \in Apps |-> [f \in Fields |-> base[p][a][f]]]
    BY <2>3 DEF Effective
  <2> QED BY <2>1, <2>2, <2>4 DEF Cluster, Settings, Written
<1>2. WritersInv => BackRecorded
  BY <1>1 DEF BackRecorded
<1> QED BY <1>2, WritersInvariant, PTL

\* The other applications' entries survive a command on one of them, or it
\* fails and the file that it was writing does not parse.
THEOREM OthersLeft == Spec => []OthersKept
<1>1. ASSUME WritersInv, NEW p \in Procs, pc[p] \in {"ok", "nothing", "failed"},
             kind[p] \in {"set", "drop"}, aux_alone[p]
      PROVE  \/ \A a \in Apps \ {app[p]} : file.map[a] = aux_before[p][a]
             \/ pc[p] = "failed" /\ ~file.whole
  <2>1. Intends(p) /\ Reached(p)
    BY <1>1 DEF WritersInv, Intended, AloneReached, Alone, Active
  <2>2. file.map = aux_before[p] \/ file.map = got[p] \/ (pc[p] = "failed" /\ file = Torn)
    BY <1>1, <2>1 DEF Reached, Written
  <2>3. \A a \in Apps \ {app[p]} : got[p][a] = aux_before[p][a]
    BY <1>1, <2>1, OthersIntended
  <2> QED BY <2>2, <2>3 DEF Torn
<1>2. WritersInv => OthersKept
  BY <1>1 DEF OthersKept
<1> QED BY <1>2, WritersInvariant, PTL

(***************************************************************************)
(* Zeros.  A shell may hold a map for long and write it over another's, so *)
(* the invariant speaks of everything that a shell holds.                  *)
(***************************************************************************)

Zeroless(map) == \A a \in Apps, f \in Fields : map[a][f] # 0

StartsZeroless ==
    /\ \A F \in InitFiles : Zeroless(F.map)
    /\ \A L \in InitClusters : Zeroless(L)
    /\ Zeroless(Defaults)

ZeroInv ==
    /\ Zeroless(file.map) /\ Zeroless(live)
    /\ \A p \in Procs : Zeroless(got[p]) /\ Zeroless(base[p]) /\ Zeroless(planned[p])

LEMMA NoTuningZeroless == Zeroless(NoTuning) /\ \A f \in Fields : NoEntry[f] # 0
BY AbsentAssumption DEF Zeroless, NoTuning, NoEntry

LEMMA ZerolessKnobs ==
    ASSUME NEW a \in Apps, NEW k \in Knobs, NEW config \in Cluster, Zeroless(config)
    PROVE  Zeroless([config EXCEPT ![a] = k])
<1>1. \A f \in Fields : k[f] # 0
  BY KnobsAssumption DEF HpaAccepted, Settings, Fields
<1> QED BY <1>1 DEF Zeroless, Cluster

LEMMA ZerolessEffective ==
    ASSUME NEW map \in Tuning, Zeroless(map), Zeroless(Defaults)
    PROVE  Zeroless(Effective(map))
BY DEF Zeroless, Effective

LEMMA CommandZeroless ==
    ASSUME TypeOK, ZeroInv, StartsZeroless, NEW p \in Procs, Command(p)
    PROVE  ZeroInv'
<1> USE DEF TypeOK
<1>0. file.map \in Tuning /\ file' = file /\ live' = live /\ planned' = planned
  BY DEF File, Command, Set, Drop, Clear, Paste, PasteBack, Begin, cluster
<1>1. SUFFICES ASSUME NEW g, NEW b, got' = [got EXCEPT ![p] = g], base' = [base EXCEPT ![p] = b]
               PROVE  Zeroless(g) /\ Zeroless(b)
  <2>1. \E g, b : got' = [got EXCEPT ![p] = g] /\ base' = [base EXCEPT ![p] = b]
    <3>1. base = [base EXCEPT ![p] = base[p]]
      OBVIOUS
    <3> QED BY <3>1 DEF Command, Set, Drop, Clear, Paste, PasteBack
  <2> QED BY <1>0, <2>1 DEF ZeroInv
<1>2. got'[p] = g /\ base'[p] = b
  BY <1>1
<1>3. ASSUME NEW a \in Apps, NEW tf \in BOOLEAN, Set(p, a, tf) PROVE Zeroless(g) /\ Zeroless(b)
  <2>1. PICK e \in Edits : got'[p] = WithEntry(file.map, a, Merged(file.map[a], e))
    BY <1>3 DEF Set
  <2>2. \A f \in Fields : e[f] # 0
    BY EditsAssumption
  <2>3. b = Defaults
    BY <1>2, <1>3 DEF Set
  <2> QED BY <1>0, <1>2, <2>1, <2>2, <2>3
          DEF ZeroInv, StartsZeroless, Zeroless, WithEntry, Merged, Tuning
<1>4. ASSUME NEW a \in Apps, NEW tf \in BOOLEAN, Drop(p, a, tf) PROVE Zeroless(g) /\ Zeroless(b)
  <2>1. g = Without(file.map, a) /\ b = Defaults
    BY <1>2, <1>4 DEF Drop
  <2> QED BY <1>0, <2>1, NoTuningZeroless DEF ZeroInv, StartsZeroless, Zeroless, Without, Tuning
<1>5. ASSUME NEW tf \in BOOLEAN, Clear(p, tf) PROVE Zeroless(g) /\ Zeroless(b)
  <2>1. g = NoTuning /\ b = Defaults
    BY <1>2, <1>5 DEF Clear
  <2> QED BY <2>1, NoTuningZeroless DEF StartsZeroless
<1>6. ASSUME NEW a \in Apps, NEW k \in Knobs, Paste(p, a, k) PROVE Zeroless(g) /\ Zeroless(b)
  <2>1. g = [Snapshot(live) EXCEPT ![a] = k] /\ b = Snapshot(live)
    BY <1>2, <1>6 DEF Paste
  <2>2. Snapshot(live) \in Cluster /\ Zeroless(Snapshot(live))
    BY SnapshotValue DEF Zeroless
  <2> QED BY <2>1, <2>2, ZerolessKnobs
<1>7. CASE PasteBack(p)
  <2>1. g = base[p] /\ b = base[p]
    BY <1>2, <1>7 DEF PasteBack
  <2> QED BY <2>1 DEF ZeroInv
<1> QED BY <1>3, <1>4, <1>5, <1>6, <1>7 DEF Command

LEMMA ProceedZeroless ==
    ASSUME TypeOK, ZeroInv, StartsZeroless, NEW p \in Procs, Proceed(p) \/ Kill(p)
    PROVE  ZeroInv'
<1> USE NoTuningZeroless DEF TypeOK, command, cluster
<1>1. CASE Truncate(p)
  <2>1. file'.map \in {file.map, NoTuning} /\ UNCHANGED <<live, got, base, planned>>
    BY <1>1 DEF Truncate, Torn
  <2> QED BY <2>1 DEF ZeroInv
<1>2. CASE Fill(p)
  <2>1. file'.map = got[p] /\ UNCHANGED <<live, got, base, planned>>
    BY <1>2 DEF Fill, Written
  <2> QED BY <2>1 DEF ZeroInv
<1>3. CASE Remove(p)
  <2>1. file'.map \in {file.map, NoTuning} /\ UNCHANGED <<live, got, base, planned>>
    BY <1>3 DEF Remove, Written
  <2> QED BY <2>1 DEF ZeroInv
<1>4. CASE TerraformReads(p)
  <2>1. planned' = [planned EXCEPT ![p] = file.map] /\ UNCHANGED <<file, live, got, base>>
    BY <1>4 DEF TerraformReads
  <2> QED BY <2>1 DEF ZeroInv
<1>5. CASE TerraformLocks(p) \/ TerraformRefuses(p) \/ Kill(p)
  BY <1>5 DEF TerraformLocks, TerraformRefuses, Kill, ZeroInv
<1>6. CASE TerraformApplies(p)
  <2>1. planned[p] \in Tuning /\ Zeroless(planned[p]) /\ UNCHANGED <<file, got, base, planned>>
    BY <1>6 DEF TerraformApplies, ZeroInv
  <2>2. Zeroless(Effective(planned[p])) /\ Zeroless(live)
    BY <2>1, ZerolessEffective DEF StartsZeroless, ZeroInv
  <2>3. CASE ApplySucceeds(live, planned[p], live')
    BY <2>1, <2>2, <2>3, ApplySucceedsExact DEF ZeroInv
  <2>4. CASE ApplyFails(live, planned[p], live')
    <3>1. PICK deps, hpas : live' = Updated(live, Effective(planned[p]), deps, hpas)
      BY <2>4 DEF ApplyFails
    <3>2. \A a \in Apps, f \in Fields : live'[a][f] \in {live[a][f], Effective(planned[p])[a][f]}
      BY <3>1 DEF Updated
    <3>3. Zeroless(live')
      BY <2>2, <3>2 DEF Zeroless
    <3> QED BY <2>1, <3>3 DEF ZeroInv
  <2> QED BY <1>6, <2>3, <2>4 DEF TerraformApplies
<1>7. CASE Return(p)
  <2>1. /\ got' = [got EXCEPT ![p] = NoTuning] /\ planned' = [planned EXCEPT ![p] = NoTuning]
        /\ base' = base \/ base' = [base EXCEPT ![p] = Defaults]
        /\ UNCHANGED <<file, live>>
    BY <1>7 DEF Return
  <2> QED BY <2>1 DEF ZeroInv, StartsZeroless
<1> QED BY <1>1, <1>2, <1>3, <1>4, <1>5, <1>6, <1>7 DEF Proceed

\* From files, clusters and defaults without a zero none of these commands
\* makes one, however they overtake each other.
THEOREM ZeroNeverWritten == ASSUME StartsZeroless PROVE Spec => []NothingZero
<1>1. Init => ZeroInv
  BY NoTuningZeroless DEF Init, ZeroInv, StartsZeroless
<1>2. TypeOK /\ ZeroInv /\ [Next]_vars => ZeroInv'
  <2> SUFFICES ASSUME TypeOK, ZeroInv, [Next]_vars PROVE ZeroInv'
    OBVIOUS
  <2>1. CASE Drift
    <3>1. Zeroless(live')
      BY <2>1, ZerolessKnobs DEF Drift, TypeOK, ZeroInv
    <3> QED BY <2>1, <3>1 DEF Drift, ZeroInv, command
  <2>2. CASE UNCHANGED vars
    BY <2>2 DEF vars, cluster, command, ZeroInv
  <2> QED BY <2>1, <2>2, CommandZeroless, ProceedZeroless DEF Next, Quiescent
<1>3. ZeroInv => NothingZero
  BY DEF ZeroInv, Zeroless, NothingZero
<1> QED BY <1>1, <1>2, <1>3, CommandTypes, PTL DEF Spec

=============================================================================
