-------------------------- MODULE LoadEngineProofs --------------------------
(***************************************************************************)
(* The safety of the load engine, for any HTTP threads, any runs and any   *)
(* number of workers.                                                      *)
(*                                                                         *)
(* A run that a handler is starting is known to nobody else: _load does    *)
(* not name it, so nobody can have stopped it (Apart).  Therefore the run  *)
(* that _load calls running is either at work or about to be called        *)
(* stopped by the thread that stopped it (Honest), whatever overlaps.      *)
(* Without overlapping requests the only run that nobody has told to stop  *)
(* is the one that _load names or the one being started (Single).          *)
(***************************************************************************)
EXTENDS LoadEngine, FiniteSetTheorems, TLAPS

\* h has a new run in hand that it has not published.
Starting(h) ==
    /\ request[h] = "start"
    /\ pc[h] \in {"signal", "cancel", "flag", "spawn", "arm", "publish"}

\* The new runs are new, nobody else's, and not reachable through _load.
Apart ==
    /\ load.stop \in started \cup {NoRun}
    /\ stopped \subseteq started
    /\ \A r \in Runs \ started : timer[r] = "none"
    /\ \A r \in Runs : timer[r] # "fired" => pc[r] = "idle"
    /\ \A h \in Handlers : pc[h] \in {"spawn", "arm", "publish"} => request[h] = "start"
    /\ \A h \in Handlers : Starting(h) =>
          /\ mine[h] \in started \ stopped
          /\ mine[h] # load.stop
          /\ \A k \in Handlers : Starting(k) /\ mine[k] = mine[h] => k = h
          /\ pc[h] # "publish" => timer[mine[h]] = "none"
          /\ pc[h] \in {"arm", "publish"} => workers[mine[h]] > 0

\* Whoever stopped the run that _load calls running has yet to say so.
Honest ==
    load.running =>
        /\ load.stop \in Runs
        /\ load.stop \notin stopped => workers[load.stop] > 0
        /\ load.stop \in stopped => \E t \in Threads : pc[t] \in {"cancel", "flag"}

\* What can be at work, by the statement that the only handler has reached.
Single ==
    ~aux_overlap =>
        /\ \A h, k \in Handlers : pc[h] # "idle" /\ pc[k] # "idle" => h = k
        /\ \A h \in Handlers :
              /\ pc[h] \in {"cancel", "flag", "spawn"} => Unstopped = {}
              /\ pc[h] \in {"arm", "publish"} => Unstopped \subseteq {mine[h]}
              /\ pc[h] = "reply" /\ request[h] = "stop" => Unstopped = {}
        /\ (\A h \in Handlers : pc[h] \notin {"arm", "publish"}) => Unstopped \subseteq {load.stop}

LoadInv == TypeOK /\ Apart /\ Honest /\ Single

LEMMA LoadStart == Init => LoadInv
<1> SUFFICES ASSUME Init PROVE LoadInv
  OBVIOUS
<1> USE DEF Init
<1>1. TypeOK
  <2>1. load \in [running : BOOLEAN, stop : Runs \cup {NoRun}, timer : Runs \cup {NoRun}]
    BY Zenon
  <2>2. workers \in [Runs -> 0..Workers]
    BY WorkersAssumption
  <2> QED BY <2>1, <2>2 DEF TypeOK
<1>2. Apart /\ Honest
  BY DEF Apart, Starting, Honest, Threads
<1>3. Single
  BY DEF Single, Unstopped, Running, Threads
<1> QED BY <1>1, <1>2, <1>3 DEF LoadInv

\* A step keeps the types.
LEMMA LoadTyped == TypeOK /\ [Next]_vars => TypeOK'
<1> SUFFICES ASSUME TypeOK, [Next]_vars PROVE TypeOK'
  OBVIOUS
<1> USE NamesAssumption, WorkersAssumption DEF TypeOK, Threads
<1>1. ASSUME NEW h \in Handlers, StartRequest(h) \/ StopRequest(h) PROVE TypeOK'
  <2>1. aux_overlap' \in BOOLEAN
    <3>1. Accepted
      BY <1>1 DEF StartRequest, StopRequest
    <3> QED BY <3>1, Zenon DEF Accepted
  <2>2. CASE StartRequest(h)
    <3>1. PICK r \in Runs : started' = started \cup {r} /\ mine' = [mine EXCEPT ![h] = r]
      BY <2>2 DEF StartRequest
    <3>2. /\ request' = [request EXCEPT ![h] = "start"]
          /\ pc' = [pc EXCEPT ![h] = "signal"]
          /\ UNCHANGED <<load, stopped, timer, workers>>
      BY <2>2 DEF StartRequest
    <3> QED BY <2>1, <3>1, <3>2
  <2>3. CASE StopRequest(h)
    <3>1. /\ request' = [request EXCEPT ![h] = "stop"]
          /\ pc' = [pc EXCEPT ![h] = "signal"]
          /\ UNCHANGED <<load, started, stopped, timer, workers, mine>>
      BY <2>3 DEF StopRequest
    <3> QED BY <2>1, <3>1
  <2> QED BY <1>1, <2>2, <2>3
<1>2. ASSUME NEW t \in Threads, Signal(t) \/ Cancel(t) PROVE TypeOK'
  BY <1>2 DEF Signal, Cancel
<1>3. ASSUME NEW t \in Threads, Flag(t) PROVE TypeOK'
  BY <1>3 DEF Flag
<1>4. ASSUME NEW h \in Handlers, Spawn(h) \/ Arm(h) PROVE TypeOK'
  BY <1>4 DEF Spawn, Arm
<1>5. ASSUME NEW h \in Handlers, Publish(h) \/ Reply(h) PROVE TypeOK'
  <2>1. CASE Publish(h)
    <3>1. load' \in [running : BOOLEAN, stop : Runs \cup {NoRun}, timer : Runs \cup {NoRun}]
      <4>1. mine[h] \in Runs \cup {NoRun}
        OBVIOUS
      <4>2. load' = [running |-> TRUE, stop |-> mine[h], timer |-> mine[h]]
        BY <2>1 DEF Publish
      <4> HIDE DEF TypeOK
      <4> QED BY <4>1, <4>2, Zenon
    <3> QED BY <2>1, <3>1 DEF Publish
  <2>2. CASE Reply(h)
    BY <2>2 DEF Reply
  <2> QED BY <1>5, <2>1, <2>2
<1>6. ASSUME NEW r \in Runs, Fire(r) \/ WorkerLeaves(r) PROVE TypeOK'
  BY <1>6 DEF Fire, WorkerLeaves
<1>7. CASE UNCHANGED vars
  BY <1>7 DEF vars
<1> QED BY <1>1, <1>2, <1>3, <1>4, <1>5, <1>6, <1>7 DEF Next, StopLoad, Serve

\* A step leaves the runs that are being started to their handlers.
LEMMA ApartStep == TypeOK /\ Apart /\ [Next]_vars => Apart'
<1> SUFFICES ASSUME TypeOK, Apart, [Next]_vars PROVE Apart'
  OBVIOUS
<1> USE NamesAssumption, WorkersAssumption DEF TypeOK, Threads, Apart, Starting
<1>1. ASSUME NEW h \in Handlers, StartRequest(h) PROVE Apart'
  <2>1. PICK r \in Runs \ started : started' = started \cup {r} /\ mine' = [mine EXCEPT ![h] = r]
    BY <1>1 DEF StartRequest
  <2>2. /\ pc[h] = "idle"
        /\ request' = [request EXCEPT ![h] = "start"]
        /\ pc' = [pc EXCEPT ![h] = "signal"]
        /\ UNCHANGED <<load, stopped, timer, workers>>
    BY <1>1 DEF StartRequest
  <2> QED BY <2>1, <2>2
<1>2. ASSUME NEW h \in Handlers, StopRequest(h) PROVE Apart'
  BY <1>2 DEF StopRequest
<1>3. ASSUME NEW t \in Threads, Signal(t) PROVE Apart'
  <2>1. /\ pc[t] = "signal"
        /\ stopped' = stopped \cup ({load.stop} \cap Runs)
        /\ pc' = [pc EXCEPT ![t] = "cancel"]
        /\ UNCHANGED <<load, started, timer, workers, request, mine>>
    BY <1>3 DEF Signal
  <2> QED BY <2>1
<1>4. ASSUME NEW t \in Threads, Cancel(t) \/ Flag(t) PROVE Apart'
  <2>1. /\ pc[t] \in {"cancel", "flag"}
        /\ load'.stop = load.stop
        /\ \A k \in Handlers \ {t} : pc'[k] = pc[k]
        /\ t \in Handlers /\ pc'[t] = "spawn" => request[t] = "start"
        /\ t \in Handlers => pc'[t] \in {"flag", "spawn", "reply"}
        /\ UNCHANGED <<started, stopped, workers, request, mine>>
        /\ \A r \in Runs : pc'[r] = pc[r] \/ r = t
        /\ \A r \in Runs : timer[r] = "fired" <=> timer'[r] = "fired"
        /\ \A r \in Runs : timer[r] = "none" => timer'[r] = "none"
    BY <1>4 DEF Cancel, Flag
  <2> QED BY <2>1
<1>5. ASSUME NEW h \in Handlers, Spawn(h) \/ Arm(h) \/ Reply(h) PROVE Apart'
  <2>1. CASE Spawn(h)
    BY <2>1 DEF Spawn
  <2>2. CASE Arm(h)
    BY <2>2 DEF Arm
  <2>3. CASE Reply(h)
    BY <2>3 DEF Reply
  <2> QED BY <1>5, <2>1, <2>2, <2>3
<1>6. ASSUME NEW h \in Handlers, Publish(h) PROVE Apart'
  <2>1. /\ pc[h] = "publish" /\ pc' = [pc EXCEPT ![h] = "reply"]
        /\ load'.stop = mine[h]
        /\ UNCHANGED <<started, stopped, timer, workers, request, mine>>
    BY <1>6 DEF Publish
  <2> QED BY <2>1
<1>7. ASSUME NEW r \in Runs, Fire(r) \/ WorkerLeaves(r) PROVE Apart'
  BY <1>7 DEF Fire, WorkerLeaves
<1>8. CASE UNCHANGED vars
  BY <1>8 DEF vars
<1> QED BY <1>1, <1>2, <1>3, <1>4, <1>5, <1>6, <1>7, <1>8 DEF Next, StopLoad, Serve

\* A run that is called running works until somebody has stopped it, and is
\* called stopped by the thread that did.
LEMMA HonestStep == TypeOK /\ Apart /\ Honest /\ [Next]_vars => Honest'
<1> SUFFICES ASSUME TypeOK, Apart, Honest, [Next]_vars, load'.running PROVE Honest'
  BY DEF Honest
<1> USE NamesAssumption, WorkersAssumption DEF TypeOK, Threads, Honest
<1>1. ASSUME NEW h \in Handlers, StartRequest(h) \/ StopRequest(h) PROVE Honest'
  <2>1. /\ pc[h] = "idle" /\ pc' = [pc EXCEPT ![h] = "signal"]
        /\ UNCHANGED <<load, stopped, workers>>
    BY <1>1 DEF StartRequest, StopRequest
  <2> QED BY <2>1
<1>2. ASSUME NEW t \in Threads, Signal(t) \/ Cancel(t) PROVE Honest'
  <2>1. /\ t \in Threads
        /\ pc' = [pc EXCEPT ![t] = "cancel"] \/ pc' = [pc EXCEPT ![t] = "flag"]
        /\ UNCHANGED <<load, workers>>
        /\ stopped \subseteq stopped'
    BY <1>2 DEF Signal, Cancel
  <2>2. pc'[t] \in {"cancel", "flag"}
    BY <2>1
  <2> QED BY <2>1, <2>2
<1>3. ASSUME NEW t \in Threads, Flag(t) PROVE Honest'
  BY <1>3 DEF Flag
<1>4. ASSUME NEW h \in Handlers, Spawn(h) \/ Arm(h) \/ Reply(h) PROVE Honest'
  <2>1. /\ pc[h] \notin {"cancel", "flag"}
        /\ \A t \in Threads \ {h} : pc'[t] = pc[t]
        /\ UNCHANGED <<load, stopped>>
        /\ \A r \in Runs : workers[r] > 0 => workers'[r] > 0
    BY <1>4 DEF Spawn, Arm, Reply
  <2> QED BY <2>1
<1>5. ASSUME NEW h \in Handlers, Publish(h) PROVE Honest'
  <2>1. /\ pc[h] = "publish" /\ load'.stop = mine[h] /\ UNCHANGED <<stopped, workers>>
    BY <1>5 DEF Publish
  <2>2. mine[h] \in Runs /\ mine[h] \notin stopped /\ workers[mine[h]] > 0
    BY <2>1 DEF Apart, Starting
  <2> QED BY <2>1, <2>2
<1>6. ASSUME NEW r \in Runs, Fire(r) PROVE Honest'
  <2>1. timer[r] = "armed" /\ UNCHANGED <<load, stopped, workers>> /\ pc' = [pc EXCEPT ![r] = "signal"]
    BY <1>6 DEF Fire
  <2>2. pc[r] = "idle"
    BY <2>1 DEF Apart
  <2> QED BY <2>1, <2>2
<1>7. ASSUME NEW r \in Runs, WorkerLeaves(r) PROVE Honest'
  <2>1. /\ r \in stopped /\ UNCHANGED <<load, stopped, pc>>
        /\ \A q \in Runs \ {r} : workers'[q] = workers[q]
    BY <1>7 DEF WorkerLeaves
  <2> QED BY <2>1
<1>8. CASE UNCHANGED vars
  BY <1>8 DEF vars
<1> QED BY <1>1, <1>2, <1>3, <1>4, <1>5, <1>6, <1>7, <1>8 DEF Next, StopLoad, Serve

\* Without overlapping requests every statement keeps to the runs that Single
\* allows it.
LEMMA SingleStep == TypeOK /\ Apart /\ Single /\ [Next]_vars => Single'
<1> SUFFICES ASSUME TypeOK, Apart, Single, [Next]_vars, ~aux_overlap' PROVE Single'
  BY DEF Single
<1> USE NamesAssumption, WorkersAssumption DEF TypeOK, Threads
<1>0. ~aux_overlap
  BY DEF Next, StopLoad, Serve, StartRequest, StopRequest, Accepted, Signal, Cancel, Flag,
         Spawn, Arm, Publish, Reply, Fire, WorkerLeaves, vars
<1>a. UNCHANGED <<workers, stopped>> => Unstopped' = Unstopped
  BY DEF Unstopped, Running
<1>1. ASSUME NEW h \in Handlers, StartRequest(h) \/ StopRequest(h) PROVE Single'
  <2>1. /\ \A k \in Handlers : pc[k] = "idle"
        /\ pc' = [pc EXCEPT ![h] = "signal"]
        /\ UNCHANGED <<load, workers, stopped>>
    BY <1>1 DEF StartRequest, StopRequest, Accepted
  <2> QED BY <1>0, <1>a, <2>1 DEF Single
<1>2. ASSUME NEW t \in Threads, Signal(t) PROVE Single'
  <2>1. /\ pc[t] = "signal" /\ pc' = [pc EXCEPT ![t] = "cancel"]
        /\ stopped' = stopped \cup ({load.stop} \cap Runs)
        /\ UNCHANGED <<load, workers, request, mine>>
    BY <1>2 DEF Signal
  <2>2. Unstopped' = Unstopped \ {load.stop}
    BY <2>1 DEF Unstopped, Running
  <2>3. CASE t \in Handlers
    <3>1. \A k \in Handlers : k # t => pc[k] = "idle"
      BY <1>0, <2>1, <2>3 DEF Single
    <3>2. Unstopped' = {}
      BY <1>0, <2>1, <2>2, <2>3, <3>1 DEF Single
    <3> QED BY <1>0, <2>1, <2>3, <3>1, <3>2 DEF Single
  <2>4. CASE t \notin Handlers
    <3>1. \A k \in Handlers : pc'[k] = pc[k]
      BY <2>1, <2>4
    <3> QED BY <1>0, <2>1, <2>2, <3>1 DEF Single
  <2> QED BY <2>3, <2>4
<1>3. ASSUME NEW t \in Threads, Cancel(t) \/ Flag(t) PROVE Single'
  <2>1. /\ pc[t] \in {"cancel", "flag"} /\ load'.stop = load.stop
        /\ \A k \in Handlers \ {t} : pc'[k] = pc[k]
        /\ t \in Handlers => pc'[t] \in {"flag", "spawn", "reply"}
        /\ UNCHANGED <<workers, stopped, request, mine>>
    BY <1>3 DEF Cancel, Flag
  <2> QED BY <1>0, <1>a, <2>1 DEF Single
<1>4. ASSUME NEW h \in Handlers, Spawn(h) PROVE Single'
  <2>1. /\ pc[h] = "spawn" /\ pc' = [pc EXCEPT ![h] = "arm"]
        /\ workers' = [workers EXCEPT ![mine[h]] = Workers]
        /\ UNCHANGED <<load, stopped, request, mine>>
    BY <1>4 DEF Spawn
  <2>2. Unstopped = {}
    BY <1>0, <2>1 DEF Single
  <2>3. Unstopped' \subseteq {mine[h]}
    BY <2>1, <2>2 DEF Unstopped, Running
  <2> QED BY <1>0, <2>1, <2>3 DEF Single
<1>5. ASSUME NEW h \in Handlers, Arm(h) PROVE Single'
  <2>1. /\ pc[h] = "arm" /\ pc' = [pc EXCEPT ![h] = "publish"]
        /\ UNCHANGED <<load, workers, stopped, request, mine>>
    BY <1>5 DEF Arm
  <2> QED BY <1>0, <1>a, <2>1 DEF Single
<1>6. ASSUME NEW h \in Handlers, Publish(h) PROVE Single'
  <2>1. /\ pc[h] = "publish" /\ pc' = [pc EXCEPT ![h] = "reply"]
        /\ load'.stop = mine[h]
        /\ UNCHANGED <<workers, stopped, request, mine>>
    BY <1>6 DEF Publish
  <2>2. request[h] = "start"
    BY <2>1 DEF Apart
  <2> QED BY <1>0, <1>a, <2>1, <2>2 DEF Single
<1>7. ASSUME NEW h \in Handlers, Reply(h) PROVE Single'
  <2>1. /\ pc[h] = "reply" /\ pc' = [pc EXCEPT ![h] = "idle"]
        /\ mine' = [mine EXCEPT ![h] = NoRun]
        /\ UNCHANGED <<load, workers, stopped, request>>
    BY <1>7 DEF Reply
  <2> QED BY <1>0, <1>a, <2>1 DEF Single
<1>8. ASSUME NEW r \in Runs, Fire(r) PROVE Single'
  <2>1. /\ pc' = [pc EXCEPT ![r] = "signal"]
        /\ UNCHANGED <<load, workers, stopped, request, mine>>
    BY <1>8 DEF Fire
  <2>2. \A k \in Handlers : pc'[k] = pc[k]
    BY <2>1
  <2> QED BY <1>0, <1>a, <2>1, <2>2 DEF Single
<1>9. ASSUME NEW r \in Runs, WorkerLeaves(r) PROVE Single'
  <2>1. Unstopped' \subseteq Unstopped /\ UNCHANGED <<load, pc, request, mine>>
    BY <1>9 DEF WorkerLeaves, Unstopped, Running
  <2> QED BY <1>0, <2>1 DEF Single
<1>10. CASE UNCHANGED vars
  BY <1>0, <1>a, <1>10 DEF vars, Single
<1> QED BY <1>1, <1>2, <1>3, <1>4, <1>5, <1>6, <1>7, <1>8, <1>9, <1>10 DEF Next, StopLoad, Serve

\* The invariant that the theorems below read off.
LEMMA LoadInvariant == Spec => []LoadInv
BY LoadStart, LoadTyped, ApartStep, HonestStep, SingleStep, PTL DEF Spec, LoadInv

\* _load, the runs and the threads keep their types, overlaps included.
THEOREM LoadTypes == Spec => []TypeOK
<1>1. LoadInv => TypeOK
  BY DEF LoadInv
<1> QED BY <1>1, LoadInvariant, PTL

\* Without overlapping requests there is one load at most, whatever threads,
\* workers and timers there are.
THEOREM OneLoadAtMost == Spec => []OneLoad
<1>1. ASSUME LoadInv, ~aux_overlap PROVE Cardinality(Unstopped) <= 1
  <2>1. \E x : Unstopped \subseteq {x}
    <3>1. CASE \E h \in Handlers : pc[h] \in {"arm", "publish"}
      BY <1>1, <3>1 DEF LoadInv, Single
    <3>2. CASE \A h \in Handlers : pc[h] \notin {"arm", "publish"}
      BY <1>1, <3>2 DEF LoadInv, Single
    <3> QED BY <3>1, <3>2
  <2>2. PICK x : Unstopped \subseteq {x}
    BY <2>1
  <2>3. Unstopped = {} \/ Unstopped = {x}
    BY <2>2
  <2>4. Cardinality({}) = 0 /\ Cardinality({x}) = 1
    BY FS_EmptySet, FS_Singleton, Zenon
  <2>5. Cardinality(Unstopped) \in {0, 1}
    BY <2>3, <2>4
  <2> QED BY <2>5
<1>2. LoadInv => OneLoad
  BY <1>1 DEF OneLoad
<1> QED BY <1>2, LoadInvariant, PTL

\* When a lone stop is answered nothing has been left untold.
THEOREM StopTellsAll == Spec => []StopStops
<1>1. LoadInv => StopStops
  BY DEF LoadInv, Single, StopStops
<1> QED BY <1>1, LoadInvariant, PTL

\* What /load/stats calls running runs, whatever overlaps.
THEOREM FlagTrue == Spec => []FlagHonest
<1>1. ASSUME LoadInv, load.running, \A t \in Threads : pc[t] = "idle"
      PROVE  load.stop \in Unstopped
  BY <1>1 DEF LoadInv, Honest, Unstopped, Running
<1>2. LoadInv => FlagHonest
  BY <1>1 DEF FlagHonest
<1> QED BY <1>2, LoadInvariant, PTL

=============================================================================
