----------------------------- MODULE LoadEngine -----------------------------
(***************************************************************************)
(* The server-side load engine of 부하/server.py.  A run is one start: a    *)
(* stop event, worker threads and a timer.  The dictionary _load holds the *)
(* latest run only, and every thread of the HTTP server, as well as every  *)
(* timer that fires, goes through it without a lock.  A step is one access *)
(* of _load, of an event or of a timer, which the interpreter makes whole. *)
(***************************************************************************)
EXTENDS Naturals, FiniteSets

CONSTANTS
    Handlers,  \* threads of ThreadingHTTPServer
    Runs,      \* bound: runs that can be started
    Workers,   \* cfg['concurrency'], at least 1
    NoRun      \* None

VARIABLES
    load,      \* the keys 'running', 'stop' and 'timer' of _load
    started,   \* runs begun so far
    stopped,   \* runs whose stop event is set
    timer,     \* timer[r]: "none", "armed", "cancelled", "fired"
    workers,   \* workers[r]: worker threads of r still in their loop
    pc,        \* pc[t]: next statement of a handler or of a timer's thread
    request,   \* request[h]: what h was asked to do
    mine,      \* mine[h]: the run that h starts
    aux_overlap  \* two requests have been in progress at once

vars == <<load, started, stopped, timer, workers, pc, request, mine, aux_overlap>>

ASSUME HandlersAssumption == IsFiniteSet(Handlers) /\ IsFiniteSet(Runs)
ASSUME NamesAssumption == Handlers \cap Runs = {} /\ NoRun \notin Runs
ASSUME WorkersAssumption == Workers \in Nat \ {0}

Threads == Handlers \cup Runs
Running == {r \in Runs : workers[r] > 0}

\* Every run but those told to stop, published or not.
Unstopped == Running \ stopped

Init ==
    /\ load = [running |-> FALSE, stop |-> NoRun, timer |-> NoRun]
    /\ started = {}
    /\ stopped = {}
    /\ timer = [r \in Runs |-> "none"]
    /\ workers = [r \in Runs |-> 0]
    /\ pc = [t \in Threads |-> "idle"]
    /\ request = [h \in Handlers |-> "stop"]
    /\ mine = [h \in Handlers |-> NoRun]
    /\ aux_overlap = FALSE

\* A request begins; another may still be in progress.
Accepted == aux_overlap' = (aux_overlap \/ \E h \in Handlers : pc[h] # "idle")

\* A defect to tell apart: a start does not stop the run before it.
StartRequest_NoStop(h) ==
    /\ pc[h] = "idle"
    /\ Accepted
    /\ request' = [request EXCEPT ![h] = "start"]
    /\ \E r \in Runs \ started :
          /\ started' = started \cup {r}
          /\ mine' = [mine EXCEPT ![h] = r]
    /\ pc' = [pc EXCEPT ![h] = "spawn"]
    /\ UNCHANGED <<load, stopped, timer, workers>>

\* POST /load/start: stop_load comes first.
StartRequest(h) ==
    /\ pc[h] = "idle"
    /\ Accepted
    /\ request' = [request EXCEPT ![h] = "start"]
    /\ \E r \in Runs \ started :
          /\ started' = started \cup {r}
          /\ mine' = [mine EXCEPT ![h] = r]
    /\ pc' = [pc EXCEPT ![h] = "signal"]
    /\ UNCHANGED <<load, stopped, timer, workers>>

\* POST /load/stop
StopRequest(h) ==
    /\ pc[h] = "idle"
    /\ Accepted
    /\ request' = [request EXCEPT ![h] = "stop"]
    /\ pc' = [pc EXCEPT ![h] = "signal"]
    /\ UNCHANGED <<load, started, stopped, timer, workers, mine>>

\* stop_load: _load['stop'].set()
Signal(t) ==
    /\ pc[t] = "signal"
    /\ stopped' = stopped \cup ({load.stop} \cap Runs)
    /\ pc' = [pc EXCEPT ![t] = "cancel"]
    /\ UNCHANGED <<load, started, timer, workers, request, mine, aux_overlap>>

\* _load['timer'].cancel(): too late for one that fired.
Cancel(t) ==
    /\ pc[t] = "cancel"
    /\ timer' = [r \in Runs |->
                    IF r = load.timer /\ timer[r] = "armed" THEN "cancelled" ELSE timer[r]]
    /\ pc' = [pc EXCEPT ![t] = "flag"]
    /\ UNCHANGED <<load, started, stopped, workers, request, mine, aux_overlap>>

\* A defect to tell apart: a timer that fires leaves the flag alone.
Flag_HandlersOnly(t) ==
    /\ pc[t] = "flag"
    /\ load' = [load EXCEPT !.running = (@ /\ t \in Runs)]
    /\ pc' = [pc EXCEPT ![t] = IF t \in Handlers /\ request[t] = "start" THEN "spawn"
                               ELSE IF t \in Handlers THEN "reply" ELSE "idle"]
    /\ UNCHANGED <<started, stopped, timer, workers, request, mine, aux_overlap>>

\* The end of stop_load; start_load goes on, the others are done.
Flag(t) ==
    /\ pc[t] = "flag"
    /\ load' = [load EXCEPT !.running = FALSE]
    /\ pc' = [pc EXCEPT ![t] = IF t \in Handlers /\ request[t] = "start" THEN "spawn"
                               ELSE IF t \in Handlers THEN "reply" ELSE "idle"]
    /\ UNCHANGED <<started, stopped, timer, workers, request, mine, aux_overlap>>

\* A defect to tell apart: one worker too many.
Spawn_OneMore(h) ==
    /\ pc[h] = "spawn"
    /\ workers' = [workers EXCEPT ![mine[h]] = Workers + 1]
    /\ pc' = [pc EXCEPT ![h] = "arm"]
    /\ UNCHANGED <<load, started, stopped, timer, request, mine, aux_overlap>>

Spawn(h) ==
    /\ pc[h] = "spawn"
    /\ workers' = [workers EXCEPT ![mine[h]] = Workers]
    /\ pc' = [pc EXCEPT ![h] = "arm"]
    /\ UNCHANGED <<load, started, stopped, timer, request, mine, aux_overlap>>

Arm(h) ==
    /\ pc[h] = "arm"
    /\ timer' = [timer EXCEPT ![mine[h]] = "armed"]
    /\ pc' = [pc EXCEPT ![h] = "publish"]
    /\ UNCHANGED <<load, started, stopped, workers, request, mine, aux_overlap>>

\* A defect to tell apart: the stop event of the run before it stays in _load.
Publish_KeepsStop(h) ==
    /\ pc[h] = "publish"
    /\ load' = [running |-> TRUE,
                stop |-> IF load.stop = NoRun THEN mine[h] ELSE load.stop,
                timer |-> mine[h]]
    /\ pc' = [pc EXCEPT ![h] = "reply"]
    /\ UNCHANGED <<started, stopped, timer, workers, request, mine, aux_overlap>>

\* _load.update(...)
Publish(h) ==
    /\ pc[h] = "publish"
    /\ load' = [running |-> TRUE, stop |-> mine[h], timer |-> mine[h]]
    /\ pc' = [pc EXCEPT ![h] = "reply"]
    /\ UNCHANGED <<started, stopped, timer, workers, request, mine, aux_overlap>>

Reply(h) ==
    /\ pc[h] = "reply"
    /\ pc' = [pc EXCEPT ![h] = "idle"]
    /\ mine' = [mine EXCEPT ![h] = NoRun]
    /\ UNCHANGED <<load, started, stopped, timer, workers, request, aux_overlap>>

\* The form asks for at least 10 s: a timer does not fire before the handler
\* that armed it has published the run.
Fire(r) ==
    /\ timer[r] = "armed"
    /\ \A h \in Handlers : mine[h] = r => pc[h] = "reply"
    /\ timer' = [timer EXCEPT ![r] = "fired"]
    /\ pc' = [pc EXCEPT ![r] = "signal"]
    /\ UNCHANGED <<load, started, stopped, workers, request, mine, aux_overlap>>

\* A defect to tell apart: the loop asks for the event of _load, not its own.
WorkerLeaves_LatestEvent(r) ==
    /\ workers[r] > 0 /\ load.stop \in stopped
    /\ workers' = [workers EXCEPT ![r] = @ - 1]
    /\ UNCHANGED <<load, started, stopped, timer, pc, request, mine, aux_overlap>>

\* A worker sees the event at the head of its loop, after its last request.
WorkerLeaves(r) ==
    /\ workers[r] > 0 /\ r \in stopped
    /\ workers' = [workers EXCEPT ![r] = @ - 1]
    /\ UNCHANGED <<load, started, stopped, timer, pc, request, mine, aux_overlap>>

StopLoad(t) == Signal(t) \/ Cancel(t) \/ Flag(t)
Serve(h) == StopLoad(h) \/ Spawn(h) \/ Arm(h) \/ Publish(h) \/ Reply(h)

Next ==
    \/ \E h \in Handlers : StartRequest(h) \/ StopRequest(h) \/ Serve(h)
    \/ \E r \in Runs : Fire(r) \/ StopLoad(r) \/ WorkerLeaves(r)

Spec == Init /\ [][Next]_vars

\* Threads are scheduled, requests time out after 5 s, timers fire.
FairSpec ==
    /\ Spec
    /\ \A h \in Handlers : WF_vars(Serve(h))
    /\ \A r \in Runs : WF_vars(Fire(r)) /\ WF_vars(StopLoad(r)) /\ WF_vars(WorkerLeaves(r))

----------------------------------------------------------------------------

\* Types of _load, of the runs and of the threads.
TypeOK ==
    /\ load \in [running : BOOLEAN, stop : Runs \cup {NoRun}, timer : Runs \cup {NoRun}]
    /\ started \subseteq Runs
    /\ stopped \subseteq Runs
    /\ timer \in [Runs -> {"none", "armed", "cancelled", "fired"}]
    /\ workers \in [Runs -> 0..Workers]
    /\ pc \in [Threads -> {"idle", "signal", "cancel", "flag", "spawn", "arm",
                           "publish", "reply"}]
    /\ request \in [Handlers -> {"start", "stop"}]
    /\ mine \in [Handlers -> Runs \cup {NoRun}]
    /\ aux_overlap \in BOOLEAN

\* Requests that follow each other never make two loads at once, whatever the
\* timers of earlier runs do meanwhile.
OneLoad == ~aux_overlap => Cardinality(Unstopped) <= 1

\* When the answer to /load/stop is sent every worker has been told to stop,
\* those of earlier runs included.
StopStops ==
    \A h \in Handlers :
        ~aux_overlap /\ pc[h] = "reply" /\ request[h] = "stop" => Unstopped = {}

\* /load/stats says that a load is running only if it is: once nothing is in
\* progress, the run that _load names has not been told to stop.  This one
\* holds of overlapping requests too.
FlagHonest ==
    load.running /\ (\A t \in Threads : pc[t] = "idle") => load.stop \in Unstopped

\* Workers that were told to stop do, although a later run may have begun.
ToldWorkersLeave == \A r \in Runs : (r \in stopped) ~> (workers[r] = 0)

\* 부하/README.md:30: a load ends by itself after the time it was given.
LoadsEnd == \A r \in Runs : (workers[r] > 0) ~> (workers[r] = 0)

=============================================================================
