----------------------------- MODULE SizingLoop -----------------------------
(***************************************************************************)
(* Runs of optimize.ps1 one after the other under a load that stays as it  *)
(* is: a load test, the sizing that the planner computes from it, another  *)
(* load test, a candidate that is adopted or not, and the next run.  What  *)
(* a run leaves behind is what the next one measures, with the HPA and its *)
(* pods in between.  The time always suffices for the sizing.              *)
(* Runs get the same options, the load to size for among them.             *)
(***************************************************************************)
EXTENDS Planner

CONSTANTS
    Alloc,       \* node_alloc_m: a pod cannot use more
    Aims,        \* the loads that runs may size for, see Planner
    Loads,       \* per application [cpu, skew]: CPU the requests take, and
                 \* how busy the busiest pod is, in per cent of the average
    InitKnobs,   \* settings a first run may find
    WithRequest, \* -AllowRequestChange
    MaxCandidates \* bound on the candidates adopted

VARIABLES
    knobs,       \* the live settings of each application
    seen,        \* what the last load test measured
    load,        \* what the applications are asked to do
    aim,         \* -LoadScale and -TargetRps, the same in every run
    pc,
    adopted,     \* candidates adopted so far
    aux_sizing,  \* what the last sizing was: "none", "idle" or "usage"
    aux_beyond   \* a run sized for more than its pods could use on their nodes

vars == <<knobs, seen, load, aim, pc, adopted, aux_sizing, aux_beyond>>

Knob == [request : Nat, target : Nat, min : Nat, max : Nat]

Accepted(knob) ==
    /\ knob.request >= RequestMin
    /\ knob.target \in TargetMin..TargetMax
    /\ knob.min >= 1 /\ knob.max >= knob.min

\* Seven tenths of a node, a unit more for rounding, fit beside its DaemonSets.
ASSUME NodeAssumption == Alloc \in Nat \ {0} /\ CeilTo(7 * Alloc, 10) <= Usable
ASSUME LoadsAssumption == Loads \subseteq [cpu : Nat \ {0}, skew : Nat]
ASSUME AimsAssumption ==
    \A x \in Aims :
        /\ x.scale \in Nat
        /\ DOMAIN x.fixed \subseteq Apps
        /\ \A a \in DOMAIN x.fixed : x.fixed[a] \in Nat
ASSUME BoundAssumption == MaxCandidates \in Nat
ASSUME InitAssumption ==
    InitKnobs \subseteq {k \in Knob : Accepted(k) /\ k.request <= Usable}

\* What a load test finds once the HPA has settled: pods that are throttled by
\* their node use no more than it has.
Measured(knob, l) ==
    LET pods == Replicas(l.cpu, knob)
        cpu == Smaller(l.cpu, pods * Alloc)
    IN  [cpu |-> cpu, pods |-> pods,
         perPod |-> Smaller(Alloc, CeilDiv(l.skew * cpu, 100 * pods))]

NothingSeen == [cpu |-> 0, pods |-> 0, perPod |-> 0, need |-> 0]

Sized(a, m) ==
    [cpu |-> m.cpu, pods |-> m.pods, perPod |-> m.perPod,
     need |-> Required(m.cpu, AppTarget(a, m.cpu, aim))]

Init ==
    /\ knobs \in [Apps -> InitKnobs]
    /\ load \in [Apps -> Loads]
    /\ aim \in Aims
    /\ seen = [a \in Apps |-> NothingSeen]
    /\ pc = "baseline"
    /\ adopted = 0
    /\ aux_sizing = "none"
    /\ aux_beyond = FALSE

LoadTest ==
    /\ pc \in {"baseline", "again"}
    /\ seen' = [a \in Apps |-> Sized(a, Measured(knobs[a], load[a]))]
    /\ aux_beyond' = (aux_beyond \/ \E a \in Apps : seen'[a].need > seen'[a].pods * Alloc)
    /\ pc' = IF pc = "baseline" THEN "presize" ELSE "candidate"
    /\ UNCHANGED <<knobs, load, aim, adopted, aux_sizing>>

Sizing ==
    /\ pc = "presize"
    /\ knobs' = Presize(knobs, seen)
    /\ aux_sizing' = IF knobs' = knobs THEN "none"
                     ELSE IF IdleFit(knobs, seen) # knobs THEN "idle" ELSE "usage"
    /\ pc' = IF knobs' = knobs THEN "candidate" ELSE "again"
    /\ UNCHANGED <<seen, load, aim, adopted, aux_beyond>>

\* The rest of a run leaves everything as it was: no candidate, or a rejected
\* one that was put back.
KeepSettings ==
    /\ pc = "candidate"
    /\ pc' = "baseline"
    /\ UNCHANGED <<knobs, seen, load, aim, adopted, aux_sizing, aux_beyond>>

\* What a bundle may give each application: nothing new, or one candidate's knob.
Offers ==
    LET fit == IdleFit(knobs, seen)
        all(a) == Proposals(knobs[a], seen[a])
                  \cup {Capped(fit[a], knobs[a], cap) : cap \in TargetCaps}
    IN  [a \in Apps |->
           {knobs[a]} \cup (IF WithRequest THEN all(a) ELSE HpaOnly(all(a), knobs[a]))]

Bundles ==
    LET offers == Offers
    IN  {chosen \in [Apps -> UNION {offers[a] : a \in Apps}] :
           \A a \in Apps : chosen[a] \in offers[a]}

AdoptBundle ==
    /\ pc = "candidate"
    /\ adopted < MaxCandidates
    /\ knobs' \in Bundles \ {knobs}
    /\ adopted' = adopted + 1
    /\ pc' = "baseline"
    /\ UNCHANGED <<seen, load, aim, aux_sizing, aux_beyond>>

\* node-shed, for fewer nodes than the peak reserves.
AdoptShed ==
    /\ pc = "candidate"
    /\ WithRequest
    /\ adopted < MaxCandidates
    /\ knobs' = NodeShed(knobs) /\ knobs' # knobs
    /\ adopted' = adopted + 1
    /\ pc' = "baseline"
    /\ UNCHANGED <<seen, load, aim, aux_sizing, aux_beyond>>

Next == LoadTest \/ Sizing \/ KeepSettings \/ AdoptBundle \/ AdoptShed

Spec == Init /\ [][Next]_vars

\* Whoever tunes goes on with one run after the other; no run has to adopt
\* anything.
FairSpec == Spec /\ WF_vars(LoadTest \/ Sizing \/ KeepSettings)

----------------------------------------------------------------------------

\* Types of the settings and of the measurement.
TypeOK ==
    /\ knobs \in [Apps -> Knob]
    /\ seen \in [Apps -> [cpu : Nat, pods : Nat, perPod : Nat, need : Nat]]
    /\ load \in [Apps -> Loads] /\ aim \in Aims
    /\ pc \in {"baseline", "presize", "again", "candidate"}
    /\ adopted \in 0..MaxCandidates
    /\ aux_sizing \in {"none", "idle", "usage"} /\ aux_beyond \in BOOLEAN

\* Whatever is adopted in whatever order, the HPA API accepts it and no request
\* is zero: what OptimizeRun assumes of the planner's knobs.
KnobsAccepted == \A a \in Apps : Accepted(knobs[a])

\* A pod always fits a node, until a run sizes for a load that its pods could
\* not carry on theirs (-LoadScale or -TargetRps far above the measured load:
\* _usage_sized has no upper limit).  Each run derives the requests from the
\* pods that the last one caused; tuning_engine.py:47-49 tells of requests that
\* grew from run to run when they were set to the whole usage.
Schedulable == ~aux_beyond => \A a \in Apps : knobs[a].request <= Usable

\* tuning_engine.py:1072-1074: after an idle fit the smallest replicas run on
\* the baseline nodes alone, when each zone has one and no application asks
\* for two pods in a zone.
IdleFitFits ==
    pc = "again" /\ aux_sizing = "idle" /\ BaselineNodes = Zones
        /\ (\A a \in Apps : knobs[a].min <= Zones)
            => IdleNodes(knobs) <= BaselineNodes

\* 3과제/README.md:186-187: nothing that sizes a pod lowers its request below
\* half of what it needs at the load that the run sizes for, whichever sizing,
\* candidate or bundle of several does it.  With -LoadScale below 1 that is
\* less than half of what has been measured.
NeverStarved ==
    [][\A a \in Apps :
         knobs'[a].request < Smaller(knobs[a].request, SearchTop)
            => 2 * knobs'[a].request * seen[a].pods >= Demand(seen[a])]_vars

\* Sizing by usage comes to rest under a steady load, rounding and limits of
\* the targets included: it goes on only if the idle fit does.
UsageSettles == <>[](aux_sizing = "none") \/ []<>(aux_sizing = "idle")

----------------------------------------------------------------------------
\* What a comment says and the code does not do.

\* tuning_engine.py:50: with half of the usage as the floor sizing converges.
SizingSettles == <>[](aux_sizing = "none")

=============================================================================
