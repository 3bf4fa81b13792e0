------------------------------ MODULE Planner ------------------------------
(***************************************************************************)
(* The settings that 3과제/tuning/tuning_engine.py proposes, computed from  *)
(* one measurement.  Settings are records [request, target, min, max] in   *)
(* millicores and per cent; a measurement is a record                      *)
(* [cpu, pods, perPod, need]: CPU of the application, its pods, the        *)
(* busiest of them, and the CPU at the load that the run sizes for, which  *)
(* is another one when -LoadScale or -TargetRps is given.                  *)
(*                                                                         *)
(* Fractions are exact here and floating point in the code.  Which of the  *)
(* proposals is chosen depends on the predicted score, and is left open.   *)
(* There are no CPU limits, as in the default configuration.               *)
(***************************************************************************)
EXTENDS Integers, FiniteSets, SequencesExt

CONSTANTS
    Apps,
    Usable,         \* usable_cpu_per_node_m
    Zones,          \* zone_count
    BaselineNodes,  \* baseline_node_count
    TargetCaps,     \* values of _safe_target_max
    Targets,        \* bound: the targets that the search looks at, all in the code
    SearchStep      \* bound: from one request to the next in it, 25 in the code

RequestUnit == 25
RequestMin == 100
TargetMin == 25
TargetMax == 90
SearchTop == 8000

ASSUME AppsAssumption == IsFiniteSet(Apps)
ASSUME NodesAssumption ==
    Usable \in Nat \ {0} /\ Zones \in Nat \ {0} /\ BaselineNodes \in Nat \ {0}
ASSUME TargetsAssumption ==
    /\ TargetCaps \subseteq 55..TargetMax /\ Targets \subseteq TargetMin..TargetMax
    /\ SearchStep \in Nat \ {0} /\ SearchStep % RequestUnit = 0

Larger(a, b) == IF a >= b THEN a ELSE b
Smaller(a, b) == IF a <= b THEN a ELSE b
Clamp(value, low, high) == Larger(low, Smaller(high, value))

CeilDiv(n, d) == (n + d - 1) \div d

\* ceil_to(n / d)
CeilTo(n, d) == RequestUnit * CeilDiv(n, d * RequestUnit)

\* A defect to tell apart: rounded up.
FloorTo_Up(value) == RequestUnit * CeilDiv(value, RequestUnit)

FloorTo(value) == RequestUnit * (value \div RequestUnit)

\* round(n / d), ties to the even neighbour.
Rounded(n, d) ==
    LET whole == n \div d
        rest == 2 * (n % d)
    IN  IF rest < d \/ (rest = d /\ whole % 2 = 0) THEN whole ELSE whole + 1

----------------------------------------------------------------------------
\* Nodes.

\* The first node with room, or a new one.
Placed(nodes, request) ==
    LET first == SelectInSeq(nodes, LAMBDA used : used + request <= Usable)
    IN  IF first = 0 THEN Append(nodes, request)
        ELSE [nodes EXCEPT ![first] = @ + request]

\* bin_pack_nodes, of pods <<application, index>>: first fit, the largest
\* request first.  The fold takes the element that it is told to choose last.
NodesFor(pods, knobs) ==
    LET request(p) == knobs[p[1]].request
    IN  Len(MapThenFoldSet(LAMBDA r, nodes : Placed(nodes, r), <<>>, request,
                           LAMBDA rest : CHOOSE p \in rest :
                                           \A q \in rest : request(p) <= request(q),
                           pods))

\* The smallest replicas of which zone z gets every Zones-th.
ZonePods(knobs, z) ==
    UNION {{a} \X {i \in 0..(knobs[a].min - 1) : i % Zones = z} : a \in Apps}

\* idle_nodes: what runs although there is no load.
IdleNodes(knobs) ==
    SumFunction([z \in 0..(Zones - 1) |-> NodesFor(ZonePods(knobs, z), knobs)])

\* _predicted_replicas, which is also where the HPA settles.
Replicas(cpu, knob) ==
    Clamp(CeilDiv(100 * cpu, knob.request * knob.target), knob.min, knob.max)

----------------------------------------------------------------------------
\* The load that a run sizes for.  An aim is a record [scale, fixed]:
\* -LoadScale in per cent, and for applications with a -TargetRps of their own
\* the CPU that so many requests take.

\* app_target_rps, in hundredths of the requests that take one millicore.
AppTarget(a, cpu, aim) ==
    IF a \in DOMAIN aim.fixed THEN 100 * aim.fixed[a] ELSE aim.scale * cpu

\* required_cpu_m: a target of zero counts as none.
Required(cpu, target) == IF target = 0 THEN cpu ELSE Rounded(target, 100)

\* What the pods need altogether; an application that needs nothing is taken
\* at the use of its busiest pod.
Demand(m) == IF m.need = 0 THEN m.perPod * m.pods ELSE m.need

----------------------------------------------------------------------------
\* Sizing before the load.

Retuned(knob, request, target) == [knob EXCEPT !.request = request, !.target = target]

\* Another request with the same trigger (request times target), if it can be.
Resized(knob, request) ==
    Retuned(knob, request,
            Clamp(Rounded(knob.request * knob.target, request), TargetMin, TargetMax))

\* A defect to tell apart: REQUEST_HEADROOM is 1.
UsageSized_FullUsage(knob, m) ==
    LET sized == Larger(RequestMin, CeilTo(m.need, m.pods))
    IN  IF m.need = 0 \/ (sized - knob.request) \in -24..24 THEN knob
        ELSE Resized(knob, sized)

\* A defect to tell apart: the correction is made twice.
UsageSized_Overshoots(knob, m) ==
    LET sized == Larger(RequestMin, CeilTo(7 * m.need, 10 * m.pods))
        twice == Clamp(2 * sized - knob.request, RequestMin, Usable)
    IN  IF m.need = 0 \/ (sized - knob.request) \in -24..24 THEN knob
        ELSE Resized(knob, twice)

\* _usage_sized: seven tenths of what a pod needs, half of what the busiest
\* uses at least; a difference of less than one unit is left alone.
UsageSized(knob, m) ==
    LET sized == Larger(Larger(RequestMin, CeilTo(7 * m.need, 10 * m.pods)),
                        CeilTo(m.perPod, 2))
    IN  IF m.need = 0 \/ (sized - knob.request) \in -24..24 THEN knob
        ELSE Resized(knob, sized)

\* A defect to tell apart: nothing but the smallest request.
Floor_None(m) == RequestMin

\* Half of what a pod needs on average.
Floor(m) == Larger(RequestMin, CeilTo(Demand(m), 2 * m.pods))

\* What the baseline nodes of one zone hold.
ZoneBudget == Usable * Larger(1, BaselineNodes \div Zones)

\* _idle_fit: more nodes than the baseline run idle, so what exceeds the
\* floors shrinks in proportion until one pod of each application fits a zone.
IdleFit(knobs, seen) ==
    LET total == SumFunction([a \in Apps |-> knobs[a].request])
        floor == [a \in Apps |-> Floor(seen[a])]
        slack == total - SumFunction(floor)
        room == ZoneBudget - SumFunction(floor)
        shrunk == [a \in Apps |->
                     floor[a] + ((knobs[a].request - floor[a]) * room) \div slack]
        fitted == [a \in Apps |-> Larger(floor[a], FloorTo(shrunk[a]))]
    IN  IF IdleNodes(knobs) <= BaselineNodes \/ total <= ZoneBudget \/ room < 0 THEN knobs
        ELSE [a \in Apps |->
                IF fitted[a] >= knobs[a].request THEN knobs[a]
                ELSE Resized(knobs[a], fitted[a])]

\* plan's presize: the idle nodes first, else every application by its usage.
Presize(knobs, seen) ==
    IF IdleFit(knobs, seen) # knobs THEN IdleFit(knobs, seen)
    ELSE [a \in Apps |-> UsageSized(knobs[a], seen[a])]

----------------------------------------------------------------------------
\* Candidates under load, one operator per kind.

\* A defect to tell apart: the target falls below zero.
GateRecovery_NoFloor(knob, m) ==
    {[knob EXCEPT !.target = @ - 15], [knob EXCEPT !.target = @ - 30]}

\* Earlier and wider scaling for an application below a floor; the worse it
\* is, the more.
GateRecovery(knob, m) ==
    LET wider == IF m.pods >= knob.max THEN knob.max + Larger(2, CeilDiv(knob.max, 2))
                 ELSE knob.max
        lifted == IF knob.min < wider THEN Smaller(wider, knob.min + 1) ELSE knob.min
    IN  {[knob EXCEPT !.target = Larger(TargetMin, knob.target - 15), !.max = wider],
         [knob EXCEPT !.target = Larger(TargetMin, knob.target - 30),
                      !.min = lifted, !.max = wider],
         [knob EXCEPT !.target = TargetMin, !.min = lifted, !.max = wider]}

PerformanceBand(knob) == [knob EXCEPT !.target = Larger(TargetMin, @ - 10)]

CostReclaim(knob) == [knob EXCEPT !.target = Smaller(TargetMax, @ + 10)]

\* A defect to tell apart: the cap may fall below the smallest replicas.
PodCap_BelowMin(knob, m) ==
    IF m.pods >= knob.max THEN [knob EXCEPT !.max = (85 * @) \div 100] ELSE knob

\* pod-cap: fewer pods for an application that used all it may have.
PodCap(knob, m) ==
    IF m.pods >= knob.max THEN [knob EXCEPT !.max = Larger(knob.min, (85 * @) \div 100)]
    ELSE knob

\* pod-consolidate: fewer pods of at most half a node.
Consolidated(knob, m) ==
    LET perPod == Clamp(Usable \div 2, RequestMin, Larger(RequestMin, Usable))
        pods == Larger(knob.min, CeilDiv(m.need, perPod))
        request == Larger(RequestMin, CeilTo(m.need, pods))
    IN  IF m.need = 0 \/ pods >= m.pods THEN knob
        ELSE [knob EXCEPT
                !.request = request,
                !.target = Clamp(Rounded(100 * m.need, pods * request), TargetMin, TargetMax),
                !.max = Larger(knob.min, pods + Larger(1, CeilDiv(pods, 2)))]

\* request-optimal: the options of _optimal_request_target.
RequestOptimal(knob, m) ==
    LET protected == Larger(Replicas(m.cpu, knob), Smaller(knob.max, m.pods))
        high == Smaller(knob.request, SearchTop)
        low == Smaller(high, Larger(Floor(m), CeilTo(knob.request, 2)))
        requests == {r \in low..high : (r - low) % SearchStep = 0}
    IN  {option \in {Retuned(knob, r, t) : r \in requests, t \in Targets} :
            Replicas(m.cpu, option) >= protected}

\* _make_candidate: a target is not raised above the cap.
Capped(proposed, knob, cap) ==
    IF proposed.target > cap /\ proposed.target > knob.target
    THEN [proposed EXCEPT !.target = Larger(cap, knob.target)]
    ELSE proposed

\* Every knob that some candidate gives one application, its own if none does.
Proposals(knob, m) ==
    {Capped(p, knob, cap) :
        p \in {PerformanceBand(knob), CostReclaim(knob), PodCap(knob, m),
               Consolidated(knob, m), UsageSized(knob, m)} \cup RequestOptimal(knob, m),
        cap \in TargetCaps}
    \cup GateRecovery(knob, m)

\* --hpa-only drops what changes a request.
HpaOnly(proposals, knob) == {p \in proposals : p.request = knob.request}

\* _node_shed: one node less, by the maximal replicas of all applications.
NodeShed(knobs) ==
    LET peak == SumFunction([a \in Apps |-> knobs[a].max * knobs[a].request])
        budget == (CeilDiv(peak, Usable) - 1) * Usable
    IN  IF budget = 0 THEN knobs
        ELSE [a \in Apps |->
                [knobs[a] EXCEPT !.max = Larger(knobs[a].min, (@ * budget) \div peak)]]

=============================================================================
