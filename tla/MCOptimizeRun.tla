--------------------------- MODULE MCOptimizeRun ---------------------------
(***************************************************************************)
(* Two applications.  A field has at most two values beside the zero that  *)
(* Read-Tuning can produce, so that every pair of settings a run can swap, *)
(* lose or leave behind is there.                                          *)
(***************************************************************************)
EXTENDS OptimizeRunProps

CONSTANTS u, s

Setting(request, target, min, max) ==
    [f \in Fields |->
        CASE f = "request" -> request [] f = "target" -> target
          [] f = "min" -> min [] f = "max" -> max]

Base == Setting(1, 1, 1, 1)

MCApps == {u, s}
MCDefaults == [a \in MCApps |-> Base]

\* As deployed, a resized request whose target moves with it, a raised ceiling.
MCKnobs == {Base, Setting(2, 2, 1, 1), Setting(1, 1, 1, 2)}

\* Nothing, what optimize.ps1 records, and what `apply.ps1 -Target` does.
MCEntries ==
    {NoEntry, Setting(2, 1, 1, 1),
     [NoEntry EXCEPT !["target"] = 2]}

MCInitFiles == {Written(map) : map \in [MCApps -> MCEntries]} \cup {Torn}
MCInitClusters == [MCApps -> {Base, Setting(2, 1, 1, 1), Setting(1, 2, 1, 1)}]

MCScores ==
    {[total |-> 0, avail |-> 0, perf |-> 0, cost |-> FALSE],
     [total |-> 1, avail |-> 1, perf |-> 1, cost |-> TRUE],
     [total |-> 2, avail |-> 0, perf |-> 2, cost |-> TRUE]}

=============================================================================
