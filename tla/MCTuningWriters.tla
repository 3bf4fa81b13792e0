-------------------------- MODULE MCTuningWriters --------------------------
(***************************************************************************)
(* Two applications, two shells, and a bound on commands and drifts.  The  *)
(* edit gives one field of an entry that may list others, so that what a   *)
(* merge keeps and what it replaces differ.                                *)
(***************************************************************************)
EXTENDS TuningWriters, TLC

CONSTANTS u, s, p1, p2

Setting(request, target, min, max) ==
    [f \in Fields |->
        CASE f = "request" -> request [] f = "target" -> target
          [] f = "min" -> min [] f = "max" -> max]

Base == Setting(1, 1, 1, 1)

MCApps == {u, s}
MCProcs == {p1, p2}
MCDefaults == [a \in MCApps |-> Base]
MCEdits == {[NoEntry EXCEPT !["target"] = 2]}
MCKnobs == {Setting(2, 3, 1, 1)}
MCInitFiles ==
    {Written(NoTuning), Written([NoTuning EXCEPT ![u] = Setting(2, 1, 1, 1)]),
     Torn}
MCInitClusters == {[a \in MCApps |-> IF a = u THEN Setting(2, 1, 1, 1) ELSE Base]}
MCSymmetry == Permutations(MCProcs)

=============================================================================
