---------------------------- MODULE MCSizingLoop ----------------------------
(***************************************************************************)
(* Two applications on two zones with one baseline node each, with the     *)
(* allocatable and usable CPU of a t3.medium.  Requests from the smallest  *)
(* to one that fills half a node, loads from idle to more than the pods    *)
(* can take.                                                               *)
(***************************************************************************)
EXTENDS SizingLoop

CONSTANTS u, s

MCApps == {u, s}
MCCaps == {70}
MCTargets == {25, 90}
MCLoads == {[cpu |-> 450, skew |-> 150], [cpu |-> 5000, skew |-> 100]}
\* The load as measured; and half of it, but u for far more than its pods do.
MCAsMeasured == {[scale |-> 100, fixed |-> <<>>]}
MCAims == MCAsMeasured \cup {[scale |-> 50, fixed |-> u :> 9000]}
MCKnobs ==
    {[request |-> 100, target |-> 25, min |-> 2, max |-> 2],
     [request |-> 100, target |-> 70, min |-> 2, max |-> 6],
     [request |-> 750, target |-> 25, min |-> 2, max |-> 6],
     [request |-> 750, target |-> 70, min |-> 2, max |-> 2]}

=============================================================================
