-------------------------- MODULE MCEventConsumers --------------------------
(***************************************************************************)
(* Three messages for two copies of a consumer, so that a full batch takes *)
(* the whole timeout and what a delay makes visible again goes to the      *)
(* other copy; three alerts in batches of two; two users; two rules and    *)
(* four additions, so that a rule comes back while earlier runs are still  *)
(* under way.  Messages are alike, and so are copies: no definition picks  *)
(* one by its name.                                                        *)
(***************************************************************************)
EXTENDS EventConsumers, TLC

CONSTANTS m1, m2, m3, c1, c2, u1, u2, r1, r2, e1, e2, e3, e4

MCMessage == {m1, m2, m3}
MCConsumer == {c1, c2}
MCUser == {u1, u2}
MCRule == {r1, r2}
MCEvent == {e1, e2, e3, e4}
MCSymmetry == Permutations(MCMessage) \cup Permutations(MCConsumer)

=============================================================================
