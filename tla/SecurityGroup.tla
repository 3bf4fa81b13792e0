--------------------------- MODULE SecurityGroup ---------------------------
(***************************************************************************)
(* The remediation of the protected security group                         *)
(* (08/app/module3/remediate_security_group.py).  Every rule somebody adds *)
(* raises one event; an event invokes the function, which reads the rules  *)
(* of the group and then revokes what it read.  Events are handled         *)
(* concurrently.  revoke_security_group_ingress refuses the whole call     *)
(* when one of the rules is gone; the function raises, and the service     *)
(* invokes it again, Attempts times in all.  It waits a minute before it   *)
(* does, and a run is stopped after 30 s: every run that was under way     *)
(* when an invocation failed has ended when the next one begins.           *)
(***************************************************************************)
EXTENDS Integers

CONSTANTS
    Rule,          \* the rules somebody may add
    Event,         \* one per addition: bounds how many there are
    Attempts,      \* invocations per event (one and two retries)
    MaxErrors      \* bound on other errors of the API

ASSUME AttemptsAssumption ==
    Attempts \in Nat /\ MaxErrors \in Nat /\ MaxErrors + 2 <= Attempts

VARIABLES
    rules,     \* the ingress rules of the group
    stage,     \* of each event: "unused", "pending", "described", "done", "dropped"
    seen,      \* the rules its invocation has read
    tries,     \* the invocations that failed
    before,    \* the runs under way when the last one failed that have not ended
    errors

groupVars == <<rules, stage, seen, tries, before, errors>>

GroupInit ==
    /\ rules = {}
    /\ stage = [e \in Event |-> "unused"]
    /\ seen = [e \in Event |-> {}]
    /\ tries = [e \in Event |-> 0]
    /\ before = [e \in Event |-> {}]
    /\ errors = 0

(* AuthorizeSecurityGroupIngress, seen by EventBridge through CloudTrail *)
AddRule(r, e) ==
    /\ r \notin rules
    /\ stage[e] = "unused"
    /\ rules' = rules \cup {r}
    /\ stage' = [stage EXCEPT ![e] = "pending"]
    /\ UNCHANGED <<seen, tries, before, errors>>

(* _describe_ingress_permissions, in the first attempt or a later one *)
Describe(e) ==
    /\ stage[e] = "pending"
    /\ before[e] = {}
    /\ seen' = [seen EXCEPT ![e] = rules]
    /\ stage' = [stage EXCEPT ![e] = "described"]
    /\ UNCHANGED <<rules, tries, before, errors>>

(* The function raises: another attempt, or none is left. *)
Raise(e) ==
    /\ tries' = [tries EXCEPT ![e] = @ + 1]
    /\ stage' = [stage EXCEPT ![e] = IF tries[e] + 1 < Attempts THEN "pending" ELSE "dropped"]
    /\ before' = [f \in Event |->
                    (IF f = e THEN {g \in Event : stage[g] = "described"} ELSE before[f]) \ {e}]
    /\ UNCHANGED seen

Succeed(e) ==
    /\ stage' = [stage EXCEPT ![e] = "done"]
    /\ before' = [f \in Event |-> before[f] \ {e}]
    /\ UNCHANGED <<seen, tries>>

(* A defect to tell apart: the error is reported and not raised. *)
RevokeReported(e) ==
    /\ stage[e] = "described"
    /\ rules' = IF seen[e] \subseteq rules THEN rules \ seen[e] ELSE rules
    /\ Succeed(e)
    /\ UNCHANGED errors

(* _revoke_all_ingress: nothing to do, all of what was read, or an error.  *)
(* A notification that fails changes nothing.                              *)
Revoke(e) ==
    /\ stage[e] = "described"
    /\ \/ seen[e] \subseteq rules /\ rules' = rules \ seen[e] /\ Succeed(e)
       \/ ~(seen[e] \subseteq rules) /\ Raise(e) /\ UNCHANGED rules
    /\ UNCHANGED errors

(* Any other error of the two calls, or the function is stopped; the rules *)
(* may have been revoked all the same.                                     *)
ApiError(e) ==
    /\ stage[e] \in {"pending", "described"}
    /\ before[e] = {}
    /\ errors < MaxErrors
    /\ errors' = errors + 1
    /\ \/ UNCHANGED rules
       \/ stage[e] = "described" /\ seen[e] \subseteq rules /\ rules' = rules \ seen[e]
    /\ Raise(e)

GroupNext ==
    \/ \E r \in Rule, e \in Event : AddRule(r, e)
    \/ \E e \in Event : Describe(e) \/ Revoke(e) \/ ApiError(e)

GroupSpec == GroupInit /\ [][GroupNext]_groupVars

Busy == \E e \in Event : stage[e] \in {"pending", "described"}

(* When nothing is left to handle, the group has no rule: that concurrent  *)
(* runs make each other fail never uses up the attempts of an event whose  *)
(* rule nobody else removes, and at most Attempts - 2 other errors do not  *)
(* either.                                                                 *)
GroupClean == rules # {} => Busy

=============================================================================
