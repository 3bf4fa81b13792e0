-------------------------- MODULE ProducerPromise --------------------------
(***************************************************************************)
(* What a Kafka producer promises the caller of send(), whatever happens   *)
(* to connections, leaders, time-outs and retries: every record is in a    *)
(* batch, a batch gets one verdict, and the verdict "succeeded" is given   *)
(* only to a batch the topic has.  "failed" says nothing about the topic:  *)
(* the batch may be there, and may even get there later.                   *)
(***************************************************************************)
CONSTANTS Record, Batch

VARIABLES
    fate,   \* the verdict on each batch
    rec,    \* the records of each batch
    topic   \* the records the broker has appended

vars == <<fate, rec, topic>>

Init ==
    /\ fate = [b \in Batch |-> "unused"]
    /\ rec = [b \in Batch |-> {}]
    /\ topic = {}

(* A record joins a batch without a verdict, or starts a new one. *)
Join(r, b) ==
    /\ fate[b] = "pending"
    /\ rec' = [rec EXCEPT ![b] = @ \cup {r}]
    /\ UNCHANGED <<fate, topic>>

Open(r, b) ==
    /\ fate[b] # "pending"
    /\ fate' = [fate EXCEPT ![b] = "pending"]
    /\ rec' = [rec EXCEPT ![b] = {r}]
    /\ UNCHANGED topic

Write(b) ==
    /\ fate[b] # "unused"
    /\ topic' = topic \cup rec[b]
    /\ UNCHANGED <<fate, rec>>

Succeed(b) ==
    /\ fate[b] = "pending"
    /\ rec[b] \subseteq topic
    /\ fate' = [fate EXCEPT ![b] = "succeeded"]
    /\ UNCHANGED <<rec, topic>>

Fail(batches) ==
    /\ \A b \in batches : fate[b] = "pending"
    /\ fate' = [b \in Batch |-> IF b \in batches THEN "failed" ELSE fate[b]]
    /\ UNCHANGED <<rec, topic>>

(* The process is gone: there is nobody left to promise anything to. *)
Restart ==
    /\ fate' = [b \in Batch |-> "unused"]
    /\ rec' = [b \in Batch |-> {}]
    /\ UNCHANGED topic

Next ==
    \/ \E r \in Record, b \in Batch : Join(r, b) \/ Open(r, b)
    \/ \E b \in Batch : Write(b) \/ Succeed(b)
    \/ \E batches \in SUBSET Batch : Fail(batches)
    \/ Restart

Spec == Init /\ [][Next]_vars

=============================================================================
