--------------------------- MODULE BatchConsumer ---------------------------
(***************************************************************************)
(* A Lambda function that is given the records of a stream or topic        *)
(* partition in batches, and the same batch again until it returns.  It    *)
(* goes through a batch record by record and performs the same effects on  *)
(* each: put_item for the audit of reservations (07/module1/lambda.py),    *)
(* put_object and then publish for alerts (module3/lambda/alert/index.py). *)
(***************************************************************************)
EXTENDS Integers

CONSTANTS
    EffectCount,   \* effects per record, performed in order
    BatchLimit,    \* batch_size
    RetryLimit     \* bound on failed invocations

BatchAssumption ==
    EffectCount \in Nat \ {0} /\ BatchLimit \in Nat \ {0} /\ RetryLimit \in Nat

VARIABLES
    available,    \* records the source has so far: not this module's to change
    checkpoint,   \* records acknowledged
    last,         \* last record of the batch in hand
    at,           \* the invocation's record, 0 between invocations
    effect,       \* its next effect on that record
    performed,    \* <<record, effect>>, performed at least once
    retries

batchVars == <<checkpoint, last, at, effect, performed, retries>>

BatchInit ==
    /\ checkpoint = 0 /\ last = 0 /\ at = 0 /\ effect = 1
    /\ performed = {}
    /\ retries = 0

(* The mapping reads a batch, or gives the one in hand again. *)
Invoke ==
    /\ at = 0
    /\ \E n \in 1..available :
          /\ n > checkpoint /\ n <= checkpoint + BatchLimit
          /\ last > checkpoint => n = last
          /\ last' = n
    /\ at' = checkpoint + 1
    /\ effect' = 1
    /\ UNCHANGED <<checkpoint, performed, retries>>

(* One effect on one record. *)
Perform ==
    /\ at \in 1..last
    /\ performed' = performed \cup {<<at, effect>>}
    /\ IF effect < EffectCount
       THEN effect' = effect + 1 /\ at' = at
       ELSE effect' = 1 /\ at' = at + 1
    /\ UNCHANGED <<checkpoint, last, retries>>

(* A defect to tell apart: the exception is caught and the next record is  *)
(* taken.                                                                  *)
FailAndGoOn ==
    /\ at \in 1..last
    /\ retries < RetryLimit
    /\ retries' = retries + 1
    /\ at' = at + 1
    /\ effect' = 1
    /\ UNCHANGED <<checkpoint, last, performed>>

(* A call raises, whether it had its effect or not, or the function is     *)
(* stopped: the whole batch is given again.                                *)
Fail ==
    /\ at \in 1..last
    /\ retries < RetryLimit
    /\ retries' = retries + 1
    /\ performed' \in {performed, performed \cup {<<at, effect>>}}
    /\ at' = 0
    /\ UNCHANGED <<checkpoint, last, effect>>

(* The handler returns and the batch is acknowledged. *)
Acknowledge ==
    /\ at > last
    /\ checkpoint' = last
    /\ at' = 0
    /\ UNCHANGED <<last, effect, performed, retries>>

BatchNext == Invoke \/ Perform \/ Fail \/ Acknowledge

(* What is acknowledged has had every effect, whatever failed on the way,  *)
(* and no record has a later effect without the earlier ones: every change *)
(* of a seat is audited, an alert that was notified is stored.             *)
AckedIsDone ==
    /\ \A i \in 1..checkpoint, k \in 1..EffectCount : <<i, k>> \in performed
    /\ \A p \in performed : \A k \in 1..(p[2] - 1) : <<p[1], k>> \in performed

=============================================================================
