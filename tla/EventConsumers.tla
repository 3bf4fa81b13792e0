--------------------------- MODULE EventConsumers ---------------------------
(***************************************************************************)
(* The small services of 2과제 that take work from a queue, a stream or an  *)
(* event, side by side: the consumers of the order queue and of the job    *)
(* queue, the alert function, the seat reservations with their audit       *)
(* function, and the remediation of the security group.  They are in       *)
(* different accounts and regions and share nothing, so a behaviour moves  *)
(* one of them; the reservations and their audit move together.            *)
(***************************************************************************)
EXTENDS Integers, Sequences, SeatReservation, SecurityGroup

CONSTANTS
    Message, Consumer, MaxTrouble,
    Alerts, BatchLimit, RetryLimit

VARIABLES
    service,
    stored, hidden, receiver, batch, left, spent, handled, cut, doubled, overdue, trouble,
    available, checkpoint, last, at, effect, performed, retries

(* app.py: as many messages as take the queue's 30 s (scaled to three of   *)
(* two ticks); worker.py: one, hidden for three times what it takes.       *)
Orders == INSTANCE QueueConsumers WITH BatchSize <- 3, WorkTime <- 2, Visibility <- 6
Jobs == INSTANCE QueueConsumers WITH BatchSize <- 1, WorkTime <- 1, Visibility <- 3
Audit == INSTANCE BatchConsumer WITH available <- version, EffectCount <- 1
Alarm == INSTANCE BatchConsumer WITH EffectCount <- 2

ASSUME EventConsumersAssumption ==
    /\ Orders!QueueAssumption /\ Jobs!QueueAssumption
    /\ Alarm!BatchAssumption /\ Alerts \in Nat

queueVars ==
    <<stored, hidden, receiver, batch, left, spent, handled, cut, doubled, overdue, trouble>>
batchVars == <<checkpoint, last, at, effect, performed, retries>>
vars == <<service, queueVars, available, batchVars, seatVars, groupVars>>

Init ==
    /\ service \in {"orders", "jobs", "alerts", "seats", "group"}
    /\ Orders!QueueInit
    /\ available = Alerts /\ Alarm!BatchInit
    /\ SeatInit
    /\ GroupInit

OrdersStep ==
    /\ service = "orders" /\ Orders!QueueNext
    /\ UNCHANGED <<service, available, batchVars, seatVars, groupVars>>

JobsStep ==
    /\ service = "jobs" /\ Jobs!QueueNext
    /\ UNCHANGED <<service, available, batchVars, seatVars, groupVars>>

AlertsStep ==
    /\ service = "alerts" /\ Alarm!BatchNext
    /\ UNCHANGED <<service, available, queueVars, seatVars, groupVars>>

SeatsStep ==
    /\ service = "seats"
    /\ \/ SeatNext /\ UNCHANGED batchVars
       \/ Audit!BatchNext /\ UNCHANGED seatVars
    /\ UNCHANGED <<service, available, queueVars, groupVars>>

GroupStep ==
    /\ service = "group" /\ GroupNext
    /\ UNCHANGED <<service, queueVars, available, batchVars, seatVars>>

Next == OrdersStep \/ JobsStep \/ AlertsStep \/ SeatsStep \/ GroupStep

Spec == Init /\ [][Next]_vars

(* The properties of the consumers, by the names of their modules. *)
RepeatIsExplained ==
    /\ service = "orders" => Orders!RepeatIsExplained
    /\ service = "jobs" => Jobs!RepeatIsExplained

AckedIsDone ==
    /\ service = "alerts" => Alarm!AckedIsDone
    /\ service = "seats" => Audit!AckedIsDone

=============================================================================
