------------------------ MODULE EventConsumersProofs ------------------------
(***************************************************************************)
(* The properties of the small consumers, of their composition: each       *)
(* keeps its own invariant while it moves and nothing else touches its     *)
(* variables, except that the reservations give the audit function more    *)
(* changes to read.                                                        *)
(*                                                                         *)
(* The invariants of the queue and of the batches are those of             *)
(* ConsumerProofs; those of the reservations and of the remediation are    *)
(* here.  What a user is told is what the table answered a moment ago, so  *)
(* the invariant of the seat must speak of the answers that are under way: *)
(* the answer to a reservation holds until it arrives, because only the    *)
(* owner can cancel and the owner is still waiting for it.                 *)
(***************************************************************************)
EXTENDS EventConsumers, TLAPS

(* Each instance is read for one of its two halves; the parameters of the  *)
(* other half play no part in it.                                          *)
OrdersProof == INSTANCE ConsumerProofs WITH
    BatchSize <- 3, WorkTime <- 2, Visibility <- 6, EffectCount <- 1
JobsProof == INSTANCE ConsumerProofs WITH
    BatchSize <- 1, WorkTime <- 1, Visibility <- 3, EffectCount <- 1
AuditProof == INSTANCE ConsumerProofs WITH
    available <- version, EffectCount <- 1, BatchSize <- 1, WorkTime <- 1, Visibility <- 1
AlarmProof == INSTANCE ConsumerProofs WITH
    EffectCount <- 2, BatchSize <- 1, WorkTime <- 1, Visibility <- 1

(***************************************************************************)
(* The reservations.                                                       *)
(***************************************************************************)

SeatTypeOK ==
    /\ owner \in User \cup {NoUser}
    /\ version \in Nat
    /\ call \in [User -> {"none", "reserve", "cancel"}]
    /\ attempts \in [User -> Nat]
    /\ answer \in [User -> Nat \cup {NoAnswer}]
    /\ told \in [User -> Nat]

(* A claim, told or on its way, is the truth about the seat. *)
ClaimsHold ==
    \A u \in User :
        /\ told[u] # 0 => owner = u /\ version = told[u] /\ call[u] # "cancel"
        /\ call[u] = "reserve" /\ answer[u] > 0 => owner = u /\ version = answer[u]

SeatInv == SeatTypeOK /\ ClaimsHold

LEMMA SeatStep == SeatInv /\ [SeatNext]_seatVars => SeatInv'
<1> SUFFICES ASSUME SeatInv, [SeatNext]_seatVars PROVE SeatInv'
  OBVIOUS
<1> USE NoUserAssumption, MaxVersionAssumption DEF SeatInv, SeatTypeOK, NoAnswer, Refused
<1>1. ASSUME NEW u \in User, NEW request \in {"reserve", "cancel"}, Ask(u, request)
      PROVE  SeatInv'
  BY <1>1 DEF Ask, ClaimsHold
<1>2. ASSUME NEW u \in User, Reserve(u) PROVE SeatInv'
  <2>1. CASE owner = NoUser /\ Update(u, u)
    BY <1>2, <2>1 DEF Reserve, Update, ClaimsHold
  <2>2. CASE Refuse(u)
    BY <1>2, <2>2 DEF Reserve, Refuse, ClaimsHold
  <2> QED BY <1>2, <2>1, <2>2 DEF Reserve
<1>3. ASSUME NEW u \in User, Cancel(u) PROVE SeatInv'
  <2>1. CASE owner = u /\ Update(u, NoUser)
    BY <1>3, <2>1 DEF Cancel, Update, ClaimsHold
  <2>2. CASE Refuse(u)
    BY <1>3, <2>2 DEF Cancel, Refuse, ClaimsHold
  <2> QED BY <1>3, <2>1, <2>2 DEF Cancel
<1>4. ASSUME NEW u \in User, CallAgain(u) PROVE SeatInv'
  BY <1>4 DEF CallAgain, ClaimsHold
<1>5. ASSUME NEW u \in User, Answer(u) PROVE SeatInv'
  BY <1>5 DEF Answer, ClaimsHold
<1>6. CASE UNCHANGED seatVars
  BY <1>6 DEF seatVars, ClaimsHold
<1> QED BY <1>1, <1>2, <1>3, <1>4, <1>5, <1>6 DEF SeatNext

LEMMA SeatStart == SeatInit => SeatInv
BY DEF SeatInit, SeatInv, SeatTypeOK, ClaimsHold, NoAnswer

(* No seat is promised twice or taken from the user it was promised to,    *)
(* for any users, any number of changes and any number of repeated calls.  *)
THEOREM PromisedSeatsKept == SeatSpec => []ToldIsOwned
<1>1. SeatInv => ToldIsOwned
  BY DEF SeatInv, ClaimsHold, ToldIsOwned
<1> QED BY <1>1, SeatStart, SeatStep, PTL DEF SeatSpec

(***************************************************************************)
(* The remediation of the security group.                                  *)
(*                                                                         *)
(* While there is a rule some event sees to it.  The event of the last     *)
(* rule that was added is Fresh: an addition makes its event fresh, and a  *)
(* fresh event sees every rule when it reads.  It can fail because an      *)
(* older run removes part of what it has seen.  Then it is Waiting until   *)
(* the runs of that moment have ended; every run that began later has seen *)
(* every rule too.  So it is Sure the next time: a run that revokes before *)
(* it removes everything.                                                  *)
(***************************************************************************)

GroupTypeOK ==
    /\ rules \subseteq Rule
    /\ stage \in [Event -> {"unused", "pending", "described", "done", "dropped"}]
    /\ seen \in [Event -> SUBSET Rule]
    /\ tries \in [Event -> Nat]
    /\ before \in [Event -> SUBSET Event]
    /\ errors \in 0..MaxErrors
    /\ \A e \in Event : stage[e] = "unused" => tries[e] = 0

Fresh(e) ==
    /\ tries[e] <= errors
    /\ stage[e] = "pending" \/ (stage[e] = "described" /\ rules \subseteq seen[e])

Waiting(e) ==
    /\ tries[e] <= errors + 1
    /\ stage[e] = "pending"
    /\ \A f \in Event : stage[f] = "described" => f \in before[e] \/ rules \subseteq seen[f]

Sure(e) ==
    /\ tries[e] <= errors + 1
    /\ stage[e] = "described"
    /\ seen[e] = rules
    /\ \A f \in Event : stage[f] = "described" => rules \subseteq seen[f]

Covered(e) == Fresh(e) \/ Waiting(e) \/ Sure(e)

GroupInv == GroupTypeOK /\ (rules = {} \/ \E e \in Event : Covered(e))

(* Types. *)
LEMMA GroupTypes == GroupTypeOK /\ [GroupNext]_groupVars => GroupTypeOK'
<1> SUFFICES ASSUME GroupTypeOK, [GroupNext]_groupVars PROVE GroupTypeOK'
  OBVIOUS
<1> USE AttemptsAssumption DEF GroupTypeOK
<1>1. ASSUME NEW r \in Rule, NEW e \in Event, AddRule(r, e) PROVE GroupTypeOK'
  BY <1>1 DEF AddRule
<1>2. ASSUME NEW e \in Event, Describe(e) PROVE GroupTypeOK'
  BY <1>2 DEF Describe
<1>3. ASSUME NEW e \in Event, Revoke(e) PROVE GroupTypeOK'
  <2>1. CASE Succeed(e)
    BY <1>3, <2>1 DEF Revoke, Succeed
  <2>2. CASE Raise(e)
    BY <1>3, <2>2 DEF Revoke, Raise
  <2> QED BY <1>3, <2>1, <2>2 DEF Revoke
<1>4. ASSUME NEW e \in Event, ApiError(e) PROVE GroupTypeOK'
  BY <1>4 DEF ApiError, Raise
<1>5. CASE UNCHANGED groupVars
  BY <1>5 DEF groupVars
<1> QED BY <1>1, <1>2, <1>3, <1>4, <1>5 DEF GroupNext

(* A run that does not raise for e itself, and removes rules at most.      *)
LEMMA OtherRun ==
    ASSUME GroupTypeOK, NEW e \in Event, NEW f \in Event, e # f, Covered(e),
           Revoke(f) \/ ApiError(f)
    PROVE  rules' = {} \/ Covered(e)'
<1>1. /\ stage' \in [Event -> {"unused", "pending", "described", "done", "dropped"}]
      /\ \A g \in Event : g # f => stage'[g] = stage[g]
      /\ stage'[f] # "described"
      /\ tries'[e] = tries[e]
      /\ before'[e] = before[e] \ {f}
      /\ seen' = seen
      /\ errors' \in {errors, errors + 1}
  BY DEF GroupTypeOK, Revoke, ApiError, Raise, Succeed
<1>2. rules' = rules \/ (stage[f] = "described" /\ seen[f] \subseteq rules /\ rules' = rules \ seen[f])
  BY DEF Revoke, ApiError
<1>3. CASE Fresh(e)
  BY <1>1, <1>2, <1>3 DEF GroupTypeOK, Fresh, Covered
<1>4. CASE Waiting(e)
  BY <1>1, <1>2, <1>4 DEF GroupTypeOK, Waiting, Covered
<1>5. CASE Sure(e)
  <2>1. CASE rules' = rules
    BY <1>1, <1>5, <2>1 DEF GroupTypeOK, Sure, Covered
  <2>2. CASE stage[f] = "described" /\ rules' = rules \ seen[f]
    BY <1>5, <2>2 DEF Sure
  <2> QED BY <1>2, <2>1, <2>2
<1> QED BY <1>3, <1>4, <1>5 DEF Covered

(* The run of e itself: it removes everything, or there is another attempt *)
(* in which it is covered.                                                 *)
LEMMA OwnRevoke ==
    ASSUME GroupTypeOK, NEW e \in Event, Covered(e), Revoke(e)
    PROVE  rules' = {} \/ Covered(e)'
<1>1. stage[e] = "described"
  BY DEF Revoke
<1>2. CASE seen[e] \subseteq rules /\ rules' = rules \ seen[e]
  BY <1>1, <1>2 DEF Covered, Fresh, Waiting, Sure
<1>3. CASE ~(seen[e] \subseteq rules) /\ Raise(e) /\ UNCHANGED <<rules, errors>>
  <2>1. Fresh(e)
    BY <1>1, <1>3 DEF Covered, Waiting, Sure
  <2>2. tries'[e] = tries[e] + 1 /\ tries'[e] <= errors' + 1
    BY <1>3, <2>1 DEF Raise, Fresh, GroupTypeOK
  <2>3. stage'[e] = "pending"
    BY <1>3, <2>1, AttemptsAssumption DEF Raise, Fresh, GroupTypeOK
  <2>4. \A f \in Event : stage'[f] = "described" => f \in before'[e]
    BY <1>3, <2>3 DEF Raise, GroupTypeOK
  <2> QED BY <2>2, <2>3, <2>4 DEF Waiting, Covered
<1> QED BY <1>2, <1>3 DEF Revoke

LEMMA OwnError ==
    ASSUME GroupTypeOK, NEW e \in Event, Covered(e), ApiError(e)
    PROVE  rules' = {} \/ Covered(e)'
<1>1. tries[e] <= errors + 1 /\ errors < MaxErrors /\ errors' = errors + 1
  BY DEF Covered, Fresh, Waiting, Sure, ApiError, GroupTypeOK
<1>2. tries'[e] = tries[e] + 1 /\ tries'[e] <= errors' + 1
  BY <1>1 DEF ApiError, Raise, GroupTypeOK
<1>3. stage'[e] = "pending"
  BY <1>1, AttemptsAssumption DEF ApiError, Raise, GroupTypeOK
<1>4. \A f \in Event : stage'[f] = "described" => f \in before'[e]
  BY <1>3 DEF ApiError, Raise, GroupTypeOK
<1> QED BY <1>2, <1>3, <1>4 DEF Waiting, Covered

LEMMA GroupInvStep == GroupInv /\ [GroupNext]_groupVars => GroupInv'
<1> SUFFICES ASSUME GroupInv, [GroupNext]_groupVars
             PROVE  rules' = {} \/ \E e \in Event : Covered(e)'
  BY GroupTypes DEF GroupInv
<1>0. GroupTypeOK
  BY DEF GroupInv
<1>1. ASSUME NEW r \in Rule, NEW e \in Event, AddRule(r, e)
      PROVE  Covered(e)'
  BY <1>0, <1>1 DEF AddRule, GroupTypeOK, Covered, Fresh
<1>2. CASE UNCHANGED groupVars
  BY <1>2 DEF groupVars, GroupInv, Covered, Fresh, Waiting, Sure
<1>3. ASSUME NEW f \in Event, Describe(f)
      PROVE  rules' = {} \/ \E e \in Event : Covered(e)'
  <2>1. /\ UNCHANGED <<rules, tries, before, errors>>
        /\ stage' = [stage EXCEPT ![f] = "described"]
        /\ seen' = [seen EXCEPT ![f] = rules]
        /\ before[f] = {}
    BY <1>3 DEF Describe
  <2>2. ASSUME NEW e \in Event, Covered(e) PROVE Covered(e)'
    <3>1. CASE Fresh(e)
      BY <1>0, <2>1, <3>1 DEF GroupTypeOK, Covered, Fresh
    <3>2. CASE Waiting(e) /\ e # f
      BY <1>0, <2>1, <3>2 DEF GroupTypeOK, Covered, Waiting
    <3>3. CASE Waiting(e) /\ e = f
      BY <1>0, <2>1, <3>3 DEF GroupTypeOK, Covered, Waiting, Sure
    <3>4. CASE Sure(e)
      BY <1>0, <2>1, <3>4 DEF GroupTypeOK, Covered, Sure
    <3> QED BY <2>2, <3>1, <3>2, <3>3, <3>4 DEF Covered
  <2> QED BY <2>1, <2>2 DEF GroupInv
<1>4. ASSUME NEW f \in Event, Revoke(f) \/ ApiError(f)
      PROVE  rules' = {} \/ \E e \in Event : Covered(e)'
  <2>1. CASE rules = {}
    BY <1>4, <2>1 DEF Revoke, ApiError
  <2>2. ASSUME NEW e \in Event, Covered(e) PROVE rules' = {} \/ Covered(e)'
    BY <1>0, <1>4, <2>2, OtherRun, OwnRevoke, OwnError
  <2> QED BY <2>1, <2>2 DEF GroupInv
<1> QED BY <1>1, <1>2, <1>3, <1>4 DEF GroupNext

LEMMA GroupStart == GroupInit => GroupInv
BY AttemptsAssumption DEF GroupInit, GroupInv, GroupTypeOK

(* No rule is left when nothing is left to handle, for any rules, any      *)
(* number of additions and any number of attempts that exceeds the number  *)
(* of other errors by two: the remediation wins against concurrent         *)
(* additions and against its own concurrent runs.                          *)
THEOREM RemediationWins == GroupSpec => []GroupClean
<1>1. GroupInv => GroupClean
  BY DEF GroupInv, GroupClean, Busy, Covered, Fresh, Waiting, Sure
<1> QED BY <1>1, GroupStart, GroupInvStep, PTL DEF GroupSpec

(***************************************************************************)
(* The composition.                                                        *)
(***************************************************************************)

LEMMA Assumptions ==
    /\ OrdersProof!QueueAssumption /\ JobsProof!QueueAssumption
    /\ AuditProof!BatchAssumption /\ AlarmProof!BatchAssumption
    /\ Alerts \in Nat
BY EventConsumersAssumption
   DEF Alarm!BatchAssumption, OrdersProof!QueueAssumption, JobsProof!QueueAssumption,
       AuditProof!BatchAssumption, AlarmProof!BatchAssumption

(* The instances of the proof modules name the actions of the instances of *)
(* the model.                                                              *)
LEMMA SameSteps ==
    /\ Orders!QueueNext <=> OrdersProof!QueueNext
    /\ Jobs!QueueNext <=> JobsProof!QueueNext
    /\ Audit!BatchNext <=> AuditProof!BatchNext
    /\ Alarm!BatchNext <=> AlarmProof!BatchNext
<1>1. Orders!QueueNext <=> OrdersProof!QueueNext
  BY DEF Orders!QueueNext, Orders!Receive, Orders!ReceiveFails, Orders!Delete,
         Orders!DeleteFails, Orders!Crash, Orders!DeliverAgain, Orders!Tick,
         Orders!GoOn, Orders!HiddenFor, Orders!Workers, Orders!Answers,
         Orders!Visible, Orders!Busy, Orders!Finished, Orders!InBatch, Orders!Late,
         Orders!Due, Orders!Trouble, OrdersProof!QueueNext, OrdersProof!Receive,
         OrdersProof!ReceiveFails, OrdersProof!Delete, OrdersProof!DeleteFails,
         OrdersProof!Crash, OrdersProof!DeliverAgain, OrdersProof!Tick,
         OrdersProof!GoOn, OrdersProof!HiddenFor, OrdersProof!Workers,
         OrdersProof!Answers, OrdersProof!Visible, OrdersProof!Busy,
         OrdersProof!Finished, OrdersProof!InBatch, OrdersProof!Late,
         OrdersProof!Due, OrdersProof!Trouble
<1>2. Jobs!QueueNext <=> JobsProof!QueueNext
  BY DEF Jobs!QueueNext, Jobs!Receive, Jobs!ReceiveFails, Jobs!Delete,
         Jobs!DeleteFails, Jobs!Crash, Jobs!DeliverAgain, Jobs!Tick, Jobs!GoOn,
         Jobs!HiddenFor, Jobs!Workers, Jobs!Answers, Jobs!Visible, Jobs!Busy,
         Jobs!Finished, Jobs!InBatch, Jobs!Late, Jobs!Due, Jobs!Trouble,
         JobsProof!QueueNext, JobsProof!Receive, JobsProof!ReceiveFails,
         JobsProof!Delete, JobsProof!DeleteFails, JobsProof!Crash,
         JobsProof!DeliverAgain, JobsProof!Tick, JobsProof!GoOn,
         JobsProof!HiddenFor, JobsProof!Workers, JobsProof!Answers,
         JobsProof!Visible, JobsProof!Busy, JobsProof!Finished, JobsProof!InBatch,
         JobsProof!Late, JobsProof!Due, JobsProof!Trouble
<1>3. Audit!BatchNext <=> AuditProof!BatchNext
  BY DEF Audit!BatchNext, Audit!Invoke, Audit!Perform, Audit!Fail, Audit!Acknowledge,
         AuditProof!BatchNext, AuditProof!Invoke, AuditProof!Perform, AuditProof!Fail,
         AuditProof!Acknowledge
<1>4. Alarm!BatchNext <=> AlarmProof!BatchNext
  BY DEF Alarm!BatchNext, Alarm!Invoke, Alarm!Perform, Alarm!Fail, Alarm!Acknowledge,
         AlarmProof!BatchNext, AlarmProof!Invoke, AlarmProof!Perform, AlarmProof!Fail,
         AlarmProof!Acknowledge
<1> QED BY <1>1, <1>2, <1>3, <1>4

ConsumersInv ==
    /\ SeatInv /\ GroupInv
    /\ available \in Nat
    /\ service = "orders" => OrdersProof!QueueInv
    /\ service = "jobs" => JobsProof!QueueInv
    /\ service = "alerts" => AlarmProof!BatchInv
    /\ service = "seats" => AuditProof!BatchInv

LEMMA ConsumersStart == Init => ConsumersInv
<1> SUFFICES ASSUME Init PROVE ConsumersInv
  OBVIOUS
<1>1. SeatInv /\ GroupInv /\ available \in Nat
  BY SeatStart, GroupStart, Assumptions DEF Init
<1>2. OrdersProof!QueueInv
  BY Assumptions, OrdersProof!QueueStart
     DEF Init, Orders!QueueInit, OrdersProof!QueueInit, Orders!Nobody, OrdersProof!Nobody
<1>3. JobsProof!QueueInv
  <2>1. JobsProof!QueueInit
    BY DEF Init, Orders!QueueInit, JobsProof!QueueInit, Orders!Nobody, JobsProof!Nobody
  <2> QED BY <2>1, Assumptions, JobsProof!QueueStart
<1>4. AlarmProof!BatchInv /\ AuditProof!BatchInv
  <2>1. AlarmProof!BatchInit /\ AuditProof!BatchInit
    BY DEF Init, Alarm!BatchInit, AlarmProof!BatchInit, AuditProof!BatchInit
  <2> QED BY <2>1, Assumptions, AlarmProof!BatchStart, AuditProof!BatchStart
<1> QED BY <1>1, <1>2, <1>3, <1>4 DEF ConsumersInv

(* Who does not move keeps its invariant. *)
LEMMA SeatsAndGroupRest ==
    ASSUME ConsumersInv, UNCHANGED seatVars \/ SeatNext, UNCHANGED groupVars \/ GroupNext
    PROVE  SeatInv' /\ GroupInv'
BY SeatStep, GroupInvStep DEF ConsumersInv

LEMMA ConsumersStep == ConsumersInv /\ [Next]_vars => ConsumersInv'
<1> SUFFICES ASSUME ConsumersInv, [Next]_vars PROVE ConsumersInv'
  OBVIOUS
<1> USE Assumptions, SameSteps
<1>1. CASE OrdersStep
  <2>1. /\ service = "orders" /\ service' = service /\ available' = available
        /\ Orders!QueueNext /\ UNCHANGED seatVars /\ UNCHANGED groupVars
    BY <1>1 DEF OrdersStep
  <2>2. OrdersProof!QueueInv'
    BY <2>1, OrdersProof!QueueStep DEF ConsumersInv
  <2> QED BY <2>1, <2>2, SeatsAndGroupRest DEF ConsumersInv
<1>2. CASE JobsStep
  <2>1. /\ service = "jobs" /\ service' = service /\ available' = available
        /\ Jobs!QueueNext /\ UNCHANGED seatVars /\ UNCHANGED groupVars
    BY <1>2 DEF JobsStep
  <2>2. JobsProof!QueueInv'
    BY <2>1, JobsProof!QueueStep DEF ConsumersInv
  <2> QED BY <2>1, <2>2, SeatsAndGroupRest DEF ConsumersInv
<1>3. CASE AlertsStep
  <2>1. /\ service = "alerts" /\ service' = service /\ available' = available
        /\ Alarm!BatchNext /\ UNCHANGED seatVars /\ UNCHANGED groupVars
    BY <1>3 DEF AlertsStep
  <2>2. AlarmProof!BatchInv'
    BY <2>1, AlarmProof!BatchStep DEF ConsumersInv
  <2> QED BY <2>1, <2>2, SeatsAndGroupRest DEF ConsumersInv
<1>4. CASE SeatsStep
  <2>1. /\ service = "seats" /\ service' = service /\ available' = available /\ UNCHANGED groupVars
        /\ \/ SeatNext /\ UNCHANGED batchVars
           \/ Audit!BatchNext /\ UNCHANGED seatVars
    BY <1>4 DEF SeatsStep
  <2>2. version \in Nat
    BY DEF ConsumersInv, SeatInv, SeatTypeOK
  <2>3. [AuditProof!BatchNext]_(AuditProof!batchVars)
    BY <2>1 DEF batchVars, AuditProof!batchVars
  <2>4. AuditProof!BatchInv'
    BY <2>1, <2>2, <2>3, AuditProof!BatchStep DEF ConsumersInv
  <2> QED BY <2>1, <2>4, SeatsAndGroupRest DEF ConsumersInv
<1>5. CASE GroupStep
  <2>1. /\ service = "group" /\ service' = service /\ available' = available
        /\ GroupNext /\ UNCHANGED seatVars
    BY <1>5 DEF GroupStep
  <2> QED BY <2>1, SeatsAndGroupRest DEF ConsumersInv
<1>6. CASE UNCHANGED vars
  <2>1. UNCHANGED <<service, available, queueVars, batchVars, seatVars, groupVars>>
    BY <1>6 DEF vars
  <2>2. /\ UNCHANGED OrdersProof!queueVars /\ UNCHANGED JobsProof!queueVars
        /\ UNCHANGED AuditProof!batchVars /\ UNCHANGED AlarmProof!batchVars
    BY <2>1 DEF queueVars, batchVars, OrdersProof!queueVars, JobsProof!queueVars,
                AuditProof!batchVars, AlarmProof!batchVars
  <2>3. CASE service = "orders"
    BY <2>1, <2>2, <2>3, SeatsAndGroupRest, OrdersProof!QueueStep DEF ConsumersInv
  <2>4. CASE service = "jobs"
    BY <2>1, <2>2, <2>4, SeatsAndGroupRest, JobsProof!QueueStep DEF ConsumersInv
  <2>5. CASE service = "alerts"
    BY <2>1, <2>2, <2>5, SeatsAndGroupRest, AlarmProof!BatchStep DEF ConsumersInv
  <2>6. CASE service = "seats"
    <3>1. version \in Nat
      BY DEF ConsumersInv, SeatInv, SeatTypeOK
    <3> QED BY <2>1, <2>2, <2>6, <3>1, SeatsAndGroupRest, AuditProof!BatchStep DEF ConsumersInv
  <2>7. CASE service \notin {"orders", "jobs", "alerts", "seats"}
    BY <2>1, <2>7, SeatsAndGroupRest DEF ConsumersInv
  <2> QED BY <2>3, <2>4, <2>5, <2>6, <2>7
<1> QED BY <1>1, <1>2, <1>3, <1>4, <1>5, <1>6 DEF Next

LEMMA ConsumersInvariant == Spec => []ConsumersInv
BY ConsumersStart, ConsumersStep, PTL DEF Spec

(* A message is worked on twice only for the reasons named, in either      *)
(* queue, for any messages and copies.                                     *)
THEOREM QueuesExplained == Spec => []RepeatIsExplained
<1>1. ConsumersInv => RepeatIsExplained
  <2> SUFFICES ASSUME ConsumersInv PROVE RepeatIsExplained
    OBVIOUS
  <2>1. service = "orders" => OrdersProof!RepeatIsExplained
    BY Assumptions, OrdersProof!QueueInvImplies DEF ConsumersInv
  <2>2. service = "jobs" => JobsProof!RepeatIsExplained
    BY Assumptions, JobsProof!QueueInvImplies DEF ConsumersInv
  <2> QED BY <2>1, <2>2 DEF RepeatIsExplained, Orders!RepeatIsExplained, Jobs!RepeatIsExplained,
              OrdersProof!RepeatIsExplained, JobsProof!RepeatIsExplained
<1> QED BY <1>1, ConsumersInvariant, PTL

(* Acknowledged alerts are stored and notified, acknowledged changes of    *)
(* the seat audited, for any number of both.                               *)
THEOREM AcknowledgedHandled == Spec => []AckedIsDone
<1>1. ConsumersInv => AckedIsDone
  <2> SUFFICES ASSUME ConsumersInv PROVE AckedIsDone
    OBVIOUS
  <2>1. service = "alerts" => AlarmProof!AckedIsDone
    BY Assumptions, AlarmProof!BatchInvImplies DEF ConsumersInv
  <2>2. service = "seats" => AuditProof!AckedIsDone
    BY Assumptions, AuditProof!BatchInvImplies DEF ConsumersInv
  <2> QED BY <2>1, <2>2 DEF AckedIsDone, Audit!AckedIsDone, Alarm!AckedIsDone,
              AuditProof!AckedIsDone, AlarmProof!AckedIsDone
<1> QED BY <1>1, ConsumersInvariant, PTL

(* The seat is theirs who were told so.                                    *)
THEOREM SeatsKept == Spec => []ToldIsOwned
<1>1. ConsumersInv => ToldIsOwned
  BY DEF ConsumersInv, SeatInv, ClaimsHold, ToldIsOwned
<1> QED BY <1>1, ConsumersInvariant, PTL

(* No rule is left once the events are dealt with.                         *)
THEOREM GroupKeptClean == Spec => []GroupClean
<1>1. ConsumersInv => GroupClean
  BY DEF ConsumersInv, GroupInv, GroupClean, Busy, Covered, Fresh, Waiting, Sure
<1> QED BY <1>1, ConsumersInvariant, PTL

=============================================================================
