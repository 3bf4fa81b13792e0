--------------------------- MODULE SensorPipeline ---------------------------
(***************************************************************************)
(* The consumer of the raw sensor topic (module3/lambda/raw/index.py): one *)
(* partition, read by an event source mapping that gives the function one  *)
(* batch at a time and gives it the same batch again until the function    *)
(* returns.  A normal record becomes an item of the table, an alert is     *)
(* sent to the alert topic through the producer of module KafkaProducer,   *)
(* which outlives the invocation in a warm process; flush() waits for it   *)
(* at the end.                                                             *)
(*                                                                         *)
(* Nobody reads the futures that send() returns, so what the function      *)
(* acknowledges may be lost when a send fails.  The module says exactly    *)
(* when that happens.                                                      *)
(*                                                                         *)
(* The Lambda service stops an invocation after LambdaTimeout and may      *)
(* throw the process away at any time; a process between two invocations   *)
(* is frozen, which is the same as its sender thread taking no step.       *)
(***************************************************************************)
EXTENDS KafkaProducer

CONSTANTS
    Inputs,         \* the contents of the partition considered: sequences of kinds
    LambdaTimeout,  \* the function's timeout, in ticks
    MaxTicks,       \* bound on the ticks of the clock
    MaxFaults       \* bound on everything that goes wrong by itself

Kind == {"normal", "alert", "bad"}

ASSUME InputsAssumption == \A s \in Inputs : s \in Seq(Kind) /\ 1..Len(s) = Record
ASSUME LambdaTimeoutAssumption == LambdaTimeout \in Nat \ {0}

VARIABLES
    input,      \* the partition: input[i] is the kind of the record at offset i
    committed,  \* offset up to which the mapping has seen the function succeed
    hi,         \* last record of the batch in hand, which is retried as it is
    phase,      \* "idle", "handle" (the loop) or "flush"
    pos,        \* the record the loop is at
    sent,       \* the batch of each alert sent in this invocation, or "refused"
    awaiting,   \* the batches flush() took from the set of incomplete ones
    invAge,     \* ticks since the invocation began
    table,      \* records stored in the table
    outcome,    \* what became of each acknowledged alert's last send
    ticks, faults

invocationVars == <<phase, pos, sent, awaiting, invAge>>
resultVars == <<committed, hi, table, outcome>>
pipelineVars == <<input, invocationVars, resultVars, ticks, faults>>
vars == <<producerVars, pipelineVars>>

NotSent == "not sent"
Refused == "refused"
ASSUME HandleAssumption == NotSent \notin Batch /\ Refused \notin Batch
N == Len(input)

Init ==
    /\ ProducerInit
    /\ topic = {}
    /\ input \in Inputs
    /\ committed = 0 /\ hi = 0 /\ pos = 1
    /\ phase = "idle"
    /\ sent = [i \in Record |-> NotSent]
    /\ awaiting = {}
    /\ invAge = 0
    /\ table = {}
    /\ outcome = [i \in Record |-> "none"]
    /\ ticks = 0 /\ faults = 0

Fault == faults < MaxFaults /\ faults' = faults + 1

(* The invocation has time left. *)
Running(p) == phase = p /\ invAge < LambdaTimeout

Held == {sent[i] : i \in Record}
Alerts(from, to) == {i \in from..to : input[i] = "alert"}

(***************************************************************************)
(* The handler.                                                            *)
(***************************************************************************)

(* The mapping invokes the function with the next batch, or again with the *)
(* one it has in hand.                                                     *)
Invoke ==
    /\ phase = "idle"
    /\ committed < N
    /\ hi' \in (IF hi = committed THEN (committed + 1)..N ELSE {hi})
    /\ phase' = "handle"
    /\ pos' = committed + 1
    /\ invAge' = 0
    /\ UNCHANGED <<producerVars, input, committed, sent, awaiting, table, outcome, ticks, faults>>

(* Whatever ends an invocation drops its locals; the producer is a global. *)
EndInvocation ==
    /\ phase' = "idle"
    /\ sent' = [i \in Record |-> NotSent]
    /\ awaiting' = {}
    /\ UNCHANGED <<pos, invAge>>

(* table.put_item *)
StoreNormal ==
    /\ Running("handle") /\ pos <= hi
    /\ input[pos] = "normal"
    /\ table' = table \cup {pos}
    /\ pos' = pos + 1
    /\ UNCHANGED <<producerVars, input, phase, sent, awaiting, invAge,
                   committed, hi, outcome, ticks, faults>>

(* put_item raises, whether the item was stored or not. *)
StoreRaises ==
    /\ Running("handle") /\ pos <= hi
    /\ input[pos] = "normal"
    /\ Fault
    /\ table' \in {table, table \cup {pos}}
    /\ EndInvocation
    /\ UNCHANGED <<producerVars, input, committed, hi, outcome, ticks>>

(* A record without a number where one is needed raises every time. *)
BadRecordRaises ==
    /\ Running("handle") /\ pos <= hi
    /\ input[pos] = "bad"
    /\ EndInvocation
    /\ UNCHANGED <<producerVars, input, resultVars, ticks, faults>>

(* send() of an alert, in its three parts: waiting for metadata, ... *)
AlertWaits ==
    /\ Running("handle") /\ pos <= hi
    /\ input[pos] = "alert"
    /\ WaitOnMetadata
    /\ UNCHANGED pipelineVars

(* ... appending to the accumulator, ... *)
SendAlert ==
    /\ Running("handle") /\ pos <= hi
    /\ input[pos] = "alert"
    /\ \E b \in Batch :
          /\ Send(pos, b, Held)
          /\ sent' = [sent EXCEPT ![pos] = b]
    /\ pos' = pos + 1
    /\ UNCHANGED <<input, phase, awaiting, invAge, resultVars, ticks, faults>>

(* ... or an error of the API (authorization, size), which goes into a     *)
(* future that nobody reads, ...                                           *)
SendRefused ==
    /\ Running("handle") /\ pos <= hi
    /\ input[pos] = "alert"
    /\ Fault
    /\ sent' = [sent EXCEPT ![pos] = Refused]
    /\ pos' = pos + 1
    /\ UNCHANGED <<producerVars, input, phase, awaiting, invAge, resultVars, ticks>>

(* ... or an exception: no broker at construction, no metadata in time. *)
SendRaises ==
    /\ Running("handle") /\ pos <= hi
    /\ input[pos] = "alert"
    /\ meta = "unknown"
    /\ Fault
    /\ EndInvocation
    /\ UNCHANGED <<producerVars, input, resultVars, ticks>>

(* A defect to tell apart: the offset committed is the next one to read. *)
ReturnPastEnd ==
    /\ committed' = pos
    /\ outcome' = outcome
    /\ EndInvocation
    /\ UNCHANGED <<producerVars, input, hi, table, ticks, faults>>

(* The function returns: the mapping commits the batch. *)
Return ==
    /\ committed' = hi
    /\ outcome' = [i \in Record |->
                     IF i \notin Alerts(committed + 1, hi) THEN outcome[i]
                     ELSE IF sent[i] = Refused THEN "failed" ELSE final[sent[i]]]
    /\ EndInvocation
    /\ UNCHANGED <<producerVars, input, hi, table, ticks, faults>>

ReturnWithoutAlerts ==
    /\ Running("handle") /\ pos > hi
    /\ Alerts(committed + 1, hi) = {}
    /\ Return

(* A defect to tell apart: flush() waits for the deque to be drained. *)
BeginFlushOfDeque ==
    /\ Running("handle") /\ pos > hi
    /\ Alerts(committed + 1, hi) # {}
    /\ awaiting' = Queued
    /\ phase' = "flush"
    /\ UNCHANGED <<producerVars, input, pos, sent, invAge, resultVars, ticks, faults>>

(* flush(): what is incomplete at this moment is what it waits for. *)
BeginFlush ==
    /\ Running("handle") /\ pos > hi
    /\ Alerts(committed + 1, hi) # {}
    /\ awaiting' = incomplete
    /\ phase' = "flush"
    /\ UNCHANGED <<producerVars, input, pos, sent, invAge, resultVars, ticks, faults>>

(* flush() logs the exceptions it finds and raises none of them. *)
FlushReturns ==
    /\ Running("flush")
    /\ \A b \in awaiting : final[b] # "pending"
    /\ Return

(***************************************************************************)
(* The Lambda service and the clock.                                       *)
(***************************************************************************)

(* The invocation has used its time: the process is killed. *)
TimeOut ==
    /\ phase # "idle"
    /\ invAge = LambdaTimeout
    /\ ProducerRestart
    /\ EndInvocation
    /\ UNCHANGED <<input, resultVars, ticks, faults>>

(* The process is thrown away, in an invocation or between two. *)
LoseProcess ==
    /\ Fault
    /\ ProducerRestart
    /\ EndInvocation
    /\ UNCHANGED <<input, resultVars, ticks>>

Tick ==
    /\ ticks < MaxTicks
    /\ ticks' = ticks + 1
    /\ phase # "idle" => invAge < LambdaTimeout
    /\ invAge' = IF phase = "idle" THEN invAge ELSE invAge + 1
    /\ BatchesAge
    /\ UNCHANGED <<input, phase, pos, sent, awaiting, resultVars, faults>>

(***************************************************************************)
(* The specification.                                                      *)
(***************************************************************************)

(* The sender thread runs in a live process only. *)
Alive == phase # "idle" => invAge < LambdaTimeout

SenderStep ==
    \/ \E due \in BOOLEAN : SendProducerData(due)
    \/ HandleProduceResponse
    \/ \E error \in {"dropped", "timedout"} : FailedProduce(error)
    \/ StartConnect
    \/ Connected
    \/ MaybeRefreshMetadata
    \/ UpdateMetadata("known")

SenderFault ==
    \/ \E update \in BOOLEAN : Disconnect(update)
    \/ \E m \in {"unknown", "leaderless"} : UpdateMetadata(m)
    \/ FailedUpdate

Sender == Alive /\ SenderStep /\ UNCHANGED pipelineVars

SenderTrouble ==
    /\ Alive
    /\ Fault
    /\ SenderFault
    /\ UNCHANGED <<input, invocationVars, resultVars, ticks>>

BrokerAppends == BrokerAnswers("ok") /\ UNCHANGED pipelineVars

BrokerDeclines ==
    /\ Fault
    /\ \E answer \in {"moved", "refused"} : BrokerAnswers(answer)
    /\ UNCHANGED <<input, invocationVars, resultVars, ticks>>

Handler ==
    \/ StoreNormal \/ BadRecordRaises \/ AlertWaits \/ SendAlert
    \/ ReturnWithoutAlerts \/ BeginFlush \/ FlushReturns

HandlerFault == StoreRaises \/ SendRefused \/ SendRaises

Next ==
    \/ Invoke \/ Handler \/ HandlerFault
    \/ Sender \/ SenderTrouble
    \/ BrokerAppends \/ BrokerDeclines
    \/ TimeOut \/ LoseProcess \/ Tick

Spec == Init /\ [][Next]_vars

(* Every thread that can go on does, the broker answers, a back-off ends   *)
(* and an invocation that has used its time is stopped; nothing is assumed *)
(* of faults and of the clock.                                             *)
Fairness ==
    /\ WF_vars(Invoke)
    /\ WF_vars(Handler)
    /\ WF_vars(TimeOut)
    /\ WF_vars(BrokerAppends)
    /\ WF_vars(Alive /\ SendProducerData(TRUE) /\ UNCHANGED pipelineVars)
    /\ WF_vars(Alive /\ (HandleProduceResponse \/ FailedProduce("dropped")) /\ UNCHANGED pipelineVars)
    /\ WF_vars(Alive /\ (StartConnect \/ Connected) /\ UNCHANGED pipelineVars)
    /\ WF_vars(Alive /\ (MaybeRefreshMetadata \/ UpdateMetadata("known")) /\ UNCHANGED pipelineVars)

FairSpec == Spec /\ Fairness

(***************************************************************************)
(* Properties.                                                             *)
(***************************************************************************)

TypeOK ==
    /\ queue \in Seq(Batch)
    /\ incomplete \subseteq Batch
    /\ inFlight \subseteq Batch
    /\ rec \in [Batch -> SUBSET Record]
    /\ age \in [Batch -> 0..DeliveryTimeout]
    /\ retried \in [Batch -> BOOLEAN]
    /\ final \in [Batch -> {"unused", "pending", "succeeded", "failed"}]
    /\ requests \in Seq([batch : Batch, answer : Answer])
    /\ conn \in {"down", "connecting", "up"}
    /\ meta \in {"unknown", "leaderless", "known"}
    /\ needUpdate \in BOOLEAN
    /\ refreshing \in BOOLEAN
    /\ topic \subseteq Record
    /\ input \in Inputs
    /\ committed \in 0..N /\ hi \in committed..N
    /\ phase \in {"idle", "handle", "flush"}
    /\ pos \in 1..(N + 1)
    /\ sent \in [Record -> Batch \cup {NotSent, Refused}]
    /\ awaiting \subseteq Batch
    /\ invAge \in 0..LambdaTimeout
    /\ table \subseteq Record
    /\ outcome \in [Record -> {"none", "pending", "succeeded", "failed"}]
    /\ ticks \in Nat /\ faults \in Nat

(* No batch is forgotten and none is counted twice: the set flush() reads  *)
(* is that of the batches without a verdict, and each of those is in the   *)
(* deque, once, or in flight, with one request that will bring its         *)
(* verdict.  A batch whose verdict came by expiry keeps its request; the   *)
(* late answer finds it in neither place.                                  *)
NothingForgotten ==
    /\ incomplete = {b \in Batch : final[b] = "pending"}
    /\ incomplete = Queued \cup inFlight
    /\ Queued \cap inFlight = {}
    /\ inFlight \subseteq Requested
    /\ Queued \cap Requested = {}
    /\ \A i, j \in 1..Len(queue) : queue[i] = queue[j] => i = j
    /\ \A i, j \in 1..Len(requests) : requests[i].batch = requests[j].batch => i = j

(* An acknowledged record is in the table or in the alert topic, whatever  *)
(* was lost, repeated or killed on the way, except an alert whose last     *)
(* send failed: that, and nothing else, is what the unread future costs.   *)
(* In particular its batch has a verdict, as flush() documents (kafka.py:  *)
(* "any previously sent record will have completed").                      *)
LossIsFailed ==
    \A i \in 1..committed :
        /\ input[i] = "normal" => i \in table
        /\ input[i] = "alert" =>
              outcome[i] = "failed" \/ (outcome[i] = "succeeded" /\ i \in topic)

Promise == INSTANCE ProducerPromise WITH fate <- final

(* The producer keeps its promise to whoever holds a future: the verdict   *)
(* on a batch is given once, and "succeeded" only after the broker has     *)
(* appended it, even where an answer comes for a batch that expired.       *)
ImplementsPromise == Promise!Spec

(* A partition without a malformed record is consumed to its end.  One     *)
(* malformed record stops it for good, so the premise is needed.           *)
EventuallyCommitted ==
    (\A i \in Record : input[i] # "bad") => <>(committed = N)

=============================================================================
