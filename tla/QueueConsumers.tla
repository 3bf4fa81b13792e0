--------------------------- MODULE QueueConsumers ---------------------------
(***************************************************************************)
(* The two consumers of an SQS queue.  07/module3/app/app.py receives up   *)
(* to ten messages, works on them one after the other for PROCESSING_TIME  *)
(* each and deletes each when it is done.  08/app/module4/worker.py is the *)
(* same loop with one message at a time.  KEDA runs several copies of both *)
(* and removes them in the middle of a batch.                              *)
(*                                                                         *)
(* Every copy has its own pace.  The sleep for a message takes WorkTime    *)
(* ticks, and a copy may be held up for any further tick, in a sleep, with *)
(* the answer of a receive on its way or in a deletion that hangs and is   *)
(* repeated by boto3.  The queue is a standard one: it delivers a message  *)
(* at least once, and sometimes again although nobody asked for it.        *)
(***************************************************************************)
EXTENDS Integers, Sequences

CONSTANTS
    Message, Consumer,
    BatchSize,    \* MaxNumberOfMessages
    WorkTime,     \* the sleep for one message, in ticks
    Visibility,   \* visibility timeout of the queue or of the call, in ticks
    MaxTrouble    \* bound on crashes, failed calls, repeats and ticks with a delay

QueueAssumption ==
    BatchSize \in Nat \ {0} /\ WorkTime \in Nat \ {0} /\ Visibility \in Nat \ {0}

VARIABLES
    stored,    \* the messages the queue still has
    hidden,    \* ticks until each message is visible
    receiver,  \* who received each message last: its receipt handle is the valid one
    batch,     \* the messages a copy has received and not dealt with
    left,      \* ticks that the sleep for the first of them still takes
    spent,     \* time since the batch was received, without the sleep for the first
    handled,   \* how often each message was worked on
    cut,       \* messages of a copy that died, or whose deletion failed
    doubled,   \* messages that the queue delivered again by itself
    overdue,   \* messages that, by their place and the delays, took the whole timeout
    trouble

queueVars ==
    <<stored, hidden, receiver, batch, left, spent, handled, cut, doubled, overdue, trouble>>

Nobody == "nobody"

QueueInit ==
    /\ stored = Message
    /\ hidden = [m \in Message |-> 0]
    /\ receiver = [m \in Message |-> Nobody]
    /\ batch = [c \in Consumer |-> <<>>]
    /\ left = [c \in Consumer |-> 0]
    /\ spent = [c \in Consumer |-> 0]
    /\ handled = [m \in Message |-> 0]
    /\ cut = {} /\ doubled = {} /\ overdue = {}
    /\ trouble = 0

Trouble == trouble < MaxTrouble /\ trouble' = trouble + 1

Visible == {m \in stored : hidden[m] = 0}
Busy == {c \in Consumer : batch[c] # <<>>}
Finished(c) == c \in Busy /\ left[c] = 0
InBatch(c) == {batch[c][i] : i \in 1..Len(batch[c])}

(* When the i-th of what is left of c's batch is finished at the earliest, *)
(* counted from the moment the batch was received.                         *)
Due(c, i) == spent[c] + i * WorkTime

Late == {m \in Message :
           \E c \in Consumer : \E i \in 1..Len(batch[c]) :
             batch[c][i] = m /\ Due(c, i) >= Visibility}

(* The batches a receive_message may return. *)
Answers ==
    {s \in UNION {[1..n -> Visible] : n \in 1..BatchSize} :
        \A i, j \in DOMAIN s : s[i] = s[j] => i = j}

(* The queue hides what it returns. *)
HiddenFor(s, c, ticks) ==
    LET got == {s[i] : i \in 1..Len(s)}
    IN  /\ hidden' = [m \in Message |-> IF m \in got THEN ticks ELSE hidden[m]]
        /\ receiver' = [m \in Message |-> IF m \in got THEN c ELSE receiver[m]]

(* A defect to tell apart: the timeout is one tick too short. *)
ReceiveForLess(c) ==
    /\ c \notin Busy
    /\ \E s \in Answers :
          /\ HiddenFor(s, c, Visibility - 1)
          /\ batch' = [batch EXCEPT ![c] = s]
    /\ left' = [left EXCEPT ![c] = WorkTime]
    /\ spent' = [spent EXCEPT ![c] = 0]
    /\ overdue' = overdue \cup Late'
    /\ UNCHANGED <<stored, handled, cut, doubled, trouble>>

Receive(c) ==
    /\ c \notin Busy
    /\ \E s \in Answers :
          /\ HiddenFor(s, c, Visibility)
          /\ batch' = [batch EXCEPT ![c] = s]
    /\ left' = [left EXCEPT ![c] = WorkTime]
    /\ spent' = [spent EXCEPT ![c] = 0]
    /\ overdue' = overdue \cup Late'
    /\ UNCHANGED <<stored, handled, cut, doubled, trouble>>

(* The answer is lost: its messages stay hidden and nobody works on them. *)
ReceiveFails(c) ==
    /\ c \notin Busy
    /\ Trouble
    /\ \E s \in Answers : HiddenFor(s, c, Visibility)
    /\ UNCHANGED <<stored, batch, left, spent, handled, cut, doubled, overdue>>

(* The copies that finish the work on m in a tick, unless they are slow. *)
Workers(m, slow) ==
    {c \in Busy \ slow : left[c] = 1 /\ Head(batch[c]) = m}

(* A tick passes: hidden messages come closer to being visible, and every  *)
(* copy sleeps on except those that are slow, among them all that are in a *)
(* deletion.  Two who finish a message together count as two, like more.   *)
Tick ==
    /\ \E slow \in SUBSET Busy :
          /\ \A c \in Busy : Finished(c) => c \in slow
          /\ IF slow = {} THEN UNCHANGED trouble ELSE Trouble
          /\ left' = [c \in Consumer |-> IF c \in Busy \ slow THEN left[c] - 1 ELSE left[c]]
          /\ spent' = [c \in Consumer |-> IF c \in slow THEN spent[c] + 1 ELSE spent[c]]
          /\ handled' = [m \in Message |->
                           IF Workers(m, slow) = {} THEN handled[m]
                           ELSE IF \E c \in Consumer : Workers(m, slow) = {c}
                           THEN handled[m] + 1 ELSE handled[m] + 2]
    /\ hidden' = [m \in Message |-> IF hidden[m] > 0 THEN hidden[m] - 1 ELSE 0]
    /\ UNCHANGED <<stored, receiver, batch, cut, doubled>>
    /\ overdue' = overdue \cup Late'

(* On to the next message of the batch, if there is one. *)
GoOn(c) ==
    LET more == Len(batch[c]) > 1
    IN  /\ batch' = [batch EXCEPT ![c] = Tail(@)]
        /\ left' = [left EXCEPT ![c] = IF more THEN WorkTime ELSE 0]
        /\ spent' = [spent EXCEPT ![c] = IF more THEN @ + WorkTime ELSE 0]

(* delete_message.  With the receipt handle of a message that was received *)
(* again meanwhile it may have no effect.                                  *)
Delete(c) ==
    /\ Finished(c)
    /\ LET m == Head(batch[c])
       IN  \/ stored' = stored \ {m}
           \/ receiver[m] # c /\ UNCHANGED stored
    /\ GoOn(c)
    /\ UNCHANGED <<hidden, receiver, handled, cut, doubled, overdue, trouble>>

(* delete_message raises, whether or not it took effect; app.py prints the *)
(* failure and goes on.                                                    *)
DeleteFails(c) ==
    /\ Finished(c)
    /\ Trouble
    /\ cut' = cut \cup {Head(batch[c])}
    /\ stored' \in {stored, stored \ {Head(batch[c])}}
    /\ GoOn(c)
    /\ UNCHANGED <<hidden, receiver, handled, doubled, overdue>>

(* The copy is killed, perhaps in a deletion that takes effect, or an      *)
(* exception ends worker.py; it starts over.                               *)
Crash(c) ==
    /\ c \in Busy
    /\ Trouble
    /\ cut' = cut \cup InBatch(c)
    /\ \/ UNCHANGED stored
       \/ Finished(c) /\ stored' = stored \ {Head(batch[c])}
    /\ batch' = [batch EXCEPT ![c] = <<>>]
    /\ left' = [left EXCEPT ![c] = 0]
    /\ spent' = [spent EXCEPT ![c] = 0]
    /\ UNCHANGED <<hidden, receiver, handled, doubled, overdue>>

(* A standard queue may deliver a message again within its timeout, or     *)
(* after it was deleted.                                                   *)
DeliverAgain(m) ==
    /\ m \notin Visible
    /\ handled[m] > 0 \/ m \in stored
    /\ Trouble
    /\ stored' = stored \cup {m}
    /\ hidden' = [hidden EXCEPT ![m] = 0]
    /\ doubled' = doubled \cup {m}
    /\ UNCHANGED <<receiver, batch, left, spent, handled, cut, overdue>>

QueueNext ==
    \/ \E c \in Consumer :
          Receive(c) \/ ReceiveFails(c) \/ Delete(c) \/ DeleteFails(c) \/ Crash(c)
    \/ \E m \in Message : DeliverAgain(m)
    \/ Tick

QueueSpec == QueueInit /\ [][QueueNext]_queueVars

(* A message is worked on twice only if a copy died with it, its deletion  *)
(* failed, the queue delivered it again by itself, or its place in a batch *)
(* and the delays up to it took the whole visibility timeout: the tenth    *)
(* message of three seconds in app.py without any delay, the ninth after   *)
(* three seconds of it, the only one of worker.py after forty.  And none   *)
(* is deleted before it was worked on.                                     *)
RepeatIsExplained ==
    \A m \in Message :
        /\ handled[m] > 1 => m \in cut \cup doubled \cup overdue
        /\ m \notin stored => handled[m] > 0

=============================================================================
