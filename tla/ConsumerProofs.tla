--------------------------- MODULE ConsumerProofs ---------------------------
(***************************************************************************)
(* The two ways in which the services are given work: a queue whose        *)
(* messages come back unless they are deleted in time, and batches that    *)
(* come back until the function returns.  The two halves share nothing.    *)
(***************************************************************************)
EXTENDS QueueConsumers, BatchConsumer, TLAPS

(***************************************************************************)
(* The queue.                                                              *)
(*                                                                         *)
(* A repeated message is explained, for any messages and copies, any       *)
(* batch, work time and visibility timeout, and any number of failures,    *)
(* delays and repeated deliveries.                                         *)
(*                                                                         *)
(* A Regular message (none of its copies died with it, its deletion never  *)
(* failed, the queue never delivered it again by itself, and it was never  *)
(* due at the timeout or later) is in one batch at most.  The time that    *)
(* its copy has had it and the time that it stays hidden make up the       *)
(* timeout, and it is due before, so it is hidden as long as it is held:   *)
(* no receive returns it before it is deleted, and the receipt handle with *)
(* which it is deleted is the valid one.                                   *)
(***************************************************************************)

QueueTypeOK ==
    /\ stored \subseteq Message
    /\ hidden \in [Message -> Nat]
    /\ receiver \in [Message -> Consumer \cup {Nobody}]
    /\ batch \in [Consumer -> Seq(Message)]
    /\ left \in [Consumer -> 0..WorkTime]
    /\ spent \in [Consumer -> Nat]
    /\ handled \in [Message -> Nat]

FinishedIsHandled == \A c \in Consumer : Finished(c) => handled[batch[c][1]] > 0

DeletedIsHandled == \A m \in Message : m \notin stored => handled[m] > 0

LateIsOverdue == Late \subseteq overdue

Regular(m) == m \notin cut \cup doubled \cup overdue
Places(c) == 1..Len(batch[c])

(* Of a regular message at place i of c's batch. *)
Held(m, c, i) ==
    /\ m \in stored
    /\ receiver[m] = c
    /\ hidden[m] + spent[c] + (WorkTime - left[c]) >= Visibility
    /\ handled[m] = IF left[c] = 0 /\ i = 1 THEN 1 ELSE 0
    /\ \A d \in Consumer : \A j \in Places(d) : batch[d][j] = m => d = c /\ j = i

InNoBatch(m) == \A d \in Consumer : \A j \in Places(d) : batch[d][j] # m

Unheld(m) == InNoBatch(m) => handled[m] <= 1 /\ (m \in stored => handled[m] = 0)

RegularOnce ==
    \A m \in Message : Regular(m) =>
        /\ \A c \in Consumer : \A i \in Places(c) : batch[c][i] = m => Held(m, c, i)
        /\ Unheld(m)

QueueInv ==
    QueueTypeOK /\ FinishedIsHandled /\ DeletedIsHandled /\ LateIsOverdue /\ RegularOnce

(* Times of the messages of a batch. *)
LEMMA Times ==
    ASSUME NEW w \in Nat, NEW i \in Nat \ {0}
    PROVE  i * w \in Nat /\ i * w >= w /\ (i + 1) * w = i * w + w
<1>1. (i - 1) * w >= 0
  OBVIOUS
<1>2. i * w = (i - 1) * w + w
  OBVIOUS
<1> QED BY <1>1, <1>2

(* What a receive returns: visible messages, each once. *)
LEMMA AnswerTypes ==
    ASSUME QueueAssumption, QueueTypeOK, NEW s \in Answers
    PROVE  /\ s \in Seq(Message) /\ s # <<>> /\ Len(s) \in Nat \ {0}
           /\ \A i \in 1..Len(s) : s[i] \in stored /\ hidden[s[i]] = 0
           /\ \A i, j \in 1..Len(s) : s[i] = s[j] => i = j
<1>1. PICK n \in 1..BatchSize : s \in [1..n -> Visible]
  BY DEF Answers
<1>2. \A i, j \in DOMAIN s : s[i] = s[j] => i = j
  BY DEF Answers
<1>3. Visible \subseteq Message /\ \A m \in Visible : m \in stored /\ hidden[m] = 0
  BY DEF Visible, QueueTypeOK
<1>4. s \in Seq(Message) /\ Len(s) = n
  BY <1>1, <1>3 DEF QueueAssumption
<1>5. \A i, j \in 1..Len(s) : s[i] = s[j] => i = j
  BY <1>1, <1>2, <1>4
<1> QED BY <1>1, <1>3, <1>4, <1>5 DEF QueueAssumption

(* A regular message is hidden as long as it is held. *)
LEMMA HeldIsHidden ==
    ASSUME QueueAssumption, QueueInv, NEW m \in Message, Regular(m),
           NEW c \in Consumer, NEW i \in Places(c), batch[c][i] = m
    PROVE  Held(m, c, i) /\ hidden[m] > 0
<1>1. Held(m, c, i)
  BY DEF QueueInv, RegularOnce
<1>2. m \notin Late
  BY DEF QueueInv, LateIsOverdue, Regular
<1>3. ~(Due(c, i) >= Visibility)
  BY <1>2 DEF Late, Places
<1>4. /\ i \in Nat \ {0} /\ hidden[m] \in Nat /\ spent[c] \in Nat
      /\ left[c] \in 0..WorkTime /\ WorkTime \in Nat /\ Visibility \in Nat
  BY DEF Places, QueueInv, QueueTypeOK, QueueAssumption
<1>5. i * WorkTime \in Nat /\ i * WorkTime >= WorkTime
  BY <1>4, Times
<1>6. spent[c] + i * WorkTime < Visibility
  BY <1>3, <1>4, <1>5 DEF Due
<1>7. hidden[m] + spent[c] + (WorkTime - left[c]) >= Visibility
  BY <1>1 DEF Held
<1> QED BY <1>1, <1>4, <1>5, <1>6, <1>7

LEMMA VisibleIsUnheld ==
    ASSUME QueueAssumption, QueueInv, NEW m \in Message, Regular(m), hidden[m] = 0
    PROVE  InNoBatch(m)
BY HeldIsHidden DEF InNoBatch

LEMMA ReceiveKeeps ==
    ASSUME QueueAssumption, QueueInv, NEW c \in Consumer, Receive(c)
    PROVE  QueueInv'
<1>1. PICK s \in Answers :
        /\ batch' = [batch EXCEPT ![c] = s]
        /\ hidden' = [m \in Message |-> IF m \in {s[i] : i \in 1..Len(s)} THEN Visibility ELSE hidden[m]]
        /\ receiver' = [m \in Message |-> IF m \in {s[i] : i \in 1..Len(s)} THEN c ELSE receiver[m]]
  BY DEF Receive, HiddenFor
<1>2. /\ batch[c] = <<>>
      /\ left' = [left EXCEPT ![c] = WorkTime]
      /\ spent' = [spent EXCEPT ![c] = 0]
      /\ overdue' = overdue \cup Late'
      /\ UNCHANGED <<stored, handled, cut, doubled>>
  BY DEF Receive, Busy
<1>3. /\ s \in Seq(Message) /\ s # <<>> /\ Len(s) \in Nat \ {0}
      /\ \A i \in 1..Len(s) : s[i] \in stored /\ hidden[s[i]] = 0
      /\ \A i, j \in 1..Len(s) : s[i] = s[j] => i = j
  BY AnswerTypes DEF QueueInv
<1>4. QueueTypeOK'
  <2>1. hidden' \in [Message -> Nat] /\ receiver' \in [Message -> Consumer \cup {Nobody}]
    BY <1>1 DEF QueueInv, QueueTypeOK, QueueAssumption
  <2>2. /\ batch' \in [Consumer -> Seq(Message)] /\ left' \in [Consumer -> 0..WorkTime]
        /\ spent' \in [Consumer -> Nat]
    BY <1>1, <1>2, <1>3 DEF QueueInv, QueueTypeOK, QueueAssumption
  <2> QED BY <1>2, <2>1, <2>2 DEF QueueInv, QueueTypeOK
<1>5. FinishedIsHandled'
  <2> SUFFICES ASSUME NEW d \in Consumer, Finished(d)' PROVE handled'[batch'[d][1]] > 0
    BY DEF FinishedIsHandled
  <2>1. d # c
    BY <1>2 DEF Finished, QueueInv, QueueTypeOK, QueueAssumption
  <2>2. batch'[d] = batch[d] /\ left'[d] = left[d]
    BY <1>1, <1>2, <2>1 DEF QueueInv, QueueTypeOK
  <2>3. Finished(d)
    BY <2>2 DEF Finished, Busy
  <2> QED BY <1>2, <2>2, <2>3 DEF QueueInv, FinishedIsHandled
<1>6. DeletedIsHandled' /\ LateIsOverdue'
  BY <1>2 DEF QueueInv, DeletedIsHandled, LateIsOverdue
<1>7. ASSUME NEW m \in Message, Regular(m)'
      PROVE  /\ \A d \in Consumer : \A i \in Places(d)' : batch'[d][i] = m => Held(m, d, i)'
             /\ Unheld(m)'
  <2>1. Regular(m)
    BY <1>2, <1>7 DEF Regular
  <2>2. CASE \E i \in 1..Len(s) : s[i] = m
    <3>1. PICK i \in 1..Len(s) : s[i] = m
      BY <2>2
    <3>2. m \in stored /\ InNoBatch(m)
      BY <1>3, <2>1, <3>1, VisibleIsUnheld
    <3>3. handled[m] = 0
      BY <2>1, <3>2 DEF QueueInv, RegularOnce, Unheld
    <3>4. hidden'[m] = Visibility /\ receiver'[m] = c /\ spent'[c] = 0 /\ left'[c] = WorkTime
      BY <1>1, <1>2, <3>1 DEF QueueInv, QueueTypeOK
    <3>5. \A d \in Consumer : \A j \in Places(d)' : batch'[d][j] = m => d = c /\ j = i
      BY <1>1, <1>3, <3>1, <3>2 DEF QueueInv, QueueTypeOK, Places, InNoBatch
    <3>6. i \in Places(c)' /\ batch'[c][i] = m
      BY <1>1, <3>1 DEF QueueInv, QueueTypeOK, Places
    <3>7. Held(m, c, i)'
      BY <1>2, <3>2, <3>3, <3>4, <3>5 DEF Held, QueueAssumption
    <3> QED BY <3>5, <3>6, <3>7 DEF Unheld, InNoBatch
  <2>3. CASE ~\E i \in 1..Len(s) : s[i] = m
    <3>1. hidden'[m] = hidden[m] /\ receiver'[m] = receiver[m]
      BY <1>1, <2>3
    <3>2. \A d \in Consumer : \A j \in Places(d)' :
             batch'[d][j] = m => d # c /\ j \in Places(d) /\ batch[d][j] = m
      BY <1>1, <2>3 DEF QueueInv, QueueTypeOK, Places
    <3>3. \A d \in Consumer : \A j \in Places(d) :
             batch[d][j] = m => j \in Places(d)' /\ batch'[d][j] = m
      BY <1>1, <1>2 DEF QueueInv, QueueTypeOK, Places
    <3>4. ASSUME NEW d \in Consumer, NEW i \in Places(d)', batch'[d][i] = m
          PROVE  Held(m, d, i)'
      <4>1. Held(m, d, i)
        BY <2>1, <3>2, <3>4 DEF QueueInv, RegularOnce
      <4>2. left'[d] = left[d] /\ spent'[d] = spent[d]
        BY <1>2, <3>2, <3>4 DEF QueueInv, QueueTypeOK
      <4> QED BY <1>2, <3>1, <3>2, <4>1, <4>2 DEF Held
    <3> QED BY <1>2, <2>1, <3>3, <3>4 DEF QueueInv, RegularOnce, Unheld, InNoBatch
  <2> QED BY <2>2, <2>3
<1> QED BY <1>4, <1>5, <1>6, <1>7 DEF QueueInv, RegularOnce

(* What does not touch the batches, and hides or doubles messages that no  *)
(* copy has or that are irregular from then on.                            *)
LEMMA BatchesRest ==
    ASSUME QueueAssumption, QueueInv, QueueTypeOK', UNCHANGED <<batch, left, spent, handled, cut, overdue>>,
           stored \subseteq stored', doubled \subseteq doubled',
           \A m \in Message : Regular(m)' =>
              /\ m \in stored' => m \in stored
              /\ InNoBatch(m) \/ (hidden'[m] = hidden[m] /\ receiver'[m] = receiver[m])
    PROVE  QueueInv'
<1>1. FinishedIsHandled' /\ DeletedIsHandled'
  BY DEF QueueInv, FinishedIsHandled, Finished, Busy, DeletedIsHandled
<1>2. LateIsOverdue'
  BY DEF QueueInv, LateIsOverdue, Late, Due
<1>3. ASSUME NEW m \in Message, Regular(m)'
      PROVE  /\ \A d \in Consumer : \A i \in Places(d)' : batch'[d][i] = m => Held(m, d, i)'
             /\ Unheld(m)'
  <2>1. Regular(m)
    BY <1>3 DEF Regular
  <2>2. ASSUME NEW d \in Consumer, NEW i \in Places(d), batch[d][i] = m
        PROVE  Held(m, d, i)'
    <3>1. Held(m, d, i) /\ ~InNoBatch(m)
      BY <2>1, <2>2 DEF QueueInv, RegularOnce, InNoBatch
    <3>2. hidden'[m] = hidden[m] /\ receiver'[m] = receiver[m]
      BY <1>3, <3>1
    <3> QED BY <3>1, <3>2 DEF Held, Places
  <2>3. Unheld(m)'
    BY <1>3, <2>1 DEF QueueInv, RegularOnce, Unheld, InNoBatch, Places
  <2> QED BY <2>2, <2>3 DEF Places
<1> QED BY <1>1, <1>2, <1>3 DEF QueueInv, RegularOnce

LEMMA ReceiveFailsKeeps ==
    ASSUME QueueAssumption, QueueInv, NEW c \in Consumer, ReceiveFails(c)
    PROVE  QueueInv'
<1>1. PICK s \in Answers :
        /\ hidden' = [m \in Message |-> IF m \in {s[i] : i \in 1..Len(s)} THEN Visibility ELSE hidden[m]]
        /\ receiver' = [m \in Message |-> IF m \in {s[i] : i \in 1..Len(s)} THEN c ELSE receiver[m]]
  BY DEF ReceiveFails, HiddenFor
<1>2. UNCHANGED <<stored, batch, left, spent, handled, cut, doubled, overdue>>
  BY DEF ReceiveFails
<1>3. \A i \in 1..Len(s) : hidden[s[i]] = 0
  BY AnswerTypes DEF QueueInv
<1>4. QueueTypeOK'
  BY <1>1, <1>2 DEF QueueInv, QueueTypeOK, QueueAssumption
<1>5. ASSUME NEW m \in Message, Regular(m)'
      PROVE  InNoBatch(m) \/ (hidden'[m] = hidden[m] /\ receiver'[m] = receiver[m])
  <2>1. Regular(m)
    BY <1>2, <1>5 DEF Regular
  <2>2. CASE m \in {s[i] : i \in 1..Len(s)}
    BY <1>3, <2>1, <2>2, VisibleIsUnheld
  <2>3. CASE m \notin {s[i] : i \in 1..Len(s)}
    BY <1>1, <2>3
  <2> QED BY <2>2, <2>3
<1> QED BY <1>2, <1>4, <1>5, BatchesRest

LEMMA DeliverAgainKeeps ==
    ASSUME QueueAssumption, QueueInv, NEW m \in Message, DeliverAgain(m)
    PROVE  QueueInv'
<1>1. /\ stored' = stored \cup {m}
      /\ hidden' = [hidden EXCEPT ![m] = 0]
      /\ doubled' = doubled \cup {m}
      /\ UNCHANGED <<receiver, batch, left, spent, handled, cut, overdue>>
  BY DEF DeliverAgain
<1>2. QueueTypeOK'
  BY <1>1 DEF QueueInv, QueueTypeOK
<1>3. ASSUME NEW n \in Message, Regular(n)'
      PROVE  /\ n \in stored' => n \in stored
             /\ hidden'[n] = hidden[n] /\ receiver'[n] = receiver[n]
  BY <1>1, <1>3 DEF Regular, QueueInv, QueueTypeOK
<1> QED BY <1>1, <1>2, <1>3, BatchesRest

LEMMA TickKeeps ==
    ASSUME QueueAssumption, QueueInv, Tick
    PROVE  QueueInv'
<1>1. PICK slow \in SUBSET Busy :
        /\ \A c \in Busy : Finished(c) => c \in slow
        /\ left' = [c \in Consumer |-> IF c \in Busy \ slow THEN left[c] - 1 ELSE left[c]]
        /\ spent' = [c \in Consumer |-> IF c \in slow THEN spent[c] + 1 ELSE spent[c]]
        /\ handled' = [m \in Message |->
                         IF Workers(m, slow) = {} THEN handled[m]
                         ELSE IF \E c \in Consumer : Workers(m, slow) = {c}
                         THEN handled[m] + 1 ELSE handled[m] + 2]
  BY DEF Tick
<1>2. /\ hidden' = [m \in Message |-> IF hidden[m] > 0 THEN hidden[m] - 1 ELSE 0]
      /\ UNCHANGED <<stored, receiver, batch, cut, doubled>>
      /\ overdue' = overdue \cup Late'
  BY DEF Tick
<1>3. \A c \in Busy \ slow : c \in Consumer /\ left[c] \in 1..WorkTime
  BY <1>1 DEF Busy, Finished, QueueInv, QueueTypeOK, QueueAssumption
<1>4. \A m \in Message : handled'[m] >= handled[m]
                         /\ (Workers(m, slow) # {} => handled'[m] > handled[m])
  BY <1>1 DEF QueueInv, QueueTypeOK
<1>5. QueueTypeOK'
  <2>1. left' \in [Consumer -> 0..WorkTime]
    BY <1>1, <1>3 DEF QueueInv, QueueTypeOK, QueueAssumption
  <2>2. spent' \in [Consumer -> Nat] /\ handled' \in [Message -> Nat] /\ hidden' \in [Message -> Nat]
    BY <1>1, <1>2 DEF QueueInv, QueueTypeOK
  <2> QED BY <1>2, <2>1, <2>2 DEF QueueInv, QueueTypeOK
<1>6. FinishedIsHandled'
  <2> SUFFICES ASSUME NEW c \in Consumer, Finished(c)' PROVE handled'[batch'[c][1]] > 0
    BY DEF FinishedIsHandled
  <2>1. c \in Busy /\ left'[c] = 0 /\ batch'[c] = batch[c]
    BY <1>2 DEF Finished, Busy
  <2>2. batch[c][1] \in Message /\ Head(batch[c]) = batch[c][1]
    BY <2>1 DEF Busy, QueueInv, QueueTypeOK
  <2>3. handled[batch[c][1]] \in Nat
    BY <2>2 DEF QueueInv, QueueTypeOK
  <2>4. CASE c \in slow
    <3>1. Finished(c)
      BY <1>1, <2>1, <2>4 DEF Finished
    <3> QED BY <1>4, <1>5, <2>1, <2>2, <2>3, <3>1 DEF QueueInv, FinishedIsHandled, QueueTypeOK
  <2>5. CASE c \notin slow
    <3>1. left[c] = 1
      BY <1>1, <1>3, <2>1, <2>5
    <3>2. c \in Workers(batch[c][1], slow)
      BY <2>1, <2>2, <2>5, <3>1 DEF Workers
    <3> QED BY <1>4, <1>5, <2>1, <2>2, <2>3, <3>2 DEF QueueTypeOK
  <2> QED BY <2>4, <2>5
<1>7. DeletedIsHandled' /\ LateIsOverdue'
  BY <1>2, <1>4, <1>5 DEF QueueInv, QueueTypeOK, DeletedIsHandled, LateIsOverdue
<1>8. \A m \in Message : \A c \in Workers(m, slow) :
         c \in Consumer /\ c \notin slow /\ left[c] = 1 /\ 1 \in Places(c) /\ batch[c][1] = m
  BY DEF Workers, Busy, Places, QueueInv, QueueTypeOK
<1>9. ASSUME NEW m \in Message, Regular(m)'
      PROVE  /\ \A d \in Consumer : \A i \in Places(d)' : batch'[d][i] = m => Held(m, d, i)'
             /\ Unheld(m)'
  <2>1. Regular(m) /\ \A d \in Consumer : Places(d)' = Places(d) /\ batch'[d] = batch[d]
    BY <1>2, <1>9 DEF Regular, Places
  <2>2. ASSUME NEW d \in Consumer, NEW i \in Places(d), batch[d][i] = m
        PROVE  Held(m, d, i)'
    <3>1. Held(m, d, i) /\ hidden[m] > 0
      BY <2>1, <2>2, HeldIsHidden
    <3>2. d \in Busy /\ i \in Nat \ {0} /\ left[d] \in 0..WorkTime /\ spent[d] \in Nat /\ hidden[m] \in Nat
      BY <2>2 DEF Busy, Places, QueueInv, QueueTypeOK
    <3>3. \A c \in Workers(m, slow) : c = d /\ i = 1
      BY <1>8, <3>1 DEF Held
    <3>4. hidden'[m] + spent'[d] + (WorkTime - left'[d]) >= Visibility
      <4>1. hidden'[m] = hidden[m] - 1
        BY <1>2, <3>1
      <4>2. hidden[m] + spent[d] + (WorkTime - left[d]) >= Visibility
        BY <3>1 DEF Held
      <4>3. CASE d \in slow
        BY <1>1, <3>2, <4>1, <4>2, <4>3 DEF QueueAssumption
      <4>4. CASE d \notin slow
        BY <1>1, <3>2, <4>1, <4>2, <4>4 DEF QueueAssumption
      <4> QED BY <4>3, <4>4
    <3>5. handled'[m] = IF left'[d] = 0 /\ i = 1 THEN 1 ELSE 0
      <4>1. handled[m] = IF left[d] = 0 /\ i = 1 THEN 1 ELSE 0
        BY <3>1 DEF Held
      <4>2. CASE i = 1 /\ d \notin slow /\ left[d] = 1
        <5>1. Head(batch[d]) = m
          BY <2>2, <3>2, <4>2 DEF QueueInv, QueueTypeOK, Busy
        <5>2. Workers(m, slow) = {d}
          BY <3>2, <3>3, <4>2, <5>1 DEF Workers
        <5>3. handled'[m] = handled[m] + 1
          BY <1>1, <5>2
        <5>4. left'[d] = 0
          BY <1>1, <3>2, <4>2
        <5> QED BY <4>1, <4>2, <5>3, <5>4
      <4>3. CASE ~(i = 1 /\ d \notin slow /\ left[d] = 1)
        <5>1. Workers(m, slow) = {}
          BY <1>8, <3>3, <4>3
        <5>2. handled'[m] = handled[m]
          BY <1>1, <5>1
        <5>3. i = 1 => (left'[d] = 0 <=> left[d] = 0)
          <6>1. CASE d \in slow
            BY <1>1, <6>1
          <6>2. CASE d \notin slow
            BY <1>1, <1>3, <3>2, <4>3, <6>2
          <6> QED BY <6>1, <6>2
        <5> QED BY <4>1, <5>2, <5>3
      <4> QED BY <4>2, <4>3
    <3> QED BY <1>2, <2>1, <3>1, <3>4, <3>5 DEF Held
  <2>3. ASSUME InNoBatch(m)
        PROVE  handled'[m] <= 1 /\ (m \in stored' => handled'[m] = 0)
    <3>1. Workers(m, slow) = {}
      BY <1>8, <2>3 DEF InNoBatch
    <3>2. handled'[m] = handled[m]
      BY <1>1, <3>1
    <3> QED BY <1>2, <2>1, <2>3, <3>2 DEF QueueInv, RegularOnce, Unheld
  <2> QED BY <2>1, <2>2, <2>3 DEF Unheld, InNoBatch
<1> QED BY <1>5, <1>6, <1>7, <1>9 DEF QueueInv, RegularOnce

(* The first message of a batch leaves it: it is deleted, or set apart. *)
LEMMA FirstLeaves ==
    ASSUME QueueAssumption, QueueInv, NEW c \in Consumer, Finished(c), GoOn(c),
           UNCHANGED <<hidden, receiver, handled, doubled, overdue>>,
           \/ cut' = cut /\ stored' = stored \ {Head(batch[c])}
           \/ receiver[Head(batch[c])] # c /\ cut' = cut /\ stored' = stored
           \/ cut' = cut \cup {Head(batch[c])} /\ stored' \in {stored, stored \ {Head(batch[c])}}
    PROVE  QueueInv'
<1> DEFINE x == Head(batch[c])
<1>1. batch[c] # <<>> /\ left[c] = 0 /\ 1 \in Places(c) /\ x = batch[c][1] /\ x \in Message /\ handled[x] > 0
  BY DEF QueueInv, QueueTypeOK, FinishedIsHandled, Finished, Busy, Places
<1>2. /\ Tail(batch[c]) \in Seq(Message)
      /\ Len(batch[c]) \in Nat \ {0} /\ Len(Tail(batch[c])) = Len(batch[c]) - 1
      /\ \A j \in 1..(Len(batch[c]) - 1) : Tail(batch[c])[j] = batch[c][j + 1]
  BY <1>1 DEF QueueInv, QueueTypeOK
<1>3. batch'[c] = Tail(batch[c]) /\ \A d \in Consumer \ {c} : batch'[d] = batch[d]
  BY DEF GoOn, QueueInv, QueueTypeOK
<1>4. /\ left' \in [Consumer -> 0..WorkTime] /\ spent' \in [Consumer -> Nat]
      /\ batch'[c] # <<>> => left'[c] = WorkTime /\ spent'[c] = spent[c] + WorkTime
      /\ \A d \in Consumer \ {c} : left'[d] = left[d] /\ spent'[d] = spent[d]
  <2>1. left' \in [Consumer -> 0..WorkTime] /\ spent' \in [Consumer -> Nat]
    BY DEF GoOn, QueueInv, QueueTypeOK, QueueAssumption
  <2>2. batch'[c] # <<>> => Len(batch[c]) > 1
    BY <1>1, <1>2, <1>3 DEF QueueInv, QueueTypeOK
  <2> QED BY <2>1, <2>2 DEF GoOn, QueueInv, QueueTypeOK
<1>5. QueueTypeOK'
  BY <1>1, <1>2, <1>4 DEF GoOn, QueueInv, QueueTypeOK
<1>6. FinishedIsHandled'
  <2> SUFFICES ASSUME NEW d \in Consumer, Finished(d)' PROVE handled'[batch'[d][1]] > 0
    BY DEF FinishedIsHandled
  <2>1. d # c
    BY <1>4 DEF Finished, Busy, QueueAssumption
  <2>2. Finished(d) /\ batch'[d] = batch[d]
    BY <1>3, <1>4, <2>1 DEF Finished, Busy
  <2> QED BY <2>2 DEF QueueInv, FinishedIsHandled
<1>7. DeletedIsHandled'
  BY <1>1 DEF QueueInv, DeletedIsHandled
<1>8. ASSUME NEW d \in Consumer, NEW i \in Places(d)'
      PROVE  LET k == IF d = c THEN i + 1 ELSE i
             IN  /\ i \in Nat \ {0} /\ k \in Places(d) /\ batch[d][k] = batch'[d][i]
                 /\ Due(d, i)' = Due(d, k)
                 /\ batch'[d] # <<>>
  <2>1. batch[c] \in Seq(Message) /\ batch[d] \in Seq(Message)
    BY DEF QueueInv, QueueTypeOK
  <2>2. CASE d = c
    <3>0. i \in 1..(Len(batch[c]) - 1) /\ batch'[c][i] = batch[c][i + 1]
      BY <1>2, <1>3, <1>8, <2>2 DEF Places
    <3>1. batch'[c] # <<>>
      <4>1. Len(batch'[c]) > 0
        BY <1>2, <1>3, <3>0
      <4> QED BY <4>1
    <3>2. i \in Nat \ {0} /\ i + 1 \in Places(c)
      BY <1>2, <3>0 DEF Places
    <3>3. i * WorkTime \in Nat /\ (i + 1) * WorkTime = i * WorkTime + WorkTime
      BY <3>2, Times DEF QueueAssumption
    <3>4. spent[c] \in Nat /\ spent'[c] = spent[c] + WorkTime
      BY <1>4, <3>1 DEF QueueInv, QueueTypeOK
    <3>5. Due(c, i)' = Due(c, i + 1)
      BY <3>3, <3>4 DEF Due, QueueAssumption
    <3> QED BY <2>2, <3>0, <3>1, <3>2, <3>5
  <2>3. CASE d # c
    <3>1. i \in 1..Len(batch[d]) /\ batch'[d] = batch[d]
      BY <1>3, <1>8, <2>3 DEF Places
    <3>2. i \in Nat \ {0} /\ batch[d] # <<>>
      BY <2>1, <3>1
    <3>3. Due(d, i)' = Due(d, i)
      BY <1>4, <2>3 DEF Due
    <3> QED BY <2>3, <3>1, <3>2, <3>3 DEF Places
  <2> QED BY <2>2, <2>3
<1>9. LateIsOverdue'
  <2> SUFFICES ASSUME NEW m \in Late' PROVE m \in overdue
    BY DEF LateIsOverdue
  <2>1. PICK d \in Consumer :
          \E i \in Places(d)' : batch'[d][i] = m /\ Due(d, i)' >= Visibility
    BY DEF Late, Places
  <2>2. PICK k \in Places(d) : batch[d][k] = m /\ Due(d, k) >= Visibility
    BY <1>8, <2>1
  <2>3. m \in Message
    BY <2>2 DEF QueueInv, QueueTypeOK, Places
  <2>4. m \in Late
    BY <2>2, <2>3 DEF Late, Places
  <2> QED BY <2>4 DEF QueueInv, LateIsOverdue
<1>10. ASSUME NEW m \in Message, Regular(m)'
       PROVE  /\ \A d \in Consumer : \A i \in Places(d)' : batch'[d][i] = m => Held(m, d, i)'
              /\ Unheld(m)'
  <2>1. Regular(m)
    BY <1>10 DEF Regular
  <2>2. CASE m = x
    <3>1. Held(m, c, 1)
      BY <1>1, <2>1, <2>2 DEF QueueInv, RegularOnce
    <3>2. m \notin stored' /\ handled'[m] = 1
      BY <1>1, <1>10, <2>2, <3>1 DEF Held, Regular
    <3>3. \A d \in Consumer : \A i \in Places(d)' : batch'[d][i] # m
      <4> SUFFICES ASSUME NEW d \in Consumer, NEW i \in Places(d)', batch'[d][i] = m PROVE FALSE
        OBVIOUS
      <4>1. CASE d = c
        <5>1. i \in Nat \ {0} /\ i + 1 \in Places(c) /\ batch[c][i + 1] = m
          BY <1>8, <4>1
        <5> QED BY <3>1, <5>1 DEF Held
      <4>2. CASE d # c
        BY <1>8, <3>1, <4>2 DEF Held
      <4> QED BY <4>1, <4>2
    <3> QED BY <3>2, <3>3 DEF Unheld
  <2>3. CASE m # x
    <3>1. m \in stored' <=> m \in stored
      BY <2>3
    <3>2. ASSUME NEW d \in Consumer, NEW i \in Places(d)', batch'[d][i] = m
          PROVE  Held(m, d, i)'
      <4>1. CASE d = c
        <5>1. i \in Nat \ {0} /\ i + 1 \in Places(c) /\ batch[c][i + 1] = m
          BY <1>8, <3>2, <4>1
        <5>2. Held(m, c, i + 1)
          BY <2>1, <5>1 DEF QueueInv, RegularOnce
        <5>3. left'[c] = WorkTime /\ spent'[c] = spent[c] + WorkTime
          BY <1>4, <1>8, <4>1
        <5>4. hidden[m] + spent[c] + (WorkTime - 0) >= Visibility /\ handled[m] = 0
          BY <1>1, <5>1, <5>2 DEF Held
        <5>5. hidden[m] \in Nat /\ spent[c] \in Nat
          BY DEF QueueInv, QueueTypeOK
        <5>6. /\ hidden'[m] + spent'[c] + (WorkTime - left'[c]) >= Visibility
              /\ handled'[m] = IF left'[c] = 0 /\ i = 1 THEN 1 ELSE 0
          BY <5>3, <5>4, <5>5 DEF QueueAssumption
        <5>7. \A e \in Consumer : \A j \in Places(e)' : batch'[e][j] = m => e = c /\ j = i
          <6> SUFFICES ASSUME NEW e \in Consumer, NEW j \in Places(e)', batch'[e][j] = m
                       PROVE  e = c /\ j = i
            OBVIOUS
          <6>1. CASE e = c
            <7>1. j \in Nat /\ j + 1 \in Places(c) /\ batch[c][j + 1] = m
              BY <1>8, <6>1
            <7>2. j + 1 = i + 1
              BY <5>2, <7>1 DEF Held
            <7> QED BY <5>1, <6>1, <7>1, <7>2
          <6>2. CASE e # c
            BY <1>8, <5>2, <6>2 DEF Held
          <6> QED BY <6>1, <6>2
        <5> QED BY <3>1, <4>1, <5>2, <5>6, <5>7 DEF Held
      <4>2. CASE d # c
        <5>1. i \in Places(d) /\ batch[d][i] = m
          BY <1>8, <3>2, <4>2
        <5>2. Held(m, d, i)
          BY <2>1, <5>1 DEF QueueInv, RegularOnce
        <5>3. \A e \in Consumer : \A j \in Places(e)' : batch'[e][j] = m => e = d /\ j = i
          <6> SUFFICES ASSUME NEW e \in Consumer, NEW j \in Places(e)', batch'[e][j] = m
                       PROVE  e = d /\ j = i
            OBVIOUS
          <6>1. CASE e = c
            BY <1>8, <4>2, <5>2, <6>1 DEF Held
          <6>2. CASE e # c
            BY <1>8, <5>2, <6>2 DEF Held
          <6> QED BY <6>1, <6>2
        <5> QED BY <1>4, <3>1, <4>2, <5>2, <5>3 DEF Held
      <4> QED BY <4>1, <4>2
    <3>3. ASSUME InNoBatch(m)' PROVE InNoBatch(m)
      <4> SUFFICES ASSUME NEW d \in Consumer, NEW j \in Places(d), batch[d][j] = m PROVE FALSE
        BY DEF InNoBatch
      <4>1. CASE d = c
        <5>1. j # 1
          BY <1>1, <2>3, <4>1
        <5>2. j - 1 \in Places(c)' /\ batch'[c][j - 1] = m
          BY <1>2, <1>3, <4>1, <5>1 DEF Places, QueueInv, QueueTypeOK
        <5> QED BY <3>3, <5>2 DEF InNoBatch
      <4>2. CASE d # c
        BY <1>3, <3>3, <4>2 DEF Places, InNoBatch
      <4> QED BY <4>1, <4>2
    <3> QED BY <2>1, <3>1, <3>2, <3>3 DEF QueueInv, RegularOnce, Unheld
  <2> QED BY <2>2, <2>3
<1> QED BY <1>5, <1>6, <1>7, <1>9, <1>10 DEF QueueInv, RegularOnce

LEMMA CrashKeeps ==
    ASSUME QueueAssumption, QueueInv, NEW c \in Consumer, Crash(c)
    PROVE  QueueInv'
<1>1. /\ cut' = cut \cup InBatch(c)
      /\ stored' = stored \/ (Finished(c) /\ stored' = stored \ {Head(batch[c])})
      /\ batch' = [batch EXCEPT ![c] = <<>>]
      /\ left' = [left EXCEPT ![c] = 0]
      /\ spent' = [spent EXCEPT ![c] = 0]
      /\ UNCHANGED <<hidden, receiver, handled, doubled, overdue>>
  BY DEF Crash
<1>2. batch[c] # <<>> /\ Head(batch[c]) = batch[c][1] /\ 1 \in Places(c)
  BY DEF Crash, Busy, Places, QueueInv, QueueTypeOK
<1>3. /\ batch'[c] = <<>> /\ Places(c)' = {}
      /\ \A d \in Consumer \ {c} : /\ batch'[d] = batch[d] /\ Places(d)' = Places(d)
                                   /\ left'[d] = left[d] /\ spent'[d] = spent[d]
  BY <1>1 DEF Places, QueueInv, QueueTypeOK
<1>4. QueueTypeOK'
  BY <1>1 DEF QueueInv, QueueTypeOK, QueueAssumption
<1>5. FinishedIsHandled'
  BY <1>1, <1>3 DEF QueueInv, FinishedIsHandled, Finished, Busy
<1>6. DeletedIsHandled'
  BY <1>1, <1>2 DEF QueueInv, DeletedIsHandled, FinishedIsHandled
<1>7. LateIsOverdue'
  BY <1>1, <1>3 DEF QueueInv, LateIsOverdue, Late, Due, Places
<1>8. ASSUME NEW m \in Message, Regular(m)'
      PROVE  /\ \A d \in Consumer : \A i \in Places(d)' : batch'[d][i] = m => Held(m, d, i)'
             /\ Unheld(m)'
  <2>1. Regular(m) /\ m \notin InBatch(c)
    BY <1>1, <1>8 DEF Regular
  <2>2. \A i \in Places(c) : batch[c][i] # m
    BY <2>1 DEF InBatch, Places
  <2>3. m \in stored' <=> m \in stored
    BY <1>1, <1>2, <2>2
  <2>4. ASSUME NEW d \in Consumer, NEW i \in Places(d)', batch'[d][i] = m
        PROVE  Held(m, d, i)'
    <3>1. d # c /\ i \in Places(d) /\ batch[d][i] = m
      BY <1>3, <2>4
    <3>2. Held(m, d, i)
      BY <2>1, <3>1 DEF QueueInv, RegularOnce
    <3>3. \A e \in Consumer : \A j \in Places(e)' : batch'[e][j] = m => e = d /\ j = i
      BY <1>3, <3>2 DEF Held
    <3> QED BY <1>1, <1>3, <2>3, <3>1, <3>2, <3>3 DEF Held
  <2>5. InNoBatch(m)' => InNoBatch(m)
    BY <1>3, <2>2 DEF InNoBatch
  <2> QED BY <1>1, <2>1, <2>3, <2>4, <2>5 DEF QueueInv, RegularOnce, Unheld
<1> QED BY <1>4, <1>5, <1>6, <1>7, <1>8 DEF QueueInv, RegularOnce

LEMMA QueueStep ==
    ASSUME QueueAssumption, QueueInv, [QueueNext]_queueVars
    PROVE  QueueInv'
<1>1. ASSUME NEW c \in Consumer, Delete(c) PROVE QueueInv'
  <2>1. /\ Finished(c) /\ GoOn(c)
        /\ UNCHANGED <<hidden, receiver, handled, doubled, overdue>>
        /\ \/ cut' = cut /\ stored' = stored \ {Head(batch[c])}
           \/ receiver[Head(batch[c])] # c /\ cut' = cut /\ stored' = stored
    BY <1>1 DEF Delete
  <2> QED BY <2>1, FirstLeaves
<1>2. ASSUME NEW c \in Consumer, DeleteFails(c) PROVE QueueInv'
  <2>1. /\ Finished(c) /\ GoOn(c)
        /\ UNCHANGED <<hidden, receiver, handled, doubled, overdue>>
        /\ cut' = cut \cup {Head(batch[c])} /\ stored' \in {stored, stored \ {Head(batch[c])}}
    BY <1>2 DEF DeleteFails
  <2> QED BY <2>1, FirstLeaves
<1>3. CASE UNCHANGED queueVars
  <2>1. /\ UNCHANGED <<stored, hidden, receiver, batch, left, spent, handled>>
        /\ UNCHANGED <<cut, doubled, overdue>>
    BY <1>3 DEF queueVars
  <2>2. QueueTypeOK'
    BY <2>1 DEF QueueInv, QueueTypeOK
  <2> QED BY <2>1, <2>2, BatchesRest
<1> QED BY <1>1, <1>2, <1>3, ReceiveKeeps, ReceiveFailsKeeps, CrashKeeps, DeliverAgainKeeps, TickKeeps
        DEF QueueNext

LEMMA QueueStart == ASSUME QueueAssumption, QueueInit PROVE QueueInv
<1>1. \A c \in Consumer : Places(c) = {}
  BY DEF QueueInit, Places
<1>2. QueueTypeOK /\ FinishedIsHandled /\ DeletedIsHandled
  BY DEF QueueAssumption, QueueInit, QueueTypeOK, FinishedIsHandled, Finished, Busy, DeletedIsHandled
<1>3. LateIsOverdue
  BY <1>1 DEF LateIsOverdue, Late, Places
<1>4. RegularOnce
  BY <1>1 DEF QueueInit, RegularOnce, Unheld
<1> QED BY <1>2, <1>3, <1>4 DEF QueueInv

LEMMA QueueInvImplies == ASSUME QueueAssumption, QueueInv PROVE RepeatIsExplained
<1> SUFFICES ASSUME NEW m \in Message, handled[m] > 1, Regular(m)
             PROVE  FALSE
  BY DEF RepeatIsExplained, QueueInv, DeletedIsHandled, Regular
<1>1. CASE InNoBatch(m)
  BY <1>1 DEF QueueInv, QueueTypeOK, RegularOnce, Unheld
<1>2. CASE \E d \in Consumer : \E j \in Places(d) : batch[d][j] = m
  BY <1>2 DEF QueueInv, RegularOnce, Held
<1> QED BY <1>1, <1>2 DEF InNoBatch

(* A message is worked on twice only for the reasons named, and deleted    *)
(* only after it was worked on.                                            *)
THEOREM RepeatsAreExplained ==
    ASSUME QueueAssumption
    PROVE  QueueSpec => []RepeatIsExplained
<1>1. QueueInit => QueueInv
  BY QueueStart
<1>2. QueueInv /\ [QueueNext]_queueVars => QueueInv'
  BY QueueStep
<1>3. QueueInv => RepeatIsExplained
  BY QueueInvImplies
<1> QED BY <1>1, <1>2, <1>3, PTL DEF QueueSpec

(***************************************************************************)
(* The batches.                                                            *)
(*                                                                         *)
(* What is acknowledged is done, for any number of records, any batch size *)
(* and any number of failures, as long as the source only has a natural    *)
(* number of records.  In the middle of a batch the invocation has done    *)
(* everything before the place it has reached, however far earlier         *)
(* attempts at the batch had come.                                         *)
(***************************************************************************)

(* Every record up to i has had all its effects; a record has its effects  *)
(* in order.                                                               *)
Through(i) == \A j \in 1..i, k \in 1..EffectCount : <<j, k>> \in performed
InOrder ==
    \A j \in Nat, k \in 1..EffectCount :
        <<j, k>> \in performed => \A h \in 1..(k - 1) : <<j, h>> \in performed

BatchTypeOK ==
    /\ checkpoint \in Nat /\ last \in Nat /\ at \in 0..(last + 1)
    /\ effect \in 1..EffectCount
    /\ performed \subseteq (Nat \X (1..EffectCount))

(* Where the invocation is. *)
Reached ==
    /\ at > checkpoint /\ last > checkpoint
    /\ Through(at - 1)
    /\ \A k \in 1..(effect - 1) : <<at, k>> \in performed
    /\ at > last => effect = 1

BatchInv == BatchTypeOK /\ InOrder /\ Through(checkpoint) /\ (at > 0 => Reached)

(* One more effect, in its place, keeps the order. *)
LEMMA InOrderKept ==
    ASSUME BatchAssumption, BatchInv, at \in 1..last,
           performed' = performed \cup {<<at, effect>>}
    PROVE  InOrder'
<1> SUFFICES ASSUME NEW j \in Nat, NEW k \in 1..EffectCount, <<j, k>> \in performed',
                    NEW h \in 1..(k - 1)
             PROVE  <<j, h>> \in performed'
  BY DEF InOrder
<1>1. CASE <<j, k>> \in performed
  BY <1>1 DEF BatchInv, InOrder
<1>2. CASE j = at /\ k = effect
  BY <1>2 DEF BatchInv, Reached
<1> QED BY <1>1, <1>2

LEMMA BatchStep ==
    ASSUME BatchAssumption, available \in Nat, BatchInv, [BatchNext]_batchVars
    PROVE  BatchInv'
<1> USE DEF BatchAssumption, BatchInv, BatchTypeOK
<1>1. CASE Invoke
  BY <1>1 DEF Invoke, InOrder, Through, Reached
<1>2. CASE Perform
  <2>1. /\ performed' = performed \cup {<<at, effect>>}
        /\ at \in 1..last
        /\ UNCHANGED <<checkpoint, last, retries>>
    BY <1>2 DEF Perform
  <2>2. performed' \subseteq (Nat \X (1..EffectCount)) /\ InOrder'
    BY <2>1, InOrderKept
  <2>3. Through(checkpoint)'
    BY <2>1 DEF Through
  <2>4. CASE effect < EffectCount
    <3>1. effect' = effect + 1 /\ at' = at
      BY <1>2, <2>4 DEF Perform
    <3>2. Reached'
      BY <2>1, <3>1 DEF Reached, Through
    <3> QED BY <2>1, <2>2, <2>3, <2>4, <3>1, <3>2
  <2>5. CASE ~(effect < EffectCount)
    <3>1. effect = EffectCount /\ effect' = 1 /\ at' = at + 1
      BY <1>2, <2>5 DEF Perform
    <3>2. \A k \in 1..EffectCount : <<at, k>> \in performed'
      BY <2>1, <3>1 DEF Reached
    <3>3. \A i \in 1..(at' - 1), k \in 1..EffectCount : <<i, k>> \in performed'
      <4> SUFFICES ASSUME NEW i \in 1..(at' - 1), NEW k \in 1..EffectCount
                   PROVE  <<i, k>> \in performed'
        OBVIOUS
      <4>1. CASE i = at
        BY <3>2, <4>1
      <4>2. CASE i # at
        BY <2>1, <3>1, <4>2 DEF Reached, Through
      <4> QED BY <4>1, <4>2
    <3>4. Reached'
      BY <2>1, <3>1, <3>3 DEF Reached, Through
    <3> QED BY <2>1, <2>2, <2>3, <3>1, <3>4
  <2> QED BY <2>4, <2>5
<1>3. CASE Fail
  <2>1. at \in 1..last /\ UNCHANGED <<checkpoint, last, effect>> /\ at' = 0
    BY <1>3 DEF Fail
  <2>2. CASE performed' = performed
    BY <2>1, <2>2 DEF InOrder, Through
  <2>3. CASE performed' = performed \cup {<<at, effect>>}
    <3>1. performed' \subseteq (Nat \X (1..EffectCount)) /\ InOrder'
      BY <2>1, <2>3, InOrderKept
    <3>2. Through(checkpoint)'
      BY <2>1, <2>3 DEF Through
    <3> QED BY <2>1, <3>1, <3>2
  <2> QED BY <1>3, <2>2, <2>3 DEF Fail
<1>4. CASE Acknowledge
  BY <1>4 DEF Acknowledge, InOrder, Through, Reached
<1>5. CASE UNCHANGED batchVars
  BY <1>5 DEF batchVars, InOrder, Through, Reached
<1> QED BY <1>1, <1>2, <1>3, <1>4, <1>5 DEF BatchNext

LEMMA BatchStart == ASSUME BatchAssumption, BatchInit PROVE BatchInv
BY DEF BatchAssumption, BatchInit, BatchInv, BatchTypeOK, InOrder, Through

LEMMA BatchInvImplies == ASSUME BatchAssumption, BatchInv PROVE AckedIsDone
<1>1. \A p \in performed : \A k \in 1..(p[2] - 1) : <<p[1], k>> \in performed
  <2> SUFFICES ASSUME NEW p \in performed PROVE \A k \in 1..(p[2] - 1) : <<p[1], k>> \in performed
    OBVIOUS
  <2>1. PICK j \in Nat, k \in 1..EffectCount : p = <<j, k>>
    BY DEF BatchInv, BatchTypeOK
  <2> QED BY <2>1 DEF BatchInv, InOrder
<1> QED BY <1>1 DEF BatchInv, AckedIsDone, Through

(* Whatever fails on the way, an acknowledged record has had every effect  *)
(* and no record has one without those before it.                          *)
THEOREM AcknowledgedIsDone ==
    ASSUME BatchAssumption
    PROVE  BatchInit /\ [][BatchNext]_batchVars /\ [](available \in Nat) => []AckedIsDone
<1>1. BatchInit => BatchInv
  BY BatchStart
<1>2. (available \in Nat) /\ BatchInv /\ [BatchNext]_batchVars => BatchInv'
  BY BatchStep
<1>3. BatchInv => AckedIsDone
  BY BatchInvImplies
<1> QED BY <1>1, <1>2, <1>3, PTL

=============================================================================
