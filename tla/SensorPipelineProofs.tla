------------------------ MODULE SensorPipelineProofs ------------------------
(***************************************************************************)
(* What the consumer of the raw topic loses, for any partition, any number *)
(* of batches, requests in flight, ticks and faults, and any time-outs.    *)
(*                                                                         *)
(* Of the producer: a batch without a verdict is in the deque or in flight *)
(* with a request of its own (Accounted), and what the broker has answered *)
(* and every verdict is true (Truthful).  These hold whatever the caller   *)
(* does, and every step of the producer is one its promise allows.         *)
(*                                                                         *)
(* Of the function: it holds the future of a batch with the record in it,  *)
(* and flush() waits for it (FuturesHeld); what the loop has passed is in  *)
(* the table or has such a future (Progress).                              *)
(***************************************************************************)
EXTENDS SensorPipeline, TLAPS

(***************************************************************************)
(* Sequences without repetition.                                           *)
(***************************************************************************)

Elems(s) == {s[i] : i \in 1..Len(s)}
Distinct(s) == \A i, j \in 1..Len(s) : s[i] = s[j] => i = j

LEMMA AppendDistinct ==
    ASSUME NEW S, NEW s \in Seq(S), NEW x \in S, Distinct(s), x \notin Elems(s)
    PROVE  /\ Append(s, x) \in Seq(S)
           /\ Elems(Append(s, x)) = Elems(s) \cup {x}
           /\ Distinct(Append(s, x))
<1> DEFINE t == Append(s, x)
<1>1. /\ t \in Seq(S) /\ Len(t) = Len(s) + 1 /\ t[Len(s) + 1] = x
      /\ \A i \in 1..Len(s) : t[i] = s[i]
  OBVIOUS
<1>2. \A i \in 1..Len(t) : i = Len(s) + 1 \/ i \in 1..Len(s)
  BY <1>1
<1> HIDE DEF t
<1>3. Elems(t) = Elems(s) \cup {x}
  BY <1>1, <1>2 DEF Elems
<1>4. Distinct(t)
  BY <1>1, <1>2 DEF Distinct, Elems
<1> QED BY <1>1, <1>3, <1>4 DEF t

LEMMA FrontDistinct ==
    ASSUME NEW S, NEW s \in Seq(S), NEW x \in S, Distinct(s), x \notin Elems(s)
    PROVE  /\ <<x>> \o s \in Seq(S)
           /\ Elems(<<x>> \o s) = Elems(s) \cup {x}
           /\ Distinct(<<x>> \o s)
<1> DEFINE t == <<x>> \o s
<1>1. /\ t \in Seq(S) /\ Len(t) = Len(s) + 1 /\ t[1] = x
      /\ \A i \in 1..Len(s) : t[i + 1] = s[i]
  OBVIOUS
<1>2. \A i \in 1..Len(t) : t[i] = IF i = 1 THEN x ELSE s[i - 1]
  BY <1>1
<1>3. \A i \in 1..Len(t) : i # 1 => i - 1 \in 1..Len(s)
  BY <1>1
<1>4. \A i \in 1..Len(s) : i + 1 \in 1..Len(t)
  BY <1>1
<1> HIDE DEF t
<1>5. Elems(t) \subseteq Elems(s) \cup {x}
  BY <1>2, <1>3 DEF Elems
<1>6. 1 \in 1..Len(t)
  BY <1>1
<1>7. Elems(s) \cup {x} \subseteq Elems(t)
  BY <1>1, <1>4, <1>6 DEF Elems
<1>8. ASSUME NEW i \in 1..Len(t), NEW j \in 1..Len(t), t[i] = t[j] PROVE i = j
  <2>1. CASE i = 1 \/ j = 1
    BY <1>2, <1>3, <1>8, <2>1 DEF Elems
  <2>2. CASE i # 1 /\ j # 1
    <3>1. s[i - 1] = s[j - 1] /\ i - 1 \in 1..Len(s) /\ j - 1 \in 1..Len(s)
      BY <1>2, <1>3, <1>8, <2>2
    <3>2. i - 1 = j - 1
      BY <3>1 DEF Distinct
    <3> QED BY <3>2
  <2> QED BY <2>1, <2>2
<1> QED BY <1>1, <1>5, <1>7, <1>8 DEF t, Distinct

LEMMA SubSeqDistinct ==
    ASSUME NEW S, NEW s \in Seq(S), Distinct(s), NEW n \in 0..Len(s)
    PROVE  /\ SubSeq(s, n + 1, Len(s)) \in Seq(S)
           /\ Elems(SubSeq(s, n + 1, Len(s))) = Elems(s) \ {s[i] : i \in 1..n}
           /\ Distinct(SubSeq(s, n + 1, Len(s)))
<1> DEFINE t == SubSeq(s, n + 1, Len(s))
<1>1. /\ t \in Seq(S) /\ Len(t) = Len(s) - n
      /\ \A i \in 1..(Len(s) - n) : t[i] = s[i + n]
  OBVIOUS
<1> HIDE DEF t
<1>2. \A i \in 1..Len(t) : i + n \in 1..Len(s) /\ t[i] = s[i + n] /\ i + n \notin 1..n
  BY <1>1
<1>3. \A i \in 1..Len(s) : i \in 1..n \/ (i - n \in 1..Len(t) /\ t[i - n] = s[i])
  BY <1>1
<1>4. Elems(t) \subseteq Elems(s) \ {s[i] : i \in 1..n}
  BY <1>2 DEF Elems, Distinct
<1>5. Elems(s) \ {s[i] : i \in 1..n} \subseteq Elems(t)
  BY <1>3 DEF Elems
<1>6. Distinct(t)
  BY <1>1, <1>2 DEF Distinct
<1> QED BY <1>1, <1>4, <1>5, <1>6 DEF t

LEMMA TailDistinct ==
    ASSUME NEW S, NEW s \in Seq(S), Distinct(s), s # <<>>
    PROVE  /\ Head(s) \in Elems(s) /\ Head(s) \in S
           /\ Tail(s) \in Seq(S)
           /\ Elems(Tail(s)) = Elems(s) \ {Head(s)}
           /\ Distinct(Tail(s))
<1> DEFINE t == Tail(s)
<1>1. Head(s) = s[1] /\ 1 \in 1..Len(s) /\ s[1] \in S
  OBVIOUS
<1>2. t \in Seq(S) /\ Len(t) = Len(s) - 1 /\ \A i \in 1..Len(t) : t[i] = s[i + 1]
  OBVIOUS
<1> HIDE DEF t
<1>3. \A i \in 1..Len(t) : i + 1 \in 1..Len(s) /\ t[i] = s[i + 1] /\ i + 1 # 1
  BY <1>2
<1>4. \A i \in 1..Len(s) : i = 1 \/ (i - 1 \in 1..Len(t) /\ t[i - 1] = s[i])
  BY <1>2
<1>5. Elems(t) \subseteq Elems(s) \ {s[1]}
  BY <1>1, <1>3 DEF Elems, Distinct
<1>6. Elems(s) \ {s[1]} \subseteq Elems(t)
  BY <1>4 DEF Elems
<1>7. Distinct(t)
  BY <1>2, <1>3 DEF Distinct
<1>8. Head(s) \in Elems(s)
  BY <1>1 DEF Elems
<1> QED BY <1>1, <1>2, <1>5, <1>6, <1>7, <1>8 DEF t

(***************************************************************************)
(* The requests: at most one for a batch.                                  *)
(***************************************************************************)

Request == [batch : Batch, answer : Answer]
BatchesOf(r) == {r[i].batch : i \in 1..Len(r)}
OneEach(r) == \A i, j \in 1..Len(r) : r[i].batch = r[j].batch => i = j

LEMMA RequestSent ==
    ASSUME NEW r \in Seq(Request), NEW x \in Request, OneEach(r), x.batch \notin BatchesOf(r)
    PROVE  /\ Append(r, x) \in Seq(Request)
           /\ BatchesOf(Append(r, x)) = BatchesOf(r) \cup {x.batch}
           /\ OneEach(Append(r, x))
           /\ Elems(Append(r, x)) = Elems(r) \cup {x}
<1> DEFINE t == Append(r, x)
<1>1. /\ t \in Seq(Request) /\ Len(t) = Len(r) + 1 /\ t[Len(r) + 1] = x
      /\ \A i \in 1..Len(r) : t[i] = r[i]
  OBVIOUS
<1>2. \A i \in 1..Len(t) : i = Len(r) + 1 \/ i \in 1..Len(r)
  BY <1>1
<1> HIDE DEF t
<1>3. BatchesOf(t) = BatchesOf(r) \cup {x.batch}
  BY <1>1, <1>2 DEF BatchesOf
<1>4. OneEach(t)
  BY <1>1, <1>2 DEF OneEach, BatchesOf
<1>5. Elems(t) = Elems(r) \cup {x}
  BY <1>1, <1>2 DEF Elems
<1> QED BY <1>1, <1>3, <1>4, <1>5 DEF t

LEMMA RequestAnswered ==
    ASSUME NEW r \in Seq(Request), OneEach(r), r # <<>>
    PROVE  /\ Head(r) \in Elems(r) /\ Head(r) \in Request /\ Head(r).batch \in BatchesOf(r)
           /\ Tail(r) \in Seq(Request)
           /\ BatchesOf(Tail(r)) = BatchesOf(r) \ {Head(r).batch}
           /\ OneEach(Tail(r))
           /\ Elems(Tail(r)) \subseteq Elems(r)
<1> DEFINE t == Tail(r)
<1>1. Head(r) = r[1] /\ 1 \in 1..Len(r) /\ r[1] \in Request
  OBVIOUS
<1>2. t \in Seq(Request) /\ Len(t) = Len(r) - 1 /\ \A i \in 1..Len(t) : t[i] = r[i + 1]
  OBVIOUS
<1> HIDE DEF t
<1>3. \A i \in 1..Len(t) : i + 1 \in 1..Len(r) /\ t[i] = r[i + 1] /\ i + 1 # 1
  BY <1>2
<1>4. \A i \in 1..Len(r) : i = 1 \/ (i - 1 \in 1..Len(t) /\ t[i - 1] = r[i])
  BY <1>2
<1>5. BatchesOf(t) \subseteq BatchesOf(r) \ {r[1].batch}
  BY <1>1, <1>3 DEF BatchesOf, OneEach
<1>6. BatchesOf(r) \ {r[1].batch} \subseteq BatchesOf(t)
  BY <1>4 DEF BatchesOf
<1>7. OneEach(t)
  BY <1>2, <1>3 DEF OneEach
<1>8. Elems(t) \subseteq Elems(r)
  BY <1>3 DEF Elems
<1>9. Head(r) \in Elems(r) /\ Head(r).batch \in BatchesOf(r)
  BY <1>1 DEF Elems, BatchesOf
<1> QED BY <1>1, <1>2, <1>5, <1>6, <1>7, <1>8, <1>9 DEF t

(***************************************************************************)
(* The producer.                                                           *)
(***************************************************************************)

ProducerTypeOK ==
    /\ queue \in Seq(Batch)
    /\ incomplete \subseteq Batch
    /\ inFlight \subseteq Batch
    /\ rec \in [Batch -> SUBSET Record]
    /\ age \in [Batch -> 0..DeliveryTimeout]
    /\ retried \in [Batch -> BOOLEAN]
    /\ final \in [Batch -> {"unused", "pending", "succeeded", "failed"}]
    /\ requests \in Seq(Request)
    /\ conn \in {"down", "connecting", "up"}
    /\ meta \in {"unknown", "leaderless", "known"}
    /\ needUpdate \in BOOLEAN
    /\ refreshing \in BOOLEAN
    /\ topic \subseteq Record

(* NothingForgotten, in the words of the lemmas above. *)
Accounted ==
    /\ \A b \in Batch : b \in incomplete <=> final[b] = "pending"
    /\ \A b \in Batch : b \in incomplete <=> b \in Elems(queue) \/ b \in inFlight
    /\ \A b \in inFlight : b \notin Elems(queue) /\ b \in BatchesOf(requests)
    /\ \A b \in Elems(queue) : b \notin BatchesOf(requests)
    /\ Distinct(queue)
    /\ OneEach(requests)

(* What the broker said is true, and so is every verdict. *)
Truthful ==
    /\ \A x \in Elems(requests) :
          /\ x.answer = "ok" => rec[x.batch] \subseteq topic
          /\ final[x.batch] # "unused"
    /\ \A b \in Batch : final[b] = "succeeded" => rec[b] \subseteq topic

ProducerInv == ProducerTypeOK /\ Accounted /\ Truthful

(* What the caller can rely on when the sender or the broker takes a step. *)
Kept ==
    /\ rec' = rec /\ topic \subseteq topic'
    /\ \A b \in Batch : /\ final[b] # "unused" => final'[b] # "unused"
                        /\ final'[b] = "pending" => final[b] = "pending"

PromiseStep == [Promise!Next]_(Promise!vars)

LEMMA ElemsTyped ==
    ASSUME ProducerTypeOK
    PROVE  /\ Elems(queue) \subseteq Batch
           /\ Elems(requests) \subseteq Request
           /\ BatchesOf(requests) \subseteq Batch
           /\ \A x \in Elems(requests) : x.batch \in BatchesOf(requests)
           /\ Queued = Elems(queue) /\ Requested = BatchesOf(requests)
<1>1. Elems(queue) \subseteq Batch
  BY DEF ProducerTypeOK, Elems
<1>2. Elems(requests) \subseteq Request /\ BatchesOf(requests) \subseteq Batch
  <2>1. \A i \in 1..Len(requests) : requests[i] \in Request
    BY DEF ProducerTypeOK
  <2>2. \A x \in Request : x.batch \in Batch
    BY DEF Request
  <2> QED BY <2>1, <2>2 DEF Elems, BatchesOf
<1>3. \A x \in Elems(requests) : x.batch \in BatchesOf(requests)
  BY DEF Elems, BatchesOf
<1> QED BY <1>1, <1>2, <1>3 DEF Queued, Requested, Elems, BatchesOf

LEMMA AccountedIsNothingForgotten ==
    ASSUME ProducerTypeOK, Accounted
    PROVE  NothingForgotten
<1>1. incomplete = {b \in Batch : final[b] = "pending"}
  BY DEF ProducerTypeOK, Accounted
<1>2. incomplete = Queued \cup inFlight
  BY ElemsTyped DEF ProducerTypeOK, Accounted
<1>3. Queued \cap inFlight = {} /\ inFlight \subseteq Requested /\ Queued \cap Requested = {}
  BY ElemsTyped DEF Accounted
<1> QED BY <1>1, <1>2, <1>3 DEF NothingForgotten, Accounted, Distinct, OneEach

(* Steps that touch the connection and the metadata only. *)
LEMMA ClientKeeps ==
    ASSUME ProducerInv, UNCHANGED <<queueVars, batchVars, requests, topic>>,
           conn' \in {"down", "connecting", "up"}, meta' \in {"unknown", "leaderless", "known"},
           needUpdate' \in BOOLEAN, refreshing' \in BOOLEAN
    PROVE  ProducerInv' /\ Kept /\ PromiseStep
<1>1. UNCHANGED <<queue, incomplete, inFlight, rec, age, retried, final, requests, topic>>
  BY DEF queueVars, batchVars
<1>2. ProducerTypeOK'
  BY <1>1 DEF ProducerInv, ProducerTypeOK
<1>3. Accounted' /\ Truthful'
  BY DEF ProducerInv, Accounted, Truthful, queueVars, batchVars, Elems, BatchesOf, Distinct, OneEach
<1>4. Kept /\ PromiseStep
  BY DEF Kept, PromiseStep, Promise!vars, batchVars
<1> QED BY <1>2, <1>3, <1>4 DEF ProducerInv

(* Expiry, after some batches have been drained from the deque. *)
LEMMA ExpireKeeps ==
    ASSUME ProducerTypeOK,
           NEW drained \in SUBSET Batch, NEW rest \in Seq(Batch),
           \A b \in Batch : b \in incomplete <=> final[b] = "pending",
           \A b \in Batch : b \in incomplete <=> b \in Elems(rest) \/ b \in inFlight \cup drained,
           \A b \in inFlight \cup drained : b \notin Elems(rest),
           Distinct(rest),
           ExpireAndSend(drained, rest)
    PROVE  /\ queue' \in Seq(Batch) /\ incomplete' \subseteq Batch /\ inFlight' \subseteq Batch
           /\ final' \in [Batch -> {"unused", "pending", "succeeded", "failed"}]
           /\ \A b \in Batch : b \in incomplete' <=> final'[b] = "pending"
           /\ \A b \in Batch : b \in incomplete' <=> b \in Elems(queue') \/ b \in inFlight'
           /\ Elems(queue') \subseteq Elems(rest) /\ Distinct(queue')
           /\ inFlight' \subseteq inFlight \cup drained
           /\ \E E \in SUBSET Batch :
                 /\ \A b \in E : final[b] = "pending"
                 /\ final' = [b \in Batch |-> IF b \in E THEN "failed" ELSE final[b]]
<1>1. PICK n \in 0..Len(rest) :
        LET expired == {rest[i] : i \in 1..n} \cup {b \in inFlight \cup drained : Late(b)}
        IN  /\ queue' = SubSeq(rest, n + 1, Len(rest))
            /\ final' = [b \in Batch |-> IF b \in expired THEN "failed" ELSE final[b]]
            /\ incomplete' = incomplete \ expired
            /\ inFlight' = (inFlight \cup drained) \ expired
  BY DEF ExpireAndSend
<1> DEFINE gone == {rest[i] : i \in 1..n}
           expired == gone \cup {b \in inFlight \cup drained : Late(b)}
<1>2. /\ queue' = SubSeq(rest, n + 1, Len(rest))
      /\ final' = [b \in Batch |-> IF b \in expired THEN "failed" ELSE final[b]]
      /\ incomplete' = incomplete \ expired
      /\ inFlight' = (inFlight \cup drained) \ expired
  BY <1>1
<1>3. gone \subseteq Elems(rest) /\ Elems(rest) \subseteq Batch
  BY DEF Elems
<1>4. queue' \in Seq(Batch) /\ Elems(queue') = Elems(rest) \ gone /\ Distinct(queue')
  BY <1>2, SubSeqDistinct
<1> HIDE DEF gone
<1>5. expired \subseteq Batch /\ \A b \in expired : b \in incomplete
  BY <1>3 DEF ProducerTypeOK
<1>6. \A b \in Elems(rest) : b \in gone <=> b \in expired
  BY <1>3
<1> HIDE DEF expired
<1>7. /\ incomplete' \subseteq Batch /\ inFlight' \subseteq Batch
      /\ final' \in [Batch -> {"unused", "pending", "succeeded", "failed"}]
  BY <1>2 DEF ProducerTypeOK
<1>8. \A b \in Batch : b \in incomplete' <=> final'[b] = "pending"
  BY <1>2, <1>5 DEF ProducerTypeOK
<1>9. \A b \in Batch : b \in incomplete' <=> b \in Elems(queue') \/ b \in inFlight'
  BY <1>2, <1>4, <1>5, <1>6
<1> QED BY <1>2, <1>4, <1>5, <1>7, <1>8, <1>9

LEMMA SendProducerDataKeeps ==
    ASSUME ProducerInv, NEW due \in BOOLEAN, SendProducerData(due)
    PROVE  ProducerInv' /\ Kept /\ PromiseStep
<1>1. /\ UNCHANGED <<rec, age, retried, conn, meta, refreshing, topic>>
      /\ needUpdate' \in BOOLEAN
  BY DEF SendProducerData, ProducerInv, ProducerTypeOK
<1>2. /\ queue' \in Seq(Batch) /\ incomplete' \subseteq Batch /\ inFlight' \subseteq Batch
      /\ final' \in [Batch -> {"unused", "pending", "succeeded", "failed"}]
      /\ \A b \in Batch : b \in incomplete' <=> final'[b] = "pending"
      /\ \A b \in Batch : b \in incomplete' <=> b \in Elems(queue') \/ b \in inFlight'
      /\ Distinct(queue')
      /\ \E E \in SUBSET Batch :
            /\ \A b \in E : final[b] = "pending"
            /\ final' = [b \in Batch |-> IF b \in E THEN "failed" ELSE final[b]]
      /\ requests' \in Seq(Request) /\ OneEach(requests')
      /\ \A b \in inFlight' : b \notin Elems(queue') /\ b \in BatchesOf(requests')
      /\ \A b \in Elems(queue') : b \notin BatchesOf(requests')
      /\ \A x \in Elems(requests') : \/ x \in Elems(requests)
                                     \/ x.answer = "none" /\ x.batch \in Batch /\ final[x.batch] = "pending"
  <2>1. CASE /\ CanDrain(due)
             /\ ExpireAndSend({Head(queue)}, Tail(queue))
             /\ requests' = Append(requests, [batch |-> Head(queue), answer |-> "none"])
    <3> DEFINE h == Head(queue)
               x == [batch |-> h, answer |-> "none"]
    <3>1. /\ h \in Elems(queue) /\ h \in Batch /\ Tail(queue) \in Seq(Batch)
          /\ Elems(Tail(queue)) = Elems(queue) \ {h} /\ Distinct(Tail(queue))
      BY <2>1, TailDistinct DEF CanDrain, ProducerInv, ProducerTypeOK, Accounted
    <3>2. x \in Request /\ x.batch = h /\ x.answer = "none"
      BY <3>1 DEF Request, Answer
    <3> HIDE DEF h, x
    <3>3. h \notin BatchesOf(requests) /\ h \notin inFlight /\ h \in incomplete /\ final[h] = "pending"
      BY <3>1 DEF ProducerInv, Accounted
    <3>4. /\ requests' \in Seq(Request) /\ OneEach(requests')
          /\ BatchesOf(requests') = BatchesOf(requests) \cup {h}
          /\ Elems(requests') = Elems(requests) \cup {x}
      BY <2>1, <3>2, <3>3, RequestSent DEF ProducerInv, ProducerTypeOK, Accounted, h, x
    <3>5. \A b \in Batch : b \in incomplete <=> b \in Elems(Tail(queue)) \/ b \in inFlight \cup {h}
      BY <3>1, <3>3 DEF ProducerInv, Accounted
    <3>6. \A b \in inFlight \cup {h} : b \notin Elems(Tail(queue))
      BY <3>1, <3>3 DEF ProducerInv, Accounted
    <3>7. ExpireAndSend({h}, Tail(queue))
      BY <2>1 DEF h
    <3>8. /\ queue' \in Seq(Batch) /\ incomplete' \subseteq Batch /\ inFlight' \subseteq Batch
          /\ final' \in [Batch -> {"unused", "pending", "succeeded", "failed"}]
          /\ \A b \in Batch : b \in incomplete' <=> final'[b] = "pending"
          /\ \A b \in Batch : b \in incomplete' <=> b \in Elems(queue') \/ b \in inFlight'
          /\ Elems(queue') \subseteq Elems(Tail(queue)) /\ Distinct(queue')
          /\ inFlight' \subseteq inFlight \cup {h}
          /\ \E E \in SUBSET Batch :
                /\ \A b \in E : final[b] = "pending"
                /\ final' = [b \in Batch |-> IF b \in E THEN "failed" ELSE final[b]]
      BY <3>1, <3>5, <3>6, <3>7, ExpireKeeps DEF ProducerInv, Accounted
    <3>9. \A b \in inFlight' : b \notin Elems(queue') /\ b \in BatchesOf(requests')
      BY <3>4, <3>6, <3>8 DEF ProducerInv, Accounted
    <3>10. \A b \in Elems(queue') : b \notin BatchesOf(requests')
      BY <3>1, <3>4, <3>8 DEF ProducerInv, Accounted
    <3> QED BY <3>1, <3>2, <3>3, <3>4, <3>8, <3>9, <3>10
  <2>2. CASE ExpireAndSend({}, queue) /\ UNCHANGED requests
    <3>1. /\ \A b \in Batch : b \in incomplete <=> b \in Elems(queue) \/ b \in inFlight \cup {}
          /\ \A b \in inFlight \cup {} : b \notin Elems(queue)
      BY DEF ProducerInv, Accounted
    <3>2. /\ queue' \in Seq(Batch) /\ incomplete' \subseteq Batch /\ inFlight' \subseteq Batch
          /\ final' \in [Batch -> {"unused", "pending", "succeeded", "failed"}]
          /\ \A b \in Batch : b \in incomplete' <=> final'[b] = "pending"
          /\ \A b \in Batch : b \in incomplete' <=> b \in Elems(queue') \/ b \in inFlight'
          /\ Elems(queue') \subseteq Elems(queue) /\ Distinct(queue')
          /\ inFlight' \subseteq inFlight \cup {}
          /\ \E E \in SUBSET Batch :
                /\ \A b \in E : final[b] = "pending"
                /\ final' = [b \in Batch |-> IF b \in E THEN "failed" ELSE final[b]]
      BY <2>2, <3>1, ExpireKeeps DEF ProducerInv, ProducerTypeOK, Accounted
    <3> QED BY <2>2, <3>2 DEF ProducerInv, ProducerTypeOK, Accounted
  <2> QED BY <2>1, <2>2 DEF SendProducerData
<1>3. PICK E \in SUBSET Batch :
        /\ \A b \in E : final[b] = "pending"
        /\ final' = [b \in Batch |-> IF b \in E THEN "failed" ELSE final[b]]
  BY <1>2
<1>4. ProducerTypeOK'
  BY <1>1, <1>2 DEF ProducerInv, ProducerTypeOK
<1>5. Accounted'
  BY <1>2 DEF Accounted
<1>6. \A b \in Batch : /\ final'[b] = "succeeded" => final[b] = "succeeded"
                       /\ final[b] # "unused" => final'[b] # "unused"
                       /\ final'[b] = "pending" => final[b] = "pending"
  BY <1>3
<1>7. Truthful'
  BY <1>1, <1>2, <1>6, ElemsTyped DEF ProducerInv, Truthful
<1>8. Kept
  BY <1>1, <1>6 DEF Kept
<1>9. PromiseStep
  BY <1>1, <1>3 DEF PromiseStep, Promise!Next, Promise!Fail
<1> QED BY <1>4, <1>5, <1>7, <1>8, <1>9 DEF ProducerInv

(* The oldest request is over, and its batch has a verdict or is tried     *)
(* again.                                                                  *)
LEMMA CompleteKeeps ==
    ASSUME ProducerInv, requests # <<>>, requests' = Tail(requests),
           UNCHANGED <<rec, age, conn, meta, refreshing, topic>>,
           NEW b, b = Head(requests).batch,
           \/ CompleteWithSuccess(b) /\ rec[b] \subseteq topic
           \/ \E error \in Error : CompleteWithError(b, error)
    PROVE  ProducerInv' /\ Kept /\ PromiseStep
<1>1. /\ b \in BatchesOf(requests) /\ b \in Batch
      /\ requests' \in Seq(Request) /\ OneEach(requests')
      /\ BatchesOf(requests') = BatchesOf(requests) \ {b}
      /\ Elems(requests') \subseteq Elems(requests)
  BY RequestAnswered DEF ProducerInv, ProducerTypeOK, Accounted, Request
<1>2. b \notin Elems(queue) /\ (final[b] = "pending" => b \in inFlight)
  BY <1>1 DEF ProducerInv, Accounted
<1>3. needUpdate' \in BOOLEAN
  BY DEF CompleteWithSuccess, CompleteWithError, ProducerInv, ProducerTypeOK
<1>4. Elems(requests) \subseteq Request /\ \A x \in Elems(requests') : x.batch \in Batch
  BY <1>1, ElemsTyped DEF ProducerInv, Request
<1>5. CASE /\ queue' = <<b>> \o queue /\ final[b] = "pending"
           /\ retried' = [retried EXCEPT ![b] = TRUE]
           /\ inFlight' = inFlight \ {b}
           /\ UNCHANGED <<final, incomplete>>
  <2>1. queue' \in Seq(Batch) /\ Elems(queue') = Elems(queue) \cup {b} /\ Distinct(queue')
    BY <1>1, <1>2, <1>5, FrontDistinct DEF ProducerInv, ProducerTypeOK, Accounted
  <2>2. ProducerTypeOK'
    BY <1>1, <1>3, <1>5, <2>1 DEF ProducerInv, ProducerTypeOK
  <2>3. Accounted'
    BY <1>1, <1>2, <1>5, <2>1 DEF ProducerInv, Accounted
  <2>4. Truthful'
    BY <1>1, <1>5 DEF ProducerInv, Truthful
  <2>5. Kept /\ PromiseStep
    BY <1>5 DEF Kept, PromiseStep, Promise!vars
  <2> QED BY <2>2, <2>3, <2>4, <2>5 DEF ProducerInv
<1>6. CASE /\ \E verdict \in {"succeeded", "failed"} :
                 MarkDone({b}, verdict) /\ (verdict = "succeeded" => rec[b] \subseteq topic)
           /\ UNCHANGED <<queue, retried>>
  <2>1. PICK verdict \in {"succeeded", "failed"} :
          MarkDone({b}, verdict) /\ (verdict = "succeeded" => rec[b] \subseteq topic)
    BY <1>6
  <2>2. CASE final[b] # "pending"
    <3>1. {c \in {b} : final[c] = "pending"} = {}
      BY <2>2
    <3>2. UNCHANGED <<final, incomplete, inFlight>>
      BY <2>1, <3>1 DEF MarkDone, ProducerInv, ProducerTypeOK
    <3>3. b \notin inFlight
      BY <1>1, <2>2 DEF ProducerInv, Accounted
    <3>4. ProducerTypeOK'
      BY <1>1, <1>3, <1>6, <3>2 DEF ProducerInv, ProducerTypeOK
    <3>5. Accounted'
      BY <1>1, <1>6, <3>2, <3>3 DEF ProducerInv, Accounted
    <3>6. Truthful'
      BY <1>1, <3>2 DEF ProducerInv, Truthful
    <3>7. Kept /\ PromiseStep
      BY <3>2 DEF Kept, PromiseStep, Promise!vars
    <3> QED BY <3>4, <3>5, <3>6, <3>7 DEF ProducerInv
  <2>3. CASE final[b] = "pending"
    <3>1. {c \in {b} : final[c] = "pending"} = {b}
      BY <2>3
    <3>2. /\ final' = [c \in Batch |-> IF c = b THEN verdict ELSE final[c]]
          /\ incomplete' = incomplete \ {b}
          /\ inFlight' = inFlight \ {b}
      BY <2>1, <3>1 DEF MarkDone
    <3>3. ProducerTypeOK'
      BY <1>1, <1>3, <1>6, <3>2 DEF ProducerInv, ProducerTypeOK
    <3>4. Accounted'
      BY <1>1, <1>2, <1>6, <3>2 DEF ProducerInv, Accounted
    <3>5. \A c \in Batch : final[c] # "unused" => final'[c] # "unused"
      BY <3>2
    <3>6. \A c \in Batch : final'[c] = "succeeded" => rec[c] \subseteq topic
      BY <2>1, <3>2 DEF ProducerInv, Truthful
    <3>7. Truthful'
      BY <1>1, <1>4, <3>5, <3>6 DEF ProducerInv, Truthful
    <3>8. Kept
      BY <2>3, <3>2 DEF Kept
    <3>9. PromiseStep
      <4>1. CASE verdict = "succeeded"
        <5>1. final' = [final EXCEPT ![b] = "succeeded"]
          BY <3>2, <4>1 DEF ProducerInv, ProducerTypeOK
        <5> QED BY <1>1, <2>1, <2>3, <4>1, <5>1 DEF PromiseStep, Promise!Next, Promise!Succeed
      <4>2. CASE verdict = "failed"
        <5>1. final' = [c \in Batch |-> IF c \in {b} THEN "failed" ELSE final[c]]
          BY <3>2, <4>2
        <5>2. {b} \in SUBSET Batch /\ \A c \in {b} : final[c] = "pending"
          BY <1>1, <2>3
        <5> QED BY <5>1, <5>2 DEF PromiseStep, Promise!Next, Promise!Fail
      <4> QED BY <2>1, <4>1, <4>2
    <3> QED BY <3>3, <3>4, <3>7, <3>8, <3>9 DEF ProducerInv
  <2> QED BY <2>2, <2>3
<1>7. CASE CompleteWithSuccess(b) /\ rec[b] \subseteq topic
  BY <1>6, <1>7 DEF CompleteWithSuccess
<1>8. CASE \E error \in Error : CompleteWithError(b, error)
  BY <1>5, <1>6, <1>8 DEF CompleteWithError, CanRetry
<1> QED BY <1>7, <1>8

LEMMA HandleProduceResponseKeeps ==
    ASSUME ProducerInv, HandleProduceResponse
    PROVE  ProducerInv' /\ Kept /\ PromiseStep
<1>1. /\ requests # <<>> /\ requests' = Tail(requests)
      /\ UNCHANGED <<rec, age, conn, meta, refreshing, topic>>
      /\ Head(requests).answer # "none"
  BY DEF HandleProduceResponse
<1>2. Head(requests) \in Elems(requests) /\ Head(requests) \in Request
  BY <1>1, RequestAnswered DEF ProducerInv, ProducerTypeOK, Accounted
<1>3. CASE Head(requests).answer = "ok"
  <2>1. CompleteWithSuccess(Head(requests).batch) /\ rec[Head(requests).batch] \subseteq topic
    BY <1>2, <1>3 DEF HandleProduceResponse, ProducerInv, Truthful
  <2> QED BY <1>1, <2>1, CompleteKeeps
<1>4. CASE Head(requests).answer # "ok"
  <2>1. Head(requests).answer \in Error
    BY <1>1, <1>2, <1>4 DEF Request, Answer, Error
  <2>2. CompleteWithError(Head(requests).batch, Head(requests).answer)
    BY <1>4 DEF HandleProduceResponse
  <2> QED BY <1>1, <2>1, <2>2, CompleteKeeps
<1> QED BY <1>3, <1>4

LEMMA FailedProduceKeeps ==
    ASSUME ProducerInv, NEW error \in {"dropped", "timedout"}, FailedProduce(error)
    PROVE  ProducerInv' /\ Kept /\ PromiseStep
<1>1. /\ requests # <<>> /\ requests' = Tail(requests)
      /\ UNCHANGED <<rec, age, conn, meta, refreshing, topic>>
      /\ CompleteWithError(Head(requests).batch, error)
  BY DEF FailedProduce, Closing
<1>2. error \in Error
  BY DEF Error
<1> QED BY <1>1, <1>2, CompleteKeeps

LEMMA BrokerAnswersKeeps ==
    ASSUME ProducerInv, NEW answer \in {"ok", "moved", "refused"}, BrokerAnswers(answer)
    PROVE  ProducerInv' /\ Kept /\ PromiseStep
<1>1. PICK i \in 1..Len(requests) :
        /\ requests' = [requests EXCEPT ![i].answer = answer]
        /\ topic' = IF answer = "ok" THEN topic \cup rec[requests[i].batch] ELSE topic
        /\ UNCHANGED <<queueVars, batchVars, clientVars>>
  BY DEF BrokerAnswers
<1> DEFINE b == requests[i].batch
<1>2. requests \in Seq(Request) /\ requests[i] \in Request /\ b \in Batch /\ answer \in Answer
  <2>1. requests \in Seq(Request) /\ requests[i] \in Request
    BY DEF ProducerInv, ProducerTypeOK
  <2> QED BY <2>1 DEF Request, Answer
<1>3. /\ requests' \in Seq(Request) /\ Len(requests') = Len(requests)
      /\ \A j \in 1..Len(requests) : /\ requests'[j].batch = requests[j].batch
                                     /\ j # i => requests'[j] = requests[j]
      /\ requests'[i].answer = answer
  <2>1. /\ Len(requests') = Len(requests)
        /\ \A j \in 1..Len(requests) : j # i => requests'[j] = requests[j]
        /\ requests'[i] = [requests[i] EXCEPT !.answer = answer]
    BY <1>1, <1>2
  <2>2. [requests[i] EXCEPT !.answer = answer] \in Request
    BY <1>2 DEF Request
  <2>3. requests'[i].batch = b /\ requests'[i].answer = answer
    BY <1>2, <2>1 DEF Request
  <2>4. requests' \in Seq(Request)
    BY <1>1, <1>2, <2>2
  <2> QED BY <2>1, <2>3, <2>4
<1>4. final[b] # "unused"
  BY DEF ProducerInv, Truthful, Elems
<1>5. topic \subseteq topic' /\ topic' \subseteq Record
  BY <1>1, <1>2 DEF ProducerInv, ProducerTypeOK
<1>6. ProducerTypeOK'
  BY <1>1, <1>3, <1>5 DEF ProducerInv, ProducerTypeOK, queueVars, batchVars, clientVars
<1>7. BatchesOf(requests') = BatchesOf(requests) /\ OneEach(requests')
  BY <1>3 DEF BatchesOf, OneEach, ProducerInv, Accounted
<1>8. Accounted'
  BY <1>1, <1>7 DEF ProducerInv, Accounted, queueVars, batchVars
<1>9. Truthful'
  <2>1. UNCHANGED <<final, rec>>
    BY <1>1 DEF batchVars
  <2>2. ASSUME NEW j \in 1..Len(requests)
        PROVE  /\ requests'[j].answer = "ok" => rec'[requests'[j].batch] \subseteq topic'
               /\ final'[requests'[j].batch] # "unused"
    <3>1. CASE j = i
      BY <1>1, <1>3, <1>4, <2>1, <3>1
    <3>2. CASE j # i
      <4>1. requests'[j] = requests[j] /\ requests[j] \in Elems(requests)
        BY <1>3, <3>2 DEF Elems
      <4> QED BY <1>5, <2>1, <4>1 DEF ProducerInv, Truthful
    <3> QED BY <3>1, <3>2
  <2>3. \A x \in Elems(requests)' : \E j \in 1..Len(requests) : x = requests'[j]
    BY <1>3 DEF Elems
  <2> QED BY <1>5, <2>1, <2>2, <2>3 DEF ProducerInv, Truthful
<1>10. Kept
  BY <1>1, <1>5 DEF Kept, batchVars
<1>11. PromiseStep
  <2>1. UNCHANGED <<final, rec>>
    BY <1>1 DEF batchVars
  <2>2. CASE answer = "ok"
    BY <1>1, <1>2, <1>4, <2>1, <2>2 DEF PromiseStep, Promise!Next, Promise!Write
  <2>3. CASE answer # "ok"
    BY <1>1, <2>1, <2>3 DEF PromiseStep, Promise!vars
  <2> QED BY <2>2, <2>3
<1> QED BY <1>6, <1>8, <1>9, <1>10, <1>11 DEF ProducerInv

LEMMA BatchesAgeKeeps ==
    ASSUME ProducerInv, BatchesAge
    PROVE  ProducerInv' /\ Kept /\ PromiseStep
<1>1. UNCHANGED <<queueVars, rec, retried, final, requests, clientVars, topic>>
  BY DEF BatchesAge
<1>2. age' \in [Batch -> 0..DeliveryTimeout]
  BY DeliveryTimeoutAssumption DEF BatchesAge, ProducerInv, ProducerTypeOK
<1>3. ProducerTypeOK'
  BY <1>1, <1>2 DEF ProducerInv, ProducerTypeOK, queueVars, clientVars
<1>4. Accounted' /\ Truthful'
  BY <1>1 DEF ProducerInv, Accounted, Truthful, queueVars, Elems, BatchesOf, Distinct, OneEach
<1>5. Kept /\ PromiseStep
  BY <1>1 DEF Kept, PromiseStep, Promise!vars
<1> QED BY <1>3, <1>4, <1>5 DEF ProducerInv

(* send(): the record is in a batch without a verdict, and no batch whose  *)
(* future the caller holds loses a record.                                 *)
LEMMA SendKeeps ==
    ASSUME ProducerInv, NEW r \in Record, NEW b \in Batch, NEW held, Send(r, b, held)
    PROVE  /\ ProducerInv' /\ PromiseStep
           /\ r \in rec'[b] /\ final'[b] = "pending" /\ topic' = topic
           /\ \A d \in Batch : final[d] # "unused" => final'[d] # "unused"
           /\ \A d \in Batch : d \in held => rec[d] \subseteq rec'[d]
<1>1. UNCHANGED <<requests, clientVars, topic>>
  BY DEF Send
<1>2. CASE JoinLastBatch(r, b)
  <2>1. /\ rec' = [rec EXCEPT ![b] = @ \cup {r}]
        /\ UNCHANGED <<queue, incomplete, inFlight, age, retried, final>>
    BY <1>2 DEF JoinLastBatch, queueVars
  <2>2. b \in Elems(queue)
    BY <1>2 DEF JoinLastBatch, Elems, ProducerInv, ProducerTypeOK
  <2>3. final[b] = "pending" /\ b \notin BatchesOf(requests)
    BY <2>2 DEF ProducerInv, Accounted
  <2>4. ProducerTypeOK'
    BY <1>1, <2>1 DEF ProducerInv, ProducerTypeOK, clientVars
  <2>5. Accounted'
    BY <1>1, <2>1 DEF ProducerInv, Accounted
  <2>6. \A d \in Batch : d # b => rec'[d] = rec[d]
    BY <2>1 DEF ProducerInv, ProducerTypeOK
  <2>7. \A x \in Elems(requests) : x.batch \in Batch /\ x.batch # b
    BY <2>3, ElemsTyped DEF ProducerInv
  <2>8. Truthful'
    BY <1>1, <2>1, <2>3, <2>6, <2>7 DEF ProducerInv, Truthful
  <2>9. PromiseStep
    BY <1>1, <2>1, <2>3 DEF PromiseStep, Promise!Next, Promise!Join
  <2>10. r \in rec'[b] /\ \A d \in Batch : rec[d] \subseteq rec'[d]
    BY <2>1, <2>6 DEF ProducerInv, ProducerTypeOK
  <2> QED BY <1>1, <2>1, <2>3, <2>4, <2>5, <2>8, <2>9, <2>10 DEF ProducerInv
<1>3. CASE OpenBatch(r, b, held)
  <2>1. /\ final[b] # "pending" /\ b \notin Requested \cup held
        /\ queue' = Append(queue, b) /\ incomplete' = incomplete \cup {b}
        /\ rec' = [rec EXCEPT ![b] = {r}] /\ age' = [age EXCEPT ![b] = 0]
        /\ retried' = [retried EXCEPT ![b] = FALSE] /\ final' = [final EXCEPT ![b] = "pending"]
        /\ inFlight' = inFlight
    BY <1>3 DEF OpenBatch
  <2>2. b \notin BatchesOf(requests) /\ b \notin Elems(queue) /\ b \notin inFlight
    BY <2>1, ElemsTyped DEF ProducerInv, Accounted
  <2>3. queue' \in Seq(Batch) /\ Elems(queue') = Elems(queue) \cup {b} /\ Distinct(queue')
    BY <2>1, <2>2, AppendDistinct DEF ProducerInv, ProducerTypeOK, Accounted
  <2>4. ProducerTypeOK'
    BY <1>1, <2>1, <2>3, DeliveryTimeoutAssumption DEF ProducerInv, ProducerTypeOK, clientVars
  <2>5. /\ final'[b] = "pending" /\ rec'[b] = {r}
        /\ \A d \in Batch : d # b => final'[d] = final[d] /\ rec'[d] = rec[d]
    BY <2>1 DEF ProducerInv, ProducerTypeOK
  <2>6. Accounted'
    BY <1>1, <2>1, <2>2, <2>3, <2>5 DEF ProducerInv, Accounted
  <2>7. \A x \in Elems(requests) : x.batch \in Batch /\ x.batch # b
    BY <2>2, ElemsTyped DEF ProducerInv
  <2>8. Truthful'
    BY <1>1, <2>5, <2>7 DEF ProducerInv, Truthful
  <2>9. PromiseStep
    BY <1>1, <2>1 DEF PromiseStep, Promise!Next, Promise!Open
  <2> QED BY <1>1, <2>1, <2>4, <2>5, <2>6, <2>8, <2>9 DEF ProducerInv
<1> QED BY <1>2, <1>3 DEF Send

(* A new process. *)
LEMMA NewProducer ==
    ASSUME queue = <<>>, incomplete = {}, inFlight = {}, rec = [b \in Batch |-> {}],
           age = [b \in Batch |-> 0], retried = [b \in Batch |-> FALSE],
           final = [b \in Batch |-> "unused"], requests = <<>>,
           conn = "down", meta = "unknown", needUpdate = FALSE, refreshing = FALSE,
           topic \subseteq Record
    PROVE  ProducerInv
<1>1. Elems(queue) = {} /\ Elems(requests) = {} /\ BatchesOf(requests) = {}
  BY DEF Elems, BatchesOf
<1>2. ProducerTypeOK
  <2>1. 0 \in 0..DeliveryTimeout /\ <<>> \in Seq(Batch) /\ <<>> \in Seq(Request)
    BY DeliveryTimeoutAssumption
  <2> QED BY <2>1 DEF ProducerTypeOK
<1>3. Accounted
  BY <1>1 DEF Accounted, Distinct, OneEach
<1>4. Truthful
  BY <1>1 DEF Truthful
<1> QED BY <1>2, <1>3, <1>4 DEF ProducerInv

LEMMA ProducerRestartKeeps ==
    ASSUME ProducerInv, ProducerRestart
    PROVE  ProducerInv' /\ PromiseStep
<1>1. ProducerInv'
  <2>1. topic' \subseteq Record
    BY DEF ProducerRestart, ProducerInv, ProducerTypeOK
  <2>2. Elems(queue)' = {} /\ Elems(requests)' = {} /\ BatchesOf(requests)' = {}
    BY DEF ProducerRestart, Elems, BatchesOf
  <2>3. ProducerTypeOK'
    <3>1. 0 \in 0..DeliveryTimeout /\ <<>> \in Seq(Batch) /\ <<>> \in Seq(Request)
      BY DeliveryTimeoutAssumption
    <3> QED BY <2>1, <3>1 DEF ProducerRestart, ProducerTypeOK
  <2>4. Accounted'
    BY <2>2 DEF ProducerRestart, Accounted, Distinct, OneEach
  <2>5. Truthful'
    BY <2>2 DEF ProducerRestart, Truthful
  <2> QED BY <2>3, <2>4, <2>5 DEF ProducerInv
<1>2. PromiseStep
  BY DEF ProducerRestart, PromiseStep, Promise!Next, Promise!Restart
<1> QED BY <1>1, <1>2

(***************************************************************************)
(* The function.                                                           *)
(***************************************************************************)

PipelineTypeOK ==
    /\ input \in Inputs
    /\ committed \in 0..N /\ hi \in committed..N
    /\ phase \in {"idle", "handle", "flush"}
    /\ pos \in 1..(N + 1)
    /\ sent \in [Record -> Batch \cup {NotSent, Refused}]
    /\ awaiting \subseteq Batch
    /\ invAge \in 0..LambdaTimeout
    /\ table \subseteq Record
    /\ outcome \in [Record -> {"none", "pending", "succeeded", "failed"}]
    /\ ticks \in Nat /\ faults \in Nat

(* A future the function holds is that of a batch with the record in it,   *)
(* and flush() waits for all of them.                                      *)
FuturesHeld ==
    /\ phase = "idle" => \A i \in Record : sent[i] = NotSent
    /\ \A i \in Record : sent[i] \in Batch => i \in rec[sent[i]] /\ final[sent[i]] # "unused"
    /\ phase = "flush" =>
          /\ pos > hi
          /\ \A i \in Record : sent[i] \in Batch /\ final[sent[i]] = "pending" => sent[i] \in awaiting

(* What the loop has passed is dealt with. *)
Progress ==
    phase # "idle" =>
        \A i \in (committed + 1)..(pos - 1) :
            /\ input[i] = "alert" => sent[i] # NotSent
            /\ input[i] = "normal" => i \in table

PipelineInv == PipelineTypeOK /\ FuturesHeld /\ Progress /\ LossIsFailed

LEMMA Numbers ==
    ASSUME PipelineTypeOK
    PROVE  /\ N \in Nat /\ Record = 1..N /\ committed \in Nat /\ hi \in Nat /\ pos \in Nat \ {0}
           /\ \A i \in Record : input[i] \in Kind
<1>1. input \in Seq(Kind) /\ Record = 1..Len(input)
  BY InputsAssumption DEF PipelineTypeOK
<1>2. N \in Nat
  BY <1>1 DEF N
<1> QED BY <1>1, <1>2 DEF PipelineTypeOK, N

(* The sender, the broker and the clock. *)
LEMMA OthersKeep ==
    ASSUME PipelineInv, ProducerInv, Kept,
           UNCHANGED <<input, phase, pos, sent, awaiting, resultVars>>,
           invAge' \in 0..LambdaTimeout, ticks' \in Nat, faults' \in Nat
    PROVE  PipelineInv'
<1>1. UNCHANGED <<input, phase, pos, sent, awaiting, committed, hi, table, outcome>>
  BY DEF resultVars
<1>2. PipelineTypeOK'
  BY <1>1 DEF PipelineInv, PipelineTypeOK, N
<1>3. FuturesHeld'
  BY <1>1 DEF PipelineInv, FuturesHeld, Kept
<1>4. Progress' /\ LossIsFailed'
  BY <1>1 DEF PipelineInv, Progress, LossIsFailed, Kept
<1> QED BY <1>2, <1>3, <1>4 DEF PipelineInv

(* An invocation ends without success. *)
LEMMA EndKeeps ==
    ASSUME PipelineInv, EndInvocation,
           UNCHANGED <<input, committed, hi, outcome>>,
           topic' = topic, table' \subseteq Record, table \subseteq table',
           ticks' \in Nat, faults' \in Nat
    PROVE  PipelineInv'
<1>1. /\ phase' = "idle" /\ awaiting' = {} /\ UNCHANGED <<pos, invAge>>
      /\ sent' = [i \in Record |-> NotSent]
  BY DEF EndInvocation
<1>2. PipelineTypeOK'
  BY <1>1 DEF PipelineInv, PipelineTypeOK, N
<1>3. FuturesHeld'
  BY <1>1, HandleAssumption DEF FuturesHeld
<1>4. Progress' /\ LossIsFailed'
  BY <1>1 DEF PipelineInv, Progress, LossIsFailed
<1> QED BY <1>2, <1>3, <1>4 DEF PipelineInv

(* It ends with success. *)
LEMMA ReturnKeeps ==
    ASSUME PipelineInv, ProducerInv, phase # "idle", pos > hi, Return,
           \A i \in Alerts(committed + 1, hi) : sent[i] \in Batch => final[sent[i]] # "pending"
    PROVE  PipelineInv'
<1> USE Numbers DEF PipelineInv
<1>1. /\ committed' = hi /\ hi' = hi
      /\ outcome' = [i \in Record |->
                       IF i \notin Alerts(committed + 1, hi) THEN outcome[i]
                       ELSE IF sent[i] = Refused THEN "failed" ELSE final[sent[i]]]
      /\ phase' = "idle" /\ awaiting' = {} /\ UNCHANGED <<pos, invAge>>
      /\ sent' = [i \in Record |-> NotSent]
      /\ UNCHANGED <<input, topic, table, ticks, faults>>
  BY DEF Return, EndInvocation, producerVars
<1>2. ASSUME NEW i \in Alerts(committed + 1, hi)
      PROVE  /\ i \in Record
             /\ \/ sent[i] = Refused
                \/ sent[i] \in Batch /\ (\/ final[sent[i]] = "failed"
                                         \/ final[sent[i]] = "succeeded" /\ i \in topic)
  <2>1. i \in (committed + 1)..(pos - 1) /\ i \in Record /\ input[i] = "alert"
    BY DEF Alerts, PipelineTypeOK
  <2>2. sent[i] # NotSent /\ sent[i] \in Batch \cup {NotSent, Refused}
    BY <2>1 DEF Progress, PipelineTypeOK
  <2>3. CASE sent[i] \in Batch
    <3>1. i \in rec[sent[i]] /\ final[sent[i]] \in {"succeeded", "failed"}
      BY <2>1, <2>3 DEF FuturesHeld, ProducerInv, ProducerTypeOK
    <3>2. final[sent[i]] = "succeeded" => i \in topic
      BY <2>3, <3>1 DEF ProducerInv, Truthful
    <3> QED BY <2>1, <2>3, <3>1, <3>2
  <2> QED BY <2>1, <2>2, <2>3
<1>3. \A i \in Alerts(committed + 1, hi) : \/ outcome'[i] = "failed"
                                           \/ outcome'[i] = "succeeded" /\ i \in topic
  BY <1>1, <1>2, HandleAssumption
<1>4. \A i \in Record : i \notin Alerts(committed + 1, hi) => outcome'[i] = outcome[i]
  BY <1>1
<1>5. outcome' \in [Record -> {"none", "pending", "succeeded", "failed"}]
  BY <1>1, <1>3, <1>4 DEF PipelineTypeOK
<1>6. PipelineTypeOK'
  BY <1>1, <1>5 DEF PipelineTypeOK, N
<1>7. FuturesHeld' /\ Progress'
  BY <1>1, HandleAssumption DEF FuturesHeld, Progress
<1>8. ASSUME NEW i \in 1..committed'
      PROVE  /\ input[i] = "normal" => i \in table
             /\ input[i] = "alert" =>
                   outcome'[i] = "failed" \/ (outcome'[i] = "succeeded" /\ i \in topic)
  <2>1. i \in Record
    BY <1>1 DEF PipelineTypeOK
  <2>2. CASE i \in 1..committed
    <3>1. i \notin Alerts(committed + 1, hi)
      BY <2>2 DEF Alerts
    <3> QED BY <1>4, <2>1, <2>2, <3>1 DEF LossIsFailed
  <2>3. CASE i \notin 1..committed
    <3>1. i \in (committed + 1)..hi /\ i \in (committed + 1)..(pos - 1)
      BY <1>1, <2>3 DEF PipelineTypeOK
    <3> QED BY <1>3, <3>1 DEF Alerts, Progress
  <2> QED BY <2>2, <2>3
<1>9. LossIsFailed'
  BY <1>1, <1>8 DEF LossIsFailed
<1> QED BY <1>6, <1>7, <1>9

LEMMA SendAlertKeeps ==
    ASSUME PipelineInv, ProducerInv, SendAlert
    PROVE  PipelineInv' /\ ProducerInv' /\ PromiseStep
<1> USE Numbers DEF PipelineInv
<1>1. PICK b \in Batch : Send(pos, b, Held) /\ sent' = [sent EXCEPT ![pos] = b]
  BY DEF SendAlert
<1>2. /\ phase = "handle" /\ pos <= hi /\ pos' = pos + 1
      /\ UNCHANGED <<input, phase, awaiting, invAge, committed, hi, table, outcome, ticks, faults>>
  BY DEF SendAlert, Running, resultVars
<1>3. pos \in Record
  BY <1>2 DEF PipelineTypeOK
<1>4. /\ ProducerInv' /\ PromiseStep
      /\ pos \in rec'[b] /\ final'[b] = "pending" /\ topic' = topic
      /\ \A d \in Batch : final[d] # "unused" => final'[d] # "unused"
      /\ \A d \in Batch : d \in Held => rec[d] \subseteq rec'[d]
  BY <1>1, <1>3, SendKeeps
<1>5. sent'[pos] = b /\ \A i \in Record : i # pos => sent'[i] = sent[i]
  BY <1>1, <1>3 DEF PipelineTypeOK
<1>6. PipelineTypeOK'
  <2>1. sent' \in [Record -> Batch \cup {NotSent, Refused}]
    BY <1>1 DEF PipelineTypeOK
  <2>2. pos' \in 1..(N + 1)
    BY <1>2, <1>3
  <2> QED BY <1>2, <2>1, <2>2 DEF PipelineTypeOK, N
<1>7. FuturesHeld'
  <2>1. ASSUME NEW i \in Record, sent'[i] \in Batch
        PROVE  i \in rec'[sent'[i]] /\ final'[sent'[i]] # "unused"
    <3>1. CASE i = pos
      BY <1>4, <1>5, <3>1
    <3>2. CASE i # pos
      <4>1. sent'[i] = sent[i] /\ sent[i] \in Held
        BY <1>5, <3>2 DEF Held
      <4> QED BY <1>4, <2>1, <4>1 DEF FuturesHeld
    <3> QED BY <3>1, <3>2
  <2> QED BY <1>2, <2>1 DEF FuturesHeld
<1>8. Progress'
  <2> SUFFICES ASSUME NEW i \in (committed + 1)..pos
               PROVE  /\ input[i] = "alert" => sent'[i] # NotSent
                      /\ input[i] = "normal" => i \in table
    BY <1>2 DEF Progress
  <2>1. CASE i = pos
    BY <1>5, <2>1, HandleAssumption DEF SendAlert
  <2>2. CASE i # pos
    <3>1. i \in (committed + 1)..(pos - 1) /\ i \in Record
      BY <1>2, <2>2 DEF PipelineTypeOK
    <3> QED BY <1>2, <1>5, <2>2, <3>1 DEF Progress
  <2> QED BY <2>1, <2>2
<1>9. LossIsFailed'
  BY <1>2, <1>4 DEF LossIsFailed
<1> QED BY <1>4, <1>6, <1>7, <1>8, <1>9

(***************************************************************************)
(* The whole.                                                              *)
(***************************************************************************)

Inv == ProducerInv /\ PipelineInv

LEMMA ProducerSame ==
    ASSUME ProducerInv, UNCHANGED producerVars
    PROVE  ProducerInv' /\ Kept /\ PromiseStep
<1>1. UNCHANGED <<queueVars, batchVars, requests, clientVars, topic>>
  BY DEF producerVars
<1>2. /\ conn' \in {"down", "connecting", "up"} /\ meta' \in {"unknown", "leaderless", "known"}
      /\ needUpdate' \in BOOLEAN /\ refreshing' \in BOOLEAN
  BY <1>1 DEF clientVars, ProducerInv, ProducerTypeOK
<1> QED BY <1>1, <1>2, ClientKeeps

LEMMA HandlerKeeps ==
    ASSUME Inv, Handler
    PROVE  Inv' /\ PromiseStep
<1> USE Numbers DEF Inv
<1>1. CASE StoreNormal
  <2>1. /\ UNCHANGED producerVars /\ phase = "handle" /\ pos <= hi /\ input[pos] = "normal"
        /\ table' = table \cup {pos} /\ pos' = pos + 1
        /\ UNCHANGED <<input, phase, sent, awaiting, invAge, committed, hi, outcome, ticks, faults>>
    BY <1>1 DEF StoreNormal, Running
  <2>2. ProducerInv' /\ Kept /\ PromiseStep
    BY <2>1, ProducerSame
  <2>3. pos \in Record
    BY <2>1 DEF PipelineInv, PipelineTypeOK
  <2>4. PipelineTypeOK'
    BY <2>1, <2>3 DEF PipelineInv, PipelineTypeOK, N
  <2>5. FuturesHeld'
    BY <2>1, <2>2 DEF PipelineInv, FuturesHeld, Kept
  <2>6. Progress'
    <3> SUFFICES ASSUME NEW i \in (committed + 1)..pos
                 PROVE  /\ input[i] = "alert" => sent[i] # NotSent
                        /\ input[i] = "normal" => i \in table'
      BY <2>1, Numbers DEF PipelineInv, Progress
    <3>1. CASE i = pos
      BY <2>1, <3>1
    <3>2. CASE i # pos
      <4>1. i \in (committed + 1)..(pos - 1)
        BY <3>2 DEF PipelineInv
      <4> QED BY <2>1, <4>1 DEF PipelineInv, Progress
    <3> QED BY <3>1, <3>2
  <2>7. LossIsFailed'
    BY <2>1, <2>2 DEF PipelineInv, LossIsFailed, Kept
  <2> QED BY <2>2, <2>4, <2>5, <2>6, <2>7 DEF PipelineInv
<1>2. CASE BadRecordRaises
  <2>1. /\ UNCHANGED producerVars /\ EndInvocation
        /\ UNCHANGED <<input, committed, hi, outcome, table, ticks, faults>>
    BY <1>2 DEF BadRecordRaises, resultVars
  <2>2. topic' = topic /\ ticks' \in Nat /\ faults' \in Nat /\ table' \subseteq Record
    BY <2>1 DEF producerVars, PipelineInv, PipelineTypeOK
  <2> QED BY <2>1, <2>2, ProducerSame, EndKeeps
<1>3. CASE AlertWaits
  <2>1. /\ UNCHANGED <<queueVars, batchVars, requests, conn, meta, refreshing, topic>>
        /\ needUpdate' = TRUE /\ UNCHANGED pipelineVars
    BY <1>3 DEF AlertWaits, WaitOnMetadata
  <2>2. ProducerInv' /\ Kept /\ PromiseStep
    BY <2>1, ClientKeeps DEF ProducerInv, ProducerTypeOK
  <2>3. /\ UNCHANGED <<input, phase, pos, sent, awaiting, resultVars>>
        /\ invAge' \in 0..LambdaTimeout /\ ticks' \in Nat /\ faults' \in Nat
    BY <2>1 DEF pipelineVars, invocationVars, PipelineInv, PipelineTypeOK
  <2> QED BY <2>2, <2>3, OthersKeep
<1>4. CASE SendAlert
  BY <1>4, SendAlertKeeps
<1>5. CASE ReturnWithoutAlerts
  <2>1. UNCHANGED producerVars /\ phase = "handle" /\ pos > hi /\ Return /\ Alerts(committed + 1, hi) = {}
    BY <1>5 DEF ReturnWithoutAlerts, Return, Running
  <2> QED BY <2>1, ProducerSame, ReturnKeeps
<1>6. CASE BeginFlush
  <2>1. /\ UNCHANGED producerVars /\ phase = "handle" /\ pos > hi
        /\ awaiting' = incomplete /\ phase' = "flush"
        /\ UNCHANGED <<input, pos, sent, invAge, committed, hi, table, outcome, ticks, faults>>
    BY <1>6 DEF BeginFlush, Running, resultVars
  <2>2. ProducerInv' /\ UNCHANGED <<rec, final, topic>> /\ PromiseStep
    BY <2>1, ProducerSame DEF producerVars, batchVars
  <2>3. PipelineTypeOK'
    BY <2>1 DEF PipelineInv, PipelineTypeOK, N, ProducerInv, ProducerTypeOK
  <2>4. FuturesHeld'
    BY <2>1, <2>2 DEF PipelineInv, FuturesHeld, ProducerInv, Accounted
  <2>5. Progress' /\ LossIsFailed'
    BY <2>1, <2>2 DEF PipelineInv, Progress, LossIsFailed
  <2> QED BY <2>2, <2>3, <2>4, <2>5 DEF PipelineInv
<1>7. CASE FlushReturns
  <2>1. /\ UNCHANGED producerVars /\ phase = "flush" /\ Return
        /\ \A b \in awaiting : final[b] # "pending"
    BY <1>7 DEF FlushReturns, Return, Running
  <2>2. pos > hi
    BY <2>1 DEF PipelineInv, FuturesHeld
  <2>3. Alerts(committed + 1, hi) \subseteq Record
    BY DEF Alerts, PipelineInv, PipelineTypeOK
  <2>4. \A i \in Record : sent[i] \in Batch => final[sent[i]] # "pending"
    BY <2>1 DEF PipelineInv, FuturesHeld
  <2> QED BY <2>1, <2>2, <2>3, <2>4, ProducerSame, ReturnKeeps
<1> QED BY <1>1, <1>2, <1>3, <1>4, <1>5, <1>6, <1>7 DEF Handler

LEMMA HandlerFaultKeeps ==
    ASSUME Inv, HandlerFault
    PROVE  Inv' /\ PromiseStep
<1> USE Numbers DEF Inv
<1>1. CASE StoreRaises
  <2>1. /\ UNCHANGED producerVars /\ EndInvocation /\ pos <= hi
        /\ UNCHANGED <<input, committed, hi, outcome, ticks>>
        /\ table' \in {table, table \cup {pos}} /\ faults' = faults + 1
    BY <1>1 DEF StoreRaises, Fault
  <2>2. topic' = topic /\ ticks' \in Nat /\ faults' \in Nat /\ table \subseteq table'
    BY <2>1 DEF producerVars, PipelineInv, PipelineTypeOK
  <2>3. table' \subseteq Record
    BY <2>1 DEF PipelineInv, PipelineTypeOK
  <2> QED BY <2>1, <2>2, <2>3, ProducerSame, EndKeeps
<1>2. CASE SendRefused
  <2>1. /\ UNCHANGED producerVars /\ phase = "handle" /\ pos <= hi /\ input[pos] = "alert"
        /\ sent' = [sent EXCEPT ![pos] = Refused] /\ pos' = pos + 1 /\ faults' = faults + 1
        /\ UNCHANGED <<input, phase, awaiting, invAge, committed, hi, table, outcome, ticks>>
    BY <1>2 DEF SendRefused, Running, Fault, resultVars
  <2>2. ProducerInv' /\ Kept /\ PromiseStep
    BY <2>1, ProducerSame
  <2>3. pos \in Record
    BY <2>1 DEF PipelineInv, PipelineTypeOK
  <2>4. sent'[pos] = Refused /\ \A i \in Record : i # pos => sent'[i] = sent[i]
    BY <2>1, <2>3 DEF PipelineInv, PipelineTypeOK
  <2>5. PipelineTypeOK'
    BY <2>1, <2>3 DEF PipelineInv, PipelineTypeOK, N
  <2>6. FuturesHeld'
    BY <2>1, <2>2, <2>4, HandleAssumption DEF PipelineInv, FuturesHeld, Kept
  <2>7. Progress'
    <3> SUFFICES ASSUME NEW i \in (committed + 1)..pos
                 PROVE  /\ input[i] = "alert" => sent'[i] # NotSent
                        /\ input[i] = "normal" => i \in table
      BY <2>1, Numbers DEF PipelineInv, Progress
    <3>1. CASE i = pos
      BY <2>1, <2>4, <3>1 DEF Refused, NotSent
    <3>2. CASE i # pos
      <4>1. i \in (committed + 1)..(pos - 1) /\ i \in Record
        BY <2>1, <3>2 DEF PipelineInv, PipelineTypeOK
      <4> QED BY <2>1, <2>4, <3>2, <4>1 DEF PipelineInv, Progress
    <3> QED BY <3>1, <3>2
  <2>8. LossIsFailed'
    BY <2>1, <2>2 DEF PipelineInv, LossIsFailed, Kept
  <2> QED BY <2>2, <2>5, <2>6, <2>7, <2>8 DEF PipelineInv
<1>3. CASE SendRaises
  <2>1. /\ UNCHANGED producerVars /\ EndInvocation /\ faults' = faults + 1
        /\ UNCHANGED <<input, committed, hi, outcome, table, ticks>>
    BY <1>3 DEF SendRaises, Fault, resultVars
  <2>2. topic' = topic /\ ticks' \in Nat /\ faults' \in Nat /\ table' \subseteq Record
    BY <2>1 DEF producerVars, PipelineInv, PipelineTypeOK
  <2> QED BY <2>1, <2>2, ProducerSame, EndKeeps
<1> QED BY <1>1, <1>2, <1>3 DEF HandlerFault

LEMMA SenderStepKeeps ==
    ASSUME ProducerInv, SenderStep \/ SenderFault
    PROVE  ProducerInv' /\ Kept /\ PromiseStep
<1> DEFINE Client ==
      /\ UNCHANGED <<queueVars, batchVars, requests, topic>>
      /\ conn' \in {"down", "connecting", "up"} /\ meta' \in {"unknown", "leaderless", "known"}
      /\ needUpdate' \in BOOLEAN /\ refreshing' \in BOOLEAN
<1>1. CASE Client
  BY <1>1, ClientKeeps
<1> USE DEF ProducerInv, ProducerTypeOK
<1>2. StartConnect => Client
  BY DEF StartConnect
<1>3. Connected => Client
  BY DEF Connected
<1>4. MaybeRefreshMetadata => Client
  BY DEF MaybeRefreshMetadata
<1>5. \A m \in {"unknown", "leaderless", "known"} : UpdateMetadata(m) => Client
  BY DEF UpdateMetadata
<1>6. \A update \in BOOLEAN : Disconnect(update) => Client
  BY DEF Disconnect
<1>7. FailedUpdate => Client
  BY DEF FailedUpdate
<1> HIDE DEF Client, ProducerInv, ProducerTypeOK
<1> QED BY <1>1, <1>2, <1>3, <1>4, <1>5, <1>6, <1>7, SendProducerDataKeeps,
           HandleProduceResponseKeeps, FailedProduceKeeps DEF SenderStep, SenderFault

LEMMA PipelineStep ==
    ASSUME Inv, [Next]_vars
    PROVE  Inv' /\ PromiseStep
<1> USE DEF Inv
<1>1. CASE Invoke
  <2>1. /\ UNCHANGED producerVars /\ phase = "idle" /\ committed < N
        /\ hi' \in (IF hi = committed THEN (committed + 1)..N ELSE {hi})
        /\ phase' = "handle" /\ pos' = committed + 1 /\ invAge' = 0
        /\ UNCHANGED <<input, committed, sent, awaiting, table, outcome, ticks, faults>>
    BY <1>1 DEF Invoke
  <2>2. ProducerInv' /\ Kept /\ PromiseStep
    BY <2>1, ProducerSame
  <2>3. PipelineTypeOK'
    <3>1. hi' \in committed..N /\ pos' \in 1..(N + 1)
      BY <2>1, Numbers DEF PipelineInv, PipelineTypeOK
    <3>2. invAge' \in 0..LambdaTimeout
      BY <2>1, LambdaTimeoutAssumption
    <3> QED BY <2>1, <3>1, <3>2 DEF PipelineInv, PipelineTypeOK, N
  <2>4. FuturesHeld'
    BY <2>1, HandleAssumption DEF PipelineInv, FuturesHeld
  <2>5. Progress'
    BY <2>1, Numbers DEF PipelineInv, Progress
  <2>6. LossIsFailed'
    BY <2>1, <2>2 DEF PipelineInv, LossIsFailed, Kept
  <2> QED BY <2>2, <2>3, <2>4, <2>5, <2>6 DEF PipelineInv
<1>2. ASSUME ProducerInv' /\ Kept /\ PromiseStep,
             UNCHANGED <<input, phase, pos, sent, awaiting, invAge, resultVars, ticks>>,
             faults' = faults \/ Fault
      PROVE  Inv' /\ PromiseStep
  <2>1. invAge' \in 0..LambdaTimeout /\ ticks' \in Nat /\ faults' \in Nat
    BY <1>2 DEF Fault, PipelineInv, PipelineTypeOK
  <2> QED BY <1>2, <2>1, OthersKeep
<1>3. CASE Sender
  BY <1>2, <1>3, SenderStepKeeps DEF Sender, pipelineVars, invocationVars
<1>4. CASE SenderTrouble
  BY <1>2, <1>4, SenderStepKeeps DEF SenderTrouble, invocationVars
<1>5. CASE BrokerAppends
  BY <1>2, <1>5, BrokerAnswersKeeps DEF BrokerAppends, pipelineVars, invocationVars
<1>6. CASE BrokerDeclines
  BY <1>2, <1>6, BrokerAnswersKeeps DEF BrokerDeclines, invocationVars
<1>7. CASE Tick
  <2>1. ProducerInv' /\ Kept /\ PromiseStep
    BY <1>7, BatchesAgeKeeps DEF Tick
  <2>2. invAge' \in 0..LambdaTimeout /\ ticks' \in Nat /\ faults' \in Nat
    BY <1>7, LambdaTimeoutAssumption DEF Tick, PipelineInv, PipelineTypeOK
  <2>3. UNCHANGED <<input, phase, pos, sent, awaiting, resultVars>>
    BY <1>7 DEF Tick
  <2> QED BY <2>1, <2>2, <2>3, OthersKeep
<1>8. CASE TimeOut \/ LoseProcess
  <2>1. /\ ProducerRestart /\ EndInvocation
        /\ UNCHANGED <<input, committed, hi, table, outcome, ticks>>
        /\ faults' = faults \/ faults' = faults + 1
    BY <1>8 DEF TimeOut, LoseProcess, Fault, resultVars
  <2>2. topic' = topic /\ ticks' \in Nat /\ faults' \in Nat /\ table' \subseteq Record
    BY <2>1 DEF ProducerRestart, PipelineInv, PipelineTypeOK
  <2> QED BY <2>1, <2>2, ProducerRestartKeeps, EndKeeps
<1>9. CASE UNCHANGED vars
  <2>1. UNCHANGED producerVars /\ UNCHANGED pipelineVars
    BY <1>9 DEF vars
  <2> QED BY <1>2, <2>1, ProducerSame DEF pipelineVars, invocationVars
<1> QED BY <1>1, <1>3, <1>4, <1>5, <1>6, <1>7, <1>8, <1>9, HandlerKeeps, HandlerFaultKeeps DEF Next

LEMMA PipelineStart == Init => Inv /\ Promise!Init
<1> SUFFICES ASSUME Init PROVE Inv /\ Promise!Init
  OBVIOUS
<1>1. ProducerInv
  BY NewProducer DEF Init, ProducerInit
<1>2. input \in Seq(Kind) /\ N \in Nat
  BY InputsAssumption DEF Init, N
<1>3. PipelineTypeOK
  BY <1>2, LambdaTimeoutAssumption DEF Init, PipelineTypeOK
<1>4. FuturesHeld /\ Progress /\ LossIsFailed
  BY HandleAssumption DEF Init, FuturesHeld, Progress, LossIsFailed
<1>5. Promise!Init
  BY DEF Init, ProducerInit, Promise!Init
<1> QED BY <1>1, <1>3, <1>4, <1>5 DEF Inv, PipelineInv

LEMMA PipelineInvariant == Spec => []Inv
BY PipelineStart, PipelineStep, PTL DEF Spec

(* The variables keep their types. *)
THEOREM PipelineTyped == Spec => []TypeOK
<1>1. Inv => TypeOK
  BY DEF Inv, ProducerInv, PipelineInv, ProducerTypeOK, PipelineTypeOK, Request, TypeOK
<1> QED BY <1>1, PipelineInvariant, PTL

(* The producer forgets no batch: flush() waits for every one that has no  *)
(* verdict, and for each of those a verdict is on its way.                 *)
THEOREM NoBatchForgotten == Spec => []NothingForgotten
<1>1. Inv => NothingForgotten
  BY AccountedIsNothingForgotten DEF Inv, ProducerInv
<1> QED BY <1>1, PipelineInvariant, PTL

(* An acknowledged record is lost only if its send failed. *)
THEOREM OnlyFailedSendsAreLost == Spec => []LossIsFailed
<1>1. Inv => LossIsFailed
  BY DEF Inv, PipelineInv
<1> QED BY <1>1, PipelineInvariant, PTL

(* The producer implements its promise: one verdict for each batch, and    *)
(* success only for what the topic has.                                    *)
THEOREM ProducerKeepsPromise == Spec => ImplementsPromise
<1>1. Inv /\ [Next]_vars => [Promise!Next]_(Promise!vars)
  BY PipelineStep DEF PromiseStep
<1> QED BY <1>1, PipelineStart, PipelineInvariant, PTL DEF Spec, ImplementsPromise, Promise!Spec

=============================================================================
