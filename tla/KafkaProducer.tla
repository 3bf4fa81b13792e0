--------------------------- MODULE KafkaProducer ---------------------------
(***************************************************************************)
(* The producer of the vendored kafka-python client, as raw/index.py       *)
(* configures it: no transactions and no idempotence, acks = 1, unlimited  *)
(* retries within delivery_timeout_ms, no linger, several requests in      *)
(* flight.  The alert topic has one partition, so there is one deque of    *)
(* batches, one leader and one connection that matters.                    *)
(*                                                                         *)
(* Two threads share it.  The caller's thread appends records under the    *)
(* partition's lock and waits for futures; the sender thread (run_once:    *)
(* _send_producer_data, then poll) does everything else.  One action is    *)
(* one step of the sender between two points where the caller's thread can *)
(* see a difference: the deque (behind its lock), the set of incomplete    *)
(* batches (behind its lock) and the futures.                              *)
(*                                                                         *)
(* Whether a record fits an open batch, and whether a back-off has run     *)
(* out, is a choice.  A batch that is done and that nobody refers to any   *)
(* more is used again for the next batch, so that Batch only bounds how    *)
(* many exist at once.                                                     *)
(***************************************************************************)
EXTENDS Integers, Sequences

CONSTANTS
    Record,           \* what is sent
    Batch,            \* identities of batches
    DeliveryTimeout,  \* delivery_timeout_ms, in ticks
    MaxInFlight       \* max_in_flight_requests_per_connection

ASSUME DeliveryTimeoutAssumption == DeliveryTimeout \in Nat \ {0}
ASSUME MaxInFlightAssumption == MaxInFlight \in Nat \ {0}

VARIABLES
    queue,       \* RecordAccumulator._batches[tp], a deque
    incomplete,  \* RecordAccumulator._incomplete
    inFlight,    \* Sender._in_flight_batches[tp], the members of the heap
    rec,         \* the records in each batch
    age,         \* ticks since each batch was created
    retried,     \* batch.attempts > 0: it was drained once, its buffer is closed
    final,       \* batch._final_state, "pending" for None, "unused" before it exists
    requests,    \* in_flight_requests of the leader's connection, oldest first
    conn,        \* state of that connection
    meta,        \* what the cluster metadata says of the partition
    needUpdate,  \* cluster._need_update
    refreshing,  \* client._metadata_refresh_in_progress
    topic        \* records the broker has appended (ghost: it is another process)

queueVars == <<queue, incomplete, inFlight>>
batchVars == <<rec, age, retried, final>>
clientVars == <<conn, meta, needUpdate, refreshing>>
producerVars == <<queueVars, batchVars, requests, clientVars, topic>>

Answer == {"none", "ok", "moved", "refused"}
Error == {"moved", "refused", "dropped", "timedout"}
Retriable == Error \ {"refused"}
InvalidMetadata == {"moved", "dropped"}

Queued == {queue[i] : i \in 1..Len(queue)}
Requested == {requests[i].batch : i \in 1..Len(requests)}
Done == {b \in Batch : final[b] \in {"succeeded", "failed"}}
Late(b) == age[b] >= DeliveryTimeout

(* The process has started and no record has been sent.                    *)
ProducerInit ==
    /\ queue = <<>>
    /\ incomplete = {}
    /\ inFlight = {}
    /\ rec = [b \in Batch |-> {}]
    /\ age = [b \in Batch |-> 0]
    /\ retried = [b \in Batch |-> FALSE]
    /\ final = [b \in Batch |-> "unused"]
    /\ requests = <<>>
    /\ conn = "down"
    /\ meta = "unknown"
    /\ needUpdate = FALSE
    /\ refreshing = FALSE

(* The process is gone with all it had in memory; the next one starts over. *)
ProducerRestart ==
    /\ queue' = <<>>
    /\ incomplete' = {}
    /\ inFlight' = {}
    /\ rec' = [b \in Batch |-> {}]
    /\ age' = [b \in Batch |-> 0]
    /\ retried' = [b \in Batch |-> FALSE]
    /\ final' = [b \in Batch |-> "unused"]
    /\ requests' = <<>>
    /\ conn' = "down"
    /\ meta' = "unknown"
    /\ needUpdate' = FALSE
    /\ refreshing' = FALSE
    /\ UNCHANGED topic

(***************************************************************************)
(* The caller's thread.                                                    *)
(***************************************************************************)

(* _wait_on_metadata found no partitions and asks for an update. *)
WaitOnMetadata ==
    /\ meta = "unknown"
    /\ needUpdate' = TRUE
    /\ UNCHANGED <<queueVars, batchVars, requests, conn, meta, refreshing, topic>>

(* append: the record joins the last batch of the deque if that one is     *)
(* still open and has room, ...                                            *)
JoinLastBatch(r, b) ==
    /\ queue # <<>>
    /\ b = queue[Len(queue)]
    /\ ~retried[b]
    /\ rec' = [rec EXCEPT ![b] = @ \cup {r}]
    /\ UNCHANGED <<queueVars, age, retried, final>>

(* ... otherwise it opens a new batch at the end of the deque. *)
OpenBatch(r, b, held) ==
    /\ final[b] # "pending"
    /\ b \notin Requested \cup held
    /\ queue' = Append(queue, b)
    /\ incomplete' = incomplete \cup {b}
    /\ rec' = [rec EXCEPT ![b] = {r}]
    /\ age' = [age EXCEPT ![b] = 0]
    /\ retried' = [retried EXCEPT ![b] = FALSE]
    /\ final' = [final EXCEPT ![b] = "pending"]
    /\ UNCHANGED inFlight

(* KafkaProducer.send once the partitions of the topic are known; held are *)
(* the batches whose futures the caller still has.                         *)
Send(r, b, held) ==
    /\ meta # "unknown"
    /\ JoinLastBatch(r, b) \/ OpenBatch(r, b, held)
    /\ UNCHANGED <<requests, clientVars, topic>>

(***************************************************************************)
(* The sender thread.                                                      *)
(***************************************************************************)

(* conn.close() is failing the requests that were in flight, one after the *)
(* other, and the sender does nothing else meanwhile.                      *)
Closing == conn = "down" /\ requests # <<>>

(* A defect to tell apart: a later verdict replaces the first. *)
MarkDoneAgain(batches, verdict) ==
    /\ final' = [b \in Batch |-> IF b \in batches THEN verdict ELSE final[b]]
    /\ incomplete' = incomplete \ batches
    /\ inFlight' = inFlight \ batches

(* ProducerBatch.done and what follows it when it returns True: only the   *)
(* first verdict on a batch counts.                                        *)
MarkDone(batches, verdict) ==
    LET first == {b \in batches : final[b] = "pending"}
    IN  /\ final' = [b \in Batch |-> IF b \in first THEN verdict ELSE final[b]]
        /\ incomplete' = incomplete \ first
        /\ inFlight' = inFlight \ first

(* The deque's head is sendable and the leader can be sent to (is_ready    *)
(* holds requests back while metadata is wanted or on its way).            *)
CanDrain(due) ==
    /\ queue # <<>>
    /\ meta = "known"
    /\ retried[Head(queue)] => due
    /\ conn = "up"
    /\ Len(requests) < MaxInFlight
    /\ ~needUpdate
    /\ ~refreshing

(* _send_producer_data once the head of the deque, if any, is drained.     *)
(* Batches are expired from the left up to the first that is not late, and *)
(* all late ones in flight; a batch that was drained a moment ago is among *)
(* those, and is sent nevertheless.                                        *)
ExpireAndSend(drained, rest) ==
    \E n \in 0..Len(rest) :
        /\ \A i \in 1..n : Late(rest[i])
        /\ n < Len(rest) => ~Late(rest[n + 1])
        /\ LET expired == {rest[i] : i \in 1..n} \cup {b \in inFlight \cup drained : Late(b)}
           IN  /\ queue' = SubSeq(rest, n + 1, Len(rest))
               /\ final' = [b \in Batch |-> IF b \in expired THEN "failed" ELSE final[b]]
               /\ incomplete' = incomplete \ expired
               /\ inFlight' = (inFlight \cup drained) \ expired

(* A defect to tell apart: a partition without a leader is skipped and     *)
(* nobody asks who leads it now.                                           *)
SendWithoutRefresh(due) ==
    /\ ~Closing
    /\ \/ /\ CanDrain(due)
          /\ ExpireAndSend({Head(queue)}, Tail(queue))
          /\ requests' = Append(requests, [batch |-> Head(queue), answer |-> "none"])
       \/ /\ ~CanDrain(due)
          /\ ExpireAndSend({}, queue)
          /\ UNCHANGED requests
    /\ UNCHANGED <<rec, age, retried, clientVars, topic>>

(* One iteration of _send_producer_data; due says whether the back-off of  *)
(* a retried head has run out.                                             *)
SendProducerData(due) ==
    /\ ~Closing
    /\ \/ /\ CanDrain(due)
          /\ ExpireAndSend({Head(queue)}, Tail(queue))
          /\ requests' = Append(requests, [batch |-> Head(queue), answer |-> "none"])
       \/ /\ ~CanDrain(due)
          /\ ExpireAndSend({}, queue)
          /\ UNCHANGED requests
    /\ needUpdate' = (needUpdate \/ (meta # "known" /\ \E b \in Batch : final[b] # "unused"))
    /\ UNCHANGED <<rec, age, retried, conn, meta, refreshing, topic>>

(* _can_retry *)
CanRetry(b, error) ==
    /\ error \in Retriable
    /\ ~Late(b)
    /\ final[b] = "pending"

(* A defect to tell apart: the retried batch stays in the in-flight heap. *)
RetryStaysInFlight(b, error) ==
    /\ \/ /\ CanRetry(b, error)
          /\ queue' = <<b>> \o queue
          /\ retried' = [retried EXCEPT ![b] = TRUE]
          /\ UNCHANGED <<final, incomplete, inFlight>>
       \/ /\ ~CanRetry(b, error)
          /\ MarkDone({b}, "failed")
          /\ UNCHANGED <<queue, retried>>
    /\ needUpdate' = (needUpdate \/ error \in InvalidMetadata)

(* _complete_batch for an error: the batch goes back to the left end of    *)
(* the deque, or it has failed.                                            *)
CompleteWithError(b, error) ==
    /\ \/ /\ CanRetry(b, error)
          /\ queue' = <<b>> \o queue
          /\ retried' = [retried EXCEPT ![b] = TRUE]
          /\ inFlight' = inFlight \ {b}
          /\ UNCHANGED <<final, incomplete>>
       \/ /\ ~CanRetry(b, error)
          /\ MarkDone({b}, "failed")
          /\ UNCHANGED <<queue, retried>>
    /\ needUpdate' = (needUpdate \/ error \in InvalidMetadata)

(* _complete_batch without an error *)
CompleteWithSuccess(b) ==
    /\ MarkDone({b}, "succeeded")
    /\ UNCHANGED <<queue, retried, needUpdate>>

(* poll receives the answer to the oldest request: _handle_produce_response *)
HandleProduceResponse ==
    /\ conn = "up"
    /\ requests # <<>>
    /\ Head(requests).answer # "none"
    /\ requests' = Tail(requests)
    /\ IF Head(requests).answer = "ok"
       THEN CompleteWithSuccess(Head(requests).batch)
       ELSE CompleteWithError(Head(requests).batch, Head(requests).answer)
    /\ UNCHANGED <<rec, age, conn, meta, refreshing, topic>>

(* The connection is lost, or closed because a request has timed out.  A   *)
(* metadata request on it fails at once; whether the loss itself asks for  *)
(* fresh metadata depends on the addresses left to try.                    *)
Disconnect(update) ==
    /\ conn # "down"
    /\ conn' = "down"
    /\ refreshing' = FALSE
    /\ needUpdate' = (needUpdate \/ update)
    /\ UNCHANGED <<queueVars, batchVars, requests, meta, topic>>

(* close() fails the next request that was in flight: _failed_produce *)
FailedProduce(error) ==
    /\ Closing
    /\ requests' = Tail(requests)
    /\ CompleteWithError(Head(requests).batch, error)
    /\ UNCHANGED <<rec, age, conn, meta, refreshing, topic>>

(* maybe_connect, then _init_connect in the next poll: for a deque whose   *)
(* leader is not ready, or for a metadata request.                         *)
StartConnect ==
    /\ conn = "down"
    /\ ~Closing
    /\ needUpdate \/ (meta = "known" /\ queue # <<>>)
    /\ conn' = "connecting"
    /\ UNCHANGED <<queueVars, batchVars, requests, meta, needUpdate, refreshing, topic>>

Connected ==
    /\ conn = "connecting"
    /\ conn' = "up"
    /\ UNCHANGED <<queueVars, batchVars, requests, meta, needUpdate, refreshing, topic>>

(* _maybe_refresh_metadata *)
MaybeRefreshMetadata ==
    /\ needUpdate
    /\ ~refreshing
    /\ conn = "up"
    /\ Len(requests) < MaxInFlight
    /\ refreshing' = TRUE
    /\ UNCHANGED <<queueVars, batchVars, requests, conn, meta, needUpdate, topic>>

(* update_metadata: whatever asked for an update while this one was on its *)
(* way is taken as answered.                                               *)
UpdateMetadata(m) ==
    /\ refreshing
    /\ meta' = m
    /\ needUpdate' = FALSE
    /\ refreshing' = FALSE
    /\ UNCHANGED <<queueVars, batchVars, requests, conn, topic>>

(* failed_update, for an answer that names no brokers *)
FailedUpdate ==
    /\ refreshing
    /\ refreshing' = FALSE
    /\ UNCHANGED <<queueVars, batchVars, requests, conn, meta, needUpdate, topic>>

(***************************************************************************)
(* The broker and the clock.                                               *)
(***************************************************************************)

(* The broker answers the oldest request it has not answered: the batch is *)
(* appended, or it is no longer the leader, or it refuses the batch for    *)
(* good (authorization, size).                                             *)
BrokerAnswers(answer) ==
    \E i \in 1..Len(requests) :
        /\ conn = "up"
        /\ requests[i].answer = "none"
        /\ \A j \in 1..(i - 1) : requests[j].answer # "none"
        /\ requests' = [requests EXCEPT ![i].answer = answer]
        /\ topic' = IF answer = "ok" THEN topic \cup rec[requests[i].batch] ELSE topic
        /\ UNCHANGED <<queueVars, batchVars, clientVars>>

(* One tick: every batch without a verdict gets older. *)
BatchesAge ==
    /\ age' = [b \in Batch |->
                 IF final[b] = "pending" /\ age[b] < DeliveryTimeout THEN age[b] + 1 ELSE age[b]]
    /\ UNCHANGED <<queueVars, rec, retried, final, requests, clientVars, topic>>

=============================================================================
