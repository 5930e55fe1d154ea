------------------------------ MODULE PushSink ------------------------------
(***************************************************************************)
(* The sinks that push a batch and wait for the answer, webhook, gRPC and  *)
(* the file of the plugin template, with the receivers of the examples     *)
(* that deduplicate on event.id, driven by the engine's worker or by the   *)
(* conformance harness. Requests are lost, time out and arrive late,       *)
(* answers too, receivers reject and fail half way, the engine restarts.   *)
(*   packages/sink-webhook/src/index.ts, packages/sink-grpc/src/index.ts,  *)
(*   templates/plugin/src/index.ts, packages/plugin-kit/src/harness.ts,    *)
(*   examples/webhook-receiver/index.mjs, examples/grpc-consumer/server.mjs*)
(*                                                                         *)
(* Events are 1..NumPushed in commit order, and an event is its own id. A  *)
(* receiver keeps the ids it processed for good, and a file takes a batch  *)
(* whole.                                                                  *)
(***************************************************************************)
EXTENDS Naturals, Sequences, SequencesExt

CONSTANTS
    NumPushed,      \* bound: events
    PushBatch,      \* batchSize
    MaxRequests,    \* bound: requests sent for the engine
    HarnessCuts     \* verifySink: the batches end after these events

ASSUME PushSinkAssumption ==
    /\ {NumPushed, PushBatch, MaxRequests} \subseteq Nat \ {0}
    /\ HarnessCuts \in Seq(1..NumPushed) /\ Len(HarnessCuts) = 3 /\ HarnessCuts[3] = NumPushed
    /\ HarnessCuts[1] < HarnessCuts[2] /\ HarnessCuts[2] < HarnessCuts[3]

VARIABLES
    transport,   \* "webhook", "grpc" or "file"
    driver,      \* "engine" or "harness"
    secretsMatch,\* whether the receiver verifies with the sink's secret
    ackedUpTo,   \* the checkpoint: events the driver takes as delivered
    sending,     \* the batch of the pending deliver(), <<>> when there is none
    requests,    \* every request sent: its batch, and where it is
    waitsFor,    \* the request deliver() awaits, 0 for none
    handled,     \* events the far end has processed, in order
    step         \* the harness' progress: batches delivered, then its verdict

pushVars == <<transport, driver, secretsMatch, ackedUpTo, sending, requests, waitsFor, handled, step>>

Batch(first, last) == [i \in 1..last - first + 1 |-> first + i - 1]

-----------------------------------------------------------------------------
(* The drivers *)

(* The worker's next batch follows its checkpoint. *)
EngineBatch ==
    /\ driver = "engine" /\ ackedUpTo < NumPushed
    /\ \E last \in ackedUpTo + 1..ackedUpTo + PushBatch :
        last <= NumPushed /\ sending' = Batch(ackedUpTo + 1, last)
    /\ UNCHANGED step

(* verifySink: three batches, then the second once more. *)
HarnessBatch ==
    /\ driver = "harness" /\ step \in 1..4
    /\ LET n == IF step = 4 THEN 2 ELSE step
       IN sending' = Batch(IF n = 1 THEN 1 ELSE HarnessCuts[n - 1] + 1, HarnessCuts[n])
    /\ step' = step + 1

StartBatch ==
    /\ sending = <<>>
    /\ EngineBatch \/ HarnessBatch
    /\ UNCHANGED <<transport, driver, secretsMatch, ackedUpTo, requests, waitsFor, handled>>

-----------------------------------------------------------------------------
(* deliver(): one request, and its timeout or deadline. *)

Post ==
    /\ sending # <<>> /\ waitsFor = 0
    /\ driver = "harness" \/ Len(requests) < MaxRequests
    /\ requests' = Append(requests, [batch |-> sending, at |-> "sent"])
    /\ waitsFor' = Len(requests) + 1
    /\ UNCHANGED <<transport, driver, secretsMatch, ackedUpTo, sending, handled, step>>

MProcess(batch) == IF Contains(handled, batch[1]) THEN handled ELSE handled \o batch

(* An event it processed before is skipped, be it of this very batch.      *)
Process(batch) ==
    LET after[i \in 0..Len(batch)] ==
            IF i = 0 THEN handled
            ELSE IF Contains(after[i - 1], batch[i]) THEN after[i - 1] ELSE Append(after[i - 1], batch[i])
    IN  after[Len(batch)]

Settle(r, how) == requests' = [requests EXCEPT ![r].at = how]

(* verifySignature(): webhooks only; the receiver answers 401 to the rest. *)
Verified == transport # "webhook" \/ secretsMatch

(* The receiver answers only when the batch is processed. An error in the  *)
(* middle is answered as one; the webhook receiver's can only be at the    *)
(* start. The harness' receivers do not fail.                              *)
Receive(r) ==
    /\ transport # "file" /\ requests[r].at = "sent"
    /\ \/ ~Verified /\ Settle(r, "refused") /\ UNCHANGED handled
       \/ /\ Verified
          /\ \E n \in 0..Len(requests[r].batch) :
              /\ n < Len(requests[r].batch) => driver = "engine" /\ (transport = "grpc" \/ n = 0)
              /\ handled' = IF n = 0 THEN handled ELSE Process(SubSeq(requests[r].batch, 1, n))
              /\ Settle(r, IF n = Len(requests[r].batch) THEN "ok" ELSE "refused")
    /\ UNCHANGED <<transport, driver, secretsMatch, ackedUpTo, sending, waitsFor, step>>

(* appendFile(): the readers of the file skip the ids they have seen.      *)
Appends(r) ==
    /\ transport = "file" /\ requests[r].at = "sent"
    /\ \/ Settle(r, "ok") /\ handled' = Process(requests[r].batch)
       \/ driver = "engine" /\ Settle(r, "refused") /\ UNCHANGED handled
    /\ UNCHANGED <<transport, driver, secretsMatch, ackedUpTo, sending, waitsFor, step>>

MSucceeded(r) == requests[r].at \in {"ok", "refused"}

(* res.ok, ack.ok: anything but success throws, and a thrown deliver is    *)
(* tried again with the same batch.                                        *)
Succeeded(r) == requests[r].at = "ok"

DeliverSettles(r) ==
    /\ waitsFor = r /\ requests[r].at \in {"ok", "refused"}
    /\ waitsFor' = 0
    /\ IF Succeeded(r)
       THEN /\ sending' = <<>>
            /\ ackedUpTo' = IF driver = "engine" THEN Last(sending) ELSE ackedUpTo
       ELSE UNCHANGED <<sending, ackedUpTo>>
    /\ Settle(r, "over")
    /\ UNCHANGED <<transport, driver, secretsMatch, handled, step>>

(* deliver() gives up; the request may be lost, or still arrive.           *)
TimesOut(r) ==
    /\ waitsFor = r /\ transport # "file" /\ driver = "engine"
    /\ waitsFor' = 0
    /\ UNCHANGED requests \/ Settle(r, "over")
    /\ UNCHANGED <<transport, driver, secretsMatch, ackedUpTo, sending, handled, step>>

(* The daemon dies: what it sent is on its way, and it starts behind its   *)
(* checkpoint with batches cut anew.                                       *)
EngineRestarts ==
    /\ driver = "engine" /\ sending # <<>>
    /\ sending' = <<>> /\ waitsFor' = 0
    /\ UNCHANGED <<transport, driver, secretsMatch, ackedUpTo, requests, handled, step>>

-----------------------------------------------------------------------------
(* The harness judges what was received: the first copies of the events,   *)
(* in order. Duplicates are fine (expectDedupe is for Kafka).              *)
Received == FlattenSeq([r \in DOMAIN requests |-> requests[r].batch])
Firsts(ids) == LET isFirst(i) == \A j \in 1..i - 1 : ids[j] # ids[i]
                   keep[i \in 0..Len(ids)] == IF i = 0 THEN <<>>
                                              ELSE IF isFirst(i) THEN Append(keep[i - 1], ids[i]) ELSE keep[i - 1]
               IN keep[Len(ids)]
Judge ==
    /\ step = 5 /\ sending = <<>>
    /\ step' = IF Firsts(Received) = Batch(1, NumPushed) THEN 6 ELSE 7
    /\ ackedUpTo' = IF step' = 6 THEN NumPushed ELSE ackedUpTo
    /\ UNCHANGED <<transport, driver, secretsMatch, sending, requests, waitsFor, handled>>

PushInit ==
    /\ transport \in {"webhook", "grpc", "file"}
    /\ driver \in {"engine", "harness"}
    /\ secretsMatch \in {TRUE, driver = "harness"}
    /\ ackedUpTo = 0 /\ sending = <<>> /\ requests = <<>> /\ waitsFor = 0 /\ handled = <<>>
    /\ step = 1

PushNext ==
    \/ StartBatch \/ Post \/ EngineRestarts \/ Judge
    \/ \E r \in DOMAIN requests : Receive(r) \/ Appends(r) \/ DeliverSettles(r) \/ TimesOut(r)

PushSpec == PushInit /\ [][PushNext]_pushVars

-----------------------------------------------------------------------------
(* However often a batch is sent again, late, cut anew after a restart or  *)
(* processed in part, the far end processes every event once and in commit *)
(* order, without a gap, and a sink of which that is true is never failed  *)
(* by the harness (deliver, processed, verifySink).                        *)
FirstsInOrder == handled = Batch(1, Len(handled)) /\ step # 7

(* What the driver takes as delivered the far end has processed: the       *)
(* checkpoint, and with it the slot, never moves past a batch that was     *)
(* refused, lost or processed in part (res.ok, ack.ok).                    *)
AckedWasProcessed == ackedUpTo <= Len(handled)
=============================================================================
