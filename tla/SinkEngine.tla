------------------------------ MODULE SinkEngine ------------------------------
(***************************************************************************)
(* The sink engine (packages/walcast/src/engine): the pump that fans the    *)
(* events of the replication stream out to one bounded queue per sink, one  *)
(* worker per sink that delivers batches with retries and checkpoints, the  *)
(* computation of the slot position, and the pause/resume API.              *)
(*                                                                          *)
(* An event is its position 1..Len(wal) in commit order: event ids compare  *)
(* like positions (events.ts).  The Walcast library is seen here through    *)
(* what the engine uses of it: changes(), which replays the slot from the   *)
(* first change of the transaction after the confirmed position, and        *)
(* ack(event); module Walcast models it in full.                            *)
(*                                                                          *)
(* Steps are the code between two awaits.  A process death and the next     *)
(* start() are one action: nothing of the system runs in between.  A        *)
(* graceful stop() is the case SendStatus, then Crash.                      *)
(***************************************************************************)
EXTENDS Naturals, Sequences, FiniteSets

CONSTANTS
    NumSinks,       \* configured sinks, numbered in the order of opts.sinks
    Durable,        \* those whose durability is 'durable'
    InitialWal,     \* the published changes the slot retains at the start
    PublishesMeta,  \* the publication covers walcast.sinks (FOR ALL TABLES)
    QueueDepth,     \* opts.queueDepth
    BatchSize,      \* opts.batchSize
    MaxAttempts,    \* opts.maxAttempts
    DbMayFail,      \* may a status UPDATE of the API be refused?
    HighWaterMark,  \* decoded events buffered between library and pump
    MaxCrashes,     \* bound: process deaths
    MaxDisconnects, \* bound: lost replication connections
    MaxCalls        \* bound: pause and resume requests

Sink == 1..NumSinks

\* A published change: is it a write to the walcast schema, and at which
\* position does its transaction start.
Change == [meta : BOOLEAN, first : Nat]

WellFormed(w) == \A i \in 1..Len(w) : w[i].first \in 1..i

ASSUME ConfigAssumption ==
    /\ NumSinks \in Nat
    /\ Durable \subseteq Sink
    /\ InitialWal \in Seq(Change)
    /\ WellFormed(InitialWal)
    /\ PublishesMeta \in BOOLEAN
    /\ DbMayFail \in BOOLEAN
    /\ QueueDepth \in Nat \ {0}
    /\ BatchSize \in Nat \ {0}
    /\ MaxAttempts \in Nat \ {0}
    /\ HighWaterMark \in Nat \ {0}

ASSUME BudgetAssumption ==
    /\ MaxCrashes \in Nat
    /\ MaxDisconnects \in Nat
    /\ MaxCalls \in Nat

VARIABLES
    \* PostgreSQL, which outlives the process
    wal,          \* published changes in commit order
    confirmed,    \* the slot: everything up to this event may be recycled
    ckpt,         \* walcast.sinks.acked_event_id, 0 for NULL
    dbStatus,     \* walcast.sinks.status
    \* the sinks' receivers
    received,     \* events whose delivery the sink has acknowledged
    \* the library's replication session
    conn,         \* is a session streaming?
    sent,         \* last event decoded from the session
    outstanding,  \* Walcast.outstanding: emitted and not acked
    flushed,      \* ReplicationStream.flushed, as an event
    \* the pump
    pulled,       \* the event taken last from changes()
    at,           \* next sink of its fan-out; 0 when waiting for an event
    putting,      \* does it wait in put(), its choice not to skip made?
    seq,          \* SinkEngine.seq
    bySeq,        \* SinkEngine.bySeq
    ackedSeq,     \* SinkEngine.ackedSeq
    \* per sink: SinkState and the worker's local variables
    queue, batch, pc, attempt, deliveredSeq, ackedEventId, status,
    resume,       \* is the resume callback of waitForResume registered?
    \* the admin API and the faults
    calls, crashes, disconnects

dbVars      == <<wal, confirmed, ckpt, dbStatus>>
streamVars  == <<conn, sent, outstanding, flushed>>
pumpVars    == <<pulled, at, putting, seq, bySeq, ackedSeq>>
sinkVars    == <<queue, batch, pc, attempt, deliveredSeq, ackedEventId,
                 status, resume>>
faultVars   == <<crashes, disconnects>>
vars == <<dbVars, received, streamVars, pumpVars, sinkVars, calls, faultVars>>

-----------------------------------------------------------------------------
Event == 1..Len(wal)
Tracked == [seq : 1..seq, event : Event]
Status == {"running", "paused"}
WorkerPC == {"take", "deliver", "ack", "pausing", "pauseWritten",
             "waitTop", "waitHold", "waitRetry"}
Waiting == {"waitTop", "waitHold", "waitRetry"}
Unused == [op |-> "pause", sink |-> 0, step |-> "unused"]
Call == [op : {"pause", "resume"}, sink : Sink,
         step : {"writing", "written", "done", "failed"}]

IsUser(e) == ~wal[e].meta
Larger(a, b) == IF a < b THEN b ELSE a
Smaller(a, b) == IF a < b THEN a ELSE b

(* Operators named M... are mistakes this code could contain; no definition  *)
(* uses them.  The runs must tell each from the operator it is a variant of. *)
MHasItems(s) == TRUE

\* Where the slot resumes after position p: the unit of redelivery is the
\* transaction, so a position inside one goes back to its first change.
ResumeAfter(p) == IF p < Len(wal) THEN wal[p + 1].first - 1 ELSE p

MDeliverable(b) == {b[i].event : i \in 1..Len(b)}

\* The user events of a batch: batch.filter((t) => !t.skip).
Deliverable(b) == {e \in {b[i].event : i \in 1..Len(b)} : IsUser(e)}

\* n writes to walcast.sinks, each a transaction of its own.
MetaWrites(n) ==
    wal' = IF PublishesMeta
           THEN wal \o [i \in 1..n |-> [meta |-> TRUE, first |-> Len(wal) + i]]
           ELSE wal

-----------------------------------------------------------------------------
(* What walcast.ack(event) advances the session to.  An outstanding event    *)
(* releases itself; one this session has not emitted (acked late, across a   *)
(* reconnect) counts with its own WAL position, which is past the            *)
(* transactions before it and not past its own.                              *)
AckTarget(e) == IF e \in outstanding THEN e ELSE e - 1

\* What acking e leaves: acks are cumulative in delivery order.
StillOut(e) ==
    IF e \in outstanding THEN {x \in outstanding : x > e} ELSE outstanding

\* walcast.ack(event).
Ack(e) ==
    /\ flushed' = IF conn THEN Larger(flushed, AckTarget(e)) ELSE flushed
    /\ outstanding' = StillOut(e)

MIsMin(m, ds) == \A s \in Durable : m >= ds[s]

\* m is at most the position, in ds, of every durable sink.
IsMin(m, ds) == \A s \in Durable : m <= ds[s]

MForgotten(min) == {q \in DOMAIN bySeq : q < min}

\* The entries of bySeq that the loop of maybeAck() deletes.
Forgotten(min) == {q \in DOMAIN bySeq : q <= min}

\* maybeAck(): advance to the least deliveredSeq, given as ds, of the durables.
MaybeAck(ds) ==
    \E min \in {ds[s] : s \in Durable} :
        /\ IsMin(min, ds)
        /\ IF min <= ackedSeq
           THEN UNCHANGED <<flushed, outstanding, bySeq, ackedSeq>>
           ELSE /\ IF min \in DOMAIN bySeq
                   THEN Ack(bySeq[min])
                   ELSE UNCHANGED <<flushed, outstanding>>
                /\ bySeq' = [q \in DOMAIN bySeq \ Forgotten(min) |-> bySeq[q]]
                /\ ackedSeq' = min

\* BoundedQueue.put() and the splice of takeBatch().
Put(q, t) == Append(q, t)
MRest(q, n) == SubSeq(q, n, Len(q))
Rest(q, n) == SubSeq(q, n + 1, Len(q))

-----------------------------------------------------------------------------
(* The replication session. *)

\* changes() opens a session: on start, and from pump()'s loop once the
\* iteration over the lost one has drained what was already received.
Connect ==
    /\ ~conn /\ at = 0 /\ pulled = sent
    /\ conn' = TRUE
    /\ sent' = ResumeAfter(confirmed)
    /\ pulled' = ResumeAfter(confirmed)
    /\ outstanding' = {}
    /\ flushed' = 0
    /\ UNCHANGED <<dbVars, received, at, putting, seq, bySeq, ackedSeq,
                   sinkVars, calls, faultVars>>

\* A change is received and decoded, however far behind the pump is.
Receive ==
    /\ conn
    /\ sent < Len(wal)
    /\ sent - pulled < HighWaterMark
    /\ sent' = sent + 1
    /\ outstanding' = outstanding \union {sent + 1}
    /\ UNCHANGED <<dbVars, received, conn, flushed, pumpVars, sinkVars, calls,
                   faultVars>>

\* A keepalive, read behind everything sent before it: with nothing buffered
\* and nothing outstanding, and not inside a transaction, it is confirmed.
Keepalive ==
    /\ conn
    /\ outstanding = {} /\ pulled = sent /\ ResumeAfter(sent) = sent
    /\ flushed < sent
    /\ flushed' = sent
    /\ UNCHANGED <<dbVars, received, conn, sent, outstanding, pumpVars,
                   sinkVars, calls, faultVars>>

\* A status update reaches the server: timer, keepalive reply or stop().
SendStatus ==
    /\ conn
    /\ flushed > confirmed
    /\ confirmed' = flushed
    /\ UNCHANGED <<wal, ckpt, dbStatus, received, streamVars, pumpVars,
                   sinkVars, calls, faultVars>>

\* The connection is lost; flushed and outstanding die with the session.
Disconnect ==
    /\ conn
    /\ disconnects < MaxDisconnects
    /\ conn' = FALSE
    /\ disconnects' = disconnects + 1
    /\ UNCHANGED <<dbVars, received, sent, outstanding, flushed, pumpVars,
                   sinkVars, calls, crashes>>

-----------------------------------------------------------------------------
(* The pump: pumpOnce(). *)

Pull ==
    /\ at = 0
    /\ pulled < sent
    /\ pulled' = pulled + 1
    /\ seq' = seq + 1
    /\ bySeq' = [q \in DOMAIN bySeq \union {seq + 1} |->
                    IF q = seq + 1 THEN pulled + 1 ELSE bySeq[q]]
    /\ at' = 1
    /\ UNCHANGED <<dbVars, received, streamVars, putting, ackedSeq, sinkVars,
                   calls, faultVars>>

MSkipsLess(s, e) == IsUser(e) /\ e < ackedEventId[s]
MSkipsMore(s, e) == IsUser(e) /\ e <= ackedEventId[s] + 1

\* Is e at or below the position of s?  Metadata is never compared.
AlreadyDelivered(s, e) == IsUser(e) /\ e <= ackedEventId[s]

\* A durable sink that was ahead skips what it already delivered.
FanOutSkip ==
    /\ at \in Durable /\ ~putting
    /\ AlreadyDelivered(at, pulled)
    /\ deliveredSeq' = [deliveredSeq EXCEPT ![at] = seq]
    /\ at' = at + 1
    /\ UNCHANGED <<dbVars, received, streamVars, pulled, putting, seq, bySeq,
                   ackedSeq, queue, batch, pc, attempt, ackedEventId, status,
                   resume, calls, faultVars>>

HasRoom(s) == Len(queue[s]) < QueueDepth

\* await state.queue.put() on a full queue: the choice not to skip stands,
\* whatever the sink's position is when there is room again.
FanOutWaits ==
    /\ at \in Durable /\ ~putting
    /\ ~AlreadyDelivered(at, pulled)
    /\ ~HasRoom(at)
    /\ putting' = TRUE
    /\ UNCHANGED <<dbVars, received, streamVars, pulled, at, seq, bySeq,
                   ackedSeq, sinkVars, calls, faultVars>>

\* put() with room, at once or after the wait, which looks at the capacity
\* only.  Metadata events go through the same queues as skip markers.
FanOutDurable ==
    /\ at \in Durable
    /\ putting \/ ~AlreadyDelivered(at, pulled)
    /\ HasRoom(at)
    /\ queue' = [queue EXCEPT ![at] = Put(@, [seq |-> seq, event |-> pulled])]
    /\ at' = at + 1
    /\ putting' = FALSE
    /\ UNCHANGED <<dbVars, received, streamVars, pulled, seq, bySeq, ackedSeq,
                   batch, pc, attempt, deliveredSeq, ackedEventId, status,
                   resume, calls, faultVars>>

\* An ephemeral sink never blocks: a full queue drops the event, and
\* metadata does not concern it.
FanOutEphemeral ==
    /\ at \in Sink \ Durable
    /\ queue' = IF IsUser(pulled) /\ HasRoom(at)
                THEN [queue EXCEPT ![at] = Put(@, [seq |-> seq, event |-> pulled])]
                ELSE queue
    /\ at' = at + 1
    /\ UNCHANGED <<dbVars, received, streamVars, pulled, putting, seq, bySeq,
                   ackedSeq, batch, pc, attempt, deliveredSeq, ackedEventId,
                   status, resume, calls, faultVars>>

MPumpAcks(e) == Durable = {} /\ IsUser(e)

\* With no durable sink the pump acks by itself, metadata too.
PumpAcks(e) == Durable = {}

\* After the last sink.  A metadata event ends in `continue`, without
\* maybeAck().
FanOutEnd ==
    /\ at = NumSinks + 1
    /\ at' = 0
    /\ \/ /\ PumpAcks(pulled)
          /\ Ack(pulled)
          /\ bySeq' = [q \in DOMAIN bySeq \ {seq} |-> bySeq[q]]
          /\ UNCHANGED ackedSeq
       \/ /\ Durable # {}
          /\ IsUser(pulled)
          /\ MaybeAck(deliveredSeq)
       \/ /\ ~PumpAcks(pulled)
          /\ ~IsUser(pulled)
          /\ UNCHANGED <<flushed, outstanding, bySeq, ackedSeq>>
    /\ UNCHANGED <<dbVars, received, conn, sent, pulled, putting, seq, sinkVars,
                   calls, faultVars>>

-----------------------------------------------------------------------------
(* The workers: durableWorker(state), ephemeralWorker(state). *)

MEnterUnchecked(s, p, w) ==
    /\ pc' = [pc EXCEPT ![s] = p]
    /\ resume' = [resume EXCEPT ![s] = FALSE]
MEnterNoCallback(s, p, w) ==
    /\ pc' = [pc EXCEPT ![s] = IF status[s] = "paused" THEN w ELSE p]
    /\ resume' = [resume EXCEPT ![s] = FALSE]

\* The top of the loop and the end of waitForResume: on paused the worker
\* registers the callback and waits at w, else it goes on to p.
Enter(s, p, w) ==
    /\ pc' = [pc EXCEPT ![s] = IF status[s] = "paused" THEN w ELSE p]
    /\ resume' = [resume EXCEPT ![s] = status[s] = "paused"]

\* takeBatch() goes on: something is queued.
HasItems(s) == queue[s] # <<>>

\* takeBatch(): 1..BatchSize items.  A durable worker that was paused while it
\* waited holds the batch until it is resumed.
TakeBatch(s) ==
    /\ pc[s] = "take"
    /\ HasItems(s)
    /\ LET n == Smaller(Len(queue[s]), BatchSize) IN
       /\ batch' = [batch EXCEPT ![s] = SubSeq(queue[s], 1, n)]
       /\ queue' = [queue EXCEPT ![s] = Rest(@, n)]
    /\ attempt' = [attempt EXCEPT ![s] = 0]
    /\ IF s \in Durable
       THEN Enter(s, "deliver", "waitHold")
       ELSE /\ pc' = [pc EXCEPT ![s] = "deliver"]
            /\ UNCHANGED resume
    /\ UNCHANGED <<dbVars, received, streamVars, pumpVars, deliveredSeq,
                   ackedEventId, status, calls, faultVars>>

\* The position a delivered (or skip-only) batch moves the sink to.
Advance(s) ==
    LET last == batch[s][Len(batch[s])] IN
    /\ deliveredSeq' = [deliveredSeq EXCEPT ![s] = last.seq]
    /\ ackedEventId' = [ackedEventId EXCEPT ![s] = last.event]

\* sink.deliver() resolves: the position moves at once, the checkpoint
\* UPDATE is under way.
Deliver(s) ==
    /\ s \in Durable
    /\ pc[s] = "deliver"
    /\ Deliverable(batch[s]) # {}
    /\ received' = [received EXCEPT ![s] = @ \union Deliverable(batch[s])]
    /\ Advance(s)
    /\ pc' = [pc EXCEPT ![s] = "ack"]
    /\ UNCHANGED <<dbVars, streamVars, pumpVars, queue, batch, attempt, status,
                   resume, calls, faultVars>>

\* A skip-only batch moves the position and the slot, and writes nothing.
SkipBatch(s) ==
    /\ s \in Durable
    /\ pc[s] = "deliver"
    /\ Deliverable(batch[s]) = {}
    /\ Advance(s)
    /\ MaybeAck(deliveredSeq')
    /\ batch' = [batch EXCEPT ![s] = <<>>]
    /\ Enter(s, "take", "waitTop")
    /\ UNCHANGED <<dbVars, received, conn, sent, pulled, at, putting, seq, queue,
                   attempt, status, calls, faultVars>>

\* checkpoints.ack() commits and resolves; then maybeAck().
AckCheckpoint(s) ==
    /\ pc[s] = "ack"
    /\ ckpt' = [ckpt EXCEPT ![s] = ackedEventId[s]]
    /\ MetaWrites(1)
    /\ MaybeAck(deliveredSeq)
    /\ batch' = [batch EXCEPT ![s] = <<>>]
    /\ Enter(s, "take", "waitTop")
    /\ UNCHANGED <<confirmed, dbStatus, received, conn, sent, pulled, at, putting,
                   seq, queue, attempt, deliveredSeq, ackedEventId, status,
                   calls, faultVars>>

\* sink.deliver() rejects: retry after a backoff, or pause and hold the batch.
DeliverFails(s) ==
    /\ s \in Durable
    /\ pc[s] = "deliver"
    /\ Deliverable(batch[s]) # {}
    /\ attempt' = [attempt EXCEPT ![s] = @ + 1]
    /\ IF attempt[s] + 1 >= MaxAttempts
       THEN /\ status' = [status EXCEPT ![s] = "paused"]
            /\ pc' = [pc EXCEPT ![s] = "pausing"]
       ELSE UNCHANGED <<status, pc>>
    /\ UNCHANGED <<dbVars, received, streamVars, pumpVars, queue, batch,
                   deliveredSeq, ackedEventId, resume, calls, faultVars>>

\* The worker's setStatus('paused') commits ...
PauseCommits(s) ==
    /\ pc[s] = "pausing"
    /\ dbStatus' = [dbStatus EXCEPT ![s] = "paused"]
    /\ MetaWrites(1)
    /\ pc' = [pc EXCEPT ![s] = "pauseWritten"]
    /\ UNCHANGED <<confirmed, ckpt, received, streamVars, pumpVars, queue,
                   batch, attempt, deliveredSeq, ackedEventId, status, resume,
                   calls, faultVars>>

\* ... and once the worker is back from it, it calls waitForResume().
PauseSettles(s) ==
    /\ pc[s] = "pauseWritten"
    /\ pc' = [pc EXCEPT ![s] = "waitRetry"]
    /\ resume' = [resume EXCEPT ![s] = TRUE]
    /\ UNCHANGED <<dbVars, received, streamVars, pumpVars, queue, batch,
                   attempt, deliveredSeq, ackedEventId, status, calls,
                   faultVars>>

\* The ephemeral worker: one attempt, delivered or dropped.
DeliverOnce(s) ==
    /\ s \in Sink \ Durable
    /\ pc[s] = "deliver"
    /\ \/ received' = [received EXCEPT ![s] = @ \union Deliverable(batch[s])]
       \/ UNCHANGED received
    /\ batch' = [batch EXCEPT ![s] = <<>>]
    /\ pc' = [pc EXCEPT ![s] = "take"]
    /\ UNCHANGED <<dbVars, streamVars, pumpVars, queue, attempt, deliveredSeq,
                   ackedEventId, status, resume, calls, faultVars>>

-----------------------------------------------------------------------------
(* The admin API (daemon/server.ts): POST /api/sinks/:id/pause and /resume. *)

\* pause() and resume() change the status at once and then await setStatus().
\* Neither asks whether the sink is durable.
CallStarts(c) ==
    /\ calls[c] = Unused
    /\ \A d \in 1..(c - 1) : calls[d] # Unused
    /\ \E s \in Sink, op \in {"pause", "resume"} :
        /\ calls' = [calls EXCEPT ![c] =
                        [op |-> op, sink |-> s, step |-> "writing"]]
        /\ status' = [status EXCEPT ![s] =
                        IF op = "pause" THEN "paused" ELSE "running"]
    /\ UNCHANGED <<dbVars, received, streamVars, pumpVars, queue, batch, pc,
                   attempt, deliveredSeq, ackedEventId, resume, faultVars>>

\* The UPDATE finds no row of an ephemeral sink: only durables register.
CallCommits(c) ==
    LET s == calls[c].sink
        isPause == calls[c].op = "pause"
    IN  /\ calls[c].step = "writing"
        /\ IF s \in Durable
           THEN /\ dbStatus' = [dbStatus EXCEPT ![s] =
                                   IF isPause THEN "paused" ELSE "running"]
                /\ MetaWrites(1)
           ELSE UNCHANGED <<dbStatus, wal>>
        /\ calls' = [calls EXCEPT ![c].step =
                        IF isPause THEN "done" ELSE "written"]
        /\ UNCHANGED <<confirmed, ckpt, received, streamVars, pumpVars,
                       sinkVars, faultVars>>

\* setStatus() rejects: the request answers with an error and goes no further.
CallFails(c) ==
    /\ DbMayFail
    /\ calls[c].step = "writing"
    /\ calls' = [calls EXCEPT ![c].step = "failed"]
    /\ UNCHANGED <<dbVars, received, streamVars, pumpVars, sinkVars, faultVars>>

\* Where a worker goes when its callback is called: the two pause loops look
\* at the status again, the failure path retries from scratch.
Wake(s) ==
    CASE pc[s] = "waitTop"  -> Enter(s, "take", "waitTop") /\ UNCHANGED attempt
      [] pc[s] = "waitHold" -> Enter(s, "deliver", "waitHold")
                               /\ UNCHANGED attempt
      [] OTHER -> /\ pc' = [pc EXCEPT ![s] = "deliver"]
                  /\ resume' = [resume EXCEPT ![s] = FALSE]
                  /\ attempt' = [attempt EXCEPT ![s] = 0]

\* resume() goes on after setStatus(): state.resume?.(); state.resume = null.
ResumeCalls(c) ==
    LET s == calls[c].sink
    IN  /\ calls[c].step = "written"
        /\ calls' = [calls EXCEPT ![c].step = "done"]
        /\ IF resume[s] THEN Wake(s) ELSE UNCHANGED <<pc, resume, attempt>>
        /\ UNCHANGED <<dbVars, received, streamVars, pumpVars, queue, batch,
                       deliveredSeq, ackedEventId, status, faultVars>>

-----------------------------------------------------------------------------
(* start() and process death. *)

PerSink(v) == [s \in Sink |-> v]

\* A worker of a sink whose row says paused waits at the top of its loop.
StartPC(st) ==
    [s \in Sink |-> IF st[s] = "paused" THEN "waitTop" ELSE "take"]
StartResume(st) == [s \in Sink |-> st[s] = "paused"]

MStartPosition == PerSink(0)

\* The positions start() reads back: checkpoint?.ackedEventId.
StartPosition == ckpt

\* start() on an empty walcast.sinks: register() inserts the rows.
Init ==
    /\ wal = InitialWal /\ confirmed = 0
    /\ ckpt = PerSink(0) /\ dbStatus = PerSink("running")
    /\ received = PerSink({})
    /\ conn = FALSE /\ sent = 0 /\ outstanding = {} /\ flushed = 0
    /\ pulled = 0 /\ at = 0 /\ putting = FALSE /\ seq = 0 /\ ackedSeq = 0
    /\ bySeq = [q \in {} |-> 0]
    /\ queue = PerSink(<<>>) /\ batch = PerSink(<<>>) /\ attempt = PerSink(0)
    /\ deliveredSeq = PerSink(0) /\ ackedEventId = PerSink(0)
    /\ status = PerSink("running")
    /\ pc = PerSink("take") /\ resume = PerSink(FALSE)
    /\ calls = [c \in 1..MaxCalls |-> Unused]
    /\ crashes = 0 /\ disconnects = 0

\* The process dies anywhere and is started again: the volatile state is set
\* up from the checkpoint rows, and register() touches each of them.
Crash ==
    /\ crashes < MaxCrashes
    /\ crashes' = crashes + 1
    /\ conn' = FALSE /\ sent' = 0 /\ outstanding' = {} /\ flushed' = 0
    /\ pulled' = 0 /\ at' = 0 /\ putting' = FALSE
    /\ seq' = 0 /\ ackedSeq' = 0
    /\ bySeq' = [q \in {} |-> 0]
    /\ queue' = PerSink(<<>>) /\ batch' = PerSink(<<>>)
    /\ attempt' = PerSink(0)
    /\ deliveredSeq' = PerSink(0) /\ ackedEventId' = StartPosition
    /\ status' = dbStatus
    /\ pc' = StartPC(dbStatus) /\ resume' = StartResume(dbStatus)
    /\ calls' = [c \in 1..MaxCalls |->
                    IF calls[c] = Unused THEN Unused
                    ELSE [calls[c] EXCEPT !.step = "done"]]
    /\ MetaWrites(Cardinality(Durable))
    /\ UNCHANGED <<confirmed, ckpt, dbStatus, received, disconnects>>

-----------------------------------------------------------------------------
Pump ==
    \/ Pull \/ FanOutSkip \/ FanOutWaits \/ FanOutDurable
    \/ FanOutEphemeral \/ FanOutEnd

Worker(s) ==
    \/ TakeBatch(s) \/ Deliver(s) \/ SkipBatch(s) \/ AckCheckpoint(s)
    \/ DeliverFails(s) \/ PauseCommits(s) \/ PauseSettles(s)
    \/ DeliverOnce(s)

Request(c) == CallCommits(c) \/ CallFails(c) \/ ResumeCalls(c)

Next ==
    \/ Connect \/ Receive \/ Keepalive \/ SendStatus \/ Disconnect
    \/ Pump
    \/ \E s \in Sink : Worker(s)
    \/ \E c \in 1..MaxCalls : CallStarts(c) \/ Request(c)
    \/ Crash

Spec == Init /\ [][Next]_vars

(* Fairness: promises settle and timers fire, so the session, the pump, the *)
(* workers and the requests under way all keep going; connections are       *)
(* retried for ever.  Nothing makes an operator call, a fault happen or a   *)
(* delivery succeed: a sink that always fails ends up paused.               *)
Fairness ==
    /\ WF_vars(Connect) /\ WF_vars(Receive)
    /\ WF_vars(Keepalive) /\ WF_vars(SendStatus)
    /\ WF_vars(Pump)
    /\ \A s \in Sink : WF_vars(Worker(s))
    /\ \A c \in 1..MaxCalls : WF_vars(Request(c))

FairSpec == Spec /\ Fairness

-----------------------------------------------------------------------------
(* Properties *)

DbOK ==
    /\ wal \in Seq(Change) /\ WellFormed(wal)
    /\ confirmed \in 0..Len(wal)
    /\ ckpt \in [Sink -> 0..Len(wal)] /\ dbStatus \in [Sink -> Status]
    /\ received \in [Sink -> SUBSET Event]

StreamOK ==
    /\ conn \in BOOLEAN
    /\ outstanding \in SUBSET Event
    /\ flushed \in 0..Len(wal)
    /\ sent \in 0..Len(wal)

PumpOK ==
    /\ pulled \in 0..sent
    /\ at \in 0..(NumSinks + 1)
    /\ putting \in BOOLEAN /\ (putting => at \in Durable)
    /\ at # 0 => pulled # 0 /\ seq # 0
    /\ seq \in Nat /\ ackedSeq \in 0..seq
    /\ DOMAIN bySeq \subseteq 1..seq
    /\ \A q \in DOMAIN bySeq : bySeq[q] \in Event

SinksOK ==
    /\ queue \in [Sink -> Seq(Tracked)] /\ batch \in [Sink -> Seq(Tracked)]
    /\ pc \in [Sink -> WorkerPC] /\ attempt \in [Sink -> Nat]
    /\ deliveredSeq \in [Sink -> 0..seq]
    /\ ackedEventId \in [Sink -> 0..Len(wal)]
    /\ status \in [Sink -> Status] /\ resume \in [Sink -> BOOLEAN]
    /\ \A s \in Sink : /\ batch[s] = <<>> <=> pc[s] \in {"take", "waitTop"}
                       /\ resume[s] <=> pc[s] \in Waiting

ControlOK ==
    /\ calls \in [1..MaxCalls -> Call \union {Unused}]
    /\ crashes \in 0..MaxCrashes /\ disconnects \in 0..MaxDisconnects

TypeOK == DbOK /\ StreamOK /\ PumpOK /\ SinksOK /\ ControlOK

Delivered(s, p) == \A e \in 1..p : e \in Event /\ IsUser(e) => e \in received[s]

(* The slot is released only up to work every durable sink has acknowledged *)
(* (engine.ts:90, "advances to the minimum acked LSN across durable sinks   *)
(* only"): neither the server nor the session may hold a position past an   *)
(* event that some durable sink never got, or a crash loses that event.     *)
SlotHoldsUndelivered ==
    \A s \in Durable : Delivered(s, confirmed) /\ Delivered(s, flushed)

(* A checkpoint, persisted or in memory, is past no event the sink did not  *)
(* acknowledge: after a restart everything up to it is skipped unseen.      *)
CheckpointCoversDelivered ==
    \A s \in Durable : Delivered(s, ckpt[s]) /\ Delivered(s, ackedEventId[s])

\* What worker s holds and what waits behind it, in the order of delivery.
Pending(s) == (IF pc[s] \in {"ack", "take", "waitTop"} THEN <<>> ELSE batch[s])
              \o queue[s]

(* sink.deliver gets the events in strict commit order (plugin-kit          *)
(* types.ts:64): what a durable sink will be handed is ascending, and lies  *)
(* after everything it was handed before.                                   *)
StrictCommitOrder ==
    \A s \in Durable :
        LET p == Pending(s) IN
        /\ \A i, j \in 1..Len(p) : i < j => p[i].event < p[j].event
        /\ \A i \in 1..Len(p) : p[i].event > ackedEventId[s]

(* A sink that was ahead when the process died skips what it already        *)
(* delivered (engine.ts:207): no user event at or below a persisted         *)
(* checkpoint is handed to the sink again.                                  *)
SkipsCheckpointed ==
    \A s \in Durable :
        pc[s] = "deliver" => \A e \in Deliverable(batch[s]) : e > ckpt[s]

(* bySeq holds exactly the events between the acked and the newest one:     *)
(* maybeAck always finds the event it acks, and nothing older is retained.  *)
BySeqIsWindow ==
    Durable # {} => DOMAIN bySeq = (ackedSeq + 1)..seq

(* The positions of a sink never go back: deliveredSeq, "highest seq this   *)
(* sink has fully delivered (or skipped as pre-delivered)" (engine.ts:48),  *)
(* and ackedEventId while the process lives, the checkpoint at any time.    *)
PositionsAdvance ==
    [][\A s \in Durable :
          /\ ckpt'[s] >= ckpt[s]
          /\ crashes' = crashes => /\ deliveredSeq'[s] >= deliveredSeq[s]
                                   /\ ackedEventId'[s] >= ackedEventId[s]]_vars

(* A pause takes effect at the next batch boundary (engine.ts:267): no      *)
(* worker starts on a new batch while its sink is paused, from its queue    *)
(* or from a wait at the boundary.  Retries of a batch under way go on.     *)
PausedStartsNothing ==
    [][\A s \in Durable :
          pc[s] \in {"take", "waitTop", "waitHold"} /\ pc'[s] = "deliver"
          => status[s] = "running"]_vars

\* Is a request for s under way that may still call its resume callback, or
\* was the operator told that it failed?
ResumeUnderWay(s) ==
    \E c \in 1..MaxCalls : /\ calls[c].op = "resume" /\ calls[c].sink = s
                           /\ calls[c].step \in {"writing", "written", "failed"}

(* A resumed sink goes on (engine.ts:374, "it retries its pending batch     *)
(* immediately"): no worker sleeps in waitForResume while its sink is       *)
(* running, unless a request is left that would wake it or has failed.      *)
ResumedSinkGoesOn ==
    \A s \in Durable :
        pc[s] \in Waiting /\ status[s] = "running" => ResumeUnderWay(s)

(* The same for a pause by the operator, whose worker registers the         *)
(* callback in the step that finds the sink paused.                         *)
OperatorResumeGoesOn ==
    \A s \in Durable :
        pc[s] \in {"waitTop", "waitHold"} /\ status[s] = "running"
        => ResumeUnderWay(s)

(* Checkpoint writes come back as metadata events when the publication      *)
(* covers walcast.sinks; they must not cause further writes                 *)
(* (engine.ts:318, "a write loop that never quiesces"): there are never     *)
(* more of them than deliveries of user events, rows registered at a start, *)
(* pauses and requests account for.                                         *)
MetaWritesAccounted ==
    crashes = 0 /\ disconnects = 0 =>
        Len(wal) - Len(InitialWal) <=
            Cardinality({d \in Durable \X Event :
                            IsUser(d[2]) /\ d[2] \in received[d[1]]})
            + Cardinality({s \in Durable : dbStatus[s] = "paused"})
            + 2 * Cardinality({c \in 1..MaxCalls : calls[c] # Unused})

(* Unless some durable sink stays paused, everything is delivered to every  *)
(* durable sink in the end and the slot is released up to the last event.   *)
EverythingReleased ==
    \/ <>[](\E s \in Durable : status[s] = "paused")
    \/ <>[](/\ confirmed = Len(wal)
            /\ \A s \in Durable : Delivered(s, Len(wal)))

(* The promise to each sink, without the engine: see AtLeastOnce. *)
Promise ==
    INSTANCE AtLeastOnce WITH Recipients <- Durable, released <- confirmed
KeepsPromise == Promise!ASpec
===============================================================================
