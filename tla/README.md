# walcast in TLA+

Specifications, model-checking configurations and proofs for walcast, the change-data-capture
library and daemon of this repository. They cover what its documentation promises: *at-least-once*
delivery from a PostgreSQL replication slot to any number of sinks, in commit order,
*exactly-once into the topic* for the Kafka sink, a setup that can be repeated, and a clean shutdown.
Where the code does not keep the promise a run shows it (section 4). File and line numbers below are those of the
repository; `engine.ts` means `packages/walcast/src/engine/engine.ts`, and so on.

    tlc -workers 2 -config EngineRestart.cfg MCSinkEngine     # a run
    tlapm WalcastProofs.tla                                   # the proofs of a module

## 1. The system

    PostgreSQL ──frames──> ReplicationStream ──> changes() ──events──> SinkEngine.pump
       ^  slot                  │  AsyncQueue       │  AsyncQueue          │ BoundedQueue per sink
       │                        │                   │                      v
       └──── status updates <───┴── flushed <── ack(event) <── maybeAck <── workers ──> sinks
       └──── walcast.sinks  <───────────────────── CheckpointStore <──────┘        (Kafka, HTTP ...)

| Part | State | Operations | Talks to |
| --- | --- | --- | --- |
| sink engine, `engine/engine.ts` | `seq`, `bySeq`, `ackedSeq`; per sink `deliveredSeq`, `ackedEventId`, `status`, `resume`, batch and attempt of the worker | `start`, `pump`, `maybeAck`, `durableWorker`, `ephemeralWorker`, `pause`, `resume`, `stop` | library (calls), queues, sinks (await), checkpoint store (await), admin API |
| checkpoint store, `engine/checkpoints.ts` | rows of `walcast.sinks`: acked event, status | `ensure`, `load`, `ack`, `setStatus` | PostgreSQL, over a pool of its own |
| bounded queue, `engine/bounded-queue.ts` | items, waiting puts and takes, closed | `put`, `takeBatch`, `close` | pump and workers |
| library, `walcast.ts` | `outstanding`, `stream`, `iterating`; locals of `changes()` | `changes`, `ack`, `stop` | stream (frames, `updateFlushed`), consumer (generator) |
| replication stream, `replication/stream.ts` | `flushed`, `lastReceived`, timer, socket | `begin`, `onCopyData`, `sendStatus`, `stop` | walsender |
| async queue, `queue.ts` | items, waiters, paused, ended, failure | `push`, `next`, `end`, `fail` | pauses the socket |
| decoder, `pgoutput/` | relation cache | `decode` | library |
| ids and positions, `events.ts`, `lsn.ts`, `plugin-kit/util.ts` | none | format, parse, compare | every part that skips what it has seen |
| setup, `setup.ts` | publication and slot, in the database | `ensureSetup`, `inspectSetup`, `teardown` | PostgreSQL |
| daemon, `daemon/` and `cli.ts` | where its start or its stop is; the token | `serve`, HTTP handlers, commands | engine, setup |
| dashboard, `apps/ui` | what is on screen, the token it stores, the tail | polls, pause and resume, live tail | daemon, SSE sink (HTTP) |
| Kafka sink, `sink-kafka` | `checkpointId`, producer; topics and checkpoint topic in Kafka | `init`, `deliver`, `close` | broker, through kafkajs |
| webhook, gRPC and template sinks; the receivers of the examples | none; what the receiver has processed | `deliver`, the receivers' handlers | one request per batch |
| plugin kit's `verifySink` | its progress | three batches and a repeat | any sink |
| SSE sink, `sink-sse` | connected clients with their filters | `deliver`, route handler, `close` | HTTP clients |
| type generator, `typegen-prisma` | none | `parsePrismaSchema` | decoder (the types it delivers) |
| bench, demo, integration tests | | | |

What is hard in it: one event loop interleaves, at every `await`, the pump, one worker per sink,
timers, replication frames and admin requests; three positions per sink (in memory, persisted, in the
slot) must stay in order across process deaths and lost connections; deliveries are retried and
redelivered; transactions are streamed in commit order although their changes interleave in the WAL;
the engine writes to the database whose changes it reads; a Kafka commit, or a webhook request, may
have happened when its response is lost; several daemons set up one database with check-then-create
statements; two queues pause the same socket; the dashboard's polls overtake each other; and stop()
must get every task out of whatever it awaits. `PROJECT.json` lists these hazards at their lines with the properties that
answer them, and says where none does yet.

What makes the parts correct:

- **engine**: nothing released that a durable sink lacks; nothing skipped that it lacks; commit order
  per sink; no redelivery below a persisted checkpoint; bookkeeping that neither leaks nor loses;
  positions that only advance; pauses that take effect and end; eventual delivery and release.
- **library**: the reported position releases nothing unacknowledged, whatever the consumer
  acknowledges and when; cumulative acks touch a prefix of the deliveries only; everything
  acknowledged is released, to the end of the WAL.
- **Kafka sink**: one visible copy of each event, none missing, delivery goes on.
- **queues**: bounded, nothing dropped however a session ends, no lost wake-ups, close reaches everyone.
- **stop()**: returns, and nothing uses what it has closed; a session that ends is replaced.
- **iterations**: the instance leads to its live stream, whatever ends late; `stop()` ends what is active.
- **decoder**: rows as they were written, whatever tables were altered; nothing of a cut frame.
- **ids**: text order is delivery order.
- **setup**: no slot without its publication; a daemon started over and over comes to stream.
- **push sinks**: each event processed once by a receiver that dedupes, in order, and no checkpoint
  ahead of it. **tail**: no gap while a connection lasts. **dashboard**: settles on the truth.
- **type generator**: a type per column, the one the decoder delivers.

## 2. Modules

| Module | Models | Extends or composes |
| --- | --- | --- |
| `AtLeastOnce` | what the engine promises, without an engine | |
| `SinkEngine` | engine, checkpoint store, bounded queues, admin requests; the slot as the engine sees it | refines `AtLeastOnce` (`Promise`) |
| `MCSinkEngine` | logs of changes for TLC | `SinkEngine` |
| `SinkEngineProofs` | types, pause and resume; no loss and the refinement, while no connection is lost | `SinkEngine`, `TLAPS` |
| `SinkEngineReconnect` | the same across lost connections, with one durable sink; with several, what a loss takes | `SinkEngineProofs` |
| `SinkEngineOrder` | order of delivery, without metadata either; writes are paid for | `SinkEngineProofs` |
| `Walcast` | library, stream, protocol frames, walsender, a consumer | |
| `MCWalcast` | a WAL for TLC | `Walcast` |
| `WalcastProofs` | no unacknowledged release, none held back | `Walcast`, `TLAPS` |
| `KafkaSink` | Kafka sink, broker and engine as it sees them | |
| `MCKafkaSink` | topics for TLC | `KafkaSink` |
| `SinkProofs` | exactly-once and no loss of Kafka; order and no gap of the push sinks, no gap of the tail | `KafkaSink`, `PushSink`, `SseSink`, `TLAPS` |
| `Shutdown` | every task of the engine and what it waits for; sessions, bounded queues, `stop()`, `serve.stop()` | |
| `AsyncQueue` | the two queues of a session on one socket, and the pump between them | |
| `Iteration` | calls of `changes()` and `stop()` that overlap | |
| `SessionProofs` | nothing dropped, the buffer bounded, the live stream found; frames decode as written, cut ones do not; text keeps order | `AsyncQueue`, `Iteration`, `Pgoutput`, `Positions`, `TLAPS` |
| `Pgoutput` | decoder, its reader and its cache, against an encoding of rows | |
| `Positions` | ids and positions as text | |
| `Setup` | daemons, `setup`, `teardown` on one database | |
| `DaemonProofs` | no slot without publication; types, no use after close, no lost wake-up of a shutdown | `Setup`, `Shutdown`, `TLAPS` |
| `Control` | API with its token, dashboard | |
| `SseSink` | the sink's clients and the inspector | |
| `PushSink` | webhook, gRPC and file sinks, their receivers, `verifySink` | |
| `Typegen` | `parsePrismaSchema` against schemas as Prisma reads them | |
| `MCTypegen` | fields of schemas for TLC | `Typegen` |
| `TypegenProofs` | the generated types are those delivered | `Typegen`, `TLAPS` |
| `MCComponents` | one run for the ten modules above, which share no state | all of them |

Operators whose names begin with `M` are mistakes the code could contain, each next to the operator
it is a variant of. No specification uses them; they are there to show that the runs notice: with the
mistake in place of the operator, TLC refutes the property that `PROJECT.json` pairs it with.

### SinkEngine

A step is the code between two awaits, which is what the event loop runs without interruption.

| Code | Model |
| --- | --- |
| event id, compared by `compareEventIds` | position in `wal`, the published changes in commit order |
| `walcast.changes()` | `Connect` (replay from `ResumeAfter(confirmed)`), `Receive`, `Disconnect` |
| `Walcast.outstanding`, `ReplicationStream.flushed`, `ack(event)` | `outstanding`, `flushed`, `Ack` |
| `sendStatus`, keepalives | `SendStatus`, `Keepalive` |
| `pumpOnce` up to each `await queue.put` | `Pull`, then per sink one of `FanOutSkip`, `FanOutDurable`, `FanOutEphemeral`, then `FanOutEnd`; `at` is the sink whose turn it is |
| `await queue.put` of a full queue | `FanOutWaits`: `putting` keeps the decision not to skip (engine.ts:209), and `FanOutDurable` then needs room only, as `put` re-checks the capacity and nothing else (bounded-queue.ts:24) |
| `durableWorker` | `pc[s]`: `take` → `deliver` → `ack` → `take`, with `waitTop`, `waitHold`, `waitRetry` for the three `waitForResume()` and `pausing`, `pauseWritten` around the awaited `setStatus` |
| `state.resume` registered | `resume[s]` |
| `CheckpointStore.ack`, `setStatus` | `AckCheckpoint`, `PauseCommits`, `CallCommits`, each apart from the step that calls it |
| `pause()`, `resume()` of the API | a request `calls[c]` in the steps `writing`, `written`, `done` or `failed` |
| process death, then `start()` | `Crash`: only `wal`, `confirmed`, `ckpt`, `dbStatus` and `received` survive |
| our own writes to `walcast.sinks` under `FOR ALL TABLES` | `MetaWrites`: they append metadata events to `wal` |

`Disconnect` leaves queues, workers, `seq` and `bySeq` alone, as `pump` does when it reconnects. What is
then received again is queued again unless the sink has acknowledged it by the time the fan-out comes to
it, so a queue and a batch may hold first and second copies.
`received` is a history variable: what each sink has acknowledged.

### Walcast

Here positions matter: event `e` sits at `Lsn[e]`, its transaction commits at `Commit[e]`, and a later
event may have the lower position. The walsender (external) streams transactions whose commit record
is not below `confirmed`, skips other WAL and sends keepalives between any two frames. `Decode*` are
the cases of the decode loop of `changes()` (walcast.ts:140-221), `Yield` is the generator,
`AckEvent` and `AckLsn` are the two branches of `ack()`, `out` is `outstanding` with the position each
event releases, which `DecodeCommit` raises for the last event (`Upgraded`, walcast.ts:169). A session
ends by `Stop` (status update first), `Disconnect` or `Crash`; what an earlier session yielded may
still be acknowledged (`held`). `SinkEngine` uses this library through `Connect`, `Receive`,
`Keepalive`, `SendStatus` and `Ack` only.

### Shutdown, and how it relates to SinkEngine

`SinkEngine` says what is delivered and what is released; `Shutdown` says where every task is. Its
`worker[s]` has a place for each `await` of `durableWorker` and `ephemeralWorker` (`takeWait` is the
waiter list of `takeBatch`, `topWait`, `holdWait`, `retryWait` the three `waitForResume()`), `pump` one
for each of `pump`, `pumpOnce` and `put`, and `session` one for each step of `ReplicationStream.begin`.
A queue is its length. `stopPc` follows `serve.stop()` and `engine.stop()`: abort, `walcast.stop()`,
close the queues, `allSettled`, close the sinks, end the pool, close the server. `leaked` counts the
clients of refused `START_REPLICATION`s, which `begin()` leaves connected (stream.ts:101). A signal can
come at every step but while a session is being opened, unless `StopsWhileConnecting`: that is finding 5.

### The session: AsyncQueue, Iteration, Pgoutput, Positions

`AsyncQueue` has an instance of `queue.ts` for frames and one for events. An event is its number
in the session; an item of the first queue is a frame, the number after which its events follow and how
many they are (none, one, or one per table of a `TRUNCATE`). `PushAll` says at once what one `Push` after
the other does; `PushAllIsPushes` proves it. `Chunk`
is a read of the socket; JavaScript runs the pump's microtasks before the next read, hence its guard
`Idle`. `Push`, `NextItem`, `End`, `Fail` are the four methods, `got` is what a promise was resolved with.

`Iteration` looks at the two fields `stream` and `iterating` only: `Changes` is the check and the
assignment before the first await (walcast.ts:96), `Leave` and `Finished` the two sides of the `finally`,
`StopStream` and `StopReleases` those of the await in `stop()` (walcast.ts:294). Nothing keeps the calls
apart, in the model as in the code: several `stop()` may run at once, one may come while a generator is
connecting, and `changes()` may be called while one awaits. `overtaken` is a history variable: the
streams that came up while a `stop()` awaited.

`Pgoutput` writes a frame as the sequence of its fields. The server (external) encodes rows of tables
that are altered in between, the decoder reads them back, and the message each frame `means` travels
beside it. Widths and byte order are not modelled, the bounds of the reader are. `Positions` has the
text form and the comparison of ids in a smaller base, over every pair of events in delivery order.

### Setup

A process is at the statement it runs next. `RunSetup` and the two `Load` actions are the command line
and the configuration, `WalLevel` to `CreateSlot` are `ensureSetup()`, `EngineStarts` and
`StartReplication` the daemon, the three `Drop` actions `teardown()`. `Dies` is a signal, a refused port,
a failing sink or a kill, anywhere. The loser of a race to create gets "already exists" and exits. The
queries of setups interleave freely, and so do those of teardowns; that a teardown and a setup do not
overlap (`Overlaps = FALSE`) is left to the operator, since nothing in setup.ts sees to it.

### Control, SseSink, PushSink, Typegen

`Control` has the requests in flight, each with the token it was sent with and, once served, its answer;
answers arrive in any order. `SseSink` has the filters of the connected clients; a connection may be gone
before the server notices. `PushSink` has one driver (the engine's worker, or `verifySink`) and one
transport: `Post` appends to `requests`, each request is received at any later time or never, whole or
in part, and `DeliverSettles` or `TimesOut` is the end of the awaited one. `EngineRestarts` cuts the
batches anew behind the checkpoint. `Typegen` lists words instead of characters: a schema is a sequence
of blocks, its text a sequence of lines and a line a sequence of words. The parser (`Parsed`) reads the
text line by line as the code does, `Within` being the scan inside a block, and what it finds is compared
with what was declared (`Interfaces`, `Enums`).

### KafkaSink

`pc` follows `init()` (`ReadCheckpoint`, then `Connect`: in the code the checkpoint is read at
index.ts:102 and the producer connects at :114) and `deliver()`: filter, open a transaction, one send
per topic, the checkpoint record, commit, and in the catch block abort, re-read, reject. A batch is a
sequence of events, `handed`, of which the filter leaves `Fresh`; the checkpoint record is the last one
left, not the highest (index.ts:150, :160). The broker is
external: `txn` is the open transaction of the transactional id, `epoch` its producer epoch, `inFlight`
a commit request on the wire, `marks` what the checkpoint topic holds. A request may be lost before it
arrives (`CommitLost`), or arrive after its sender stopped waiting (`CommitFails` then `CommitArrives`);
the coordinator may time a transaction out (`TxnTimeout`). `eos = FALSE` is a second initial state.

The engine is seen through the batches it hands over (`Handed`). They leave no gap: what comes before an
event of a batch is in front of it or has been acknowledged, which is what `engine.ts` does with one
queue in order, and what `SinkEngine` has with one durable sink. (The lost events of finding 1 are
between the engine and the slot, and no matter of this sink.) What is left of a batch by the filter goes
up, unless `SecondCopies`: after a reconnect it may be `[2,3,2,3]` or `[3,4,2,3]`.

What the guarantee needs beyond that, an execution may lack: `may`, a variable that never changes after
`Init`, is the set of `Allowance`s it makes, and `Settings` the sets a run looks at. They are `"zombies"`, that
something of an earlier process is on its way when the next one starts; `"reuse"`, that kafkajs opens a
transaction after one it failed to end; `"second copies"`, that a batch holds an event twice; and
`"slow reads"`, that `readCheckpoint()` does not come to the end of the checkpoint topic and gives up by its
timers (index.ts:295, :301: `Seen` is then any record of the topic, or none). `OneCopyEach` is what the
docs say and fails with each of the four; `ExactlyOnce` is the same for `may = {}`; `NothingLost` and
`EverythingDelivered` are stated, and hold, whatever is allowed.

## 3. Runs

| Run | Bounds | Shows |
| --- | --- | --- |
| `EngineRestart` | 2 durable sinks, 3 changes in 2 transactions, queues of 2, batches of 2, 2 attempts, 2 process deaths, fairness | all safety properties of the engine, `KeepsPromise`: it implements `AtLeastOnce`, and `EverythingReleased` unless a sink stays paused |
| `EngineNoDurable` | 2 ephemeral sinks, a metadata event, 1 lost connection, 1 death, fairness | `EverythingReleased` when the pump itself acknowledges |
| `EngineControl` | 1 durable sink, queues of 1, batches of 2, 2 changes, 2 requests at once, refused updates, own writes published, 1 lost connection | pauses take effect, end with their resume, no write loop, and no loss across a reconnect |
| `EngineReconnectLoss` | 2 durable sinks, 4 transactions, 1 lost connection | **violated**: see finding 1 |
| `EngineLostResume` | 1 sink, 1 request | **violated**: finding 2 |
| `WalcastSessions` | 3 events of 2 interleaved transactions at positions 2, 1, 1, an empty transaction, other WAL; 2 frames in flight, 1 session end, fairness | safety and liveness of the library |
| `WalcastRepeatedLsn` | the same, raw positions acknowledged again | **violated**: finding 3 |
| `KafkaExactlyOnce` | 3 events over 2 topics, batches of 2, 2 faults, 2 starts, none or one of the allowances, fairness | exactly-once with transactions and no allowance; with any, nothing acknowledged is lost and delivery goes on, with transactions and without |
| `KafkaZombie` | 4 events, no faults, a zombie commit | **violated**: finding 4 |
| `KafkaReconnect` | 4 events, no faults, second copies in a batch | **violated**: finding 6 |
| `Components` | see below | the properties of the ten components of `MCComponents` |
| `StopWhileConnecting` | 1 durable and 1 ephemeral sink, a signal while a session is opened | **violated**: finding 5 |

*The run Components.* Its ten components share no variable, so their product has no behaviour worth
looking at that one of them alone does not have. `MCComponents` therefore lets a behaviour choose the
component it is of (`part`) and leaves the others in their first states: the reachable states are the
sum, not the product, and each property is about the states of one part. The bounds of a part:

| Part | Bounds | Properties |
| --- | --- | --- |
| shutdown | 1 durable and 1 ephemeral sink, queues of 1, 2 attempts, 2 events, 1 ended session, 1 refusal, 2 wal senders, 1 operator call | `NoUseAfterClose`, `NoLostWakeup`, `StopReturns`, `Reconnects` |
| queue | 6 events, frames of 0 to 2, reads of up to 2 frames, marks 2 and 3 | `NothingDropped`, `EventsBounded` |
| iteration | 3 calls of `changes()`, 2 of `stop()` | `StopFindsStream` |
| pgoutput | 2 tables, one with `REPLICA IDENTITY FULL`, 2 shapes with a key of another type in another place | `RowsAsWritten`, `PrefixRejected` |
| positions | base 2, halves of 2 digits, indexes to 4 (three digits): 16 positions, every pair in order | `OrderedAsDelivered` |
| setup | 2 daemons, 1 tool, 2 deaths, no teardown beside a setup | `SlotHasPublication`, `StartsServing` |
| control | 2 requests at once, 1 click, 1 change from elsewhere | `DashboardSettles` |
| sse | 2 viewers, 2 tables, 3 events, 2 connections, 2 kept | `TailHasNoGap` |
| push | 3 events, batches of 2, 3 requests, both drivers, three transports | `FirstsInOrder`, `AckedWasProcessed` |
| typegen | 2 blocks, 2 lines each of 6 fields with braces, quotes, comments, renames | `TypesAreHonest` |

*Why these bounds are enough to be interesting.* A queue and a batch of two let a worker hold a batch
while its queue holds another and the pump waits; three changes in transactions of two and one put the
slot inside a transaction, where redelivery goes back to its first change. Two process deaths let the
second hit the recovery from the first. Three changes at positions 2, 1, 1 are the smallest log in
which delivery order and position order differ, and in which one position belongs to two events
(`TRUNCATE a, b`). Two faults in the Kafka model are a lost commit response and a failed abort or
re-read of the same batch, two starts a crash in the middle of it; batches of two over three events and two topics overlap what was delivered
at either end. Three calls of `changes()` and two of `stop()` let an old iteration, a newer one and a late
`stop()` meet. With queues of one the pump waits as soon as a worker lingers, an ephemeral
sink drops, and a signal finds each task in each of its waits. Reads of two frames of two events cross the
event mark in the middle of a chunk. Two deaths let both daemons fail in the same setup. Two digits per
half and three per index give ids that differ in length in every part. The mutants confirm it: every property is refuted within the bounds of its
own run when the mistake paired with it is made.

`MaxCrashes`, `MaxDisconnects`, `MaxCalls`, `MaxInFlight`, `MaxEnds`, `MaxFaults`, `MaxStarts`, and the
constants whose declaration says `bound`, are bounds of the models, not of the code; the other constants are configuration. `HighWaterMark`
in `SinkEngine` is small where the code has 10 000. All runs but the Walcast ones set `CHECK_DEADLOCK FALSE`: an
engine that has delivered everything, or a process that is not restarted, has nothing to do. In
`Walcast` status updates and keepalives never end, and deadlock is checked.

*Fairness.* Weak fairness of a step says that a settled promise runs its continuation and that a timer
fires. It is assumed of the session, the pump, each worker, requests under way (`SinkEngine`); of the
walsender, the decode loop, a consumer that iterates and acknowledges what it was given last, and the
status timer (`Walcast`); of the sink's own steps, the start of the process, and the arrival of
requests that are not lost (`KafkaSink`); of connection attempts, the pump, each worker, a resume that
writes its row and the steps of `stop()` (`Shutdown`); of the statements of each process and of the
supervisor that starts a daemon again (`Setup`, where deaths are bounded); of the server, the answers, the
poll timer and the user who sits before the token gate (`Control`). `MCComponents` assumes the same of a
part, restricted to behaviours of that part, since nothing else moves in them. None is assumed of faults, operators, raw acknowledgements or
the success of a delivery: a sink that keeps failing ends up paused (engine.ts:300), and the liveness
property says so. `KafkaSink` assumes strong fairness of `Deliver` of a batch that ends beyond what is acknowledged: the
worker retries it until it resolves (engine.ts:286), while the model also lets any earlier batch come
again in between.

## 4. Findings

1. **A reconnect with work in flight loses events** (engine.ts:210, run `EngineReconnectLoss`). The
   skip branch sets `deliveredSeq` to the newest `seq` while copies of older events are still queued.
   With two durable sinks the minimum of `deliveredSeq` then passes events the slower one never got;
   the slot follows, and a process death loses them (only that: `ReleasedIsInHand`, section 5). engine.ts:159 says that reconnecting is "always
   safe". With a single durable sink TLC finds no loss (`EngineControl`),
   but `StrictCommitOrder` and `EverythingReleased` fail there after one reconnect (below).
2. **A resume can be lost** (engine.ts:300-302, run `EngineLostResume`). The worker sets `paused`,
   awaits the row update and only then registers its callback. A `resume()` in between finds no
   callback, answers `ok` and shows the sink running; the worker sleeps until the next resume. Pauses
   by the operator do not have this window (`OperatorResumeGoesOn`, in `EngineControl`).
3. **Acknowledging a raw position twice drops later work** (walcast.ts:261, run
   `WalcastRepeatedLsn`). Once everything up to the position is acknowledged, the front of
   `outstanding` is a later transaction, whose changes may lie below the position. The second ack
   removes them, and their commit record releases them unprocessed.
4. **The Kafka sink reads its checkpoint before it fences** (sink-kafka index.ts:102 and :114, run
   `KafkaZombie`). A commit of a suspended predecessor that lands in between is in the topic and not in
   the checkpoint the sink filters with, so the redelivered batch is committed a second time.
   Connecting the producer first would close the window: with the two steps swapped in the model, TLC
   finds no violation, zombies and two faults included.
5. **A signal that comes while the session is being opened is not a clean shutdown** (walcast.ts:130,
   run `StopWhileConnecting`). `walcast.stop()` finds no stream yet, and `changes()` adds its abort
   listener only once the stream has started, to a signal that has already fired. The session then runs
   on, and `stop()` waits at engine.ts:414 until the server ends it. docs/reference/cli.md:37 says of
   SIGINT and SIGTERM "both of which shut down cleanly". At any other moment `StopReturns` holds.
6. **A reconnect writes events twice into the topic** (sink-kafka index.ts:127, run `KafkaReconnect`). The
   filter of `deliver()` knows the checkpoint before the batch, not the events of the batch: of
   `[2,3,2,3]` both copies go into one transaction. With `[3,4,2,3]` the checkpoint goes back as well.
   No process dies and nothing fails but the replication connection. docs/guide/sinks/kafka.md:50:
   "Redelivery from the engine is therefore invisible in the topic".

Also seen while modelling, without a run of their own:

- *A second copy takes the position back* (engine.ts:313). Whether an event is skipped is decided before the
  wait for room in the queue (engine.ts:209, :213), so after a reconnect second copies queue behind first
  ones. When one is delivered after a later event was skipped, `deliveredSeq`, `ackedEventId` and the
  checkpoint go back to it, `maybeAck()` has nothing to acknowledge, and the slot of a database that is
  idle from then on stays behind for good: with one durable sink, a queue of two and one lost connection TLC
  refutes `EverythingReleased`.
- *A checkpoint read that ends early* (sink-kafka index.ts:301). `readCheckpoint()` resolves 2 s after a
  record, the last one or not, and 10 s after the group join without one. With a broker that stalls for
  longer the sink filters by an old checkpoint or none, and what is redelivered is written again: with
  `"slow reads"` TLC refutes `OneCopyEach`, without a fault. The comment at :279 names the hazard.
- *stop() does not end an iteration that is connecting* (walcast.ts:294). `this.stream` is null until the
  connection is up; `stop()` finds nothing, returns, and the iteration streams. walcast.ts:292: "Stop
  replication; the active changes() iteration ends." A stream that comes up while a `stop()` awaits an
  older one loses its field as well (walcast.ts:297), and no further `stop()` or `ack()` reaches it: that is the
  exception in `StopFindsStream`. An old generator that finds `stream` null, and a `stop()` that returns
  late, also clear `iterating` under a generator that is connecting, and a third `changes()` may then connect
  beside it (walcast.ts:234, :297).
- *A URL as a default* (typegen-prisma index.ts:76). Comments are cut off before strings are looked at:
  `@default("https://x")` loses its closing quote, the lines that follow are read as part of the string, and the
  next model disappears into this one. With such a field TLC refutes `TypesAreHonest`; `Fields6` has none.
- *A metadata event takes a position back* (engine.ts:199 has no comparison): one between user events that
  is redelivered after a process death takes the position of a sink that was ahead behind its checkpoint. With
  the log user, metadata, user and two sinks, `SkipsCheckpointed`, `PositionsAdvance` and
  `EverythingReleased` fail after one process death, which is why the logs of the runs have metadata last.

And smaller ones. With `"reuse"` TLC refutes `OneCopyEach`: after an ambiguous commit whose abort and
re-read fail too, only the refusal of kafkajs to begin another transaction prevents a second copy; the
comment at index.ts:185 relies on a dedupe that then has the old checkpoint. A producer in that state,
or one fenced by a transaction timeout, is never replaced: the sink fails until the process restarts,
which is the exception in `EverythingDelivered`. A paused ephemeral sink goes on taking from its queue
(engine.ts:329). `Walcast.pending` (walcast.ts:282, "Events yielded but not yet acked") also counts
events that are decoded and not yet yielded. A consumer that acknowledges raw positions of events only
never releases the commit record of the last transaction. With `Overlaps = TRUE` a teardown between the
two checks of a setup leaves a slot without its publication. Refused replications leave connections
behind (stream.ts:101): with as many refusals as wal senders `Reconnects` fails. serve.ts:121 runs on a
second signal of the other kind, and cuts the first shutdown short. `walcast setup` and `teardown` take
the slot's name from the command line only (cli.ts:75), not from the configuration the daemon uses.
`write()` of a slow tail client buffers without a bound (sink-sse index.ts:83), where
docs/guide/monitoring.md:70 says that every buffer is bounded. The type generator does not see the `?`
of an `Unsupported("..")?` column (typegen-prisma index.ts:108). docs/reference/event-schema.md:58
describes the old row by its key; the decoder hands out every column of a `K` tuple, the others as nulls
(decoder.ts:140). A failed append of the template's file sink may leave half a line
(templates/plugin/src/index.ts:79). The attempt count of the reconnect back-off is never reset
(engine.ts:162): after five failures every wait is the longest.

## 5. Proofs

TLAPS checks these for every value of the constants, under the named assumptions of the modules
(`ConfigAssumption` and `BudgetAssumption`; `WalAssumption` and `BoundAssumption`; `KafkaAssumption`;
`AsyncQueueAssumption`, `IterationAssumption`, `PgoutputAssumption`, `PositionsAssumption`, `PushSinkAssumption`,
`SseAssumption`, `SetupAssumption`, `ShutdownAssumption`, `TypegenAssumption`), which TLC evaluates in every run.

- `SinkEngineProofs!TypeCorrect`: `Spec => []TypeOK`. The type invariant is inductive as it stands
  because it contains the two facts that tie a worker to its program counter: it holds a batch exactly
  when it is not about to take one, and its resume callback is registered exactly when it sleeps. One
  lemma per action; `MaybeAckType` and `TypesGrow` (a metadata write lengthens the log under every
  typed position) are shared.
- `SinkEngineProofs!PauseHolds` and `ResumeWakes`: a worker looks at the status in the step that takes
  the batch or registers the callback, so no request fits between. The retries of a batch that is under way go on while its sink is paused, as
  in the code, and `PauseHolds` says nothing of them. (The failure path awaits
  `setStatus()` between the two, which is finding 2, and `ResumeWakes` does not speak of it.)
- `SlotIsSafe` and `CheckpointIsSafe`, `Spec => [](disconnects = 0 => ..)`, and
  `PromiseKept`, the refinement of `AtLeastOnce` for `MaxDisconnects = 0`. None of the properties is
  inductive: they speak of positions and of what was delivered, and what links the two is on its way.
  `SafeInv` follows it. Until a connection is lost the number of an event is its position less a constant,
  `Base` (`NumbersOK`); a durable sink has every user event the pump is past, or holds it in its batch or
  its queue, the batch before the queue and the queue in order (`LineOK`); and each position that stands
  for "all up to here" does so (`PositionsOK`). When a batch is done, everything below the head of
  the queue is delivered, so the end of the batch is such a position; what is skipped lies at or below
  one that the sink already has; the least position of all sinks is what `maybeAck()` releases, and what the
  library still has outstanding lies above it. After a reconnect `Base` changes under the copies that
  still wait: hence `disconnects = 0`. Process deaths, failures, pauses, metadata and
  every order of steps are covered. `WindowKept` (`BySeqIsWindow`) needs none of this and holds with
  reconnects.
- `SinkEngineReconnect`: `SlotIsSafeAcrossReconnects`, `CheckpointIsSafeAcrossReconnects` and
  `PromiseKeptAcrossReconnects`, the same three for any number of lost connections, under `OneDurable`:
  at most one sink is durable, beside any number of ephemeral ones. Neither is a line that holds copies of two
  sessions in order, nor do its numbers and positions differ by a constant; the invariant follows one
  event the sink misses (`MissingOK`). Nothing in batch or queue stands past it unless a copy of it stands
  before (`Awaited`), so whatever is delivered before it is delivered with every position still below it;
  no position has reached it, and the library still has it outstanding once it was received
  (`Unreleased`). A number that `bySeq` still knows is that of its own event (`NamesOK`), which is what a
  skip of redelivered events relies on. `OneDurable` cannot be dropped: with two durable sinks TLC finds
  the loss of finding 1.
- `SinkEngineReconnect!ReleasedIsInHand` and `CheckpointIsSafeUnlessDeathLoses`, for any number of durable
  sinks and lost connections: they bound finding 1. As long as the process dies only when the slot is
  past nothing that a durable sink misses (`DiesInTime`), an event that slot or session is past and a durable
  sink misses is in the batch or the queue of that sink, and no checkpoint passes an undelivered event. So a
  reconnect loses nothing by itself; what the code lacks is that the slot waits for what is in hand. The
  invariant (`DueInv`) keeps `Awaited` and `NamesOK` and gives up `Unreleased`: a missing event is in hand
  (`InHand`), or the slot still has it and every number `bySeq` knows up to the last one of the sink belongs
  to an event before it (`OnSlot`). The least number that `maybeAck()` takes is at most that last one (`SeqsOK`), so an
  event on the slot stays there (`AckSpares`).
- `SinkEngineOrder`: `DeliveredInOrder`, `CheckpointedIsSkipped`, `PositionsOnlyAdvance`, under `NoMeta`
  as well: what waits lies above the sink's position, in order (`OrderInv`). `NoMeta` is needed because
  a metadata event is compared with no position: redelivered after a restart, it takes the position of
  a sink that was ahead back (engine.ts:199).
- `SinkEngineOrder!MetaWritesAreAccounted`, with and without published metadata. The bound is not
  inductive, since a write comes later than what pays for it, and a resume takes back what a pause has
  paid with. `Balance` therefore counts on one side the writes with those still owed (`Owed`: a delivery
  that is not checkpointed, a request that has not written, a resume whose sleeper still sleeps), on the
  other what was brought (`Brought`: deliveries, sleepers whose row says so, two for each request); every
  step keeps it, one lemma per kind of step. That a delivery always brings something new is an invariant
  of its own (`NewOK`), which a reconnect or a restart breaks: hence the first life of the property.
- `WalcastProofs!NoUnackedRelease`: `~AcksAgain => (Spec => []NothingUnackedReleased)`, and
  `OutstandingStaysTail`. `NothingUnackedReleased` speaks of positions only and is not inductive. The
  invariant `WalcastInv` adds why positions can be trusted: every frame on the wire stands behind
  exactly the events its position covers (`StreamInv`), the walsender continues from the last of them
  (`ServerInv`), the pump knows which transaction it is in (`PumpInv`), every decoded event is
  outstanding or acknowledged and an outstanding one releases nothing beyond itself (`OutInv`), the
  outstanding events are a tail of the decoded ones (`OutstandingIsTail`), and what is reported is
  covered by what is acknowledged (`ReleaseInv`). A commit record may be confirmed when nothing is
  outstanding, because then everything decoded, and by `StreamInv` everything below the record, is
  acknowledged. The assumption `~AcksAgain` is finding 3: `PrefixStops` is the lemma that needs it.
  `DrainedAreReleased` is inductive next to `WalcastInv`: what leaves nothing outstanding is the ack of the
  last event decoded, which by `OutInv` then stands for its commit record, or a commit record that finds
  nothing outstanding and is reported itself.
- `SinkProofs!AckedIsWritten` and `KafkaTypes`, whatever `KafkaSink` is allowed: whatever
  batches of first and second copies come, whoever commits late and whatever the checkpoint read misses,
  an event that is acknowledged is in its topic. `WrittenInv` says that every event up to a record of the
  checkpoint topic has been written, that a record in an open transaction comes with what is missing below
  it, and that what the sink filters with was such a record: so what a filter drops is written, and
  `NoGap` does the rest. `acked` is the furthest position; that the engine's own may go back after a
  reconnect only makes it hand over more.
- `SinkProofs!ExactlyOnceIntoTopic`, with the allowances as the hypothesis of `ExactlyOnce`: findings 4 and 6 are
  what happens with `"zombies"` and with `"second copies"`. `OneCopyEach` says nothing of transactions
  that are still open, so it is not inductive. `OnceInv` centres on a *healthy* producer, one that may begin a
  transaction and is not fenced: it filters with exactly the checkpoint Kafka holds, and no commit is
  under way; no zombies, no reuse and no slow reads are what that takes. Hence what it writes is one
  record each of what lies between checkpoint and mark (no second copies), and a commit that can still
  take effect finds a complete transaction.
- `SinkProofs!FirstsStayInOrder` and `AckedIsProcessed`. A receiver may get any request, late and in part, so
  neither is inductive. `PushInv` says that what was handled for the first time is 1 to some h in order; that
  every batch under way starts no higher than h + 1 (`InReach`), so a late request repeats or continues
  what is there and leaves no gap; that an answer "ok" was only given by a receiver that has all of the
  batch, so the checkpoint may follow it; and which batches the harness counts on as delivered, so its
  verdict (`Judge`) is the right one. What the receiver's log and its first occurrences are is proved by
  `FirstsOf`, `FourFlatten`.
- `SinkProofs!TailStaysWhole`: what a viewer is owed, the events since it connected that its filter lets pass,
  is always the head of what is on its screen (`TailInv`). Filtering a batch and then appending is appending
  and then filtering (`PassingConcat`), and cutting the oldest off a list that grows at the other end keeps its head
  (`OntoGrows`).
- `SessionProofs!NothingIsDropped` and `BufferIsBounded`, for every pair of marks, frame size and read size.
  What the consumer was given, what it is being handed, what waits in the queue of events, in the frame in
  hand and in the queue of frames is one line of consecutive numbers; a push makes it longer at the end,
  and every other step moves an item along it. For the bound, a queue at its mark has paused the socket
  and no read happens while it is paused; frames read before are decoded one at a time, and the pump waits
  before the next read (`AsyncQueueInv`).
- `SessionProofs!StreamIsFound`, with any overlap of calls: for `StopReleases` one needs that every stream
  that is live while a `stop()` awaits came up meanwhile, since the one before it was stopped
  (`StopsTheLive`); for `Finished`, that a live stream of another call is neither the generator's own nor null.
- `SessionProofs!DecodesAsWritten` and `CutIsRejected`, for every set of tables, columns and texts. Both say
  something of the frame at the head of the wire, and what a frame decodes to depends on the cache.
  `PgoutputInv` has of each frame on its way that it is `Good` for the cache the decoder will have when it
  comes to it, and that after the last one that cache has the present shape of every table announced
  (`WireOK`); an alteration takes the table off the announced ones, so its next change brings the relation
  along. `Good` covers the whole frame and every cut of it. Both are one statement per message about a
  buffer that holds the frame as far as the buffer goes (`Holds`, `Comes`): every read yields what was
  written there or is an error, and the last one is within the buffer only if all of it is. `TupleRead` is
  the same for the columns of a row, one after the other, and needs that no table has two columns of one name.
- `SessionProofs!TextKeepsOrder`: the checkpoint is never above the newest event (`DeliveredInOrder`); the
  rest is arithmetic: the digits written of a number are its quotients by the powers of the base and read
  back as that number, a number below `Power(w)` has at most `w` digits, so a padded half compares as text as
  it does as a number, and the two halves together are the position.
- `DaemonProofs!ClosedIsUnused`, `WaitersWait`, `AbortWakes`, `ShutdownTypes`, with
  `StopsWhileConnecting` either way. `NoUseAfterClose` needs `OpenInv`: sinks and pool are open until
  `stop()` is past its `allSettled`, and from then on every worker has returned, which no step undoes.
  `NoLostWakeup` needs that whoever adds an item, takes one or closes wakes the waiter in the same step
  (one lemma per such step), and that the sink whose turn it is, `Min(targets)`, is one: the least
  element exists because `<` is well-founded on the naturals (`MinIsMember`). The types need `AttemptInv`,
  that a batch which may be delivered has attempts left. `GotoInv` is the lemma for all steps of a worker.
- `DaemonProofs!SlotDecodes`: a process between the publication and the slot of `ensureSetup()` relies on
  the publication, one between slot and publication of `teardown()` on the slot being gone; both are
  stable because setups and teardowns do not overlap (`PlacesInv`). That they do not is the hypothesis
  `~Overlaps`, which the code does not see to; setups may overlap with setups, and teardowns with teardowns.
- `TypegenProofs!TypesStayHonest`, for every set of names and fields and schemas of any length, under the
  hypothesis that no default has `//` in it (`Declared = Uncut`; section 4 has the other case). The
  invariant is small (`schema` is a sequence of `Blocks`); the work is the parser. A line of a block is
  `Quiet`: the scan is at the same depth behind it as before and never at 0 within it, because a brace stands
  in a line only between quotes, behind `//` that was cut off, or not at all. So a block that is looked for
  is taken with all its lines up to its own brace (`BlockTaken`), and the others are passed over since the
  third word of none of their lines is a brace (`BlockPassed`); `Positions` says where a block stands in the
  text, `BlocksFound` that no other is found. Of a line, `ContentLine` says what stands where, from which
  `FieldRead`, `ValueRead` and `TableRead` read what was declared. The loops that push a result for some of
  their items are compared turn by turn with those of the declaration (`PushedInStep`, `PaddedPushed`),
  without unfolding the fold itself more than once (`Flattening`). That a column has the type of its values
  (`ReadAsDelivered`) needs that no enum has the name of a scalar. The hypothesis that field types are
  scalars, enums or models of the schema is that of `TypesAreHonest`: Prisma accepts no other schema.

Induction. The library's induction theorems take an operator, which no installed prover can instantiate.
Where a proof needs induction over a number (digits, columns of a row, items of a batch) it uses a set
instead: `UpTo` says that a set with 0 in it, and with i whenever i - 1 is in it, contains 0
to n, because `<` is well-founded on the naturals. A function that is defined by recursion is unfolded by
exhibiting a function which satisfies its equation (`DataExists`, `PassExists`, `ReadExists`), since `CHOOSE` takes one.

Only model-checked, and why:

- `SlotHoldsUndelivered` and the refinement with several durable sinks where a connection is lost: finding 1
  refutes them, and `ReleasedIsInHand` says how far;
- the order of delivery and `SkipsCheckpointed` with metadata or lost connections: false in general (section
  4), and not claimed;
- every liveness property, `DashboardSettles` of `Control` among them: fairness and `ENABLED` are out of
  the prover's reach.

## 6. What is not modelled

Byte layouts and encodings (protocol, pgoutput widths, JSON, HTTP, protobuf, HMAC), the values of the
configuration, static files, logging, `stats()` counters and rates, how `generate()` prints types, pages
of the dashboard that only show what was fetched, bench, demo and integration tests: no state of their
own, or pure I/O. The lengths of waits (back-off, linger, status interval, heartbeat) are left out; that
they end is fairness. Memory is not modelled, so neither is a slow reader's socket buffer. A rejected
checkpoint write in a worker (engine.ts:323) ends the process as an unhandled rejection, which is `Crash`
at `pc = "ack"`. PostgreSQL is taken to keep `confirmed` from moving back (the model takes the maximum),
to stream a slot to one client, and to send a relation before its first change in a session.

## 7. Plan

Done: engine, library, Kafka sink, shutdown, session queues, decoder, setup, control plane, the other
sinks, and proofs about engine (reconnects with one durable sink and the count of its writes included),
library, session queues, decoder, positions, iterations, setup, shutdown, all the sinks and the type
generator. What would come next:

1. `SinkEngine` over the session of `AsyncQueue` and the receivers of `PushSink`, instead of its own
   `Receive` and `Deliver`: end to end from the row to the receiver.
2. Once finding 1 is fixed in the code: `SlotIsSafeAcrossReconnects` without `OneDurable`, from `DueInv`
   without its first alternative, `InHand`.
