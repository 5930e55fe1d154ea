------------------------------- MODULE KafkaSink -------------------------------
(***************************************************************************)
(* The Kafka sink (packages/sink-kafka): deliver() writes a batch and the   *)
(* checkpoint of the sink in one Kafka transaction, init() reads the        *)
(* checkpoint back, and redelivered events at or below it are filtered.     *)
(* With eos off it is a plain producer.                                     *)
(*                                                                          *)
(* The broker and kafkajs are external: a transaction belongs to the epoch  *)
(* of its producer, connecting with the same transactional id bumps the     *)
(* epoch and aborts what an earlier epoch left open, requests of an earlier *)
(* epoch are refused, and a request may arrive after its sender has given   *)
(* up on it or died.  Records count once their transaction has committed:   *)
(* that is what a read_committed consumer sees.                             *)
(*                                                                          *)
(* An event is its position in the order of event ids.  The engine is seen  *)
(* through what it hands to deliver(): batches that leave no gap (Handed).  *)
(***************************************************************************)
EXTENDS Naturals, Sequences, FiniteSets

CONSTANTS
    NumEvents,    \* events the engine delivers
    Topics,       \* Kafka topics,
    TopicOf,      \* and the one of each event
    BatchSize,    \* the engine's batch size
    Settings,     \* what the sink's surroundings may do (see Allowance)
    MaxFaults,    \* bound: requests and responses lost, transactions timed out
    MaxStarts     \* bound: starts of the process

Event == 1..NumEvents

\* What breaks an assumption of exactly-once, apart from losses and crashes:
\*   zombies        a commit request outlives the process that sent it, or a
\*                  suspended predecessor sends one, after the next start
\*   reuse          kafkajs begins a transaction after one it could not end
\*   second copies  a batch holds second copies that pass the filter
\*   slow reads     the reading of the checkpoint topic ends too early
Allowance == {"zombies", "reuse", "second copies", "slow reads"}

ASSUME KafkaAssumption ==
    /\ NumEvents \in Nat
    /\ TopicOf \in [Event -> Topics]
    /\ BatchSize \in Nat \ {0}
    /\ Settings \subseteq SUBSET Allowance
    /\ MaxFaults \in Nat /\ MaxStarts \in Nat

VARIABLES
    eos,           \* config.eos
    may,           \* which of the allowances this execution makes
    \* the broker
    copies,        \* visible copies of each event
    marks,         \* the event ids of the records in the checkpoint topic,
    ckpt,          \* and the one of the last, 0 for none
    epoch,         \* the current epoch of the transactional id
    txn,           \* its open transaction
    inFlight,      \* epoch of a commit request under way, 0 for none
    \* the sink
    pc,
    mine,          \* the epoch of its producer
    usable,        \* will producer.transaction() accept?
    checkpointId,  \* KafkaSink.checkpointId, 0 for null
    handed,        \* the batch being delivered
    last,          \* its last event that was not filtered
    todo,          \* topics of the batch not yet written
    \* the engine
    acked,         \* the furthest position it has recorded for this sink
    faults, starts

config == <<eos, may>>
broker == <<copies, marks, ckpt, epoch, txn, inFlight>>
sink   == <<pc, mine, usable, checkpointId, handed, last, todo>>
vars   == <<config, broker, sink, acked, faults, starts>>

Larger(a, b) == IF a < b THEN b ELSE a

Zombies      == "zombies" \in may
Reusable     == "reuse" \in may
SecondCopies == "second copies" \in may
SlowReads    == "slow reads" \in may

NoTxn == [open |-> FALSE, pending |-> [e \in Event |-> 0], mark |-> 0]

Lost == faults < MaxFaults /\ faults' = faults + 1

-----------------------------------------------------------------------------
(* init(). *)

\* Without zombies, what the last process sent is settled before the next one.
MayStart == starts < MaxStarts /\ (inFlight = 0 \/ Zombies)

\* readCheckpoint(): the last committed record of this sink.  It reads for 2 s
\* after each record and 10 s before the first: a broker slower than that
\* leaves it with an earlier record, or none.
Seen == {ckpt} \union (IF SlowReads THEN marks \union {0} ELSE {})

\* init() until the producer connects.
ReadCheckpoint ==
    /\ eos /\ pc = "down"
    /\ MayStart
    /\ starts' = starts + 1
    /\ checkpointId' \in Seen
    /\ pc' = "read"
    /\ UNCHANGED <<config, broker, mine, usable, handed, last, todo, acked,
                   faults>>

\* producer.connect(): the broker fences every earlier epoch.
Connect ==
    /\ pc = "read"
    /\ epoch' = epoch + 1
    /\ mine' = epoch + 1
    /\ txn' = NoTxn
    /\ usable' = TRUE
    /\ pc' = "idle"
    /\ UNCHANGED <<config, copies, marks, ckpt, inFlight, checkpointId, handed,
                   last, todo, acked, faults, starts>>

ConnectPlain ==
    /\ ~eos /\ pc = "down"
    /\ starts < MaxStarts
    /\ starts' = starts + 1
    /\ checkpointId' = 0
    /\ pc' = "idle"
    /\ UNCHANGED <<config, broker, mine, usable, handed, last, todo, acked,
                   faults>>

-----------------------------------------------------------------------------
(* deliver(). *)

MFresh(b) == {i \in DOMAIN b : b[i] >= checkpointId}

\* Redeliveries at or below the checkpoint are filtered.
Fresh(b) == {i \in DOMAIN b : b[i] > checkpointId}

MAfterFilter(b) ==
    IF Fresh(b) = {} THEN "idle" ELSE IF eos THEN "begin" ELSE "plain"

\* Nothing left: deliver() resolves at once.
AfterFilter(b) ==
    IF Fresh(b) = {} THEN "resolved" ELSE IF eos THEN "begin" ELSE "plain"

\* fresh[fresh.length - 1]
LastFresh(b) ==
    {b[i] : i \in {k \in Fresh(b) : \A j \in Fresh(b) : j <= k}}

\* What comes before an event of the batch is in front of it or has been
\* acknowledged: events are queued in order, and skipped when acknowledged.
NoGap(b) ==
    \A i \in DOMAIN b : \A e \in 1..b[i] - 1 :
        e <= acked \/ \E j \in 1..i - 1 : b[j] = e

\* What is left of the batch after the filter goes up.
Ascending(b) == \A i, j \in Fresh(b) : i < j => b[i] < b[j]

\* What the engine can hand over: from where it stands, from earlier after a
\* failure, a restart or a reconnect, and after a reconnect also the copies
\* that were queued before it in front of the second ones.
Handed ==
    {b \in UNION {[1..n -> Event] : n \in 1..BatchSize} :
        NoGap(b) /\ (Ascending(b) \/ SecondCopies)}

Deliver ==
    /\ pc = "idle"
    /\ \E b \in Handed :
          /\ handed' = b
          /\ last' \in (IF Fresh(b) = {} THEN {0} ELSE LastFresh(b))
          /\ todo' = {TopicOf[b[i]] : i \in Fresh(b)}
          /\ pc' = AfterFilter(b)
    /\ UNCHANGED <<config, broker, mine, usable, checkpointId, acked, faults,
                   starts>>

\* deliver() rejects before it has written anything: ensureTopic() or
\* openTransaction() gives up.
NotBegun ==
    /\ pc \in {"begin", "plain"}
    /\ Lost
    /\ pc' = "idle"
    /\ UNCHANGED <<config, broker, mine, usable, checkpointId, handed, last, todo,
                   acked, starts>>

Begin ==
    /\ pc = "begin"
    /\ pc' = IF usable THEN "send" ELSE "idle"
    /\ UNCHANGED <<config, broker, mine, usable, checkpointId, handed, last, todo,
                   acked, faults, starts>>

\* One more record for each item of the batch that goes to topic t.
Added(counts, t) ==
    [e \in Event |->
        counts[e] + IF TopicOf[e] = t
                    THEN Cardinality({i \in Fresh(handed) : handed[i] = e})
                    ELSE 0]

Fenced == mine # epoch

\* txn.send() of the records of one topic.
SendTopic ==
    /\ pc = "send" /\ ~Fenced
    /\ \E t \in todo :
          /\ txn' = [txn EXCEPT !.open = TRUE, !.pending = Added(@, t)]
          /\ todo' = todo \ {t}
    /\ UNCHANGED <<config, copies, marks, ckpt, epoch, inFlight, pc, mine, usable,
                   checkpointId, handed, last, acked, faults, starts>>

MCheckpointRecord == last + 1

CheckpointRecord == last

\* txn.send() of the checkpoint record, in the same transaction.
SendCheckpoint ==
    /\ pc = "send" /\ ~Fenced
    /\ todo = {}
    /\ txn' = [txn EXCEPT !.open = TRUE, !.mark = CheckpointRecord]
    /\ pc' = "ready"
    /\ UNCHANGED <<config, copies, marks, ckpt, epoch, inFlight, mine, usable,
                   checkpointId, handed, last, todo, acked, faults, starts>>

\* A send fails: refused, or lost before or behind the broker.
SendFails ==
    /\ pc = "send"
    /\ \/ Fenced /\ UNCHANGED <<txn, faults>>
       \/ Lost /\ txn' = txn
       \/ /\ ~Fenced /\ Lost
          /\ \E t \in todo :
                txn' = [txn EXCEPT !.open = TRUE, !.pending = Added(@, t)]
    /\ pc' = "abort"
    /\ UNCHANGED <<config, copies, marks, ckpt, epoch, inFlight, mine, usable,
                   checkpointId, handed, last, todo, acked, starts>>

\* txn.commit()
SendCommit ==
    /\ pc = "ready"
    /\ inFlight' = mine
    /\ pc' = "committing"
    /\ UNCHANGED <<config, copies, marks, ckpt, epoch, txn, mine, usable,
                   checkpointId, handed, last, todo, acked, faults, starts>>

\* The request arrives.  Its sender learns of it, if it still waits.
CommitArrives ==
    /\ inFlight # 0
    /\ IF inFlight = epoch /\ txn.open
       THEN /\ copies' = [e \in Event |-> copies[e] + txn.pending[e]]
            /\ marks' = marks \union ({txn.mark} \ {0})
            /\ ckpt' = IF txn.mark = 0 THEN ckpt ELSE txn.mark
            /\ txn' = NoTxn
       ELSE UNCHANGED <<copies, marks, ckpt, txn>>
    /\ pc' = IF pc = "committing" /\ inFlight = mine
             THEN IF inFlight = epoch /\ txn.open THEN "committed" ELSE "abort"
             ELSE pc
    /\ inFlight' = 0
    /\ UNCHANGED <<config, epoch, mine, usable, checkpointId, handed, last, todo,
                   acked, faults, starts>>

CommitLost ==
    /\ inFlight # 0 /\ Lost
    /\ inFlight' = 0
    /\ UNCHANGED <<config, copies, marks, ckpt, epoch, txn, sink, acked, starts>>

\* The response does not come in time: committed or not, nobody knows.
CommitFails ==
    /\ \/ pc = "committing" /\ inFlight = 0 /\ faults' = faults
       \/ pc \in {"committing", "committed"} /\ Lost
    /\ usable' = Reusable
    /\ pc' = "abort"
    /\ UNCHANGED <<config, broker, mine, checkpointId, handed, last, todo, acked,
                   starts>>

\* this.checkpointId = last.id
CommitReturns ==
    /\ pc = "committed"
    /\ checkpointId' = last
    /\ pc' = "resolved"
    /\ UNCHANGED <<config, broker, mine, usable, handed, last, todo, acked,
                   faults, starts>>

\* catch: txn.abort(), whose failure is ignored.
Abort ==
    /\ pc = "abort"
    /\ \/ /\ usable /\ ~Fenced /\ inFlight = 0
          /\ txn' = NoTxn
          /\ UNCHANGED <<usable, faults>>
       \/ /\ ~usable \/ Fenced
          /\ UNCHANGED <<txn, usable, faults>>
       \/ /\ Lost
          /\ usable' = Reusable
          /\ UNCHANGED txn
    /\ pc' = "reread"
    /\ UNCHANGED <<config, copies, marks, ckpt, epoch, inFlight, mine,
                   checkpointId, handed, last, todo, acked, starts>>

MRecovered(mark) == Larger(checkpointId, last)

\* If the commit has landed, the checkpoint says so.
Recovered(mark) == Larger(checkpointId, mark)

\* Then the checkpoint is read again, unless the broker cannot be reached,
\* and deliver() rejects.
Reread ==
    /\ pc = "reread"
    /\ \/ /\ \E mark \in Seen : checkpointId' = Recovered(mark)
          /\ faults' = faults
       \/ checkpointId' = checkpointId /\ Lost
    /\ pc' = "idle"
    /\ UNCHANGED <<config, broker, mine, usable, handed, last, todo, acked,
                   starts>>

\* eos off: producer.send() per topic, visible at once.
SendPlain ==
    /\ pc = "plain"
    /\ \E t \in todo :
          /\ copies' = Added(copies, t)
          /\ todo' = todo \ {t}
          /\ IF todo = {t}
             THEN pc' = "resolved" /\ checkpointId' = last
             ELSE UNCHANGED <<pc, checkpointId>>
    /\ UNCHANGED <<config, marks, ckpt, epoch, txn, inFlight, mine, usable,
                   handed, last, acked, faults, starts>>

\* It rejects although the records may have been written.
PlainFails ==
    /\ pc = "plain" /\ Lost
    /\ \E t \in todo : copies' = Added(copies, t)
    /\ pc' = "idle"
    /\ UNCHANGED <<config, marks, ckpt, epoch, txn, inFlight, mine, usable,
                   checkpointId, handed, last, todo, acked, starts>>

-----------------------------------------------------------------------------
(* The engine, the process and the broker. *)

\* deliver() has resolved and the engine records it.
EngineAcks ==
    /\ pc = "resolved"
    /\ acked' = Larger(acked, handed[Len(handed)])
    /\ pc' = "idle"
    /\ UNCHANGED <<config, broker, mine, usable, checkpointId, handed, last, todo,
                   faults, starts>>

\* The process dies, or is suspended and replaced: then the commit it was
\* about to send is under way as well.
Crash ==
    /\ pc # "down" /\ starts < MaxStarts
    /\ inFlight' \in {inFlight} \union
                     (IF Zombies /\ pc = "ready" THEN {mine} ELSE {})
    /\ pc' = "down"
    /\ mine' = 0 /\ usable' = FALSE /\ checkpointId' = 0
    /\ handed' = <<>> /\ last' = 0 /\ todo' = {}
    /\ UNCHANGED <<config, copies, marks, ckpt, epoch, txn, acked, faults,
                   starts>>

\* The coordinator gives up on an open transaction and fences its producer.
TxnTimeout ==
    /\ txn.open /\ Lost
    /\ txn' = NoTxn
    /\ epoch' = epoch + 1
    /\ UNCHANGED <<config, copies, marks, ckpt, inFlight, sink, acked, starts>>

Init ==
    /\ eos \in BOOLEAN /\ may \in Settings
    /\ copies = [e \in Event |-> 0] /\ marks = {} /\ ckpt = 0 /\ epoch = 0
    /\ txn = NoTxn /\ inFlight = 0
    /\ pc = "down" /\ mine = 0 /\ usable = FALSE /\ checkpointId = 0
    /\ handed = <<>> /\ last = 0 /\ todo = {}
    /\ acked = 0 /\ faults = 0 /\ starts = 0

Start == ReadCheckpoint \/ Connect \/ ConnectPlain
Transaction == SendTopic \/ SendCheckpoint \/ SendFails \/ SendCommit
               \/ CommitReturns \/ CommitFails \/ Abort \/ Reread

Next ==
    \/ Start \/ Deliver \/ NotBegun \/ Begin \/ Transaction
    \/ SendPlain \/ PlainFails \/ EngineAcks
    \/ CommitArrives \/ CommitLost \/ TxnTimeout \/ Crash

Spec == Init /\ [][Next]_vars

\* The engine offers what is next (a lost connection, after which it offers
\* the earlier again, does not come for ever), the sink and the broker go on.
Fairness ==
    /\ WF_vars(Start) /\ WF_vars(Begin) /\ WF_vars(Transaction)
    /\ WF_vars(SendPlain) /\ WF_vars(EngineAcks) /\ WF_vars(CommitArrives)
    /\ SF_vars(Deliver /\ handed'[Len(handed')] > acked)

FairSpec == Spec /\ Fairness

-----------------------------------------------------------------------------
TypeOK ==
    /\ eos \in BOOLEAN /\ may \in Settings
    /\ copies \in [Event -> Nat]
    /\ marks \subseteq Event
    /\ ckpt \in 0..NumEvents /\ checkpointId \in 0..NumEvents
    /\ acked \in 0..NumEvents
    /\ epoch \in Nat /\ mine \in 0..epoch /\ inFlight \in 0..epoch
    /\ txn \in [open : BOOLEAN, pending : [Event -> Nat], mark : 0..NumEvents]
    /\ pc \in {"down", "read", "idle", "begin", "send", "ready", "committing",
               "committed", "abort", "reread", "plain", "resolved"}
    /\ usable \in BOOLEAN
    /\ handed \in Seq(Event) /\ last \in 0..NumEvents
    /\ pc \in {"down", "read", "idle"} \/ handed # <<>>
    /\ todo \subseteq Topics
    /\ faults \in 0..MaxFaults /\ starts \in 0..MaxStarts

\* What the docs say: with transactions a consumer sees one copy of every event
\* up to the checkpoint and none beyond.  Two runs break it, with a predecessor
\* that is still alive and with a plain reconnect.
OneCopyEach ==
    eos => \A e \in Event : copies[e] = IF e <= ckpt THEN 1 ELSE 0

\* Exactly-once into the topic, where none of the allowances is made: whatever
\* crashes, is lost or is redelivered, no event is doubled, lost or too early.
ExactlyOnce == may = {} => OneCopyEach

\* What the engine records as delivered, and may release, is in Kafka, with
\* transactions and without.
NothingLost == \A e \in 1..acked : copies[e] > 0

\* Everything is delivered, unless a fault has left a producer that refuses to
\* go on, and nobody restarts the process: a transaction that could not be
\* ended, or a fenced epoch.
EverythingDelivered ==
    \/ <>(acked = NumEvents)
    \/ <>[](eos /\ pc \notin {"down", "read"} /\ (~usable \/ Fenced))
===============================================================================
