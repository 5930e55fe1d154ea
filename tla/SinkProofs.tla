------------------------------ MODULE SinkProofs -------------------------------
(***************************************************************************)
(* Proofs about the sinks.                                                 *)
(*                                                                         *)
(* KafkaSink, for any number of events, topics, faults and starts:         *)
(* nothing acknowledged is lost, with transactions and without, without an *)
(* assumption (WrittenInv); and exactly-once with transactions (OnceInv)   *)
(* where none of the allowances is made: nothing of an earlier process is  *)
(* under way at the next start, kafkajs begins no transaction after one    *)
(* that it could not end, the checkpoint is read to its end, and no batch  *)
(* holds second copies that pass the filter.                               *)
(*                                                                         *)
(* PushSink, for any number of events, batch size, number of requests and  *)
(* cut of the harness' batches: whatever the far end has processed is the  *)
(* events 1..h in order, and every batch that is or can be under way       *)
(* starts at h + 1 or before, so that processing it, or its start, leaves  *)
(* no gap (InReach, ProcessBatch).                                         *)
(*                                                                         *)
(* SseSink, for any viewers, tables and length of the inspector's list: a  *)
(* viewer is owed what its filter passes of the tail since it connected,   *)
(* and this list grows at its top as the tail does (OntoGrows).            *)
(*                                                                         *)
(* What a loop over a batch computes is shown by induction over the batch: *)
(* UpTo is the induction, and the function the loop stands for is replaced *)
(* by one that is written out (ProcessBatch, FirstsOf) or shown to exist   *)
(* (PassExists).                                                           *)
(***************************************************************************)
EXTENDS KafkaSink, PushSink, SseSink, FiniteSetTheorems,
        WellFoundedInduction, TLAPS

(***************************************************************************)
(* Kafka                                                                   *)
(***************************************************************************)
USE DEF config

LEMMA EventFacts ==
    /\ NumEvents \in Nat
    /\ \A e \in Event : e \in Nat /\ e # 0 /\ e <= NumEvents /\ e \in 0..NumEvents
    /\ \A n \in 0..NumEvents : n \in Nat /\ n <= NumEvents /\ (n # 0 => n \in Event)
    /\ TopicOf \in [Event -> Topics]
  <1>1. NumEvents \in Nat /\ TopicOf \in [Event -> Topics]
    BY KafkaAssumption
  <1>2. /\ \A e \in Event : e \in Nat /\ e # 0 /\ e <= NumEvents /\ e \in 0..NumEvents
        /\ \A n \in 0..NumEvents : n \in Nat /\ n <= NumEvents /\ (n # 0 => n \in Event)
    BY <1>1 DEF Event
  <1> QED BY <1>1, <1>2

LEMMA NoTxnType ==
    /\ NoTxn \in [open : BOOLEAN, pending : [Event -> Nat], mark : 0..NumEvents]
    /\ NoTxn.open = FALSE /\ NoTxn.mark = 0
    /\ \A e \in Event : NoTxn.pending[e] = 0
  <1>1. 0 \in 0..NumEvents
    BY EventFacts
  <1>2. [e \in Event |-> 0] \in [Event -> Nat]
    OBVIOUS
  <1> QED BY <1>1, <1>2 DEF NoTxn

LEMMA LostType == ASSUME TypeOK, Lost PROVE faults' \in 0..MaxFaults
  BY KafkaAssumption DEF TypeOK, Lost

\* A batch the engine hands over, and what is in it.
LEMMA HandedType ==
    ASSUME NEW b \in Handed
    PROVE  /\ b \in Seq(Event) /\ b # <<>> /\ NoGap(b)
           /\ Ascending(b) \/ SecondCopies
           /\ DOMAIN b = 1..Len(b) /\ Len(b) \in DOMAIN b
           /\ \A i \in DOMAIN b : b[i] \in Event /\ i \in Nat
  <1>1. PICK n \in 1..BatchSize : b \in [1..n -> Event]
    BY DEF Handed
  <1>2. n \in Nat /\ n # 0
    BY <1>1, KafkaAssumption
  <1>3. b \in Seq(Event) /\ Len(b) = n
    BY <1>1, <1>2
  <1> QED BY <1>1, <1>2, <1>3 DEF Handed

\* The batch being delivered.
LEMMA BatchType ==
    ASSUME TypeOK
    PROVE  /\ DOMAIN handed = 1..Len(handed) /\ Len(handed) \in Nat
           /\ \A i \in DOMAIN handed : handed[i] \in Event /\ i \in Nat
           /\ handed # <<>> => Len(handed) \in DOMAIN handed
           /\ \A i \in Fresh(handed) : i \in DOMAIN handed /\ checkpointId < handed[i]
           /\ \A i \in DOMAIN handed : i \notin Fresh(handed) => handed[i] <= checkpointId
           /\ checkpointId \in Nat
  <1>1. handed \in Seq(Event) /\ checkpointId \in Nat
    BY EventFacts DEF TypeOK
  <1>2. \A i \in DOMAIN handed : handed[i] \in Event /\ i \in Nat /\ handed[i] \in Nat
    BY <1>1, EventFacts
  <1> QED BY <1>1, <1>2 DEF Fresh

\* An event is in the batch, as one that the filter left.
InBatch(e) == \E i \in Fresh(handed) : handed[i] = e

LEMMA CountType ==
    ASSUME TypeOK, NEW e
    PROVE  /\ Cardinality({i \in Fresh(handed) : handed[i] = e}) \in Nat
           /\ InBatch(e) => Cardinality({i \in Fresh(handed) : handed[i] = e}) > 0
           /\ ~InBatch(e) => Cardinality({i \in Fresh(handed) : handed[i] = e}) = 0
           /\ InBatch(e) /\ Ascending(handed)
                 => Cardinality({i \in Fresh(handed) : handed[i] = e}) = 1
  <1> DEFINE S == {i \in Fresh(handed) : handed[i] = e}
  <1>1. S \in SUBSET (1..Len(handed)) /\ Len(handed) \in Nat
    BY BatchType
  <1>2. IsFiniteSet(1..Len(handed))
    BY <1>1, FS_Interval
  <1>3. IsFiniteSet(S)
    BY <1>1, <1>2, FS_Subset
  <1>4. Cardinality(S) \in Nat
    BY <1>3, FS_CardinalityType
  <1>5. InBatch(e) <=> S # {}
    BY DEF InBatch
  <1>6. Cardinality(S) = 0 <=> S = {}
    BY <1>3, FS_EmptySet
  <1>7. ASSUME InBatch(e), Ascending(handed) PROVE Cardinality(S) = 1
    <2>1. PICK i \in S : TRUE
      BY <1>5, <1>7
    <2>2. ASSUME NEW j \in S PROVE j = i
      <3>1. /\ i \in Nat /\ j \in Nat /\ handed[i] = e /\ handed[j] = e
            /\ i \in Fresh(handed) /\ j \in Fresh(handed) /\ e \in Nat
        BY <2>1, BatchType, EventFacts
      <3>2. ~(i < j) /\ ~(j < i)
        BY <1>7, <3>1 DEF Ascending
      <3> QED BY <3>1, <3>2
    <2>3. S = {i}
      BY <2>1, <2>2
    <2> QED BY <2>3, FS_Singleton
  <1> QED BY <1>4, <1>5, <1>6, <1>7

LEMMA AddedType ==
    ASSUME TypeOK, NEW counts \in [Event -> Nat], NEW t
    PROVE  /\ Added(counts, t) \in [Event -> Nat]
           /\ \A e \in Event :
                 /\ Added(counts, t)[e] >= counts[e]
                 /\ InBatch(e) /\ TopicOf[e] = t => Added(counts, t)[e] > 0
                 /\ ~(InBatch(e) /\ TopicOf[e] = t) => Added(counts, t)[e] = counts[e]
                 /\ Ascending(handed) /\ InBatch(e) /\ TopicOf[e] = t
                       => Added(counts, t)[e] = counts[e] + 1
  <1> DEFINE n(e) == Cardinality({i \in Fresh(handed) : handed[i] = e})
             more(e) == IF TopicOf[e] = t THEN n(e) ELSE 0
  <1>1. ASSUME NEW e \in Event PROVE more(e) \in Nat /\ counts[e] + more(e) \in Nat
    <2>1. n(e) \in Nat
      BY CountType
    <2> HIDE DEF n
    <2> QED BY <2>1
  <1>2. Added(counts, t) = [e \in Event |-> counts[e] + more(e)]
    BY DEF Added
  <1> HIDE DEF more
  <1>3. Added(counts, t) \in [Event -> Nat]
    BY <1>1, <1>2
  <1>4. ASSUME NEW e \in Event
        PROVE  /\ Added(counts, t)[e] >= counts[e]
               /\ InBatch(e) /\ TopicOf[e] = t => Added(counts, t)[e] > 0
               /\ ~(InBatch(e) /\ TopicOf[e] = t) => Added(counts, t)[e] = counts[e]
               /\ Ascending(handed) /\ InBatch(e) /\ TopicOf[e] = t
                     => Added(counts, t)[e] = counts[e] + 1
    <2>1. Added(counts, t)[e] = counts[e] + more(e)
      BY <1>2
    <2>2. /\ InBatch(e) /\ TopicOf[e] = t => more(e) > 0
          /\ ~(InBatch(e) /\ TopicOf[e] = t) => more(e) = 0
          /\ Ascending(handed) /\ InBatch(e) /\ TopicOf[e] = t => more(e) = 1
      BY CountType DEF more
    <2> QED BY <1>1, <2>1, <2>2
  <1> QED BY <1>3, <1>4

\* The last event of the filtered batch is one of it, and no item of the
\* batch comes after its place.
LEMMA LastType ==
    ASSUME TypeOK, last \in LastFresh(handed)
    PROVE  \E k \in Fresh(handed) :
              /\ handed[k] = last /\ \A j \in Fresh(handed) : j <= k
              /\ last \in Event /\ checkpointId < last /\ k \in DOMAIN handed
  BY BatchType DEF LastFresh

\* Everything before the last event has been acknowledged, or is at or below
\* the checkpoint, or is in the batch.
LEMMA BeforeLast ==
    ASSUME TypeOK, NoGap(handed), last \in LastFresh(handed), NEW e \in 1..last
    PROVE  e \in Event /\ (e <= acked \/ e <= checkpointId \/ InBatch(e))
  <1>1. PICK k \in Fresh(handed) :
              /\ handed[k] = last /\ \A j \in Fresh(handed) : j <= k
              /\ last \in Event /\ checkpointId < last /\ k \in DOMAIN handed
    BY LastType
  <1>2. e \in Event /\ e \in Nat /\ last \in Nat /\ e <= last
    BY <1>1, EventFacts DEF Event
  <1>3. CASE e = last
    BY <1>1, <1>2, <1>3 DEF InBatch
  <1>4. CASE e # last
    <2>1. e \in 1..handed[k] - 1
      BY <1>1, <1>2, <1>4
    <2>2. e <= acked \/ \E j \in 1..k - 1 : handed[j] = e
      BY <1>1, <2>1 DEF NoGap
    <2>3. ASSUME NEW j \in 1..k - 1, handed[j] = e
          PROVE  e <= checkpointId \/ InBatch(e)
      <3>1. j \in DOMAIN handed
        BY <1>1, BatchType
      <3> QED BY <2>3, <3>1, BatchType DEF InBatch
    <2> QED BY <1>2, <2>2, <2>3
  <1> QED BY <1>3, <1>4

-----------------------------------------------------------------------------
(* Type correctness. *)

LEMMA InitType == Init => TypeOK
  <1> SUFFICES ASSUME Init PROVE TypeOK
    OBVIOUS
  <1> USE EventFacts, NoTxnType
  <1>1. copies \in [Event -> Nat] /\ marks \subseteq Event
    BY DEF Init
  <1>2. txn \in [open : BOOLEAN, pending : [Event -> Nat], mark : 0..NumEvents]
    BY DEF Init
  <1>3. /\ ckpt \in 0..NumEvents /\ checkpointId \in 0..NumEvents
        /\ acked \in 0..NumEvents /\ last \in 0..NumEvents
        /\ faults \in 0..MaxFaults /\ starts \in 0..MaxStarts
        /\ epoch \in Nat /\ mine \in 0..epoch /\ inFlight \in 0..epoch
    BY KafkaAssumption DEF Init
  <1>4. /\ eos \in BOOLEAN /\ may \in Settings
        /\ usable \in BOOLEAN /\ todo \subseteq Topics
    BY DEF Init
  <1>6. handed \in Seq(Event)
    <2>1. handed = <<>>
      BY DEF Init
    <2> QED BY <2>1
  <1>5. pc = "down"
    BY DEF Init
  <1> QED BY <1>1, <1>2, <1>3, <1>4, <1>5, <1>6 DEF TypeOK

LEMMA SeenType == ASSUME TypeOK PROVE Seen \subseteq 0..NumEvents
  BY EventFacts DEF TypeOK, Seen

LEMMA TypeNext == ASSUME TypeOK, [Next]_vars PROVE TypeOK'
  <1> USE EventFacts, NoTxnType, KafkaAssumption
  <1>1. CASE Start
    <2>1. starts' \in 0..MaxStarts
      BY <1>1 DEF Start, ReadCheckpoint, MayStart, Connect, ConnectPlain, TypeOK
    <2>2. CASE ReadCheckpoint
      <3>1. checkpointId' \in 0..NumEvents
        BY <2>2, SeenType DEF ReadCheckpoint
      <3> QED BY <2>1, <2>2, <3>1 DEF ReadCheckpoint, TypeOK, broker
    <2>3. CASE Connect
      BY <2>1, <2>3 DEF Connect, TypeOK
    <2>4. CASE ConnectPlain
      BY <2>1, <2>4 DEF ConnectPlain, TypeOK, broker
    <2> QED BY <1>1, <2>2, <2>3, <2>4 DEF Start
  <1>2. CASE Deliver
    <2>1. PICK b \in Handed :
             /\ handed' = b
             /\ last' \in (IF Fresh(b) = {} THEN {0} ELSE LastFresh(b))
             /\ todo' = {TopicOf[b[i]] : i \in Fresh(b)}
             /\ pc' = AfterFilter(b)
      BY <1>2 DEF Deliver
    <2>2. /\ \A i \in Fresh(b) : b[i] \in Event
          /\ handed' \in Seq(Event) /\ handed' # <<>>
      BY <2>1, HandedType DEF Fresh
    <2>3. todo' \subseteq Topics
      BY <2>1, <2>2
    <2>4. pc' \in {"begin", "plain", "resolved"}
      BY <2>1 DEF AfterFilter
    <2>5. last' \in 0..NumEvents
      <3>1. LastFresh(b) \subseteq Event
        BY <2>2 DEF LastFresh
      <3> QED BY <2>1, <3>1
    <2> QED BY <1>2, <2>2, <2>3, <2>4, <2>5 DEF Deliver, TypeOK, broker
  <1>3. CASE NotBegun \/ Begin
    BY <1>3, LostType DEF NotBegun, Begin, TypeOK, broker
  <1>4. CASE Transaction
    <2>1. CASE SendTopic
      <3>1. PICK t \in todo : /\ txn' = [txn EXCEPT !.open = TRUE, !.pending = Added(@, t)]
                              /\ todo' = todo \ {t}
        BY <2>1 DEF SendTopic
      <3>2. Added(txn.pending, t) \in [Event -> Nat]
        BY AddedType DEF TypeOK
      <3> QED BY <2>1, <3>1, <3>2 DEF SendTopic, TypeOK
    <2>2. CASE SendCheckpoint
      BY <2>2 DEF SendCheckpoint, CheckpointRecord, TypeOK
    <2>3. CASE SendFails
      <3>1. txn' = txn \/ \E t \in todo :
                txn' = [txn EXCEPT !.open = TRUE, !.pending = Added(@, t)]
        BY <2>3 DEF SendFails
      <3>2. \A t \in todo : Added(txn.pending, t) \in [Event -> Nat]
        BY AddedType DEF TypeOK
      <3>3. txn' \in [open : BOOLEAN, pending : [Event -> Nat], mark : 0..NumEvents]
        <4>1. CASE txn' = txn
          BY <4>1 DEF TypeOK
        <4>2. ASSUME NEW t \in todo,
                     txn' = [txn EXCEPT !.open = TRUE, !.pending = Added(@, t)]
              PROVE  txn' \in [open : BOOLEAN, pending : [Event -> Nat],
                               mark : 0..NumEvents]
          BY <3>2, <4>2 DEF TypeOK
        <4> QED BY <3>1, <4>1, <4>2
      <3>4. faults' \in 0..MaxFaults
        BY <2>3, LostType DEF SendFails, TypeOK
      <3> QED BY <2>3, <3>3, <3>4 DEF SendFails, TypeOK
    <2>4. CASE SendCommit
      BY <2>4 DEF SendCommit, TypeOK
    <2>5. CASE CommitReturns
      BY <2>5 DEF CommitReturns, TypeOK, broker
    <2>6. CASE CommitFails
      BY <2>6, LostType DEF CommitFails, Reusable, TypeOK, broker
    <2>7. CASE Abort
      <3>1. /\ txn' = NoTxn \/ txn' = txn
            /\ faults' \in 0..MaxFaults
        BY <2>7, LostType DEF Abort, TypeOK
      <3>2. usable' \in BOOLEAN
        <4>1. usable' \in {usable, Reusable}
          BY <2>7 DEF Abort
        <4>2. usable \in BOOLEAN /\ Reusable \in BOOLEAN
          BY DEF Reusable, TypeOK
        <4> QED BY <4>1, <4>2
      <3> QED BY <2>7, <3>1, <3>2 DEF Abort, TypeOK
    <2>8. CASE Reread
      <3>1. checkpointId' \in 0..NumEvents
        BY <2>8, SeenType DEF Reread, Recovered, Larger, TypeOK
      <3> QED BY <2>8, <3>1, LostType DEF Reread, TypeOK, broker
    <2> QED BY <1>4, <2>1, <2>2, <2>3, <2>4, <2>5, <2>6, <2>7, <2>8 DEF Transaction
  <1>5. CASE SendPlain
    <2>1. PICK t \in todo : /\ copies' = Added(copies, t)
                            /\ todo' = todo \ {t}
      BY <1>5 DEF SendPlain
    <2>2. copies' \in [Event -> Nat]
      BY <2>1, AddedType DEF TypeOK
    <2>3. pc' \in {pc, "resolved"} /\ checkpointId' \in {checkpointId, last}
      BY <1>5 DEF SendPlain
    <2> QED BY <1>5, <2>1, <2>2, <2>3 DEF SendPlain, TypeOK
  <1>6. CASE PlainFails
    <2>1. copies' \in [Event -> Nat]
      <3>1. PICK t \in todo : copies' = Added(copies, t)
        BY <1>6 DEF PlainFails
      <3> QED BY <3>1, AddedType DEF TypeOK
    <2> QED BY <1>6, <2>1, LostType DEF PlainFails, TypeOK
  <1>7. CASE EngineAcks
    <2>1. handed[Len(handed)] \in 0..NumEvents
      BY <1>7, BatchType DEF EngineAcks, TypeOK
    <2> QED BY <1>7, <2>1 DEF EngineAcks, Larger, TypeOK, broker
  <1>8. CASE CommitArrives
    <2>1. /\ copies' \in [Event -> Nat] /\ ckpt' \in 0..NumEvents
          /\ txn' \in [open : BOOLEAN, pending : [Event -> Nat], mark : 0..NumEvents]
      BY <1>8 DEF CommitArrives, TypeOK
    <2>2. marks' \subseteq Event
      BY <1>8 DEF CommitArrives, TypeOK
    <2>3. pc' \in {pc, "committed", "abort"} /\ (pc' # pc => pc = "committing")
      BY <1>8 DEF CommitArrives
    <2> QED BY <1>8, <2>1, <2>2, <2>3 DEF CommitArrives, TypeOK
  <1>9. CASE CommitLost \/ TxnTimeout
    <2>1. CASE CommitLost
      BY <2>1, LostType DEF CommitLost, TypeOK, sink
    <2>2. CASE TxnTimeout
      <3>1. /\ txn' \in [open : BOOLEAN, pending : [Event -> Nat], mark : 0..NumEvents]
            /\ faults' \in 0..MaxFaults
        BY <2>2, LostType DEF TxnTimeout
      <3>2. epoch' \in Nat /\ mine' \in 0..epoch' /\ inFlight' \in 0..epoch'
        BY <2>2 DEF TxnTimeout, TypeOK, sink
      <3> QED BY <2>2, <3>1, <3>2 DEF TxnTimeout, TypeOK, sink
    <2> QED BY <1>9, <2>1, <2>2
  <1>10. CASE Crash
    <2>1. inFlight' \in 0..epoch
      BY <1>10 DEF Crash, TypeOK
    <2>2. /\ handed' \in Seq(Event) /\ last' \in 0..NumEvents
          /\ checkpointId' \in 0..NumEvents
          /\ todo' \subseteq Topics /\ usable' \in BOOLEAN
          /\ mine' \in 0..epoch
      <3>1. /\ handed' = <<>> /\ last' = 0 /\ checkpointId' = 0 /\ mine' = 0
            /\ todo' = {} /\ usable' = FALSE
        BY <1>10 DEF Crash
      <3>2. epoch \in Nat
        BY DEF TypeOK
      <3>3. mine' \in 0..epoch
        BY <3>1, <3>2
      <3>4. todo' \subseteq Topics /\ usable' \in BOOLEAN
        BY <3>1
      <3>5. /\ handed' \in Seq(Event) /\ last' \in 0..NumEvents
            /\ checkpointId' \in 0..NumEvents
        BY <3>1
      <3> QED BY <3>3, <3>4, <3>5
    <2> QED BY <1>10, <2>1, <2>2 DEF Crash, TypeOK
  <1>11. CASE UNCHANGED vars
    BY <1>11 DEF vars, broker, sink, TypeOK
  <1> QED BY <1>1, <1>2, <1>3, <1>4, <1>5, <1>6, <1>7, <1>8, <1>9, <1>10, <1>11 DEF Next

(* The sink's state and the broker's keep their types, the checkpoint of     *)
(* the sink and the position of the engine among them (index.ts), whatever   *)
(* zombies, reads that end early and second copies there are.                *)
THEOREM KafkaTypes == Spec => []TypeOK
  BY InitType, TypeNext, PTL DEF Spec

-----------------------------------------------------------------------------
(* What is acknowledged is written, whatever goes wrong: every position that *)
(* the sink or the engine may act upon, a record of the checkpoint topic     *)
(* among them, has everything up to it in Kafka (CoverInv), and a            *)
(* transaction with a mark brings it (OpenInv).                              *)

Covered(n) == \A e \in 1..n : copies[e] > 0

CoverInv ==
    /\ Covered(acked) /\ Covered(checkpointId) /\ Covered(ckpt)
    /\ \A m \in marks : Covered(m)

OpenInv == \A e \in 1..txn.mark : copies[e] > 0 \/ txn.pending[e] > 0

HandInv ==
    /\ NoGap(handed)
    /\ pc \in {"begin", "send", "ready", "committing", "committed", "plain"}
         => last \in LastFresh(handed)

FreshInv ==
    \A e \in Event : InBatch(e) =>
        /\ pc = "begin" => TopicOf[e] \in todo
        /\ pc = "send" /\ ~Fenced =>
              TopicOf[e] \in todo \/ copies[e] > 0 \/ txn.pending[e] > 0
        /\ pc \in {"ready", "committing"} /\ ~Fenced =>
              copies[e] > 0 \/ txn.pending[e] > 0
        /\ pc = "plain" => TopicOf[e] \in todo \/ copies[e] > 0
        /\ pc = "committed" => copies[e] > 0

DoneInv == pc = "resolved" => \A i \in DOMAIN handed : copies[handed[i]] > 0

WrittenInv == TypeOK /\ CoverInv /\ OpenInv /\ HandInv /\ FreshInv /\ DoneInv

\* Copies are never taken back, so what is covered stays it.
LEMMA StaysCovered ==
    ASSUME TypeOK, TypeOK', \A e \in Event : copies'[e] >= copies[e],
           NEW n \in 0..NumEvents, Covered(n)
    PROVE  \A e \in 1..n : e \in Event /\ copies[e] > 0 /\ copies'[e] > 0
  <1> TAKE e \in 1..n
  <1>1. e \in Event
    BY EventFacts DEF Event
  <1>2. copies[e] \in Nat /\ copies'[e] \in Nat /\ copies[e] > 0
    BY <1>1 DEF TypeOK, Covered
  <1> QED BY <1>1, <1>2

\* What the reading of the checkpoint topic may return is covered.
LEMMA SeenCovered ==
    ASSUME TypeOK, CoverInv, NEW m \in Seen PROVE Covered(m)
  <1>1. Covered(0)
    BY DEF Covered
  <1> QED BY <1>1 DEF CoverInv, Seen

\* The last event of a batch that is written is covered.
LEMMA LastCovered ==
    ASSUME TypeOK, CoverInv, HandInv, last \in LastFresh(handed),
           NEW e \in 1..last
    PROVE  e \in Event /\ (copies[e] > 0 \/ InBatch(e))
  <1>1. e \in Event /\ (e <= acked \/ e <= checkpointId \/ InBatch(e))
    BY BeforeLast DEF HandInv
  <1>2. e <= acked => e \in 1..acked
    BY <1>1, EventFacts DEF TypeOK
  <1>3. e <= checkpointId => e \in 1..checkpointId
    BY <1>1, EventFacts DEF TypeOK
  <1> QED BY <1>1, <1>2, <1>3 DEF CoverInv, Covered

\* Every event of a batch is filtered, and so covered, or was written.
LEMMA AllWritten ==
    ASSUME TypeOK, CoverInv, \A e \in Event : InBatch(e) => copies[e] > 0
    PROVE  \A i \in DOMAIN handed : copies[handed[i]] > 0
  <1> TAKE i \in DOMAIN handed
  <1>1. handed[i] \in Event /\ handed[i] \in Nat /\ handed[i] # 0
    BY BatchType, EventFacts
  <1>2. CASE i \in Fresh(handed)
    BY <1>1, <1>2 DEF InBatch
  <1>3. CASE i \notin Fresh(handed)
    <2>1. handed[i] \in 1..checkpointId
      BY <1>1, <1>3, BatchType
    <2> QED BY <2>1 DEF CoverInv, Covered
  <1> QED BY <1>2, <1>3

\* Without a change of the records and the positions only the phase matters.
LEMMA SameCover ==
    ASSUME WrittenInv, UNCHANGED <<copies, marks, ckpt, acked, checkpointId>>
    PROVE  CoverInv'
  BY DEF WrittenInv, CoverInv, Covered

LEMMA SameOpen ==
    ASSUME WrittenInv, UNCHANGED copies, txn' = txn \/ txn' = NoTxn
    PROVE  OpenInv'
  <1>1. CASE txn' = txn
    BY <1>1 DEF WrittenInv, OpenInv
  <1>2. CASE txn' = NoTxn
    BY <1>2, NoTxnType DEF OpenInv
  <1> QED BY <1>1, <1>2

LEMMA SameBatch ==
    ASSUME WrittenInv, UNCHANGED <<handed, checkpointId, last, acked>>,
           pc' \in {"begin", "send", "ready", "committing", "committed", "plain"}
             => pc \in {"begin", "send", "ready", "committing", "committed", "plain"}
    PROVE  /\ HandInv'
           /\ \A e : InBatch(e)' <=> InBatch(e)
  BY DEF WrittenInv, HandInv, NoGap, LastFresh, InBatch, Fresh

-----------------------------------------------------------------------------
LEMMA WrittenInit == Init => WrittenInv
  <1> SUFFICES ASSUME Init PROVE WrittenInv
    OBVIOUS
  <1>1. TypeOK
    BY InitType
  <1>2. CoverInv /\ OpenInv
    BY NoTxnType DEF Init, CoverInv, OpenInv, Covered
  <1>3. HandInv /\ FreshInv /\ DoneInv
    BY DEF Init, HandInv, NoGap, FreshInv, DoneInv
  <1> QED BY <1>1, <1>2, <1>3 DEF WrittenInv

\* init(), and a process that dies: no batch is under way.
LEMMA StartWritten ==
    ASSUME WrittenInv, TypeOK', Start \/ Crash PROVE WrittenInv'
  <1> USE EventFacts DEF WrittenInv
  <1>1. /\ UNCHANGED <<copies, marks, ckpt, acked>>
        /\ txn' = txn \/ txn' = NoTxn
        /\ handed' = handed \/ handed' = <<>>
        /\ pc' \in {"read", "idle", "down"}
    BY DEF Start, ReadCheckpoint, Connect, ConnectPlain, Crash, broker
  <1>2. checkpointId' \in Seen \union {0, checkpointId}
    BY DEF Start, ReadCheckpoint, Connect, ConnectPlain, Crash
  <1>3. CoverInv'
    <2>1. Covered(checkpointId')
      BY <1>2, SeenCovered DEF Covered, CoverInv
    <2> QED BY <1>1, <2>1 DEF CoverInv, Covered
  <1>4. OpenInv'
    BY <1>1, SameOpen
  <1>5. HandInv'
    BY <1>1 DEF HandInv, NoGap
  <1>6. FreshInv' /\ DoneInv'
    BY <1>1 DEF FreshInv, DoneInv
  <1> QED BY <1>3, <1>4, <1>5, <1>6

LEMMA DeliverWritten ==
    ASSUME WrittenInv, TypeOK', Deliver PROVE WrittenInv'
  <1> USE EventFacts DEF WrittenInv
  <1>1. PICK b \in Handed :
             /\ handed' = b
             /\ last' \in (IF Fresh(b) = {} THEN {0} ELSE LastFresh(b))
             /\ todo' = {TopicOf[b[i]] : i \in Fresh(b)}
             /\ pc' = AfterFilter(b)
    BY DEF Deliver
  <1>2. UNCHANGED <<copies, marks, ckpt, txn, acked, checkpointId>>
    BY DEF Deliver, broker
  <1>3. CoverInv' /\ OpenInv'
    BY <1>2, SameCover, SameOpen
  <1>4. HandInv'
    <2>1. NoGap(handed)'
      <3>1. NoGap(b)
        BY HandedType
      <3> QED BY <1>1, <1>2, <3>1 DEF NoGap
    <2>2. LastFresh(handed)' = LastFresh(b)
      BY <1>1, <1>2 DEF LastFresh, Fresh
    <2>3. pc' # "resolved" => last' \in LastFresh(b)
      BY <1>1 DEF AfterFilter
    <2> QED BY <2>1, <2>2, <2>3 DEF HandInv
  <1>5. FreshInv'
    <2>1. \A e \in Event : InBatch(e)' => TopicOf[e] \in todo'
      BY <1>1, <1>2 DEF InBatch, Fresh
    <2>2. pc' \in {"begin", "plain", "resolved"}
      BY <1>1 DEF AfterFilter
    <2> QED BY <2>1, <2>2 DEF FreshInv
  <1>6. DoneInv'
    <2> SUFFICES ASSUME pc' = "resolved", NEW i \in DOMAIN b PROVE copies[b[i]] > 0
      BY <1>1, <1>2 DEF DoneInv
    <2>1. Fresh(b) = {}
      BY <1>1 DEF AfterFilter
    <2>2. b[i] \in Event /\ b[i] \in Nat /\ checkpointId \in Nat
      BY HandedType DEF TypeOK
    <2>3. b[i] \in 1..checkpointId
      BY <2>1, <2>2 DEF Fresh
    <2> QED BY <2>3 DEF CoverInv, Covered
  <1> QED BY <1>3, <1>4, <1>5, <1>6

\* Steps that change the phase and nothing that counts.
LEMMA PhaseWritten ==
    ASSUME WrittenInv, TypeOK', NotBegun \/ Begin \/ SendCommit \/ CommitFails
    PROVE  WrittenInv'
  <1> USE EventFacts DEF WrittenInv
  <1>1. /\ UNCHANGED <<copies, marks, ckpt, txn, acked, checkpointId, handed,
                       last, todo, mine, epoch>>
        /\ \/ pc' \in {"idle", "abort"}
           \/ pc = "begin" /\ pc' = "send"
           \/ pc = "ready" /\ pc' = "committing"
    BY DEF NotBegun, Begin, SendCommit, CommitFails, broker
  <1>2. CoverInv' /\ OpenInv'
    BY <1>1, SameCover, SameOpen
  <1>3. HandInv' /\ \A e : InBatch(e)' <=> InBatch(e)
    BY <1>1, SameBatch
  <1>4. FreshInv'
    BY <1>1, <1>3 DEF FreshInv, Fenced
  <1>5. DoneInv'
    BY <1>1 DEF DoneInv
  <1> QED BY <1>2, <1>3, <1>4, <1>5

\* A topic is written, with the response or without it.
LEMMA SendTopicWritten ==
    ASSUME WrittenInv, TypeOK', SendTopic \/ SendFails PROVE WrittenInv'
  <1> USE EventFacts DEF WrittenInv
  <1>1. /\ UNCHANGED <<copies, marks, ckpt, acked, checkpointId, handed, last,
                       mine, epoch>>
        /\ pc = "send" /\ pc' \in {"send", "abort"}
        /\ pc' = "send" => SendTopic
    BY DEF SendTopic, SendFails
  <1>2. \/ txn' = txn
        \/ \E t \in todo : txn' = [txn EXCEPT !.open = TRUE, !.pending = Added(@, t)]
    BY DEF SendTopic, SendFails
  <1>3. /\ txn'.mark = txn.mark
        /\ \A e \in Event : /\ txn.pending[e] \in Nat /\ txn'.pending[e] \in Nat
                            /\ txn'.pending[e] >= txn.pending[e]
    <2>1. ASSUME NEW t \in todo,
                 txn' = [txn EXCEPT !.open = TRUE, !.pending = Added(@, t)]
          PROVE  /\ txn'.mark = txn.mark
                 /\ \A e \in Event : txn'.pending[e] >= txn.pending[e]
      <3>1. txn'.pending = Added(txn.pending, t) /\ txn'.mark = txn.mark
        BY <2>1 DEF TypeOK
      <3>2. txn.pending \in [Event -> Nat]
        BY DEF TypeOK
      <3> QED BY <3>1, <3>2, AddedType
    <2>2. \A e \in Event : txn.pending[e] \in Nat /\ txn'.pending[e] \in Nat
      <3>1. txn.pending \in [Event -> Nat]
        BY DEF TypeOK
      <3>2. txn'.pending \in [Event -> Nat]
        BY DEF TypeOK
      <3> QED BY <3>1, <3>2
    <2>3. CASE txn' = txn
      BY <2>2, <2>3
    <2> QED BY <1>2, <2>1, <2>2, <2>3
  <1>4. CoverInv'
    BY <1>1, SameCover
  <1>5. OpenInv'
    <2> SUFFICES ASSUME NEW e \in 1..txn.mark
                 PROVE  copies[e] > 0 \/ txn'.pending[e] > 0
      BY <1>1, <1>3 DEF OpenInv
    <2>1. e \in Event
      <3>1. txn.mark \in 0..NumEvents
        BY DEF TypeOK
      <3> QED BY <3>1 DEF Event
    <2> QED BY <1>3, <2>1 DEF OpenInv
  <1>6. HandInv' /\ \A e : InBatch(e)' <=> InBatch(e)
    BY <1>1, SameBatch
  <1>7. FreshInv'
    <2> SUFFICES ASSUME pc' = "send", ~Fenced, NEW e \in Event, InBatch(e)
                 PROVE  TopicOf[e] \in todo' \/ copies[e] > 0 \/ txn'.pending[e] > 0
      BY <1>1, <1>6 DEF FreshInv, Fenced
    <2>1. PICK t \in todo :
             /\ txn' = [txn EXCEPT !.open = TRUE, !.pending = Added(@, t)]
             /\ todo' = todo \ {t}
      BY <1>1 DEF SendTopic
    <2>2. txn'.pending = Added(txn.pending, t) /\ txn.pending \in [Event -> Nat]
      BY <2>1 DEF TypeOK
    <2>3. TopicOf[e] \in todo \/ copies[e] > 0 \/ txn.pending[e] > 0
      BY <1>1 DEF FreshInv
    <2>4. TopicOf[e] = t => txn'.pending[e] > 0
      BY <2>2, AddedType
    <2> QED BY <1>3, <2>1, <2>3, <2>4
  <1>8. DoneInv'
    BY <1>1 DEF DoneInv
  <1> QED BY <1>4, <1>5, <1>6, <1>7, <1>8

LEMMA SendCheckpointWritten ==
    ASSUME WrittenInv, TypeOK', SendCheckpoint PROVE WrittenInv'
  <1> USE EventFacts DEF WrittenInv
  <1>1. /\ UNCHANGED <<copies, marks, ckpt, acked, checkpointId, handed, last,
                       todo, mine, epoch>>
        /\ pc = "send" /\ pc' = "ready" /\ ~Fenced /\ todo = {}
        /\ txn'.mark = last /\ txn'.pending = txn.pending
    BY DEF SendCheckpoint, CheckpointRecord, TypeOK
  <1>2. \A e \in Event : InBatch(e) => copies[e] > 0 \/ txn.pending[e] > 0
    BY <1>1 DEF FreshInv
  <1>3. CoverInv'
    BY <1>1, SameCover
  <1>4. OpenInv'
    BY <1>1, <1>2, LastCovered DEF OpenInv, HandInv
  <1>5. HandInv' /\ \A e : InBatch(e)' <=> InBatch(e)
    BY <1>1, SameBatch
  <1>6. FreshInv' /\ DoneInv'
    BY <1>1, <1>2, <1>5 DEF FreshInv, DoneInv, Fenced
  <1> QED BY <1>3, <1>4, <1>5, <1>6

LEMMA CommitReturnsWritten ==
    ASSUME WrittenInv, TypeOK', CommitReturns PROVE WrittenInv'
  <1> USE EventFacts DEF WrittenInv
  <1>1. /\ UNCHANGED <<copies, marks, ckpt, txn, acked, handed, last>>
        /\ pc = "committed" /\ pc' = "resolved" /\ checkpointId' = last
    BY DEF CommitReturns, broker
  <1>2. \A e \in Event : InBatch(e) => copies[e] > 0
    BY <1>1 DEF FreshInv
  <1>3. CoverInv'
    <2>1. Covered(last)
      BY <1>1, <1>2, LastCovered DEF HandInv, Covered
    <2> QED BY <1>1, <2>1 DEF CoverInv, Covered
  <1>4. OpenInv'
    BY <1>1, SameOpen
  <1>5. HandInv' /\ FreshInv'
    BY <1>1 DEF HandInv, NoGap, FreshInv
  <1>6. DoneInv'
    BY <1>1, <1>2, AllWritten DEF DoneInv
  <1> QED BY <1>3, <1>4, <1>5, <1>6

LEMMA AbortWritten ==
    ASSUME WrittenInv, TypeOK', Abort \/ Reread PROVE WrittenInv'
  <1> USE EventFacts DEF WrittenInv
  <1>1. /\ UNCHANGED <<copies, marks, ckpt, acked, handed, last>>
        /\ txn' = txn \/ txn' = NoTxn
        /\ pc' \in {"reread", "idle"}
    BY DEF Abort, Reread, broker
  <1>2. CoverInv'
    <2>1. checkpointId' \in Seen \union {checkpointId}
      BY DEF Abort, Reread, Recovered, Larger
    <2>2. Covered(checkpointId')
      BY <2>1, SeenCovered DEF CoverInv
    <2> QED BY <1>1, <2>2 DEF CoverInv, Covered
  <1>3. OpenInv'
    BY <1>1, SameOpen
  <1>4. HandInv' /\ FreshInv' /\ DoneInv'
    BY <1>1 DEF HandInv, NoGap, FreshInv, DoneInv
  <1> QED BY <1>2, <1>3, <1>4

\* eos off: the records of a topic are visible at once.
LEMMA PlainWritten ==
    ASSUME WrittenInv, TypeOK', SendPlain \/ PlainFails PROVE WrittenInv'
  <1> USE EventFacts DEF WrittenInv
  <1>1. /\ UNCHANGED <<marks, ckpt, txn, acked, handed, last>>
        /\ pc = "plain"
        /\ \/ pc' = "idle" /\ checkpointId' = checkpointId
           \/ pc' = "plain" /\ checkpointId' = checkpointId /\ SendPlain
           \/ pc' = "resolved" /\ checkpointId' = last /\ SendPlain
    BY DEF SendPlain, PlainFails
  <1>2. PICK t \in todo :
           /\ copies' = Added(copies, t)
           /\ SendPlain => /\ todo' = todo \ {t}
                           /\ pc' = "resolved" <=> todo = {t}
    BY <1>1 DEF SendPlain, PlainFails
  <1>3. \A e \in Event : /\ copies[e] \in Nat /\ copies'[e] \in Nat
                         /\ copies'[e] >= copies[e]
                         /\ InBatch(e) /\ TopicOf[e] = t => copies'[e] > 0
    BY <1>2, AddedType DEF TypeOK
  <1>4. ASSUME NEW e \in Event, InBatch(e), SendPlain
        PROVE  copies'[e] > 0 \/ (TopicOf[e] \in todo' /\ pc' # "resolved")
    <2>1. TopicOf[e] \in todo \/ copies[e] > 0
      BY <1>1, <1>4 DEF FreshInv
    <2> QED BY <1>2, <1>3, <1>4, <2>1
  <1>5. CoverInv'
    <2>1. \A n \in 0..NumEvents : Covered(n) => \A e \in 1..n : copies'[e] > 0
      BY <1>3, StaysCovered
    <2>2. /\ \A e \in 1..acked : copies'[e] > 0
          /\ \A e \in 1..checkpointId : copies'[e] > 0
          /\ \A e \in 1..ckpt : copies'[e] > 0
          /\ \A m \in marks : \A e \in 1..m : copies'[e] > 0
      BY <2>1 DEF CoverInv, TypeOK
    <2>3. ASSUME pc' = "resolved", NEW e \in 1..last PROVE copies'[e] > 0
      <3>1. e \in Event /\ (copies[e] > 0 \/ InBatch(e))
        BY <1>1, LastCovered DEF HandInv
      <3> QED BY <1>1, <1>3, <1>4, <2>3, <3>1
    <2> QED BY <1>1, <2>2, <2>3 DEF CoverInv, Covered
  <1>6. OpenInv'
    <2> SUFFICES ASSUME NEW e \in 1..txn.mark
                 PROVE  copies'[e] > 0 \/ txn.pending[e] > 0
      BY <1>1 DEF OpenInv
    <2>1. e \in Event
      <3>1. txn.mark \in 0..NumEvents
        BY DEF TypeOK
      <3> QED BY <3>1 DEF Event
    <2> QED BY <1>3, <2>1 DEF OpenInv
  <1>7. HandInv'
    BY <1>1 DEF HandInv, NoGap, LastFresh, Fresh
  <1>8. FreshInv'
    <2> SUFFICES ASSUME pc' = "plain", NEW e \in Event, InBatch(e)'
                 PROVE  TopicOf[e] \in todo' \/ copies'[e] > 0
      BY <1>1 DEF FreshInv
    <2>1. InBatch(e)
      BY <1>1 DEF InBatch, Fresh
    <2> QED BY <1>1, <1>4, <2>1
  <1>9. DoneInv'
    <2> SUFFICES ASSUME pc' = "resolved", NEW i \in DOMAIN handed
                 PROVE  copies'[handed[i]] > 0
      BY <1>1 DEF DoneInv
    <2>1. handed[i] \in Event /\ handed[i] \in Nat /\ handed[i] # 0
      BY BatchType
    <2>2. CASE i \in Fresh(handed)
      BY <1>1, <1>4, <2>1, <2>2 DEF InBatch
    <2>3. CASE i \notin Fresh(handed)
      <3>1. handed[i] \in 1..checkpointId
        BY <2>1, <2>3, BatchType
      <3> QED BY <1>3, <2>1, <3>1 DEF CoverInv, Covered
    <2> QED BY <2>2, <2>3
  <1> QED BY <1>5, <1>6, <1>7, <1>8, <1>9

\* The engine records the last event of its batch: what comes before it was
\* acknowledged or is in the batch.
LEMMA EngineAcksWritten ==
    ASSUME WrittenInv, TypeOK', EngineAcks PROVE WrittenInv'
  <1> USE EventFacts DEF WrittenInv
  <1> DEFINE n == handed[Len(handed)]
  <1>1. /\ UNCHANGED <<copies, marks, ckpt, txn, checkpointId, handed, last>>
        /\ pc = "resolved" /\ pc' = "idle" /\ acked' = Larger(acked, n)
    BY DEF EngineAcks, broker
  <1>2. /\ Len(handed) \in DOMAIN handed /\ n \in Event /\ n \in Nat
        /\ DOMAIN handed = 1..Len(handed) /\ Len(handed) \in Nat
    BY <1>1, BatchType DEF TypeOK
  <1>3. ASSUME NEW e \in 1..n PROVE copies[e] > 0
    <2>1. e \in Nat /\ e # 0
      BY <1>2
    <2>2. CASE e = n
      BY <1>1, <1>2, <2>2 DEF DoneInv
    <2>3. CASE e # n
      <3>1. e \in 1..n - 1
        BY <1>2, <2>1, <2>3
      <3>2. e <= acked \/ \E j \in 1..Len(handed) - 1 : handed[j] = e
        BY <1>2, <3>1 DEF HandInv, NoGap
      <3>3. e <= acked => e \in 1..acked
        BY <2>1 DEF TypeOK
      <3>4. ASSUME NEW j \in 1..Len(handed) - 1, handed[j] = e PROVE copies[e] > 0
        BY <1>1, <1>2, <3>4 DEF DoneInv
      <3> QED BY <3>2, <3>3, <3>4 DEF CoverInv, Covered
    <2> QED BY <2>2, <2>3
  <1>4. CoverInv'
    BY <1>1, <1>3 DEF CoverInv, Covered, Larger
  <1>5. OpenInv'
    BY <1>1, SameOpen
  <1>6. HandInv'
    <2>1. acked \in Nat /\ acked' \in Nat /\ acked <= acked'
      BY <1>1, <1>2 DEF Larger, TypeOK
    <2>2. NoGap(handed)'
      <3> SUFFICES ASSUME NEW i \in DOMAIN handed, NEW e \in 1..handed[i] - 1
                   PROVE  e <= acked' \/ \E j \in 1..i - 1 : handed[j] = e
        BY <1>1 DEF NoGap
      <3>1. e <= acked \/ \E j \in 1..i - 1 : handed[j] = e
        BY DEF HandInv, NoGap
      <3>2. e \in Nat
        BY BatchType
      <3> QED BY <2>1, <3>1, <3>2
    <2> QED BY <1>1, <2>2 DEF HandInv
  <1>7. FreshInv' /\ DoneInv'
    BY <1>1 DEF FreshInv, DoneInv
  <1> QED BY <1>4, <1>5, <1>6, <1>7

\* A commit request arrives, whoever sent it.
LEMMA CommitArrivesWritten ==
    ASSUME WrittenInv, TypeOK', CommitArrives PROVE WrittenInv'
  <1> USE EventFacts DEF WrittenInv
  <1> DEFINE Lands == inFlight = epoch /\ txn.open
  <1>1. /\ UNCHANGED <<acked, checkpointId, handed, last, todo, mine, epoch>>
        /\ \/ pc' = pc \/ pc' = "abort"
           \/ pc = "committing" /\ pc' = "committed" /\ Lands /\ ~Fenced
    BY DEF CommitArrives, Fenced
  <1>2. CASE ~Lands
    <2>1. UNCHANGED <<copies, marks, ckpt, txn>> /\ (pc' = pc \/ pc' = "abort")
      BY <1>1, <1>2 DEF CommitArrives
    <2>2. CoverInv' /\ OpenInv'
      BY <1>1, <2>1, SameCover, SameOpen
    <2>3. HandInv' /\ \A e : InBatch(e)' <=> InBatch(e)
      BY <1>1, <2>1, SameBatch
    <2>4. FreshInv' /\ DoneInv'
      BY <1>1, <2>1, <2>3 DEF FreshInv, DoneInv, Fenced
    <2> QED BY <2>2, <2>3, <2>4
  <1>3. CASE Lands
    <2>1. /\ \A e \in Event : copies'[e] = copies[e] + txn.pending[e]
          /\ marks' = marks \union ({txn.mark} \ {0})
          /\ ckpt' = (IF txn.mark = 0 THEN ckpt ELSE txn.mark)
          /\ txn' = NoTxn
      BY <1>3 DEF CommitArrives
    <2>2. \A e \in Event : copies[e] \in Nat /\ txn.pending[e] \in Nat
      <3>1. copies \in [Event -> Nat] /\ txn.pending \in [Event -> Nat]
        BY DEF TypeOK
      <3> QED BY <3>1
    <2>3. \A e \in Event : /\ copies'[e] >= copies[e]
                           /\ copies[e] > 0 \/ txn.pending[e] > 0 => copies'[e] > 0
      BY <2>1, <2>2
    <2>4. \A e \in 1..txn.mark : copies'[e] > 0
      <3>1. txn.mark \in 0..NumEvents
        BY DEF TypeOK
      <3>2. \A e \in 1..txn.mark : e \in Event
        BY <3>1 DEF Event
      <3> QED BY <2>3, <3>2 DEF OpenInv
    <2>5. CoverInv'
      <3>1. \A n \in 0..NumEvents : Covered(n) => \A e \in 1..n : copies'[e] > 0
        BY <2>3, StaysCovered
      <3>2. /\ \A e \in 1..acked : copies'[e] > 0
            /\ \A e \in 1..checkpointId : copies'[e] > 0
            /\ \A e \in 1..ckpt : copies'[e] > 0
            /\ \A m \in marks : \A e \in 1..m : copies'[e] > 0
        BY <3>1 DEF CoverInv, TypeOK
      <3> QED BY <1>1, <2>1, <2>4, <3>2 DEF CoverInv, Covered
    <2>6. OpenInv'
      BY <2>1, NoTxnType DEF OpenInv
    <2>7. HandInv' /\ \A e : InBatch(e)' <=> InBatch(e)
      BY <1>1, SameBatch
    <2>8. FreshInv'
      BY <1>1, <2>3, <2>7 DEF FreshInv, Fenced
    <2>9. DoneInv'
      <3> SUFFICES ASSUME pc' = "resolved", NEW i \in DOMAIN handed
                   PROVE  copies'[handed[i]] > 0
        BY <1>1 DEF DoneInv
      <3>1. handed[i] \in Event
        BY BatchType
      <3> QED BY <1>1, <2>3, <3>1 DEF DoneInv
    <2> QED BY <2>5, <2>6, <2>7, <2>8, <2>9
  <1> QED BY <1>2, <1>3

\* A request is lost, or the coordinator gives up on the transaction.
LEMMA BrokerWritten ==
    ASSUME WrittenInv, TypeOK', CommitLost \/ TxnTimeout PROVE WrittenInv'
  <1> USE EventFacts DEF WrittenInv
  <1>1. /\ UNCHANGED <<copies, marks, ckpt, acked, checkpointId, handed, last,
                       todo, mine, pc>>
        /\ \/ UNCHANGED <<txn, epoch>>
           \/ txn' = NoTxn /\ epoch' = epoch + 1
    BY DEF CommitLost, TxnTimeout, sink
  <1>2. CoverInv' /\ OpenInv'
    BY <1>1, SameCover, SameOpen
  <1>3. HandInv' /\ \A e : InBatch(e)' <=> InBatch(e)
    BY <1>1, SameBatch
  <1>4. epoch' = epoch + 1 => Fenced'
    BY <1>1 DEF Fenced, TypeOK
  <1>5. FreshInv'
    <2>1. CASE UNCHANGED <<txn, epoch>>
      BY <1>1, <1>3, <2>1 DEF FreshInv, Fenced
    <2>2. CASE epoch' = epoch + 1
      BY <1>1, <1>3, <1>4, <2>2 DEF FreshInv
    <2> QED BY <1>1, <2>1, <2>2
  <1>6. DoneInv'
    BY <1>1 DEF DoneInv
  <1> QED BY <1>2, <1>3, <1>5, <1>6

LEMMA WrittenNext == ASSUME WrittenInv, [Next]_vars PROVE WrittenInv'
  <1>1. TypeOK'
    BY TypeNext DEF WrittenInv
  <1>2. CASE Start \/ Crash
    BY <1>1, <1>2, StartWritten
  <1>3. CASE Deliver
    BY <1>1, <1>3, DeliverWritten
  <1>4. CASE NotBegun \/ Begin
    BY <1>1, <1>4, PhaseWritten
  <1>5. CASE Transaction
    BY <1>1, <1>5, PhaseWritten, SendTopicWritten, SendCheckpointWritten,
       CommitReturnsWritten, AbortWritten DEF Transaction
  <1>6. CASE SendPlain \/ PlainFails \/ EngineAcks
    BY <1>1, <1>6, PlainWritten, EngineAcksWritten
  <1>7. CASE CommitArrives \/ CommitLost \/ TxnTimeout
    BY <1>1, <1>7, CommitArrivesWritten, BrokerWritten
  <1>8. CASE UNCHANGED vars
    BY <1>1, <1>8 DEF vars, broker, sink, WrittenInv, CoverInv, Covered, OpenInv,
       HandInv, NoGap, LastFresh, FreshInv, InBatch, Fresh, Fenced, DoneInv
  <1> QED BY <1>2, <1>3, <1>4, <1>5, <1>6, <1>7, <1>8 DEF Next

(* Every event the engine records as delivered is in its topic, with         *)
(* transactions and with eos off (index.ts, deliver()): whatever is lost or  *)
(* ambiguous, whoever commits late, however early the reading of the         *)
(* checkpoint ends and whatever second copies a batch holds.                 *)
THEOREM AckedIsWritten == Spec => []NothingLost
  <1>1. WrittenInv => NothingLost
    BY DEF WrittenInv, CoverInv, Covered, NothingLost
  <1>2. WrittenInv /\ [Next]_vars => WrittenInv'
    BY WrittenNext
  <1> QED BY WrittenInit, <1>1, <1>2, PTL DEF Spec

-----------------------------------------------------------------------------
(* Exactly-once: nothing of an earlier process is under way at a start,      *)
(* kafkajs begins no transaction after one that it could not end, the last   *)
(* checkpoint is read, and no batch holds an event twice.  The invariant is  *)
(* about a healthy producer, one that may still begin a transaction and that *)
(* no later epoch has fenced: what it filters with is what Kafka holds, no   *)
(* commit is under way, and the transaction it fills holds one record of     *)
(* each event between the checkpoint and the mark.                           *)

Healthy == eos /\ pc \notin {"down", "read"} /\ usable /\ ~Fenced

PhaseInv ==
    /\ eos => pc # "plain"
    /\ ~eos => /\ pc \in {"down", "idle", "plain", "resolved"}
               /\ inFlight = 0 /\ txn = NoTxn
    /\ pc \in {"send", "ready", "committing"} => usable
    /\ pc = "read" => inFlight = 0 /\ checkpointId = ckpt
    /\ pc = "committing" /\ inFlight # 0 => inFlight = mine
    /\ pc = "committed" => inFlight = 0 /\ txn = NoTxn /\ last = ckpt

PositionInv ==
    eos => /\ acked <= ckpt /\ checkpointId <= ckpt
           /\ pc # "down" => acked <= checkpointId
           /\ pc = "resolved" =>
                 \A i \in DOMAIN handed : handed[i] <= checkpointId

OrderInv ==
    pc \in {"begin", "send", "ready", "committing", "committed"}
      => Ascending(handed)

HealthyInv ==
    Healthy /\ pc \notin {"committing", "committed"} =>
        /\ checkpointId = ckpt /\ inFlight = 0
        /\ pc \notin {"send", "ready", "abort"} => txn = NoTxn

\* The records of a transaction with a mark, and of one being filled.
MarkInv ==
    txn.mark # 0 =>
        /\ txn.open /\ ckpt < txn.mark
        /\ \A e \in Event :
              txn.pending[e] = IF ckpt < e /\ e <= txn.mark THEN 1 ELSE 0

FillInv ==
    pc = "send" /\ ~Fenced =>
        /\ txn.mark = 0
        /\ \A e \in Event :
              txn.pending[e] = IF InBatch(e) /\ TopicOf[e] \notin todo
                               THEN 1 ELSE 0

CommitInv ==
    /\ inFlight # 0 /\ inFlight = epoch /\ txn.open => txn.mark # 0
    /\ pc \in {"ready", "committing"} /\ ~Fenced => txn.mark = last

OnceInv ==
    /\ PhaseInv /\ PositionInv /\ OrderInv /\ HealthyInv
    /\ MarkInv /\ FillInv /\ CommitInv /\ OneCopyEach

KafkaInv == WrittenInv /\ OnceInv

LEMMA OnceInit == Init => OnceInv
  <1> SUFFICES ASSUME Init PROVE OnceInv
    OBVIOUS
  <1>1. PhaseInv /\ PositionInv /\ OrderInv /\ HealthyInv
    BY DEF Init, PhaseInv, PositionInv, OrderInv, HealthyInv, Healthy
  <1>2. MarkInv /\ FillInv /\ CommitInv
    BY NoTxnType DEF Init, MarkInv, FillInv, CommitInv
  <1>3. OneCopyEach
    BY EventFacts DEF Init, OneCopyEach
  <1> QED BY <1>1, <1>2, <1>3 DEF OnceInv

\* Without second copies, and from a checkpoint that the engine has not
\* passed, the batch is every event from the checkpoint to its last.
LEMMA BatchIsInterval ==
    ASSUME TypeOK, HandInv, Ascending(handed), last \in LastFresh(handed),
           acked <= checkpointId
    PROVE  /\ \A e \in Event : InBatch(e) <=> checkpointId < e /\ e <= last
           /\ \A i \in DOMAIN handed : handed[i] <= last
           /\ checkpointId < last
  <1>1. PICK k \in Fresh(handed) :
              /\ handed[k] = last /\ \A j \in Fresh(handed) : j <= k
              /\ last \in Event /\ checkpointId < last /\ k \in DOMAIN handed
    BY LastType
  <1>2. ASSUME NEW i \in Fresh(handed)
        PROVE  handed[i] <= last /\ checkpointId < handed[i]
    <2>1. i \in Nat /\ k \in Nat /\ handed[i] \in Nat /\ last \in Nat /\ i <= k
      BY <1>1, BatchType, EventFacts
    <2> QED BY <1>1, <2>1, BatchType DEF Ascending
  <1>3. ASSUME NEW i \in DOMAIN handed PROVE handed[i] <= last
    BY <1>1, <1>2, BatchType, EventFacts
  <1>4. ASSUME NEW e \in Event, checkpointId < e, e <= last PROVE InBatch(e)
    <2>1. e \in 1..last /\ ~(e <= checkpointId) /\ ~(e <= acked)
      BY <1>1, <1>4, EventFacts DEF TypeOK
    <2> QED BY <2>1, BeforeLast DEF HandInv
  <1> QED BY <1>1, <1>2, <1>3, <1>4 DEF InBatch

\* A producer that is not fenced while it fills its transaction is healthy.
LEMMA Sending ==
    ASSUME KafkaInv, pc = "send" \/ pc = "ready", ~Fenced
    PROVE  /\ eos /\ usable /\ checkpointId = ckpt /\ inFlight = 0
           /\ Ascending(handed) /\ ckpt < last
           /\ \A e \in Event : InBatch(e) <=> ckpt < e /\ e <= last
           /\ pc = "send" => txn.mark = 0
  <1>1. eos /\ usable
    BY DEF KafkaInv, OnceInv, PhaseInv, WrittenInv, TypeOK
  <1>2. checkpointId = ckpt /\ inFlight = 0
    BY <1>1 DEF KafkaInv, OnceInv, HealthyInv, Healthy
  <1>3. Ascending(handed) /\ acked <= checkpointId /\ last \in LastFresh(handed)
    BY <1>1 DEF KafkaInv, OnceInv, PositionInv, OrderInv, WrittenInv, HandInv
  <1>4. TypeOK /\ HandInv
    BY DEF KafkaInv, WrittenInv
  <1>5. pc = "send" => txn.mark = 0
    BY DEF KafkaInv, OnceInv, FillInv
  <1> QED BY <1>1, <1>2, <1>3, <1>4, <1>5, BatchIsInterval

-----------------------------------------------------------------------------
LEMMA StartOnce ==
    ASSUME KafkaInv, TypeOK', may = {}, Start PROVE OnceInv'
  <1> USE EventFacts, NoTxnType DEF KafkaInv, WrittenInv, OnceInv
  <1>1. CASE ReadCheckpoint
    <2> USE <1>1 DEF ReadCheckpoint, MayStart, Seen, Zombies, SlowReads, broker
    <2>a. ckpt \in Nat /\ checkpointId' = ckpt
      BY DEF TypeOK
    <2>1. PhaseInv' /\ PositionInv' /\ OrderInv'
      BY <2>a DEF PhaseInv, PositionInv, OrderInv
    <2>2. HealthyInv' /\ MarkInv' /\ FillInv'
      BY DEF HealthyInv, Healthy, MarkInv, FillInv
    <2>3. CommitInv' /\ OneCopyEach'
      BY DEF CommitInv, OneCopyEach
    <2> QED BY <2>1, <2>2, <2>3
  <1>2. CASE Connect
    <2> USE <1>2 DEF Connect
    <2>1. PhaseInv' /\ PositionInv' /\ OrderInv'
      BY DEF PhaseInv, PositionInv, OrderInv
    <2>2. HealthyInv' /\ MarkInv' /\ FillInv'
      BY DEF HealthyInv, Healthy, PhaseInv, MarkInv, FillInv
    <2>3. CommitInv' /\ OneCopyEach'
      BY DEF CommitInv, OneCopyEach
    <2> QED BY <2>1, <2>2, <2>3
  <1>3. CASE ConnectPlain
    <2> USE <1>3 DEF ConnectPlain, broker
    <2>1. PhaseInv' /\ PositionInv' /\ OrderInv'
      BY DEF PhaseInv, PositionInv, OrderInv
    <2>2. HealthyInv' /\ MarkInv' /\ FillInv'
      BY DEF HealthyInv, Healthy, MarkInv, FillInv
    <2>3. CommitInv' /\ OneCopyEach'
      BY DEF CommitInv, OneCopyEach
    <2> QED BY <2>1, <2>2, <2>3
  <1> QED BY <1>1, <1>2, <1>3 DEF Start

LEMMA DeliverOnce ==
    ASSUME KafkaInv, TypeOK', may = {}, Deliver PROVE OnceInv'
  <1> USE EventFacts, NoTxnType DEF KafkaInv, WrittenInv, OnceInv
  <1>1. PICK b \in Handed :
             /\ handed' = b
             /\ last' \in (IF Fresh(b) = {} THEN {0} ELSE LastFresh(b))
             /\ todo' = {TopicOf[b[i]] : i \in Fresh(b)}
             /\ pc' = AfterFilter(b)
    BY DEF Deliver
  <1>2. /\ UNCHANGED <<eos, copies, marks, ckpt, epoch, txn, inFlight, mine,
                       usable, checkpointId, acked>>
        /\ pc = "idle"
    BY DEF Deliver, broker
  <1>3. /\ pc' \in {"begin", "plain", "resolved"}
        /\ eos => pc' # "plain"
        /\ ~eos => pc' \in {"plain", "resolved"}
        /\ pc' = "resolved" => Fresh(b) = {}
    BY <1>1 DEF AfterFilter
  <1>4. PhaseInv'
    BY <1>2, <1>3 DEF PhaseInv
  <1>5. PositionInv'
    <2>1. ASSUME Fresh(b) = {}, NEW i \in DOMAIN b PROVE b[i] <= checkpointId
      <3>1. b[i] \in Nat /\ checkpointId \in Nat
        BY HandedType DEF TypeOK
      <3> QED BY <2>1, <3>1 DEF Fresh
    <2> QED BY <1>1, <1>2, <1>3, <2>1 DEF PositionInv
  <1>6. OrderInv'
    <2>1. Ascending(b)
      BY HandedType DEF SecondCopies
    <2> QED BY <1>1, <1>2, <2>1 DEF OrderInv, Ascending, Fresh
  <1>7. HealthyInv'
    BY <1>2, <1>3 DEF HealthyInv, Healthy, Fenced
  <1>8. MarkInv' /\ FillInv' /\ CommitInv'
    BY <1>2, <1>3 DEF MarkInv, FillInv, CommitInv
  <1>9. OneCopyEach'
    BY <1>2 DEF OneCopyEach
  <1> QED BY <1>4, <1>5, <1>6, <1>7, <1>8, <1>9

LEMMA BeginOnce ==
    ASSUME KafkaInv, TypeOK', NotBegun \/ Begin PROVE OnceInv'
  <1> USE EventFacts, NoTxnType DEF KafkaInv, WrittenInv, OnceInv
  <1>1. /\ UNCHANGED <<eos, copies, marks, ckpt, epoch, txn, inFlight, mine,
                       usable, checkpointId, acked, handed, last, todo>>
        /\ \/ pc \in {"begin", "plain"} /\ pc' = "idle"
           \/ pc = "begin" /\ pc' = "send" /\ usable
    BY DEF NotBegun, Begin, broker
  <1>2. PhaseInv' /\ PositionInv'
    BY <1>1 DEF PhaseInv, PositionInv
  <1>3. OrderInv'
    BY <1>1 DEF OrderInv, Ascending, Fresh
  <1>4. HealthyInv'
    BY <1>1 DEF HealthyInv, Healthy, Fenced
  <1>5. MarkInv' /\ CommitInv'
    BY <1>1 DEF MarkInv, CommitInv, Fenced
  <1>6. FillInv'
    <2> SUFFICES ASSUME pc' = "send", ~Fenced
                 PROVE  /\ txn.mark = 0
                        /\ \A e \in Event : /\ txn.pending[e] = 0
                                            /\ InBatch(e) => TopicOf[e] \in todo
      BY <1>1 DEF FillInv, InBatch, Fresh, Fenced
    <2>1. txn = NoTxn
      BY <1>1 DEF HealthyInv, Healthy, PhaseInv
    <2>2. \A e \in Event : InBatch(e) => TopicOf[e] \in todo
      BY <1>1 DEF FreshInv
    <2> QED BY <2>1, <2>2
  <1>7. OneCopyEach'
    BY <1>1 DEF OneCopyEach
  <1> QED BY <1>2, <1>3, <1>4, <1>5, <1>6, <1>7

LEMMA SendTopicOnce ==
    ASSUME KafkaInv, TypeOK', SendTopic PROVE OnceInv'
  <1> USE EventFacts, NoTxnType DEF KafkaInv, WrittenInv, OnceInv
  <1>1. PICK t \in todo : /\ txn' = [txn EXCEPT !.open = TRUE, !.pending = Added(@, t)]
                          /\ todo' = todo \ {t}
    BY DEF SendTopic
  <1>2. /\ UNCHANGED <<eos, copies, marks, ckpt, epoch, inFlight, pc, mine,
                       usable, checkpointId, acked, handed, last>>
        /\ pc = "send" /\ ~Fenced
    BY DEF SendTopic
  <1>3. /\ txn.pending \in [Event -> Nat]
        /\ txn'.open = TRUE /\ txn'.mark = txn.mark
        /\ txn'.pending = Added(txn.pending, t)
    BY <1>1 DEF TypeOK
  <1>4. /\ eos /\ txn.mark = 0 /\ Ascending(handed) /\ inFlight = 0
    BY <1>2, Sending
  <1>5. PhaseInv' /\ PositionInv'
    BY <1>2, <1>4 DEF PhaseInv, PositionInv
  <1>6. OrderInv' /\ HealthyInv'
    BY <1>2 DEF OrderInv, Ascending, Fresh, HealthyInv, Healthy, Fenced
  <1>7. MarkInv' /\ CommitInv'
    BY <1>2, <1>3, <1>4 DEF MarkInv, CommitInv, Fenced
  <1>8. FillInv'
    <2>1. ASSUME NEW e \in Event
          PROVE  txn'.pending[e] = IF InBatch(e) /\ TopicOf[e] \notin todo'
                                   THEN 1 ELSE 0
      <3>1. txn.pending[e] = IF InBatch(e) /\ TopicOf[e] \notin todo
                             THEN 1 ELSE 0
        BY <1>2 DEF FillInv
      <3>2. txn'.pending[e] = IF InBatch(e) /\ TopicOf[e] = t
                              THEN txn.pending[e] + 1 ELSE txn.pending[e]
        BY <1>3, <1>4, AddedType
      <3> QED BY <1>1, <3>1, <3>2
    <2> QED BY <1>2, <1>3, <1>4, <2>1 DEF FillInv, InBatch, Fresh, Fenced
  <1>9. OneCopyEach'
    BY <1>2 DEF OneCopyEach
  <1> QED BY <1>5, <1>6, <1>7, <1>8, <1>9

LEMMA SendCheckpointOnce ==
    ASSUME KafkaInv, TypeOK', SendCheckpoint PROVE OnceInv'
  <1> USE EventFacts, NoTxnType DEF KafkaInv, WrittenInv, OnceInv
  <1>1. /\ UNCHANGED <<eos, copies, marks, ckpt, epoch, inFlight, mine,
                       usable, checkpointId, acked, handed, last, todo>>
        /\ pc = "send" /\ ~Fenced /\ todo = {} /\ pc' = "ready"
        /\ txn'.open = TRUE /\ txn'.mark = last /\ txn'.pending = txn.pending
    BY DEF SendCheckpoint, CheckpointRecord, TypeOK
  <1>2. /\ eos /\ Ascending(handed) /\ inFlight = 0 /\ ckpt < last
        /\ \A e \in Event : InBatch(e) <=> ckpt < e /\ e <= last
    BY <1>1, Sending
  <1>3. PhaseInv' /\ PositionInv'
    BY <1>1, <1>2 DEF PhaseInv, PositionInv
  <1>4. OrderInv' /\ HealthyInv'
    BY <1>1 DEF OrderInv, Ascending, Fresh, HealthyInv, Healthy, Fenced
  <1>5. MarkInv'
    <2>1. \A e \in Event : txn.pending[e] = IF InBatch(e) THEN 1 ELSE 0
      BY <1>1 DEF FillInv
    <2> QED BY <1>1, <1>2, <2>1 DEF MarkInv
  <1>6. FillInv' /\ CommitInv'
    BY <1>1, <1>2 DEF FillInv, CommitInv
  <1>7. OneCopyEach'
    BY <1>1 DEF OneCopyEach
  <1> QED BY <1>3, <1>4, <1>5, <1>6, <1>7

LEMMA SendFailsOnce ==
    ASSUME KafkaInv, TypeOK', SendFails PROVE OnceInv'
  <1> USE EventFacts, NoTxnType DEF KafkaInv, WrittenInv, OnceInv
  <1>1. /\ UNCHANGED <<eos, copies, marks, ckpt, epoch, inFlight, mine,
                       usable, checkpointId, acked, handed, last>>
        /\ pc = "send" /\ pc' = "abort"
    BY DEF SendFails
  <1>2. txn' # txn => ~Fenced /\ txn.mark = 0 /\ txn'.mark = 0 /\ txn'.open = TRUE
                      /\ inFlight = 0
    <2>1. ASSUME txn' # txn PROVE ~Fenced
      BY <2>1 DEF SendFails
    <2>2. ASSUME NEW t \in todo,
                 txn' = [txn EXCEPT !.open = TRUE, !.pending = Added(@, t)]
          PROVE  txn'.mark = txn.mark /\ txn'.open = TRUE
      BY <2>2 DEF TypeOK
    <2> QED BY <1>1, <2>1, <2>2, Sending DEF SendFails
  <1>3. PhaseInv' /\ PositionInv' /\ OrderInv'
    BY <1>1 DEF PhaseInv, PositionInv, OrderInv
  <1>4. HealthyInv'
    BY <1>1 DEF HealthyInv, Healthy, Fenced
  <1>5. MarkInv' /\ FillInv' /\ CommitInv'
    BY <1>1, <1>2 DEF MarkInv, FillInv, CommitInv
  <1>6. OneCopyEach'
    BY <1>1 DEF OneCopyEach
  <1> QED BY <1>3, <1>4, <1>5, <1>6

LEMMA SendCommitOnce ==
    ASSUME KafkaInv, TypeOK', SendCommit PROVE OnceInv'
  <1> USE EventFacts, NoTxnType DEF KafkaInv, WrittenInv, OnceInv
  <1>1. /\ UNCHANGED <<eos, copies, marks, ckpt, epoch, txn, mine,
                       usable, checkpointId, acked, handed, last, todo>>
        /\ pc = "ready" /\ pc' = "committing" /\ inFlight' = mine
    BY DEF SendCommit
  <1>2. PhaseInv' /\ PositionInv'
    BY <1>1 DEF PhaseInv, PositionInv
  <1>3. OrderInv' /\ HealthyInv'
    BY <1>1 DEF OrderInv, Ascending, Fresh, HealthyInv, Healthy, Fenced
  <1>4. MarkInv' /\ FillInv'
    BY <1>1 DEF MarkInv, FillInv
  <1>5. CommitInv'
    <2>1. CASE Fenced
      BY <1>1, <2>1 DEF CommitInv, Fenced
    <2>2. CASE ~Fenced
      <3>1. txn.mark = last /\ ckpt < last
        BY <1>1, <2>2, Sending DEF CommitInv
      <3>2. last # 0
        BY <3>1 DEF TypeOK
      <3> QED BY <1>1, <3>1, <3>2 DEF CommitInv, Fenced
    <2> QED BY <2>1, <2>2
  <1>6. OneCopyEach'
    BY <1>1 DEF OneCopyEach
  <1> QED BY <1>2, <1>3, <1>4, <1>5, <1>6

LEMMA CommitReturnsOnce ==
    ASSUME KafkaInv, TypeOK', CommitReturns PROVE OnceInv'
  <1> USE EventFacts, NoTxnType DEF KafkaInv, WrittenInv, OnceInv
  <1>1. /\ UNCHANGED <<eos, copies, marks, ckpt, epoch, txn, inFlight, mine,
                       usable, acked, handed, last, todo>>
        /\ pc = "committed" /\ pc' = "resolved" /\ checkpointId' = last
    BY DEF CommitReturns, broker
  <1>2. eos /\ inFlight = 0 /\ txn = NoTxn /\ last = ckpt
    BY <1>1 DEF PhaseInv
  <1>3. /\ \A i \in DOMAIN handed : handed[i] <= last
        /\ checkpointId < last
    <2>1. Ascending(handed) /\ acked <= checkpointId /\ last \in LastFresh(handed)
      BY <1>1, <1>2 DEF PositionInv, OrderInv, HandInv
    <2> QED BY <2>1, BatchIsInterval
  <1>4. PhaseInv' /\ PositionInv'
    BY <1>1, <1>2, <1>3 DEF PhaseInv, PositionInv, TypeOK
  <1>5. OrderInv' /\ HealthyInv'
    BY <1>1, <1>2 DEF OrderInv, HealthyInv
  <1>6. MarkInv' /\ FillInv' /\ CommitInv'
    BY <1>1, <1>2 DEF MarkInv, FillInv, CommitInv
  <1>7. OneCopyEach'
    BY <1>1 DEF OneCopyEach
  <1> QED BY <1>4, <1>5, <1>6, <1>7

\* A commit whose answer does not come, abort() and the checkpoint read again.
LEMMA AbortOnce ==
    ASSUME KafkaInv, TypeOK', may = {}, CommitFails \/ Abort \/ Reread
    PROVE  OnceInv'
  <1> USE EventFacts, NoTxnType DEF KafkaInv, WrittenInv, OnceInv
  <1>1. /\ UNCHANGED <<eos, copies, marks, ckpt, epoch, inFlight, mine, acked,
                       handed, last>>
        /\ pc \in {"committing", "committed", "abort", "reread"}
        /\ pc' \in {"abort", "reread", "idle"}
        /\ txn' = txn \/ txn' = NoTxn
        /\ checkpointId' \in {checkpointId, Larger(checkpointId, ckpt)}
        /\ checkpointId' = checkpointId \/ pc' = "idle"
    BY DEF CommitFails, Abort, Reread, Recovered, Seen, SlowReads, broker
  <1>2. eos
    BY <1>1 DEF PhaseInv
  <1>3. checkpointId' \in {checkpointId, ckpt}
    BY <1>1 DEF Larger
  <1>4. PhaseInv' /\ PositionInv' /\ OrderInv'
    <2>1. ckpt \in Nat
      BY DEF TypeOK
    <2>2. acked <= ckpt /\ checkpointId <= ckpt /\ acked <= checkpointId
      BY <1>1, <1>2 DEF PositionInv
    <2>3. PositionInv'
      BY <1>1, <1>3, <2>1, <2>2 DEF PositionInv
    <2> QED BY <1>1, <1>2, <2>3 DEF PhaseInv, OrderInv
  <1>5. HealthyInv'
    <2> SUFFICES ASSUME Healthy' PROVE /\ checkpointId' = ckpt /\ inFlight = 0
                                       /\ pc' # "abort" => txn' = NoTxn
      BY <1>1 DEF HealthyInv
    <2>1. usable /\ ~Fenced /\ pc \in {"abort", "reread"}
      BY <1>1 DEF CommitFails, Abort, Reread, Reusable, Healthy, Fenced
    <2>2. Healthy /\ checkpointId = ckpt /\ inFlight = 0
      BY <1>1, <1>2, <2>1 DEF HealthyInv, Healthy
    <2>3. pc' # "abort" => txn' = NoTxn
      BY <2>1, <2>2 DEF CommitFails, Abort, Reread, Reusable, HealthyInv,
         Healthy, broker
    <2> QED BY <1>3, <2>2, <2>3
  <1>6. MarkInv' /\ FillInv' /\ CommitInv'
    BY <1>1 DEF MarkInv, FillInv, CommitInv
  <1>7. OneCopyEach'
    BY <1>1 DEF OneCopyEach
  <1> QED BY <1>4, <1>5, <1>6, <1>7

\* With eos off there is nothing to keep but the phases.
LEMMA PlainOnce ==
    ASSUME KafkaInv, TypeOK', SendPlain \/ PlainFails PROVE OnceInv'
  <1> USE EventFacts, NoTxnType DEF KafkaInv, WrittenInv, OnceInv
  <1>1. /\ UNCHANGED <<eos, marks, ckpt, epoch, txn, inFlight, mine, usable,
                       acked, handed, last>>
        /\ pc = "plain" /\ pc' \in {"plain", "idle", "resolved"}
    BY DEF SendPlain, PlainFails
  <1>2. ~eos /\ inFlight = 0 /\ txn = NoTxn
    BY <1>1 DEF PhaseInv
  <1> QED BY <1>1, <1>2 DEF PhaseInv, PositionInv, OrderInv, HealthyInv, Healthy,
             MarkInv, FillInv, CommitInv, OneCopyEach

LEMMA EngineAcksOnce ==
    ASSUME KafkaInv, TypeOK', EngineAcks PROVE OnceInv'
  <1> USE EventFacts, NoTxnType DEF KafkaInv, WrittenInv, OnceInv
  <1>1. /\ UNCHANGED <<eos, copies, marks, ckpt, epoch, txn, inFlight, mine,
                       usable, checkpointId, handed, last, todo>>
        /\ pc = "resolved" /\ pc' = "idle"
        /\ acked' = Larger(acked, handed[Len(handed)])
    BY DEF EngineAcks, broker
  <1>2. PhaseInv'
    BY <1>1 DEF PhaseInv
  <1>3. PositionInv'
    <2>1. Len(handed) \in DOMAIN handed /\ handed[Len(handed)] \in Nat
      BY <1>1, BatchType DEF TypeOK
    <2>2. eos => acked' <= checkpointId
      BY <1>1, <2>1 DEF PositionInv, Larger, TypeOK
    <2> QED BY <1>1, <2>2 DEF PositionInv, TypeOK
  <1>4. OrderInv' /\ HealthyInv'
    BY <1>1 DEF OrderInv, HealthyInv, Healthy, Fenced
  <1>5. MarkInv' /\ FillInv' /\ CommitInv' /\ OneCopyEach'
    BY <1>1 DEF MarkInv, FillInv, CommitInv, OneCopyEach
  <1> QED BY <1>2, <1>3, <1>4, <1>5

LEMMA CommitArrivesOnce ==
    ASSUME KafkaInv, TypeOK', CommitArrives PROVE OnceInv'
  <1> USE EventFacts, NoTxnType DEF KafkaInv, WrittenInv, OnceInv
  <1> DEFINE Lands == inFlight = epoch /\ txn.open
  <1>a. eos /\ inFlight # 0
    BY DEF CommitArrives, PhaseInv
  <1>b. /\ pc \notin {"read", "committed"}
        /\ Healthy => pc = "committing" /\ inFlight = mine
    BY <1>a DEF PhaseInv, HealthyInv
  <1>c. /\ UNCHANGED <<eos, epoch, mine, usable, checkpointId, acked, handed,
                       last, todo>>
        /\ inFlight' = 0
    BY DEF CommitArrives
  <1>d. ASSUME Lands
        PROVE  /\ txn.mark # 0 /\ ckpt < txn.mark
               /\ ckpt' = txn.mark /\ txn' = NoTxn
               /\ \A e \in Event : copies'[e] = copies[e] + txn.pending[e]
               /\ \A e \in Event :
                     txn.pending[e] = IF ckpt < e /\ e <= txn.mark THEN 1 ELSE 0
    <2>1. txn.mark # 0
      BY <1>a, <1>d DEF CommitInv
    <2> QED BY <1>d, <2>1 DEF MarkInv, CommitArrives
  <1>e. ~Lands => copies' = copies /\ ckpt' = ckpt /\ txn' = txn
    BY DEF CommitArrives
  <1>f. ckpt' >= ckpt /\ ckpt' \in Nat /\ ckpt \in Nat
    <2>1. ckpt \in Nat /\ ckpt' \in Nat
      BY DEF TypeOK
    <2>2. txn.mark \in Nat
      BY DEF TypeOK
    <2> QED BY <1>d, <1>e, <2>1, <2>2
  <1>g. \/ pc' = pc /\ pc # "committing"
        \/ pc' = pc /\ pc = "committing" /\ inFlight # mine
        \/ pc = "committing" /\ pc' = "committed" /\ Lands /\ inFlight = mine
        \/ pc = "committing" /\ pc' = "abort" /\ ~Lands /\ inFlight = mine
    BY DEF CommitArrives
  <1>h. pc' = "committed" => ckpt' = last
    <2> SUFFICES ASSUME pc' = "committed" PROVE ckpt' = last
      OBVIOUS
    <2>1. pc = "committing" /\ Lands /\ inFlight = mine
      BY <1>b, <1>g
    <2>2. txn.mark = last
      BY <2>1 DEF CommitInv, Fenced
    <2> QED BY <1>d, <2>1, <2>2
  <1>i. pc' = "abort" /\ Healthy' => FALSE
    <2> SUFFICES ASSUME pc' = "abort", Healthy' PROVE FALSE
      OBVIOUS
    <2>1. Healthy
      BY <1>a, <1>c, <1>g DEF Healthy, Fenced
    <2>2. pc = "committing" /\ ~Lands /\ inFlight = mine /\ mine = epoch
      BY <1>b, <1>g, <2>1 DEF Healthy, Fenced
    <2>3. txn.mark = last
      BY <2>2 DEF CommitInv, Fenced
    <2>4. last # 0
      BY <2>2, LastType DEF HandInv
    <2> QED BY <2>2, <2>3, <2>4 DEF MarkInv
  <1>1. PhaseInv'
    BY <1>a, <1>b, <1>c, <1>d, <1>g, <1>h DEF PhaseInv
  <1>2. PositionInv'
    <2>1. acked <= ckpt' /\ checkpointId <= ckpt'
      <3>1. acked \in Nat /\ checkpointId \in Nat
        BY DEF TypeOK
      <3> QED BY <1>a, <1>f, <3>1 DEF PositionInv
    <2>2. pc' # "down" => pc # "down"
      BY <1>g
    <2>3. pc' = "resolved" => pc = "resolved"
      BY <1>g
    <2> QED BY <1>a, <1>c, <2>1, <2>2, <2>3 DEF PositionInv
  <1>3. OrderInv'
    <2>1. pc' \in {"begin", "send", "ready", "committing", "committed"}
            => pc \in {"begin", "send", "ready", "committing", "committed"}
      BY <1>g
    <2> QED BY <1>c, <2>1 DEF OrderInv, Ascending, Fresh
  <1>4. HealthyInv'
    <2>1. Healthy' => Healthy
      BY <1>a, <1>b, <1>c, <1>g DEF Healthy, Fenced
    <2>2. Healthy' => pc' \in {"committing", "committed"}
      BY <1>b, <1>g, <1>i, <2>1
    <2> QED BY <2>2 DEF HealthyInv
  <1>5. MarkInv'
    BY <1>d, <1>e DEF MarkInv
  <1>6. FillInv'
    <2>1. pc' = "send" => Fenced
      BY <1>a, <1>b, <1>g DEF PhaseInv, Healthy
    <2> QED BY <1>c, <2>1 DEF FillInv, Fenced
  <1>7. CommitInv'
    <2>1. pc' \in {"ready", "committing"} => Fenced
      BY <1>a, <1>b, <1>g DEF PhaseInv, Healthy
    <2> QED BY <1>c, <2>1 DEF CommitInv, Fenced
  <1>8. OneCopyEach'
    <2>1. CASE Lands
      <3>1. ASSUME NEW e \in Event
            PROVE  copies'[e] = IF e <= ckpt' THEN 1 ELSE 0
        <4>1. copies[e] = IF e <= ckpt THEN 1 ELSE 0
          BY <1>a DEF OneCopyEach
        <4>2. copies'[e] = copies[e] + txn.pending[e]
          BY <1>d, <2>1
        <4>3. txn.pending[e] = IF ckpt < e /\ e <= txn.mark THEN 1 ELSE 0
          BY <1>d, <2>1
        <4>4. ckpt' = txn.mark /\ ckpt < txn.mark
          BY <1>d, <2>1
        <4>5. e \in Nat /\ ckpt \in Nat /\ txn.mark \in Nat
          BY DEF TypeOK
        <4> QED BY <4>1, <4>2, <4>3, <4>4, <4>5
      <3> QED BY <3>1 DEF OneCopyEach
    <2>2. CASE ~Lands
      BY <1>c, <1>e, <2>2 DEF OneCopyEach
    <2> QED BY <2>1, <2>2
  <1> QED BY <1>1, <1>2, <1>3, <1>4, <1>5, <1>6, <1>7, <1>8

\* A request is lost, a transaction times out, the process dies.
LEMMA FaultOnce ==
    ASSUME KafkaInv, TypeOK', may = {}, CommitLost \/ TxnTimeout \/ Crash
    PROVE  OnceInv'
  <1> USE EventFacts, NoTxnType DEF KafkaInv, WrittenInv, OnceInv
  <1>1. CASE CommitLost
    <2> USE <1>1 DEF CommitLost, sink
    <2>1. PhaseInv' /\ PositionInv'
      BY DEF PhaseInv, PositionInv
    <2>2. OrderInv' /\ HealthyInv'
      BY DEF OrderInv, Ascending, Fresh, HealthyInv, Healthy, Fenced
    <2>3. MarkInv' /\ FillInv'
      BY DEF MarkInv, FillInv, InBatch, Fresh, Fenced
    <2>4. CommitInv' /\ OneCopyEach'
      BY DEF CommitInv, OneCopyEach, Fenced
    <2> QED BY <2>1, <2>2, <2>3, <2>4
  <1>2. CASE TxnTimeout
    <2> USE <1>2 DEF TxnTimeout, sink
    <2>1. Fenced'
      BY DEF Fenced, TypeOK
    <2>2. PhaseInv' /\ PositionInv'
      BY DEF PhaseInv, PositionInv
    <2>3. OrderInv' /\ HealthyInv'
      BY <2>1 DEF OrderInv, Ascending, Fresh, HealthyInv, Healthy
    <2>4. MarkInv' /\ FillInv' /\ CommitInv'
      BY <2>1 DEF MarkInv, FillInv, CommitInv
    <2>5. OneCopyEach'
      BY DEF OneCopyEach
    <2> QED BY <2>2, <2>3, <2>4, <2>5
  <1>3. CASE Crash
    <2> USE <1>3 DEF Crash, Zombies
    <2>1. PhaseInv' /\ PositionInv'
      BY DEF PhaseInv, PositionInv, TypeOK
    <2>2. OrderInv' /\ HealthyInv'
      BY DEF OrderInv, HealthyInv, Healthy
    <2>3. MarkInv' /\ FillInv'
      BY DEF MarkInv, FillInv
    <2>4. CommitInv' /\ OneCopyEach'
      BY DEF CommitInv, OneCopyEach
    <2> QED BY <2>1, <2>2, <2>3, <2>4
  <1> QED BY <1>1, <1>2, <1>3

-----------------------------------------------------------------------------
LEMMA KafkaNext ==
    ASSUME KafkaInv, [Next]_vars, may = {} PROVE KafkaInv'
  <1>1. WrittenInv' /\ TypeOK'
    BY WrittenNext DEF KafkaInv, WrittenInv
  <1>2. OnceInv'
    <2>1. CASE Start
      BY <1>1, <2>1, StartOnce
    <2>2. CASE Deliver \/ NotBegun \/ Begin
      BY <1>1, <2>2, DeliverOnce, BeginOnce
    <2>3. CASE Transaction
      BY <1>1, <2>3, SendTopicOnce, SendCheckpointOnce, SendFailsOnce,
         SendCommitOnce, CommitReturnsOnce, AbortOnce DEF Transaction
    <2>4. CASE SendPlain \/ PlainFails \/ EngineAcks
      BY <1>1, <2>4, PlainOnce, EngineAcksOnce
    <2>5. CASE CommitArrives \/ CommitLost \/ TxnTimeout \/ Crash
      BY <1>1, <2>5, CommitArrivesOnce, FaultOnce
    <2>6. CASE UNCHANGED vars
      BY <2>6 DEF vars, broker, sink, KafkaInv, OnceInv, PhaseInv, PositionInv,
         OrderInv, Ascending, HealthyInv, Healthy, Fenced, MarkInv, FillInv,
         InBatch, Fresh, CommitInv, OneCopyEach
    <2> QED BY <2>1, <2>2, <2>3, <2>4, <2>5, <2>6 DEF Next
  <1> QED BY <1>1, <1>2 DEF KafkaInv

\* What an execution may do is settled when it starts.
LEMMA NoneAdded == ASSUME [Next]_vars PROVE may' = may
  BY DEF Next, Start, ReadCheckpoint, Connect, ConnectPlain, Deliver, NotBegun,
     Begin, Transaction, SendTopic, SendCheckpoint, SendFails, SendCommit,
     CommitReturns, CommitFails, Abort, Reread, SendPlain, PlainFails,
     EngineAcks, CommitArrives, CommitLost, TxnTimeout, Crash, vars

(* Exactly-once into the topic (docs/guide/delivery-guarantees.md:6): the    *)
(* committed records of a topic hold each event up to the checkpoint once    *)
(* and no other, whatever is lost, ambiguous, redelivered or restarted, as   *)
(* long as none of the four assumptions fails, that is may = {}.  The runs   *)
(* KafkaZombie and KafkaReconnect break it where one of two of them does     *)
(* fail.                                                                     *)
THEOREM ExactlyOnceIntoTopic == Spec => []ExactlyOnce
  <1> DEFINE Inv == WrittenInv /\ (may = {} => OnceInv)
  <1>1. Inv => ExactlyOnce
    BY DEF OnceInv, ExactlyOnce
  <1>2. Init => Inv
    BY WrittenInit, OnceInit
  <1>3. Inv /\ [Next]_vars => Inv'
    <2> SUFFICES ASSUME Inv, [Next]_vars PROVE Inv'
      OBVIOUS
    <2>1. WrittenInv'
      BY WrittenNext
    <2>2. may' = may
      BY NoneAdded
    <2>3. CASE may = {}
      BY <2>1, <2>3, KafkaNext DEF KafkaInv
    <2>4. CASE may # {}
      BY <2>1, <2>2, <2>4
    <2> QED BY <2>3, <2>4
  <1> QED BY <1>1, <1>2, <1>3, PTL DEF Spec

-----------------------------------------------------------------------------
(***************************************************************************)
(* Induction over the positions of a batch                                 *)
(***************************************************************************)
(* Induction over 0..n: a set that has 0 and with each number the next.    *)
LEMMA UpTo ==
    ASSUME NEW n \in Nat, NEW T, 0 \in T, \A i \in 1..n : i - 1 \in T => i \in T
    PROVE  0..n \subseteq T
  <1> DEFINE Less == {ss \in Nat \X Nat : ss[1] < ss[2]}
             Out == (0..n) \ T
  <1>1. OpToRel(<, Nat) = Less
    BY DEF OpToRel
  <1>2. IsWellFoundedOn(Less, Nat)
    BY <1>1, NatLessThanWellFounded
  <1> SUFFICES ASSUME Out # {} PROVE FALSE
    OBVIOUS
  <1>3. Out \subseteq Nat
    OBVIOUS
  <1>4. PICK x \in Out : \A y \in Out : ~ (<<y, x>> \in Less)
    <2> HIDE DEF Less, Out
    <2> QED BY <1>2, <1>3, WFMin
  <1>5. x \in 1..n
    OBVIOUS
  <1>6. x - 1 \in 0..n /\ x - 1 \in Nat /\ x \in Nat /\ x - 1 < x
    BY <1>5
  <1>7. x - 1 \notin Out
    BY <1>4, <1>6
  <1> QED BY <1>5, <1>6, <1>7

-----------------------------------------------------------------------------
(***************************************************************************)
(* The sinks that push                                                     *)
(***************************************************************************)
(* A batch is the numbers from its first to its last.                      *)
LEMMA BatchIs ==
    ASSUME NEW a \in Nat \ {0}, NEW b \in Nat, a <= b + 1
    PROVE  /\ Batch(a, b) \in Seq(Nat) /\ Len(Batch(a, b)) = b - a + 1
           /\ \A i \in 1..(b - a + 1) : Batch(a, b)[i] = a + i - 1
           /\ DOMAIN Batch(a, b) = 1..(b - a + 1)
  <1>1. b - a + 1 \in Nat
    OBVIOUS
  <1>2. \A i \in 1..(b - a + 1) : a + i - 1 \in Nat
    OBVIOUS
  <1> QED BY <1>1, <1>2 DEF Batch

(* The first m events.                                                     *)
LEMMA FromOne ==
    ASSUME NEW m \in Nat
    PROVE  /\ Batch(1, m) \in Seq(Nat) /\ Len(Batch(1, m)) = m
           /\ \A i \in 1..m : Batch(1, m)[i] = i
  <1>1. m - 1 + 1 = m /\ \A i \in 1..m : 1 + i - 1 = i
    OBVIOUS
  <1>2. Batch(1, m) = [i \in 1..m |-> i]
    BY <1>1 DEF Batch
  <1> QED BY <1>2

(* One more event.                                                         *)
LEMMA BatchGrows ==
    ASSUME NEW m \in Nat
    PROVE  Append(Batch(1, m), m + 1) = Batch(1, m + 1)
  <1>1. /\ Batch(1, m) \in Seq(Nat) /\ Len(Batch(1, m)) = m
        /\ \A i \in 1..m : Batch(1, m)[i] = i
    BY FromOne
  <1>2. /\ Batch(1, m + 1) \in Seq(Nat) /\ Len(Batch(1, m + 1)) = m + 1
        /\ \A i \in 1..(m + 1) : Batch(1, m + 1)[i] = i
    <2>1. m + 1 \in Nat
      OBVIOUS
    <2> QED BY <2>1, FromOne
  <1> DEFINE p == Batch(1, m)
             q == Batch(1, m + 1)
  <1> HIDE DEF p, q
  <1>3. p \in Seq(Nat) /\ Len(p) = m /\ \A i \in 1..m : p[i] = i
    BY <1>1 DEF p
  <1>4. q \in Seq(Nat) /\ Len(q) = m + 1 /\ \A i \in 1..(m + 1) : q[i] = i
    BY <1>2 DEF q
  <1>5. /\ Append(p, m + 1) \in Seq(Nat) /\ Len(Append(p, m + 1)) = m + 1
        /\ \A i \in 1..m : Append(p, m + 1)[i] = p[i]
        /\ Append(p, m + 1)[m + 1] = m + 1
    BY <1>3
  <1>6. \A i \in 1..(m + 1) : Append(p, m + 1)[i] = q[i]
    BY <1>3, <1>4, <1>5
  <1>7. Append(p, m + 1) = q
    BY <1>4, <1>5, <1>6
  <1> QED BY <1>7 DEF p, q

Further(h, c) == IF c > h THEN c ELSE h

(* A batch that starts at the end of what was processed or before it adds  *)
(* what is new of it, and nothing twice (Process).                         *)
LEMMA ProcessBatch ==
    ASSUME NEW h \in Nat, handled = Batch(1, h), NEW a \in 1..(h + 1), NEW c \in Nat, a <= c + 1
    PROVE  Process(Batch(a, c)) = Batch(1, Further(h, c))
  <1> DEFINE b == Batch(a, c)
             n == c - a + 1
             Loop(f) == [i \in 0..Len(b) |-> IF i = 0 THEN handled
                          ELSE IF Contains(f[i - 1], b[i]) THEN f[i - 1] ELSE Append(f[i - 1], b[i])]
             w == [i \in 0..n |-> Batch(1, Further(h, a + i - 1))]
             g == CHOOSE f : f = Loop(f)
  <1>1. Len(b) = n /\ n \in Nat /\ \A i \in 1..n : b[i] = a + i - 1
    <2>1. a \in Nat \ {0} /\ n \in Nat
      OBVIOUS
    <2> QED BY <2>1, BatchIs
  <1>2. Process(b) = g[Len(b)]
    BY Zenon DEF Process
  <1> HIDE DEF b
  <1>3. w[0] = handled
    <2>1. Further(h, a + 0 - 1) = h
      BY DEF Further
    <2> QED BY <1>1, <2>1
  <1>4. ASSUME NEW i \in 1..n
        PROVE  w[i] = IF Contains(w[i - 1], b[i]) THEN w[i - 1] ELSE Append(w[i - 1], b[i])
    <2> DEFINE m == Further(h, a + (i - 1) - 1)
    <2>1. w[i - 1] = Batch(1, m) /\ m \in Nat /\ b[i] = a + i - 1 /\ w[i] = Batch(1, Further(h, a + i - 1))
      <3>1. i - 1 \in 0..n /\ i \in 0..n
        BY <1>1
      <3> QED BY <1>1, <3>1 DEF Further
    <2>2. Contains(Batch(1, m), b[i]) <=> b[i] <= m
      <3>1. Len(Batch(1, m)) = m /\ \A j \in 1..m : Batch(1, m)[j] = j
        BY <2>1, FromOne
      <3>2. b[i] \in Nat \ {0}
        BY <2>1, <1>1
      <3> QED BY <2>1, <3>1, <3>2 DEF Contains
    <2>3. CASE b[i] <= m
      <3>1. Further(h, a + i - 1) = m
        BY <1>1, <2>1, <2>3 DEF Further
      <3> QED BY <2>1, <2>2, <2>3, <3>1
    <2>4. CASE ~(b[i] <= m)
      <3>1. Further(h, a + i - 1) = m + 1 /\ b[i] = m + 1
        BY <1>1, <2>1, <2>4 DEF Further
      <3> HIDE DEF m
      <3>2. Append(Batch(1, m), m + 1) = Batch(1, m + 1)
        BY <2>1, BatchGrows
      <3> QED BY <2>1, <2>2, <2>4, <3>1, <3>2
    <2> QED BY <2>3, <2>4
  <1>5. w = Loop(w)
    <2> DEFINE v == Loop(w)
    <2>1. DOMAIN v = 0..n /\ v[0] = handled
          /\ \A i \in 1..n : v[i] = IF Contains(w[i - 1], b[i]) THEN w[i - 1] ELSE Append(w[i - 1], b[i])
      BY <1>1
    <2>2. \A i \in 0..n : v[i] = w[i]
      <3> HIDE DEF v, w
      <3>1. v[0] = w[0]
        BY <1>3, <2>1
      <3>2. \A i \in 1..n : v[i] = w[i]
        BY <1>4, <2>1
      <3>3. \A i \in 0..n : i = 0 \/ i \in 1..n
        BY <1>1
      <3> QED BY <3>1, <3>2, <3>3
    <2>3. v = [i \in 0..n |-> v[i]]
      BY <1>1
    <2>4. w = [i \in 0..n |-> w[i]]
      OBVIOUS
    <2> HIDE DEF v, w
    <2>5. v = w
      BY <2>2, <2>3, <2>4
    <2> QED BY <2>5 DEF v
  <1>6. g = Loop(g)
    <2> HIDE DEF Loop
    <2> QED BY <1>5, Zenon
  <1> HIDE DEF w, g
  <1>7. \A i \in 0..n : g[i] = w[i]
    <2> DEFINE Same == {i \in 0..n : g[i] = w[i]}
    <2>1. 0 \in Same
      <3>1. g[0] = handled
        BY <1>1, <1>6
      <3> QED BY <1>1, <1>3, <3>1
    <2>2. ASSUME NEW i \in 1..n, i - 1 \in Same PROVE i \in Same
      <3>1. g[i] = IF Contains(g[i - 1], b[i]) THEN g[i - 1] ELSE Append(g[i - 1], b[i])
        <4>1. i \in 0..Len(b) /\ i # 0
          BY <1>1
        <4>2. g[i] = Loop(g)[i]
          <5> HIDE DEF Loop
          <5> QED BY <1>6
        <4> QED BY <4>1, <4>2
      <3> QED BY <1>1, <1>4, <2>2, <3>1
    <2> HIDE DEF Same
    <2>3. 0..n \subseteq Same
      BY <1>1, <2>1, <2>2, UpTo
    <2> QED BY <2>3 DEF Same
  <1>8. w[n] = Batch(1, Further(h, c))
    <2>1. a + n - 1 = c /\ n \in 0..n
      BY <1>1
    <2> QED BY <2>1 DEF w
  <1> QED BY <1>1, <1>2, <1>7, <1>8 DEF b

-----------------------------------------------------------------------------
Slice(q, a, b) ==
    /\ q \in Seq(Nat) /\ Len(q) = b - a + 1
    /\ \A i \in 1..(b - a + 1) : q[i] = a + i - 1

(* A sequence with the events of a batch is the batch.                     *)
LEMMA SliceIsBatch ==
    ASSUME NEW a \in Nat \ {0}, NEW b \in Nat, a <= b + 1, NEW q, Slice(q, a, b)
    PROVE  q = Batch(a, b)
  <1> DEFINE p == Batch(a, b)
             n == b - a + 1
  <1>1. p \in Seq(Nat) /\ Len(p) = n /\ \A i \in 1..n : p[i] = a + i - 1
    BY BatchIs
  <1>2. q \in Seq(Nat) /\ Len(q) = n /\ \A i \in 1..n : q[i] = a + i - 1
    BY DEF Slice
  <1> HIDE DEF p
  <1>3. p = q
    BY <1>1, <1>2
  <1> QED BY <1>3 DEF p

LEMMA BatchJoins ==
    ASSUME NEW a \in Nat \ {0}, NEW b \in Nat, NEW c \in Nat, a <= b + 1, b <= c
    PROVE  Batch(a, b) \o Batch(b + 1, c) = Batch(a, c)
  <1> DEFINE p == Batch(a, b)
             q == Batch(b + 1, c)
             m == b - a + 1
             n == c - b
  <1>1. p \in Seq(Nat) /\ Len(p) = m /\ \A i \in 1..m : p[i] = a + i - 1
    BY BatchIs
  <1>2. q \in Seq(Nat) /\ Len(q) = n /\ \A i \in 1..n : q[i] = b + i
    <2>1. b + 1 \in Nat \ {0} /\ b + 1 <= c + 1 /\ c - (b + 1) + 1 = n
      OBVIOUS
    <2>2. q \in Seq(Nat) /\ Len(q) = c - (b + 1) + 1 /\ \A i \in 1..(c - (b + 1) + 1) : q[i] = (b + 1) + i - 1
      BY <2>1, BatchIs
    <2>3. \A i \in 1..n : (b + 1) + i - 1 = b + i
      OBVIOUS
    <2> HIDE DEF q
    <2> QED BY <2>1, <2>2, <2>3
  <1>3. m \in Nat /\ n \in Nat /\ m + n = c - a + 1
    OBVIOUS
  <1> HIDE DEF p, q
  <1>4. /\ p \o q \in Seq(Nat) /\ Len(p \o q) = m + n
        /\ \A i \in 1..m : (p \o q)[i] = p[i]
        /\ \A i \in 1..n : (p \o q)[m + i] = q[i]
    <2>1. p \in Seq(Nat) /\ q \in Seq(Nat)
      BY <1>1, <1>2
    <2>2. /\ p \o q \in Seq(Nat) /\ Len(p \o q) = Len(p) + Len(q)
          /\ \A i \in 1..Len(p) : (p \o q)[i] = p[i]
          /\ \A i \in 1..Len(q) : (p \o q)[Len(p) + i] = q[i]
      BY ONLY <2>1
    <2>3. Len(p) = m /\ Len(q) = n
      BY <1>1, <1>2
    <2> QED BY <2>2, <2>3
  <1>5. ASSUME NEW i \in 1..(c - a + 1) PROVE (p \o q)[i] = a + i - 1
    <2>1. CASE i <= m
      BY <1>1, <1>3, <1>4, <2>1
    <2>2. CASE ~(i <= m)
      <3>1. i - m \in 1..n /\ m + (i - m) = i /\ b + (i - m) = a + i - 1
        BY <1>3, <2>2
      <3>2. (p \o q)[m + (i - m)] = q[i - m]
        BY <1>4, <3>1
      <3>3. q[i - m] = b + (i - m)
        BY <1>2, <3>1
      <3> QED BY <3>1, <3>2, <3>3
    <2> QED BY <2>1, <2>2
  <1>6. Slice(p \o q, a, c)
    BY <1>3, <1>4, <1>5 DEF Slice
  <1>7. a <= c + 1
    OBVIOUS
  <1>8. p \o q = Batch(a, c)
    BY <1>6, <1>7, SliceIsBatch
  <1> QED BY <1>8 DEF p, q

(* What four requests carried, one after the other (Received).             *)
LEMMA FourFlatten ==
    ASSUME NEW S, NEW s \in Seq(Seq(S)), Len(s) = 4
    PROVE  FlattenSeq(s) = ((s[1] \o s[2]) \o s[3]) \o s[4]
  <1> DEFINE Loop(f) == [i \in 1..Len(s) |-> IF i = 1 THEN s[i] ELSE f[i - 1] \o s[i]]
             g == CHOOSE f : f = Loop(f)
             t == s[1] \o s[2]
             u == t \o s[3]
             z == u \o s[4]
             w == [i \in 1..4 |-> CASE i = 1 -> s[1] [] i = 2 -> t [] i = 3 -> u [] i = 4 -> z]
  <1>1. FlattenSeq(s) = g[4]
    <2>1. FlattenSeq(s) = g[Len(s)]
      <3>1. Len(s) # 0
        OBVIOUS
      <3> QED BY <3>1, Zenon DEF FlattenSeq
    <2> QED BY <2>1
  <1> HIDE DEF t, u, z
  <1>2. w = Loop(w)
    BY DEF t, u, z
  <1>3. g = Loop(g)
    <2> HIDE DEF Loop
    <2> QED BY <1>2, Zenon
  <1> HIDE DEF g
  <1>4. g = [i \in 1..4 |-> IF i = 1 THEN s[i] ELSE g[i - 1] \o s[i]]
    BY <1>3
  <1>5. g[1] = s[1]
    BY <1>4
  <1>a. ASSUME NEW i \in 2..4 PROVE g[i] = g[i - 1] \o s[i]
    <2>1. i \in 1..Len(s) /\ i # 1
      OBVIOUS
    <2>2. g[i] = Loop(g)[i]
      <3> HIDE DEF Loop
      <3> QED BY <1>3
    <2> QED BY <2>1, <2>2
  <1> HIDE DEF Loop
  <1>6. g[2] = g[1] \o s[2]
    <2>1. g[2] = g[2 - 1] \o s[2]
      BY <1>a
    <2> QED BY <2>1
  <1>7. g[3] = g[2] \o s[3]
    <2>1. g[3] = g[3 - 1] \o s[3]
      BY <1>a
    <2> QED BY <2>1
  <1>8. g[4] = g[3] \o s[4]
    <2>1. g[4] = g[4 - 1] \o s[4]
      BY <1>a
    <2> QED BY <2>1
  <1> QED BY <1>1, <1>5, <1>6, <1>7, <1>8 DEF t, u, z

(* Copies of what is there already do not change the first copies          *)
(* (Firsts).                                                               *)
LEMMA FirstsOf ==
    ASSUME NEW n \in Nat, NEW a \in Nat \ {0}, NEW b \in Nat, a <= b + 1, b <= n
    PROVE  Firsts(Batch(1, n) \o Batch(a, b)) = Batch(1, n)
  <1> DEFINE ids == Batch(1, n) \o Batch(a, b)
             m == b - a + 1
             isFirst(i) == \A j \in 1..i - 1 : ids[j] # ids[i]
             Loop(f) == [i \in 0..Len(ids) |-> IF i = 0 THEN <<>>
                            ELSE IF isFirst(i) THEN Append(f[i - 1], ids[i]) ELSE f[i - 1]]
             g == CHOOSE f : f = Loop(f)
             w == [i \in 0..(n + m) |-> Batch(1, IF i < n THEN i ELSE n)]
  <1>1. Firsts(ids) = g[Len(ids)]
    BY Zenon DEF Firsts
  <1>2. /\ m \in Nat /\ Len(ids) = n + m
        /\ \A i \in 1..n : ids[i] = i
        /\ \A i \in (n + 1)..(n + m) : ids[i] \in 1..n
    <2> DEFINE p == Batch(1, n)
               q == Batch(a, b)
    <2>1. p \in Seq(Nat) /\ Len(p) = n /\ \A i \in 1..n : p[i] = i
      BY FromOne
    <2>2. q \in Seq(Nat) /\ Len(q) = m /\ \A i \in 1..m : q[i] = a + i - 1
      BY BatchIs
    <2>3. m \in Nat
      OBVIOUS
    <2>4. ids = p \o q
      OBVIOUS
    <2> HIDE DEF p, q, ids
    <2>5. /\ Len(ids) = n + m /\ \A i \in 1..n : ids[i] = p[i]
          /\ \A i \in 1..m : ids[n + i] = q[i]
      <3>1. p \in Seq(Nat) /\ q \in Seq(Nat)
        BY <2>1, <2>2
      <3>2. /\ Len(p \o q) = Len(p) + Len(q)
            /\ \A i \in 1..Len(p) : (p \o q)[i] = p[i]
            /\ \A i \in 1..Len(q) : (p \o q)[Len(p) + i] = q[i]
        BY ONLY <3>1
      <3>3. Len(p) = n /\ Len(q) = m
        BY <2>1, <2>2
      <3> QED BY <2>4, <3>2, <3>3
    <2>6. ASSUME NEW i \in (n + 1)..(n + m) PROVE ids[i] \in 1..n
      <3>1. i - n \in 1..m /\ n + (i - n) = i /\ a + (i - n) - 1 \in 1..n
        BY <2>3
      <3>2. ids[n + (i - n)] = q[i - n] /\ q[i - n] = a + (i - n) - 1
        BY <2>2, <2>5, <3>1
      <3> QED BY <3>1, <3>2
    <2> QED BY <2>1, <2>3, <2>5, <2>6
  <1> HIDE DEF ids, m
  <1>3. \A i \in 1..(n + m) : isFirst(i) <=> i <= n
    <2> SUFFICES ASSUME NEW i \in 1..(n + m) PROVE isFirst(i) <=> i <= n
      OBVIOUS
    <2>1. CASE i <= n
      <3>1. ids[i] = i /\ \A j \in 1..(i - 1) : ids[j] = j /\ j # i
        BY <1>2, <2>1
      <3> QED BY <2>1, <3>1
    <2>2. CASE ~(i <= n)
      <3>1. i \in (n + 1)..(n + m)
        BY <1>2, <2>2
      <3>2. ids[i] \in 1..n /\ ids[ids[i]] = ids[i]
        BY <1>2, <3>1
      <3>3. ids[i] \in 1..(i - 1)
        BY <1>2, <3>1, <3>2
      <3> QED BY <2>2, <3>2, <3>3
    <2> QED BY <2>1, <2>2
  <1> HIDE DEF isFirst
  <1>4. w[0] = <<>>
    <2>1. Batch(1, 0) = <<>>
      BY FromOne
    <2> QED BY <1>2, <2>1
  <1>5. ASSUME NEW i \in 1..(n + m)
        PROVE  w[i] = IF isFirst(i) THEN Append(w[i - 1], ids[i]) ELSE w[i - 1]
    <2>1. i - 1 \in 0..(n + m) /\ i \in 0..(n + m)
      BY <1>2
    <2>2. CASE i <= n
      <3>1. w[i] = Batch(1, i) /\ w[i - 1] = Batch(1, i - 1) /\ ids[i] = i
        BY <1>2, <2>1, <2>2
      <3>2. Append(Batch(1, i - 1), (i - 1) + 1) = Batch(1, (i - 1) + 1)
        <4>1. i - 1 \in Nat
          BY <1>2
        <4> QED BY <4>1, BatchGrows
      <3>3. (i - 1) + 1 = i
        BY <1>2
      <3> HIDE DEF w
      <3> QED BY <1>3, <2>2, <3>1, <3>2, <3>3
    <2>3. CASE ~(i <= n)
      <3>1. w[i] = Batch(1, n) /\ w[i - 1] = Batch(1, n)
        BY <1>2, <2>1, <2>3
      <3> QED BY <1>3, <2>3, <3>1
    <2> QED BY <2>2, <2>3
  <1> SUFFICES g[n + m] = Batch(1, n)
    BY <1>1, <1>2 DEF ids
  <1>6. w = Loop(w)
    <2> DEFINE v == Loop(w)
    <2>1. v[0] = <<>> /\ \A i \in 1..(n + m) : v[i] = IF isFirst(i) THEN Append(w[i - 1], ids[i]) ELSE w[i - 1]
      BY <1>2
    <2>2. \A i \in 0..(n + m) : v[i] = w[i]
      <3> HIDE DEF v, w
      <3>1. v[0] = w[0]
        BY <1>4, <2>1
      <3>2. \A i \in 1..(n + m) : v[i] = w[i]
        BY <1>5, <2>1
      <3>3. \A i \in 0..(n + m) : i = 0 \/ i \in 1..(n + m)
        BY <1>2
      <3> QED BY <3>1, <3>2, <3>3
    <2>3. v = [i \in 0..(n + m) |-> v[i]]
      BY <1>2
    <2>4. w = [i \in 0..(n + m) |-> w[i]]
      OBVIOUS
    <2> HIDE DEF v, w
    <2>5. v = w
      BY <2>2, <2>3, <2>4
    <2> QED BY <2>5 DEF v
  <1>7. g = Loop(g)
    <2> HIDE DEF Loop
    <2> QED BY <1>6, Zenon
  <1> HIDE DEF g
  <1>8. g[0] = <<>>
    BY <1>2, <1>7
  <1>9. ASSUME NEW i \in 1..(n + m)
        PROVE  g[i] = IF isFirst(i) THEN Append(g[i - 1], ids[i]) ELSE g[i - 1]
    <2>1. i \in 0..Len(ids) /\ i # 0
      BY <1>2
    <2>2. g[i] = Loop(g)[i]
      <3> HIDE DEF Loop
      <3> QED BY <1>7
    <2> QED BY <2>1, <2>2
  <1>10. n + m \in Nat
    BY <1>2
  <1>11. \A i \in 0..(n + m) : g[i] = w[i]
    <2> DEFINE Same == {i \in 0..(n + m) : g[i] = w[i]}
    <2> HIDE DEF w
    <2>1. 0 \in Same
      BY <1>4, <1>8, <1>10
    <2>2. ASSUME NEW i \in 1..(n + m), i - 1 \in Same PROVE i \in Same
      BY <1>5, <1>9, <1>10, <2>2
    <2> HIDE DEF Same
    <2>3. 0..(n + m) \subseteq Same
      BY <1>10, <2>1, <2>2, UpTo
    <2> QED BY <2>3 DEF Same
  <1>12. w[n + m] = Batch(1, n)
    BY <1>2
  <1> QED BY <1>10, <1>11, <1>12

Request == [batch : Seq(Nat), at : {"sent", "ok", "refused", "over"}]

Ends(q) == q[Len(q)]

\* A batch that leaves no gap behind what was processed.
InReach(q) ==
    \E a \in 1..(Len(handled) + 1) : \E b \in Nat : a <= b /\ q = Batch(a, b)

PushTypes ==
    /\ requests \in Seq(Request) /\ waitsFor \in Nat /\ ackedUpTo \in Nat
    /\ sending \in Seq(Nat) /\ driver \in {"engine", "harness"}

HandledInv == Len(handled) \in Nat /\ handled = Batch(1, Len(handled))

ReachInv ==
    /\ sending # <<>> => InReach(sending)
    /\ \A r \in DOMAIN requests : InReach(requests[r].batch)

AnswerInv ==
    \A r \in DOMAIN requests :
        requests[r].at = "ok" => Ends(requests[r].batch) <= Len(handled)

WaitInv ==
    waitsFor # 0 => /\ waitsFor \in DOMAIN requests /\ sending # <<>>
                    /\ requests[waitsFor].batch = sending

\* The harness' deliveries.
HarnessSends(k) ==
    LET n == IF k = 4 THEN 2 ELSE k
    IN  Batch(IF n = 1 THEN 1 ELSE HarnessCuts[n - 1] + 1, HarnessCuts[n])

Started == IF step <= 5 THEN step - 1 ELSE 4

HarnessInv ==
    driver = "harness" =>
        /\ secretsMatch /\ step \in 1..6
        /\ Len(requests) = IF sending # <<>> /\ waitsFor = 0 THEN Started - 1 ELSE Started
        /\ sending # <<>> => step \in 2..5 /\ sending = HarnessSends(Started)
        /\ waitsFor # 0 => waitsFor = Started
        /\ \A i \in DOMAIN requests :
              /\ requests[i].batch = HarnessSends(i)
              /\ requests[i].at # "refused" /\ (i # waitsFor => requests[i].at = "over")
              /\ requests[i].at # "sent" => Ends(HarnessSends(i)) <= Len(handled)

EngineInv == driver = "engine" => step = 1

PushInv ==
    /\ PushTypes /\ HandledInv /\ ReachInv /\ AnswerInv /\ WaitInv
    /\ AckedWasProcessed /\ HarnessInv /\ EngineInv

-----------------------------------------------------------------------------
(* A batch is not empty and has its last event at its end.                 *)
LEMMA EndOfBatch ==
    ASSUME NEW a \in Nat \ {0}, NEW b \in Nat, a <= b
    PROVE  /\ Batch(a, b) \in Seq(Nat) /\ Len(Batch(a, b)) = b - a + 1 /\ Batch(a, b) # <<>>
           /\ Ends(Batch(a, b)) = b
  <1> DEFINE p == Batch(a, b)
             n == b - a + 1
  <1>1. p \in Seq(Nat) /\ Len(p) = n /\ \A i \in 1..n : p[i] = a + i - 1
    <2>1. a <= b + 1
      OBVIOUS
    <2> QED BY <2>1, BatchIs
  <1>2. n \in 1..n /\ n > 0 /\ a + n - 1 = b
    OBVIOUS
  <1> HIDE DEF p
  <1>3. p # <<>>
    BY <1>1, <1>2
  <1>4. p[n] = b
    BY <1>1, <1>2
  <1> QED BY <1>1, <1>3, <1>4 DEF p, Ends

(* The start of a batch, of which a receiver fails in the middle.          *)
LEMMA StartOfBatch ==
    ASSUME NEW a \in Nat \ {0}, NEW b \in Nat, a <= b, NEW n \in 1..Len(Batch(a, b))
    PROVE  SubSeq(Batch(a, b), 1, n) = Batch(a, a + n - 1) /\ n <= b - a + 1
  <1> DEFINE p == Batch(a, b)
             m == b - a + 1
             c == a + n - 1
             q == SubSeq(p, 1, n)
  <1>1. p \in Seq(Nat) /\ Len(p) = m /\ \A i \in 1..m : p[i] = a + i - 1
    <2>1. a <= b + 1
      OBVIOUS
    <2> QED BY <2>1, BatchIs
  <1>2. n \in 1..m /\ m \in Nat
    BY <1>1
  <1>3. c \in Nat /\ a <= c + 1 /\ c - a + 1 = n
    BY <1>2
  <1>4. Len(q) = n /\ q \in Seq(Nat) /\ \A i \in 1..n : q[i] = p[i]
    <2> HIDE DEF p
    <2>1. p \in Seq(Nat) /\ n \in 1..Len(p)
      BY <1>1, <1>2
    <2> QED BY ONLY <2>1 DEF q
  <1> HIDE DEF p, q
  <1>5. \A i \in 1..n : q[i] = a + i - 1
    <2>1. \A i \in 1..n : i \in 1..m
      BY <1>2
    <2> HIDE DEF m
    <2>2. \A i \in 1..n : p[i] = a + i - 1
      BY <1>1, <2>1
    <2> QED BY <1>4, <2>2
  <1> HIDE DEF c
  <1>6. Slice(q, a, c)
    BY <1>3, <1>4, <1>5 DEF Slice
  <1>7. q = Batch(a, c)
    BY <1>3, <1>6, SliceIsBatch
  <1> QED BY <1>2, <1>7 DEF q, p, c

(* The far end that processes a batch in reach, or its start, has no gap   *)
(* and has all of what it processed (Process).                             *)
LEMMA ProcessGrows ==
    ASSUME HandledInv, NEW q, InReach(q), NEW n \in 1..Len(q)
    PROVE  /\ Len(Process(SubSeq(q, 1, n))) \in Nat
           /\ Process(SubSeq(q, 1, n)) = Batch(1, Len(Process(SubSeq(q, 1, n))))
           /\ Len(handled) <= Len(Process(SubSeq(q, 1, n)))
           /\ q[n] <= Len(Process(SubSeq(q, 1, n)))
  <1>1. PICK a \in 1..(Len(handled) + 1) : \E b \in Nat : a <= b /\ q = Batch(a, b)
    BY DEF InReach
  <1>2. PICK b \in Nat : a <= b /\ q = Batch(a, b)
    BY <1>1
  <1> DEFINE h == Len(handled)
             c == a + n - 1
             k == Further(h, c)
  <1>3. h \in Nat /\ a \in Nat \ {0} /\ a \in 1..(h + 1) /\ handled = Batch(1, h)
    BY DEF HandledInv
  <1> HIDE DEF h
  <1>4. SubSeq(q, 1, n) = Batch(a, c) /\ n <= b - a + 1
    <2>1. n \in 1..Len(Batch(a, b))
      BY <1>2
    <2> QED BY <1>2, <1>3, <2>1, StartOfBatch
  <1>5. n \in Nat /\ n > 0
    <2>1. Len(q) \in Nat
      BY <1>2, <1>3, EndOfBatch
    <2> QED BY <2>1
  <1>6. c \in Nat /\ a <= c + 1 /\ k \in Nat /\ h <= k /\ c <= k
    BY <1>3, <1>5 DEF Further
  <1>7. Process(Batch(a, c)) = Batch(1, k)
    <2> HIDE DEF c, k
    <2>1. Process(Batch(a, c)) = Batch(1, Further(h, c))
      BY <1>3, <1>6, ProcessBatch
    <2> QED BY <2>1 DEF k
  <1>8. Len(Batch(1, k)) = k
    BY <1>6, FromOne
  <1>9. q[n] = c
    <2>1. n \in 1..(b - a + 1) /\ a <= b + 1
      BY <1>2, <1>3, <1>4, <1>5
    <2> QED BY <1>2, <1>3, <2>1, BatchIs
  <1> HIDE DEF c, k
  <1> QED BY <1>4, <1>6, <1>7, <1>8, <1>9 DEF h

(* The harness' batches are not empty and follow one another.              *)
LEMMA Cuts ==
    /\ HarnessCuts[1] \in Nat \ {0} /\ HarnessCuts[2] \in Nat /\ HarnessCuts[3] \in Nat
    /\ HarnessCuts[1] < HarnessCuts[2] /\ HarnessCuts[2] < HarnessCuts[3]
    /\ HarnessCuts[3] = NumPushed /\ NumPushed \in Nat
  <1>1. \A i \in 1..3 : HarnessCuts[i] \in 1..NumPushed
    <2>1. HarnessCuts \in Seq(1..NumPushed) /\ Len(HarnessCuts) = 3
      BY PushSinkAssumption
    <2> DEFINE S == 1..NumPushed
    <2> HIDE DEF S
    <2>2. HarnessCuts \in Seq(S) /\ Len(HarnessCuts) = 3
      BY <2>1 DEF S
    <2>3. \A i \in 1..3 : HarnessCuts[i] \in S
      BY ONLY <2>2
    <2> QED BY <2>3 DEF S
  <1>2. 1 \in 1..3 /\ 2 \in 1..3 /\ 3 \in 1..3
    OBVIOUS
  <1>3. NumPushed \in Nat
    BY PushSinkAssumption
  <1> QED BY <1>1, <1>2, <1>3, PushSinkAssumption

Sends(k, a, b) == HarnessSends(k) = Batch(a, b) /\ a \in Nat \ {0} /\ b \in Nat /\ a <= b

(* The batches of verifySink(), the second one twice.                      *)
LEMMA HarnessBatches ==
    /\ Sends(1, 1, HarnessCuts[1])
    /\ Sends(2, HarnessCuts[1] + 1, HarnessCuts[2])
    /\ Sends(3, HarnessCuts[2] + 1, HarnessCuts[3])
    /\ Sends(4, HarnessCuts[1] + 1, HarnessCuts[2])
  <1>1. Sends(1, 1, HarnessCuts[1])
    BY Cuts DEF Sends, HarnessSends
  <1>2. Sends(2, HarnessCuts[1] + 1, HarnessCuts[2])
    <2>1. HarnessSends(2) = Batch(HarnessCuts[1] + 1, HarnessCuts[2])
      BY DEF HarnessSends
    <2> QED BY <2>1, Cuts DEF Sends
  <1>3. Sends(3, HarnessCuts[2] + 1, HarnessCuts[3])
    <2>1. HarnessSends(3) = Batch(HarnessCuts[2] + 1, HarnessCuts[3])
      BY DEF HarnessSends
    <2> QED BY <2>1, Cuts DEF Sends
  <1>4. Sends(4, HarnessCuts[1] + 1, HarnessCuts[2])
    <2>1. HarnessSends(4) = Batch(HarnessCuts[1] + 1, HarnessCuts[2])
      BY DEF HarnessSends
    <2> QED BY <2>1, Cuts DEF Sends
  <1> QED BY <1>1, <1>2, <1>3, <1>4

(* None of them is empty.                                                  *)
LEMMA HarnessBatchIs ==
    ASSUME NEW k \in 1..4
    PROVE  /\ HarnessSends(k) \in Seq(Nat) /\ HarnessSends(k) # <<>>
           /\ Ends(HarnessSends(k)) \in Nat
  <1>1. PICK a \in Nat, b \in Nat : Sends(k, a, b)
    <2>1. HarnessCuts[1] + 1 \in Nat /\ HarnessCuts[2] + 1 \in Nat
      BY Cuts
    <2>2. k = 1 \/ k = 2 \/ k = 3 \/ k = 4
      OBVIOUS
    <2> QED BY <2>1, <2>2, Cuts, HarnessBatches, Zenon
  <1> QED BY <1>1, EndOfBatch DEF Sends

(* The requests after one of them is answered, times out or is over.       *)
LEMMA AfterSettle ==
    ASSUME requests \in Seq(Request), NEW r \in DOMAIN requests,
           NEW how \in {"sent", "ok", "refused", "over"}, Settle(r, how)
    PROVE  /\ requests' \in Seq(Request) /\ Len(requests') = Len(requests)
           /\ DOMAIN requests' = DOMAIN requests
           /\ \A s \in DOMAIN requests :
                 /\ requests'[s].batch = requests[s].batch
                 /\ requests'[s].at = IF s = r THEN how ELSE requests[s].at
  <1>1. requests' = [requests EXCEPT ![r].at = how]
    BY DEF Settle
  <1>2. \A s \in DOMAIN requests : requests[s] \in Request
    OBVIOUS
  <1>3. DOMAIN requests' = DOMAIN requests
    BY <1>1
  <1>4. ASSUME NEW s \in DOMAIN requests
        PROVE  /\ requests'[s] \in Request
               /\ requests'[s].batch = requests[s].batch
               /\ requests'[s].at = IF s = r THEN how ELSE requests[s].at
    BY <1>1, <1>2 DEF Request
  <1>5. requests' \in Seq(Request) /\ Len(requests') = Len(requests)
    <2>1. DOMAIN requests = 1..Len(requests) /\ Len(requests) \in Nat
      OBVIOUS
    <2>2. requests' = [s \in 1..Len(requests) |-> requests'[s]]
      BY <1>1, <2>1
    <2>3. \A s \in 1..Len(requests) : requests'[s] \in Request
      BY <1>4, <2>1
    <2>4. requests' \in [1..Len(requests) -> Request]
      BY <2>2, <2>3
    <2> QED BY <2>1, <2>4
  <1> QED BY <1>3, <1>4, <1>5

(* The far end that processes a batch in reach has all of it.              *)
LEMMA ProcessAll ==
    ASSUME HandledInv, NEW q, InReach(q)
    PROVE  /\ Len(Process(q)) \in Nat /\ Process(q) = Batch(1, Len(Process(q)))
           /\ Len(handled) <= Len(Process(q)) /\ Ends(q) <= Len(Process(q))
           /\ Len(q) \in Nat \ {0}
  <1>1. PICK a \in 1..(Len(handled) + 1) : \E b \in Nat : a <= b /\ q = Batch(a, b)
    BY DEF InReach
  <1>2. PICK b \in Nat : a <= b /\ q = Batch(a, b)
    BY <1>1
  <1>3. a \in Nat \ {0}
    BY DEF HandledInv
  <1>4. Len(q) = b - a + 1 /\ Len(q) \in 1..Len(q) /\ Len(q) \in Nat \ {0}
    <2>1. Len(q) = b - a + 1
      BY <1>2, <1>3, EndOfBatch
    <2>2. b - a + 1 \in Nat \ {0}
      BY <1>2, <1>3
    <2> HIDE <1>2
    <2> QED BY <2>1, <2>2
  <1>5. SubSeq(q, 1, Len(q)) = q
    <2>1. SubSeq(Batch(a, b), 1, Len(q)) = Batch(a, a + Len(q) - 1)
      BY <1>2, <1>3, <1>4, StartOfBatch
    <2>2. a + Len(q) - 1 = b
      BY <1>3, <1>4
    <2> QED BY <1>2, <2>1, <2>2
  <1>6. /\ Len(Process(SubSeq(q, 1, Len(q)))) \in Nat
        /\ Process(SubSeq(q, 1, Len(q))) = Batch(1, Len(Process(SubSeq(q, 1, Len(q)))))
        /\ Len(handled) <= Len(Process(SubSeq(q, 1, Len(q))))
        /\ q[Len(q)] <= Len(Process(SubSeq(q, 1, Len(q))))
    BY <1>4, ProcessGrows
  <1> QED BY <1>4, <1>5, <1>6 DEF Ends

Answer(r, how) ==
    /\ Settle(r, how) /\ HandledInv' /\ Len(handled) <= Len(handled')
    /\ how = "ok" => Ends(requests[r].batch) <= Len(handled')
    /\ how = "refused" => driver = "engine"

(* Whatever the receiver does with a request, it leaves no gap, and it     *)
(* answers "ok" only to a batch it has processed whole (Receive, Appends). *)
LEMMA Answers ==
    ASSUME PushInv, NEW r \in DOMAIN requests, Receive(r) \/ Appends(r)
    PROVE  Answer(r, "ok") \/ Answer(r, "refused")
  <1> DEFINE q == requests[r].batch
  <1>1. InReach(q) /\ HandledInv /\ HarnessInv /\ driver \in {"engine", "harness"}
    BY DEF PushInv, ReachInv, PushTypes
  <1>2. Len(q) \in Nat \ {0}
    BY <1>1, ProcessAll
  <1>3. Len(handled) \in Nat
    BY <1>1 DEF HandledInv
  <1>4. handled' = handled => HandledInv' /\ Len(handled) <= Len(handled')
    BY <1>1, <1>3 DEF HandledInv, Batch
  <1>5. ASSUME NEW n \in 1..Len(q), handled' = Process(SubSeq(q, 1, n))
        PROVE  HandledInv' /\ Len(handled) <= Len(handled') /\ q[n] <= Len(handled')
    <2> HIDE DEF q
    <2>1. /\ Len(handled') \in Nat /\ handled' = Batch(1, Len(handled'))
          /\ Len(handled) <= Len(handled') /\ q[n] <= Len(handled')
      BY <1>1, <1>5, ProcessGrows
    <2> QED BY <2>1 DEF HandledInv, Batch
  <1>6. ASSUME handled' = Process(q)
        PROVE  HandledInv' /\ Len(handled) <= Len(handled') /\ Ends(q) <= Len(handled')
    <2> HIDE DEF q
    <2>1. /\ Len(handled') \in Nat /\ handled' = Batch(1, Len(handled'))
          /\ Len(handled) <= Len(handled') /\ Ends(q) <= Len(handled')
      BY <1>1, <1>6, ProcessAll
    <2> QED BY <2>1 DEF HandledInv, Batch
  <1>7. CASE Appends(r)
    <2>1. CASE Settle(r, "ok") /\ handled' = Process(q)
      BY <1>6, <2>1 DEF Answer
    <2>2. CASE driver = "engine" /\ Settle(r, "refused") /\ UNCHANGED handled
      BY <1>4, <2>2 DEF Answer
    <2> QED BY <1>7, <2>1, <2>2 DEF Appends
  <1>8. CASE Receive(r)
    <2>1. CASE ~Verified /\ Settle(r, "refused") /\ UNCHANGED handled
      <3>1. driver = "engine"
        BY <1>1, <2>1 DEF Verified, HarnessInv
      <3> QED BY <1>4, <2>1, <3>1 DEF Answer
    <2>2. ASSUME NEW n \in 0..Len(q),
                 n < Len(q) => driver = "engine",
                 handled' = IF n = 0 THEN handled ELSE Process(SubSeq(q, 1, n)),
                 Settle(r, IF n = Len(q) THEN "ok" ELSE "refused")
          PROVE  Answer(r, "ok") \/ Answer(r, "refused")
      <3>1. HandledInv' /\ Len(handled) <= Len(handled') /\ (n # 0 => q[n] <= Len(handled'))
        <4>1. CASE n = 0
          BY <1>4, <2>2, <4>1
        <4>2. CASE n # 0
          <5>1. n \in 1..Len(q)
            BY <1>2, <4>2
          <5> QED BY <1>5, <2>2, <4>2, <5>1
        <4> QED BY <4>1, <4>2
      <3>2. CASE n = Len(q)
        <4>1. Ends(q) <= Len(handled')
          BY <1>2, <3>1, <3>2 DEF Ends
        <4> QED BY <2>2, <3>1, <3>2, <4>1 DEF Answer
      <3>3. CASE n # Len(q)
        <4>1. driver = "engine"
          BY <1>2, <2>2, <3>3
        <4> QED BY <2>2, <3>1, <3>3, <4>1 DEF Answer
      <3> QED BY <3>2, <3>3
    <2> QED BY <1>8, <2>1, <2>2 DEF Receive
  <1> QED BY <1>7, <1>8

(* Before the first batch the invariant holds.                             *)
LEMMA PushInitial ==
    PushInit => PushInv
  <1> SUFFICES ASSUME PushInit PROVE PushInv
    OBVIOUS
  <1>1. /\ ackedUpTo = 0 /\ sending = <<>> /\ requests = <<>> /\ waitsFor = 0 /\ handled = <<>>
        /\ step = 1 /\ driver \in {"engine", "harness"} /\ (driver = "harness" => secretsMatch)
    BY DEF PushInit
  <1>2. Len(handled) = 0 /\ Len(requests) = 0 /\ DOMAIN requests = {}
    BY <1>1
  <1>3. handled = Batch(1, 0)
    <2>1. Len(Batch(1, 0)) = 0 /\ Batch(1, 0) \in Seq(Nat)
      BY FromOne
    <2> QED BY <1>1, <2>1
  <1>4. PushTypes
    BY <1>1 DEF PushTypes
  <1>5. HandledInv
    BY <1>2, <1>3 DEF HandledInv
  <1>6. ReachInv /\ AnswerInv /\ WaitInv
    BY <1>1, <1>2 DEF ReachInv, AnswerInv, WaitInv
  <1>7. AckedWasProcessed
    BY <1>1, <1>2 DEF AckedWasProcessed
  <1>8. HarnessInv /\ EngineInv
    BY <1>1, <1>2 DEF HarnessInv, EngineInv, Started
  <1> QED BY <1>4, <1>5, <1>6, <1>7, <1>8 DEF PushInv

(* The next batch leaves no gap: the engine cuts it behind its checkpoint, *)
(* the harness behind what was delivered (StartBatch).                     *)
LEMMA StartKeeps ==
    ASSUME PushInv, StartBatch
    PROVE  PushInv'
  <1> USE DEF PushInv
  <1>1. /\ sending = <<>> /\ UNCHANGED <<driver, secretsMatch, ackedUpTo, requests, waitsFor, handled>>
        /\ waitsFor = 0 /\ Len(handled) \in Nat /\ ackedUpTo \in Nat /\ ackedUpTo <= Len(handled)
    BY DEF StartBatch, WaitInv, PushTypes, HandledInv, AckedWasProcessed
  <1>2. CASE EngineBatch
    <2>1. PICK end \in (ackedUpTo + 1)..(ackedUpTo + PushBatch) : sending' = Batch(ackedUpTo + 1, end)
      BY <1>2 DEF EngineBatch
    <2>2. ackedUpTo + 1 \in 1..(Len(handled) + 1) /\ end \in Nat /\ ackedUpTo + 1 <= end
          /\ ackedUpTo + 1 \in Nat \ {0}
      BY <1>1, PushSinkAssumption
    <2>3. sending' \in Seq(Nat) /\ sending' # <<>>
      BY <2>1, <2>2, EndOfBatch
    <2>4. \E a \in 1..(Len(handled) + 1) : \E b \in Nat : a <= b /\ sending' = Batch(a, b)
      BY <2>1, <2>2
    <2>5. ReachInv'
      BY <1>1, <2>4 DEF ReachInv, InReach, Batch
    <2>6. driver = "engine" /\ step' = step
      BY <1>2 DEF EngineBatch
    <2>7. PushTypes' /\ HandledInv' /\ AnswerInv' /\ WaitInv' /\ AckedWasProcessed'
      BY <1>1, <2>3 DEF PushTypes, HandledInv, AnswerInv, WaitInv, AckedWasProcessed, Batch, Ends
    <2>8. HarnessInv' /\ EngineInv'
      BY <1>1, <2>6 DEF HarnessInv, EngineInv
    <2> QED BY <2>5, <2>7, <2>8
  <1>3. CASE HarnessBatch
    <2>1. driver = "harness" /\ step \in 1..4 /\ sending' = HarnessSends(step) /\ step' = step + 1
      BY <1>3 DEF HarnessBatch, HarnessSends
    <2>2. sending' \in Seq(Nat) /\ sending' # <<>>
      BY <2>1, HarnessBatchIs
    <2>3. Len(requests) = step - 1 /\ Started = step - 1 /\ Started' = step
      BY <1>1, <2>1 DEF HarnessInv, Started
    <2>4. \A i \in 1..(step - 1) : Ends(HarnessSends(i)) <= Len(handled)
      <3>1. DOMAIN requests = 1..(step - 1)
        BY <2>3 DEF PushTypes
      <3>2. \A i \in DOMAIN requests : i # 0 /\ i # waitsFor
        BY <1>1, <3>1
      <3>3. \A i \in DOMAIN requests : requests[i].at = "over"
        BY <2>1, <3>2 DEF HarnessInv
      <3>4. \A i \in DOMAIN requests : Ends(HarnessSends(i)) <= Len(handled)
        BY <2>1, <3>3 DEF HarnessInv
      <3> QED BY <3>1, <3>4
    <2>5. \E a \in 1..(Len(handled) + 1) : \E b \in Nat : a <= b /\ sending' = Batch(a, b)
      <3>1. CASE step = 1
        BY <1>1, <2>1, <3>1, HarnessBatches DEF Sends
      <3>2. CASE step # 1 /\ step # 3
        <4>1. Ends(HarnessSends(1)) <= Len(handled)
          BY <2>1, <2>4, <3>2
        <4>2. Ends(HarnessSends(1)) = HarnessCuts[1]
          BY HarnessBatches, EndOfBatch DEF Sends
        <4>3. HarnessCuts[1] + 1 \in 1..(Len(handled) + 1)
          BY <1>1, <4>1, <4>2, Cuts
        <4>4. Sends(step, HarnessCuts[1] + 1, HarnessCuts[2])
          <5>1. step = 2 \/ step = 4
            BY <2>1, <3>2
          <5> QED BY <5>1, HarnessBatches
        <4> QED BY <2>1, <4>3, <4>4 DEF Sends
      <3>3. CASE step = 3
        <4>1. Ends(HarnessSends(2)) <= Len(handled)
          BY <2>1, <2>4, <3>3
        <4>2. Ends(HarnessSends(2)) = HarnessCuts[2]
          BY HarnessBatches, EndOfBatch DEF Sends
        <4>3. HarnessCuts[2] + 1 \in 1..(Len(handled) + 1)
          BY <1>1, <4>1, <4>2, Cuts
        <4>4. Sends(step, HarnessCuts[2] + 1, HarnessCuts[3])
          BY <3>3, HarnessBatches
        <4> QED BY <2>1, <4>3, <4>4 DEF Sends
      <3> QED BY <3>1, <3>2, <3>3
    <2>6. ReachInv'
      BY <1>1, <2>5 DEF ReachInv, InReach, Batch
    <2>7. PushTypes' /\ HandledInv' /\ AnswerInv' /\ WaitInv' /\ AckedWasProcessed'
      BY <1>1, <2>2 DEF PushTypes, HandledInv, AnswerInv, WaitInv, AckedWasProcessed, Batch, Ends
    <2>8. EngineInv'
      BY <1>1, <2>1 DEF EngineInv
    <2>9. HarnessInv'
      <3>1. step' \in 2..5 /\ sending' = HarnessSends(Started')
        BY <2>1, <2>3
      <3>2. Len(requests') = Started' - 1 /\ waitsFor' = 0
        BY <1>1, <2>3
      <3>3. secretsMatch' /\ step' \in 1..6
        BY <1>1, <2>1, <3>1 DEF HarnessInv
      <3>4. \A i \in DOMAIN requests' :
              /\ requests'[i].batch = HarnessSends(i)
              /\ requests'[i].at # "refused" /\ (i # waitsFor' => requests'[i].at = "over")
              /\ requests'[i].at # "sent" => Ends(HarnessSends(i)) <= Len(handled')
        BY <1>1, <2>1 DEF HarnessInv
      <3>5. \A i : (HarnessSends(i))' = HarnessSends(i)
        BY DEF HarnessSends, Batch
      <3> QED BY <2>2, <3>1, <3>2, <3>3, <3>4, <3>5 DEF HarnessInv, HarnessSends, Batch, Ends
    <2> QED BY <2>6, <2>7, <2>8, <2>9
  <1> QED BY <1>2, <1>3 DEF StartBatch

(* A request carries the batch that deliver() was called with (Post).      *)
LEMMA PostKeeps ==
    ASSUME PushInv, Post
    PROVE  PushInv'
  <1> USE DEF PushInv
  <1> DEFINE n == Len(requests) + 1
             new == [batch |-> sending, at |-> "sent"]
  <1>1. /\ sending # <<>> /\ waitsFor = 0 /\ requests' = Append(requests, new) /\ waitsFor' = n
        /\ UNCHANGED <<driver, secretsMatch, ackedUpTo, sending, handled, step>>
    BY DEF Post
  <1>2. requests \in Seq(Request) /\ new \in Request
    BY DEF PushTypes, Request
  <1>3. /\ requests' \in Seq(Request) /\ Len(requests') = n /\ n \in Nat \ {0}
        /\ DOMAIN requests = 1..(n - 1) /\ DOMAIN requests' = 1..n
        /\ requests'[n] = new /\ \A r \in 1..(n - 1) : requests'[r] = requests[r]
    <2> HIDE DEF new
    <2> QED BY ONLY <1>1, <1>2
  <1> HIDE DEF n, new
  <1>4. \A r \in DOMAIN requests' : r = n \/ (r \in DOMAIN requests /\ requests'[r] = requests[r])
    <2> TAKE r \in DOMAIN requests'
    <2>1. r \in 1..n
      BY <1>3
    <2>2. r = n \/ r \in 1..(n - 1)
      BY <1>3, <2>1
    <2> QED BY <1>3, <2>2
  <1>5. n \in DOMAIN requests' /\ requests'[n].batch = sending /\ requests'[n].at = "sent"
    <2>1. n \in 1..n
      BY <1>3
    <2> QED BY <1>3, <2>1 DEF new
  <1>6. PushTypes' /\ HandledInv' /\ AckedWasProcessed' /\ EngineInv'
    BY <1>1, <1>3 DEF PushTypes, HandledInv, AckedWasProcessed, EngineInv, Batch
  <1>7. ReachInv'
    <2>1. \A q : InReach(q)' <=> InReach(q)
      BY <1>1 DEF InReach, Batch
    <2>2. InReach(sending) /\ \A r \in DOMAIN requests : InReach(requests[r].batch)
      BY <1>1 DEF ReachInv
    <2>3. \A r \in DOMAIN requests' : InReach(requests'[r].batch)
      BY <1>4, <1>5, <2>2
    <2> QED BY <1>1, <2>1, <2>2, <2>3 DEF ReachInv, InReach, Batch
  <1>8. AnswerInv'
    BY <1>1, <1>4, <1>5 DEF AnswerInv, Ends
  <1>9. WaitInv'
    BY <1>1, <1>5 DEF WaitInv
  <1>10. ASSUME driver = "harness" PROVE HarnessInv'
    <2>1. /\ secretsMatch /\ step \in 2..5 /\ sending = HarnessSends(Started) /\ step \in 1..6
          /\ Len(requests) = Started - 1
      BY <1>1, <1>10 DEF HarnessInv
    <2>2. Started = step - 1 /\ Started' = Started
      BY <1>1, <2>1 DEF Started
    <2>3. n = Started
      BY <2>1, <2>2 DEF n
    <2>4. \A i : (HarnessSends(i))' = HarnessSends(i)
      BY DEF HarnessSends, Batch
    <2>5. \A i \in DOMAIN requests' :
              /\ requests'[i].batch = HarnessSends(i)
              /\ requests'[i].at # "refused" /\ (i # n => requests'[i].at = "over")
              /\ requests'[i].at # "sent" => Ends(HarnessSends(i)) <= Len(handled)
      <3>1. \A i \in DOMAIN requests :
              /\ requests[i].batch = HarnessSends(i)
              /\ requests[i].at # "refused" /\ requests[i].at = "over"
              /\ requests[i].at # "sent" => Ends(HarnessSends(i)) <= Len(handled)
        <4>1. \A i \in DOMAIN requests : i # 0
          BY <1>3
        <4> QED BY <1>1, <1>10, <4>1 DEF HarnessInv
      <3> QED BY <1>4, <1>5, <2>1, <2>3, <3>1
    <2>6. n # 0
      BY <1>3
    <2> QED BY <1>1, <1>3, <2>1, <2>2, <2>3, <2>5, <2>6 DEF HarnessInv
  <1>11. HarnessInv'
    <2>1. CASE driver = "harness"
      BY <1>10, <2>1
    <2>2. CASE driver # "harness"
      BY <1>1, <2>2 DEF HarnessInv
    <2> QED BY <2>1, <2>2
  <1> QED BY <1>6, <1>7, <1>8, <1>9, <1>11

(* What a receiver does with a request, be it an old one, keeps the        *)
(* invariant (Receive, Appends).                                           *)
LEMMA AnswerKeeps ==
    ASSUME PushInv, NEW r \in DOMAIN requests, Receive(r) \/ Appends(r)
    PROVE  PushInv'
  <1> USE DEF PushInv
  <1>1. PICK how \in {"ok", "refused"} : Answer(r, how)
    BY Answers
  <1>2. /\ requests[r].at = "sent"
        /\ UNCHANGED <<driver, secretsMatch, ackedUpTo, sending, waitsFor, step>>
    BY DEF Receive, Appends
  <1>3. /\ requests' \in Seq(Request) /\ Len(requests') = Len(requests)
        /\ DOMAIN requests' = DOMAIN requests
        /\ \A s \in DOMAIN requests :
              /\ requests'[s].batch = requests[s].batch
              /\ requests'[s].at = IF s = r THEN how ELSE requests[s].at
    <2>1. requests \in Seq(Request) /\ Settle(r, how)
      BY <1>1 DEF PushTypes, Answer
    <2> QED BY <2>1, AfterSettle
  <1>4. /\ Len(handled) \in Nat /\ Len(handled') \in Nat /\ Len(handled) <= Len(handled')
        /\ HandledInv' /\ (how = "ok" => Ends(requests[r].batch) <= Len(handled'))
        /\ (how = "refused" => driver = "engine")
    BY <1>1 DEF Answer, HandledInv
  <1>5. PushTypes' /\ EngineInv' /\ WaitInv'
    BY <1>2, <1>3 DEF PushTypes, EngineInv, WaitInv
  <1>6. AckedWasProcessed'
    BY <1>2, <1>4 DEF AckedWasProcessed, PushTypes
  <1>7. ReachInv'
    <2>1. ASSUME NEW q, InReach(q)
          PROVE  \E a \in 1..(Len(handled') + 1) : \E b \in Nat : a <= b /\ q = Batch(a, b)
      BY <1>4, <2>1 DEF InReach
    <2>2. sending # <<>> => InReach(sending)
      BY DEF ReachInv
    <2>3. \A s \in DOMAIN requests : InReach(requests[s].batch)
      BY DEF ReachInv
    <2>4. sending' # <<>> => \E a \in 1..(Len(handled') + 1) : \E b \in Nat : a <= b /\ sending' = Batch(a, b)
      BY <1>2, <2>1, <2>2
    <2>5. \A s \in DOMAIN requests' :
             \E a \in 1..(Len(handled') + 1) : \E b \in Nat : a <= b /\ requests'[s].batch = Batch(a, b)
      BY <1>3, <2>1, <2>3
    <2> QED BY <2>4, <2>5 DEF ReachInv, InReach, Batch
  <1>8. ASSUME NEW s \in DOMAIN requests
        PROVE  requests[s].batch \in Seq(Nat) /\ Ends(requests[s].batch) \in Nat
    <2>1. PICK a \in 1..(Len(handled) + 1) : \E b \in Nat : a <= b /\ requests[s].batch = Batch(a, b)
      BY DEF ReachInv, InReach
    <2>2. PICK b \in Nat : a <= b /\ requests[s].batch = Batch(a, b)
      BY <2>1
    <2>3. a \in Nat \ {0}
      BY <1>4
    <2>4. Batch(a, b) \in Seq(Nat) /\ Ends(Batch(a, b)) = b
      BY <2>2, <2>3, EndOfBatch
    <2> QED BY <2>2, <2>4
  <1>9. AnswerInv'
    <2>1. ASSUME NEW s \in DOMAIN requests, requests'[s].at = "ok"
          PROVE  Ends(requests[s].batch) <= Len(handled')
      <3>1. CASE s = r
        BY <1>3, <1>4, <2>1, <3>1
      <3>2. CASE s # r
        <4>1. Ends(requests[s].batch) <= Len(handled)
          BY <1>3, <2>1, <3>2 DEF AnswerInv
        <4> QED BY <1>4, <1>8, <4>1
      <3> QED BY <3>1, <3>2
    <2> QED BY <1>3, <2>1 DEF AnswerInv, Ends
  <1>10. ASSUME driver = "harness" PROVE HarnessInv'
    <2>1. how = "ok"
      BY <1>4, <1>10
    <2>2. /\ secretsMatch /\ step \in 1..6 /\ (waitsFor # 0 => waitsFor = Started)
          /\ Len(requests) = IF sending # <<>> /\ waitsFor = 0 THEN Started - 1 ELSE Started
          /\ sending # <<>> => step \in 2..5 /\ sending = HarnessSends(Started)
      BY <1>10 DEF HarnessInv
    <2>3. Started' = Started
      BY <1>2 DEF Started
    <2>4. r = waitsFor
      BY <1>2, <1>10 DEF HarnessInv
    <2>5. ASSUME NEW i \in DOMAIN requests
          PROVE  /\ requests'[i].batch = HarnessSends(i)
                 /\ requests'[i].at # "refused" /\ (i # waitsFor => requests'[i].at = "over")
                 /\ requests'[i].at # "sent" => Ends(HarnessSends(i)) <= Len(handled')
      <3>1. /\ requests[i].batch = HarnessSends(i) /\ requests[i].at # "refused"
            /\ (i # waitsFor => requests[i].at = "over")
            /\ requests[i].at # "sent" => Ends(HarnessSends(i)) <= Len(handled)
        BY <1>10 DEF HarnessInv
      <3>2. CASE i = r
        BY <1>3, <1>4, <2>1, <2>4, <3>1, <3>2
      <3>3. CASE i # r
        <4>1. Ends(HarnessSends(i)) \in Nat
          BY <1>8, <3>1
        <4>2. requests'[i].at = requests[i].at /\ requests'[i].batch = requests[i].batch
          BY <1>3, <3>3
        <4>3. requests'[i].at # "sent" => Ends(HarnessSends(i)) <= Len(handled')
          BY <1>4, <3>1, <4>1, <4>2
        <4> QED BY <3>1, <4>2, <4>3
      <3> QED BY <3>2, <3>3
    <2> QED BY <1>2, <1>3, <2>2, <2>3, <2>5 DEF HarnessInv
  <1>11. HarnessInv'
    <2>1. CASE driver = "harness"
      BY <1>10, <2>1
    <2>2. CASE driver # "harness"
      BY <1>2, <2>2 DEF HarnessInv
    <2> QED BY <2>1, <2>2
  <1> QED BY <1>4, <1>5, <1>6, <1>7, <1>9, <1>11

(* deliver() that settles moves the checkpoint over a batch the far end    *)
(* has processed (DeliverSettles).                                         *)
LEMMA DeliverKeeps ==
    ASSUME PushInv, NEW r \in DOMAIN requests, DeliverSettles(r)
    PROVE  PushInv'
  <1> USE DEF PushInv
  <1>1. /\ waitsFor = r /\ requests[r].at \in {"ok", "refused"} /\ waitsFor' = 0 /\ Settle(r, "over")
        /\ UNCHANGED <<driver, secretsMatch, handled, step>>
    BY DEF DeliverSettles
  <1>2. /\ requests' \in Seq(Request) /\ Len(requests') = Len(requests)
        /\ DOMAIN requests' = DOMAIN requests
        /\ \A s \in DOMAIN requests :
              /\ requests'[s].batch = requests[s].batch
              /\ requests'[s].at = IF s = r THEN "over" ELSE requests[s].at
    <2>1. requests \in Seq(Request)
      BY DEF PushTypes
    <2> QED BY <1>1, <2>1, AfterSettle
  <1>3. r \in Nat /\ r # 0 /\ requests[r].batch = sending /\ sending # <<>>
    <2>1. r \in 1..Len(requests)
      BY DEF PushTypes
    <2> QED BY <1>1, <2>1 DEF WaitInv
  <1>4. PICK a \in 1..(Len(handled) + 1) : \E b \in Nat : a <= b /\ sending = Batch(a, b)
    BY <1>3 DEF ReachInv, InReach
  <1>5. Ends(sending) \in Nat
    <2>1. PICK b \in Nat : a <= b /\ sending = Batch(a, b)
      BY <1>4
    <2>2. a \in Nat \ {0}
      BY DEF HandledInv
    <2>3. Ends(Batch(a, b)) = b
      BY <2>1, <2>2, EndOfBatch
    <2> QED BY <2>1, <2>3
  <1>6. \/ requests[r].at = "ok" /\ sending' = <<>>
           /\ ackedUpTo' = IF driver = "engine" THEN Ends(sending) ELSE ackedUpTo
        \/ requests[r].at = "refused" /\ UNCHANGED <<sending, ackedUpTo>>
    BY <1>1 DEF DeliverSettles, Succeeded, Ends, Last
  <1>7. PushTypes'
    <2>1. sending \in Seq(Nat) /\ <<>> \in Seq(Nat) /\ ackedUpTo \in Nat
      BY DEF PushTypes
    <2>2. sending' \in Seq(Nat)
      BY <1>6, <2>1
    <2>3. ackedUpTo' \in Nat
      BY <1>5, <1>6, <2>1
    <2> QED BY <1>1, <1>2, <2>2, <2>3 DEF PushTypes
  <1>8. HandledInv' /\ WaitInv' /\ EngineInv'
    BY <1>1 DEF HandledInv, WaitInv, EngineInv, Batch
  <1>9. AckedWasProcessed'
    BY <1>1, <1>3, <1>6 DEF AckedWasProcessed, AnswerInv
  <1>10. ReachInv'
    <2>1. \A q : (\E a2 \in 1..(Len(handled') + 1) : \E b2 \in Nat : a2 <= b2 /\ q = Batch(a2, b2)) <=> InReach(q)
      BY <1>1 DEF InReach
    <2>2. sending' # <<>> => InReach(sending')
      BY <1>6 DEF ReachInv
    <2>3. \A s \in DOMAIN requests' : InReach(requests'[s].batch)
      BY <1>2 DEF ReachInv
    <2>4. sending' # <<>> => \E a2 \in 1..(Len(handled') + 1) : \E b2 \in Nat : a2 <= b2 /\ sending' = Batch(a2, b2)
      BY <2>1, <2>2
    <2>5. \A s \in DOMAIN requests' :
             \E a2 \in 1..(Len(handled') + 1) : \E b2 \in Nat : a2 <= b2 /\ requests'[s].batch = Batch(a2, b2)
      BY <2>1, <2>3
    <2> QED BY <2>4, <2>5 DEF ReachInv, InReach
  <1>11. AnswerInv'
    BY <1>1, <1>2 DEF AnswerInv, Ends
  <1>12. ASSUME driver = "harness" PROVE HarnessInv'
    <2>1. /\ secretsMatch /\ step \in 1..6 /\ waitsFor = Started
          /\ Len(requests) = Started /\ requests[r].at # "refused"
      BY <1>1, <1>3, <1>12 DEF HarnessInv
    <2>2. sending' = <<>> /\ requests[r].at = "ok"
      BY <1>6, <2>1
    <2>3. Started' = Started
      BY <1>1 DEF Started
    <2>4. ASSUME NEW i \in DOMAIN requests
          PROVE  /\ requests'[i].batch = HarnessSends(i)
                 /\ requests'[i].at = "over" /\ Ends(HarnessSends(i)) <= Len(handled)
      <3>1. /\ requests[i].batch = HarnessSends(i)
            /\ (i # waitsFor => requests[i].at = "over")
            /\ requests[i].at # "sent" => Ends(HarnessSends(i)) <= Len(handled)
        BY <1>12 DEF HarnessInv
      <3> QED BY <1>1, <1>2, <2>2, <3>1
    <2> QED BY <1>1, <1>2, <2>1, <2>2, <2>3, <2>4 DEF HarnessInv
  <1>13. HarnessInv'
    <2>1. CASE driver = "harness"
      BY <1>12, <2>1
    <2>2. CASE driver # "harness"
      BY <1>1, <2>2 DEF HarnessInv
    <2> QED BY <2>1, <2>2
  <1> QED BY <1>7, <1>8, <1>9, <1>10, <1>11, <1>13

(* A deadline that passes, and a process that dies, leave the requests as  *)
(* they are, or lose one (TimesOut, EngineRestarts).                       *)
LEMMA GivingUpKeeps ==
    ASSUME PushInv, driver = "engine", waitsFor' = 0, sending' \in {sending, <<>>},
           UNCHANGED <<driver, secretsMatch, ackedUpTo, handled, step>>,
           requests' = requests \/ \E r \in DOMAIN requests : Settle(r, "over")
    PROVE  PushInv'
  <1> USE DEF PushInv
  <1>1. /\ requests' \in Seq(Request) /\ DOMAIN requests' = DOMAIN requests
        /\ \A s \in DOMAIN requests :
              /\ requests'[s].batch = requests[s].batch
              /\ requests'[s].at \in {requests[s].at, "over"}
    <2>0. requests \in Seq(Request)
      BY DEF PushTypes
    <2>1. CASE requests' = requests
      BY <2>0, <2>1
    <2>2. ASSUME NEW r \in DOMAIN requests, Settle(r, "over")
          PROVE  /\ requests' \in Seq(Request) /\ DOMAIN requests' = DOMAIN requests
                 /\ \A s \in DOMAIN requests :
                       /\ requests'[s].batch = requests[s].batch
                       /\ requests'[s].at = IF s = r THEN "over" ELSE requests[s].at
      BY <2>0, <2>2, AfterSettle
    <2> QED BY <2>1, <2>2
  <1>2. PushTypes' /\ HandledInv' /\ WaitInv' /\ EngineInv' /\ AckedWasProcessed' /\ HarnessInv'
    <2>1. sending' \in Seq(Nat)
      <3>1. sending \in Seq(Nat) /\ <<>> \in Seq(Nat)
        BY DEF PushTypes
      <3> QED BY <3>1
    <2> QED BY <1>1, <2>1 DEF PushTypes, HandledInv, WaitInv, EngineInv, AckedWasProcessed, HarnessInv, Batch
  <1>3. AnswerInv'
    BY <1>1 DEF AnswerInv, Ends
  <1>4. ReachInv'
    <2>1. \A q : (\E a2 \in 1..(Len(handled') + 1) : \E b2 \in Nat : a2 <= b2 /\ q = Batch(a2, b2)) <=> InReach(q)
      BY DEF InReach
    <2>2. sending' # <<>> => InReach(sending')
      BY DEF ReachInv
    <2>3. \A s \in DOMAIN requests' : InReach(requests'[s].batch)
      BY <1>1 DEF ReachInv
    <2>4. sending' # <<>> => \E a2 \in 1..(Len(handled') + 1) : \E b2 \in Nat : a2 <= b2 /\ sending' = Batch(a2, b2)
      BY <2>1, <2>2
    <2>5. \A s \in DOMAIN requests' :
             \E a2 \in 1..(Len(handled') + 1) : \E b2 \in Nat : a2 <= b2 /\ requests'[s].batch = Batch(a2, b2)
      BY <2>1, <2>3
    <2> QED BY <2>4, <2>5 DEF ReachInv, InReach
  <1> QED BY <1>2, <1>3, <1>4

(* All that the harness receives is the batches one to three, then the     *)
(* second again: their first copies are the events in order (Judge).       *)
LEMMA JudgeKeeps ==
    ASSUME PushInv, Judge
    PROVE  PushInv'
  <1> USE DEF PushInv
  <1>1. /\ step = 5 /\ sending = <<>>
        /\ step' = IF Firsts(Received) = Batch(1, NumPushed) THEN 6 ELSE 7
        /\ ackedUpTo' = IF step' = 6 THEN NumPushed ELSE ackedUpTo
        /\ UNCHANGED <<driver, secretsMatch, sending, requests, waitsFor, handled>>
    BY DEF Judge
  <1>2. driver = "harness" /\ Started = 4 /\ waitsFor = 0
    BY <1>1 DEF EngineInv, PushTypes, Started, WaitInv
  <1>3. Len(requests) = 4 /\ DOMAIN requests = 1..4 /\ requests \in Seq(Request)
    BY <1>1, <1>2 DEF HarnessInv, PushTypes
  <1>4. \A i \in 1..4 : /\ requests[i].batch = HarnessSends(i)
                        /\ Ends(HarnessSends(i)) <= Len(handled)
    <2>1. \A i \in 1..4 : i # waitsFor
      BY <1>2
    <2>2. \A i \in 1..4 : requests[i].batch = HarnessSends(i) /\ requests[i].at = "over"
      BY <1>2, <1>3, <2>1 DEF HarnessInv
    <2>3. \A i \in 1..4 : Ends(HarnessSends(i)) <= Len(handled)
      BY <1>2, <1>3, <2>2 DEF HarnessInv
    <2> QED BY <2>2, <2>3
  <1> DEFINE c1 == HarnessCuts[1]
             c2 == HarnessCuts[2]
             s == [r \in 1..4 |-> HarnessSends(r)]
  <1>5. Firsts(Received) = Batch(1, NumPushed)
    <2>1. Received = FlattenSeq(s)
      <3>1. [r \in DOMAIN requests |-> requests[r].batch] = s
        BY <1>3, <1>4
      <3> HIDE DEF s
      <3> QED BY <3>1 DEF Received
    <2>2. s \in Seq(Seq(Nat)) /\ Len(s) = 4
      <3>1. \A r \in 1..4 : HarnessSends(r) \in Seq(Nat)
        BY HarnessBatchIs
      <3> QED BY <3>1
    <2>3. s[1] = Batch(1, c1) /\ s[2] = Batch(c1 + 1, c2) /\ s[3] = Batch(c2 + 1, NumPushed)
          /\ s[4] = Batch(c1 + 1, c2)
      BY HarnessBatches, Cuts DEF Sends
    <2> HIDE DEF s
    <2>4. FlattenSeq(s) = ((s[1] \o s[2]) \o s[3]) \o s[4]
      BY <2>2, FourFlatten
    <2>5. /\ c1 \in Nat \ {0} /\ c2 \in Nat /\ NumPushed \in Nat /\ c1 < c2 /\ c2 < NumPushed
      BY Cuts
    <2> HIDE DEF c1, c2
    <2>6. Batch(1, c1) \o Batch(c1 + 1, c2) = Batch(1, c2)
      <3>1. 1 \in Nat \ {0} /\ 1 <= c1 + 1 /\ c1 <= c2 /\ c1 \in Nat
        BY <2>5
      <3> QED BY <2>5, <3>1, BatchJoins
    <2>7. Batch(1, c2) \o Batch(c2 + 1, NumPushed) = Batch(1, NumPushed)
      <3>1. 1 \in Nat \ {0} /\ 1 <= c2 + 1 /\ c2 <= NumPushed
        BY <2>5
      <3> QED BY <2>5, <3>1, BatchJoins
    <2>8. Firsts(Batch(1, NumPushed) \o Batch(c1 + 1, c2)) = Batch(1, NumPushed)
      <3>1. c1 + 1 \in Nat \ {0} /\ c1 + 1 <= c2 + 1 /\ c2 <= NumPushed
        BY <2>5
      <3> QED BY <2>5, <3>1, FirstsOf
    <2> QED BY <2>1, <2>3, <2>4, <2>6, <2>7, <2>8
  <1>6. step' = 6 /\ ackedUpTo' = NumPushed
    BY <1>1, <1>5
  <1>7. NumPushed <= Len(handled)
    <2>1. Ends(HarnessSends(3)) <= Len(handled)
      BY <1>4
    <2>2. Ends(HarnessSends(3)) = NumPushed
      BY HarnessBatches, EndOfBatch, Cuts DEF Sends
    <2> QED BY <2>1, <2>2
  <1>8. PushTypes' /\ HandledInv' /\ AckedWasProcessed'
    BY <1>1, <1>6, <1>7, Cuts DEF PushTypes, HandledInv, AckedWasProcessed, Batch
  <1>9. ReachInv' /\ AnswerInv' /\ WaitInv' /\ EngineInv'
    BY <1>1, <1>2 DEF ReachInv, InReach, AnswerInv, WaitInv, EngineInv, Batch, Ends
  <1>10. HarnessInv'
    <2>1. Started' = 4
      BY <1>6 DEF Started
    <2> QED BY <1>1, <1>2, <1>3, <1>4, <1>6, <2>1 DEF HarnessInv
  <1> QED BY <1>8, <1>9, <1>10

(* No step of the driver, the sink or the receiver breaks the invariant.   *)
LEMMA PushStep ==
    ASSUME PushInv, [PushNext]_pushVars
    PROVE  PushInv'
  <1>1. CASE StartBatch
    BY <1>1, StartKeeps
  <1>2. CASE Post
    BY <1>2, PostKeeps
  <1>3. CASE EngineRestarts
    <2>1. /\ driver = "engine" /\ waitsFor' = 0 /\ sending' \in {sending, <<>>} /\ requests' = requests
          /\ UNCHANGED <<driver, secretsMatch, ackedUpTo, handled, step>>
      BY <1>3 DEF EngineRestarts
    <2> QED BY <2>1, GivingUpKeeps
  <1>4. CASE Judge
    BY <1>4, JudgeKeeps
  <1>5. ASSUME NEW r \in DOMAIN requests, Receive(r) \/ Appends(r)
        PROVE  PushInv'
    BY <1>5, AnswerKeeps
  <1>6. ASSUME NEW r \in DOMAIN requests, DeliverSettles(r)
        PROVE  PushInv'
    BY <1>6, DeliverKeeps
  <1>7. ASSUME NEW r \in DOMAIN requests, TimesOut(r)
        PROVE  PushInv'
    <2>1. /\ driver = "engine" /\ waitsFor' = 0 /\ sending' \in {sending, <<>>}
          /\ requests' = requests \/ Settle(r, "over")
          /\ UNCHANGED <<driver, secretsMatch, ackedUpTo, handled, step>>
      BY <1>7 DEF TimesOut
    <2> QED BY <2>1, GivingUpKeeps
  <1>8. CASE UNCHANGED pushVars
    <2> USE <1>8 DEF pushVars, PushInv
    <2>1. PushTypes' /\ HandledInv' /\ AnswerInv' /\ WaitInv'
      BY DEF PushTypes, HandledInv, AnswerInv, WaitInv, Batch, Ends
    <2>2. ReachInv'
      BY DEF ReachInv, InReach, Batch
    <2>3. AckedWasProcessed' /\ EngineInv'
      BY DEF AckedWasProcessed, EngineInv
    <2>4. HarnessInv'
      BY DEF HarnessInv, Started
    <2> QED BY <2>1, <2>2, <2>3, <2>4
  <1> QED BY <1>1, <1>2, <1>3, <1>4, <1>5, <1>6, <1>7, <1>8 DEF PushNext

(* The invariant holds of every execution.                                 *)
LEMMA PushInvariant ==
    PushSpec => []PushInv
  <1>1. PushInv /\ [PushNext]_pushVars => PushInv'
    BY PushStep
  <1> QED BY <1>1, PushInitial, PTL DEF PushSpec

(* However often a batch is sent again, late, cut anew or processed in     *)
(* part, the far end has every event once and in order, and the harness    *)
(* fails no such sink.                                                     *)
THEOREM FirstsStayInOrder ==
    PushSpec => []FirstsInOrder
  <1>1. PushInv => FirstsInOrder
    <2> SUFFICES ASSUME PushInv PROVE FirstsInOrder
      OBVIOUS
    <2>1. handled = Batch(1, Len(handled))
      BY DEF PushInv, HandledInv
    <2>2. step # 7
      BY DEF PushInv, PushTypes, EngineInv, HarnessInv
    <2> QED BY <2>1, <2>2 DEF FirstsInOrder
  <1> QED BY <1>1, PushInvariant, PTL

(* The checkpoint never moves past what the far end has not processed.     *)
THEOREM AckedIsProcessed ==
    PushSpec => []AckedWasProcessed
  <1>1. PushInv => AckedWasProcessed
    BY DEF PushInv
  <1> QED BY <1>1, PushInvariant, PTL

-----------------------------------------------------------------------------
(***************************************************************************)
(* The live tail                                                           *)
(***************************************************************************)
(* Induction over 0..n: a set that has 0 and with each number the next.    *)
\* What one more event does to what a filter has passed.
Passed(filter, s, p, i) == IF Passes(filter, s[i]) THEN Append(p, s[i]) ELSE p

\* p is what the filter passes of the first i events of s, for every i.
IsPass(filter, s, p, n) ==
    p = [i \in 0..n |-> IF i = 0 THEN <<>> ELSE Passed(filter, s, p[i - 1], i)]

(* What a loop over a batch builds up exists, be the batch ever so long.   *)
LEMMA PassExists ==
    ASSUME NEW filter, NEW s, NEW n \in Nat
    PROVE  \E p : IsPass(filter, s, p, n)
  <1> DEFINE T == {i \in Nat : \E p : IsPass(filter, s, p, i)}
  <1>1. 0 \in T
    <2> DEFINE p == [i \in 0..0 |-> <<>>]
    <2>1. IsPass(filter, s, p, 0)
      BY DEF IsPass
    <2> QED BY <2>1
  <1>2. ASSUME NEW i \in 1..n, i - 1 \in T PROVE i \in T
    <2>1. PICK p : IsPass(filter, s, p, i - 1)
      BY <1>2
    <2> DEFINE q == [j \in 0..i |-> IF j = i THEN Passed(filter, s, p[i - 1], i) ELSE p[j]]
    <2>2. ASSUME NEW j \in 0..i
          PROVE  q[j] = IF j = 0 THEN <<>> ELSE Passed(filter, s, q[j - 1], j)
      <3>1. CASE j = i
        <4>1. i - 1 \in 0..i /\ i - 1 # i /\ i # 0
          BY <1>2
        <4> QED BY <3>1, <4>1
      <3>2. CASE j # i
        <4>1. j \in 0..(i - 1)
          BY <3>2
        <4>2. p[j] = IF j = 0 THEN <<>> ELSE Passed(filter, s, p[j - 1], j)
          BY <2>1, <4>1 DEF IsPass
        <4>3. j # 0 => j - 1 \in 0..i /\ j - 1 # i
          BY <4>1
        <4> QED BY <3>2, <4>2, <4>3
      <3> QED BY <3>1, <3>2
    <2>3. q = [j \in 0..i |-> q[j]]
      OBVIOUS
    <2> HIDE DEF q
    <2>4. IsPass(filter, s, q, i)
      BY <2>2, <2>3 DEF IsPass
    <2> QED BY <1>2, <2>4
  <1>3. 0..n \subseteq T
    <2> HIDE DEF T
    <2> QED BY <1>1, <1>2, UpTo
  <1> QED BY <1>3

(* What the filter passes is built up event by event (deliver).            *)
LEMMA PassingIs ==
    ASSUME NEW filter, NEW s, Len(s) \in Nat
    PROVE  \E p : IsPass(filter, s, p, Len(s)) /\ Passing(filter, s) = p[Len(s)]
  <1> DEFINE g == CHOOSE p : p = [i \in 0..Len(s) |-> IF i = 0 THEN <<>>
                         ELSE IF Passes(filter, s[i]) THEN Append(p[i - 1], s[i]) ELSE p[i - 1]]
  <1>1. Passing(filter, s) = g[Len(s)]
    BY Zenon DEF Passing
  <1>2. PICK w : IsPass(filter, s, w, Len(s))
    BY PassExists
  <1>3. w = [i \in 0..Len(s) |-> IF i = 0 THEN <<>>
                         ELSE IF Passes(filter, s[i]) THEN Append(w[i - 1], s[i]) ELSE w[i - 1]]
    BY <1>2, Zenon DEF IsPass, Passed
  <1>4. g = [i \in 0..Len(s) |-> IF i = 0 THEN <<>>
                         ELSE IF Passes(filter, s[i]) THEN Append(g[i - 1], s[i]) ELSE g[i - 1]]
    BY <1>3, Zenon
  <1> HIDE DEF g
  <1>5. IsPass(filter, s, g, Len(s))
    BY <1>4, Zenon DEF IsPass, Passed
  <1> QED BY <1>1, <1>5

Steps(filter, s, p, n) ==
    p[0] = <<>> /\ \A i \in 1..n : p[i] = Passed(filter, s, p[i - 1], i)

(* The loop starts with nothing and looks at one event after the other.    *)
LEMMA PassStep ==
    ASSUME NEW filter, NEW s, NEW n \in Nat, NEW p, IsPass(filter, s, p, n)
    PROVE  Steps(filter, s, p, n)
  <1>1. 0 \in 0..n /\ \A i \in 1..n : i \in 0..n /\ i # 0
    OBVIOUS
  <1> QED BY <1>1 DEF IsPass, Steps

(* What a filter passes of a batch are events of the batch.                *)
LEMMA PassTypes ==
    ASSUME NEW S, NEW filter, NEW s \in Seq(S), NEW p, IsPass(filter, s, p, Len(s))
    PROVE  \A i \in 0..Len(s) : p[i] \in Seq(S)
  <1> DEFINE T == {i \in 0..Len(s) : p[i] \in Seq(S)}
  <1>1. Len(s) \in Nat
    OBVIOUS
  <1>2. p[0] = <<>> /\ \A i \in 1..Len(s) : p[i] = Passed(filter, s, p[i - 1], i)
    <2>1. Steps(filter, s, p, Len(s))
      BY <1>1, PassStep, Zenon
    <2> QED BY <2>1, Zenon DEF Steps
  <1>3. 0 \in T
    <2>1. <<>> \in Seq(S) /\ 0 \in 0..Len(s)
      BY <1>1
    <2> QED BY <1>2, <2>1
  <1>4. ASSUME NEW i \in 1..Len(s), i - 1 \in T PROVE i \in T
    <2>1. s[i] \in S /\ p[i - 1] \in Seq(S) /\ i \in 0..Len(s)
      BY <1>4
    <2>2. Append(p[i - 1], s[i]) \in Seq(S)
      BY <2>1
    <2>3. p[i] \in Seq(S)
      BY <1>2, <2>1, <2>2 DEF Passed
    <2> QED BY <2>1, <2>3
  <1>5. 0..Len(s) \subseteq T
    <2> HIDE DEF T
    <2> QED BY <1>1, <1>3, <1>4, UpTo
  <1> QED BY <1>5

Joins(p, q, x) == Append(p \o q, x) = p \o Append(q, x)

(* Append to the second of two sequences that are joined.                  *)
LEMMA AppendJoins ==
    ASSUME NEW S, NEW p \in Seq(S), NEW q \in Seq(S), NEW x \in S
    PROVE  Joins(p, q, x)
  BY SMT DEF Joins

Splits(filter, s, t) == Passing(filter, s \o t) = Passing(filter, s) \o Passing(filter, t)

(* A filter passes of two batches what it passes of the one, then of the   *)
(* other.                                                                  *)
LEMMA PassingConcat ==
    ASSUME NEW S, NEW filter, NEW s \in Seq(S), NEW t \in Seq(S)
    PROVE  Passing(filter, s) \in Seq(S) /\ Splits(filter, s, t)
  <1> DEFINE m == Len(s)
             n == Len(t)
             u == s \o t
  <1>1. /\ m \in Nat /\ n \in Nat /\ u \in Seq(S) /\ Len(u) = m + n /\ m + n \in Nat
        /\ \A i \in 1..m : u[i] = s[i]
        /\ \A i \in 1..n : u[m + i] = t[i]
    OBVIOUS
  <1>2. PICK p : IsPass(filter, s, p, m) /\ Passing(filter, s) = p[m]
    BY <1>1, PassingIs
  <1>3. PICK q : IsPass(filter, t, q, n) /\ Passing(filter, t) = q[n]
    BY <1>1, PassingIs
  <1>4. PICK r : IsPass(filter, u, r, m + n) /\ Passing(filter, u) = r[m + n]
    <2>1. Len(u) \in Nat
      BY <1>1
    <2> HIDE DEF u
    <2>2. \E r : IsPass(filter, u, r, Len(u)) /\ Passing(filter, u) = r[Len(u)]
      BY <2>1, PassingIs
    <2> QED BY <1>1, <2>2
  <1>5. \A i \in 0..m : p[i] \in Seq(S)
    BY <1>2, PassTypes
  <1>6. \A i \in 0..n : q[i] \in Seq(S)
    BY <1>3, PassTypes
  <1>t. \A i \in 1..n : t[i] \in S
    OBVIOUS
  <1> HIDE DEF m, n
  <1>7. p[0] = <<>> /\ \A i \in 1..m : p[i] = Passed(filter, s, p[i - 1], i)
    <2>1. m \in Nat
      BY <1>1
    <2>2. IsPass(filter, s, p, m)
      BY <1>2
    <2>3. Steps(filter, s, p, m)
      BY <2>1, <2>2, PassStep, Zenon
    <2> QED BY <2>3, Zenon DEF Steps
  <1>8. q[0] = <<>> /\ \A i \in 1..n : q[i] = Passed(filter, t, q[i - 1], i)
    <2>1. n \in Nat
      BY <1>1
    <2>2. IsPass(filter, t, q, n)
      BY <1>3
    <2>3. Steps(filter, t, q, n)
      BY <2>1, <2>2, PassStep, Zenon
    <2> QED BY <2>3, Zenon DEF Steps
  <1> HIDE DEF u
  <1>9. r[0] = <<>> /\ \A i \in 1..(m + n) : r[i] = Passed(filter, u, r[i - 1], i)
    <2>1. m + n \in Nat
      BY <1>1
    <2>2. IsPass(filter, u, r, m + n)
      BY <1>4
    <2> DEFINE k == m + n
    <2>3. k \in Nat /\ IsPass(filter, u, r, k)
      BY <2>1, <2>2
    <2> HIDE DEF k
    <2>4. r[0] = <<>> /\ \A i \in 1..k : r[i] = Passed(filter, u, r[i - 1], i)
      <3>1. Steps(filter, u, r, k)
        BY <2>3, PassStep, Zenon
      <3> QED BY <3>1, Zenon DEF Steps
    <2> QED BY <2>4 DEF k
  <1>10. 0..m \subseteq {i \in 0..m : r[i] = p[i]}
    <2> DEFINE T == {i \in 0..m : r[i] = p[i]}
    <2>1. 0 \in T
      BY <1>1, <1>7, <1>9
    <2>2. ASSUME NEW i \in 1..m, i - 1 \in T PROVE i \in T
      <3>1. i \in 0..m /\ i \in 1..(m + n)
        BY <1>1
      <3>2. r[i] = Passed(filter, u, r[i - 1], i) /\ p[i] = Passed(filter, s, p[i - 1], i)
        BY <1>7, <1>9, <3>1
      <3>3. r[i - 1] = p[i - 1] /\ u[i] = s[i]
        BY <1>1, <2>2
      <3> QED BY <3>1, <3>2, <3>3 DEF Passed
    <2> HIDE DEF T
    <2>3. 0..m \subseteq T
      BY <1>1, <2>1, <2>2, UpTo
    <2> QED BY <2>3 DEF T
  <1>11. r[m] = p[m] /\ p[m] \in Seq(S)
    <2>1. m \in 0..m
      BY <1>1
    <2> QED BY <1>5, <1>10, <2>1
  <1>12. 0..n \subseteq {i \in 0..n : r[m + i] = p[m] \o q[i]}
    <2> DEFINE T == {i \in 0..n : r[m + i] = p[m] \o q[i]}
    <2>1. 0 \in T
      <3>1. p[m] \o <<>> = p[m]
        BY <1>11
      <3>2. m + 0 = m /\ 0 \in 0..n
        BY <1>1
      <3> QED BY <1>8, <1>11, <3>1, <3>2
    <2>2. ASSUME NEW i \in 1..n, i - 1 \in T PROVE i \in T
      <3>1. i \in 0..n /\ i - 1 \in 0..n /\ m + i \in 1..(m + n) /\ (m + i) - 1 = m + (i - 1)
        BY <1>1
      <3>2. r[m + i] = Passed(filter, u, r[(m + i) - 1], m + i)
        BY <1>9, <3>1
      <3>3. r[(m + i) - 1] = p[m] \o q[i - 1]
        BY <2>2, <3>1
      <3>4. u[m + i] = t[i] /\ t[i] \in S /\ q[i - 1] \in Seq(S)
        BY <1>1, <1>6, <1>t, <3>1
      <3>5. q[i] = Passed(filter, t, q[i - 1], i)
        BY <1>8
      <3>6. Append(p[m] \o q[i - 1], t[i]) = p[m] \o Append(q[i - 1], t[i])
        <4>1. Joins(p[m], q[i - 1], t[i])
          BY <1>11, <3>4, AppendJoins, Zenon
        <4> QED BY <4>1, Zenon DEF Joins
      <3>7. r[m + i] = p[m] \o q[i]
        BY <3>2, <3>3, <3>4, <3>5, <3>6 DEF Passed
      <3> QED BY <3>1, <3>7
    <2> HIDE DEF T
    <2>3. 0..n \subseteq T
      BY <1>1, <2>1, <2>2, UpTo
    <2> QED BY <2>3 DEF T
  <1>13. r[m + n] = p[m] \o q[n]
    <2>1. n \in 0..n
      BY <1>1
    <2> QED BY <1>12, <2>1
  <1>14. Splits(filter, s, t)
    BY <1>2, <1>3, <1>4, <1>11, <1>13 DEF u, Splits
  <1> QED BY <1>2, <1>11, <1>14

(* Of nothing, nothing passes.                                             *)
LEMMA PassingNone ==
    ASSUME NEW filter
    PROVE  Passing(filter, <<>>) = <<>>
  <1>1. PICK p : IsPass(filter, <<>>, p, Len(<<>>)) /\ Passing(filter, <<>>) = p[Len(<<>>)]
    BY PassingIs
  <1> QED BY <1>1 DEF IsPass

Few(n) == IF n < Kept THEN n ELSE Kept

\* The events of the inspector's list, one by one.
IsOnto(e, old, q) ==
    /\ Len(q) = Few(Len(e) + Len(old))
    /\ \A i \in 1..Len(q) :
          q[i] = IF i <= Len(e) THEN e[(Len(e) - i) + 1] ELSE old[i - Len(e)]

Cats(p, q) ==
    /\ Len(p \o q) = Len(p) + Len(q)
    /\ \A i \in 1..Len(p) : (p \o q)[i] = p[i]
    /\ \A i \in 1..Len(q) : (p \o q)[Len(p) + i] = q[i]

(* The elements of two sequences that are joined.                          *)
LEMMA Concats ==
    ASSUME NEW S, NEW p \in Seq(S), NEW q \in Seq(S)
    PROVE  p \o q \in Seq(S) /\ Cats(p, q)
  BY SMT DEF Cats

Starts(s, n) ==
    Len(SubSeq(s, 1, n)) = n /\ \A i \in 1..n : SubSeq(s, 1, n)[i] = s[i]

(* The elements of the start of a sequence.                                *)
LEMMA StartIs ==
    ASSUME NEW S, NEW s \in Seq(S), NEW n \in 0..Len(s)
    PROVE  SubSeq(s, 1, n) \in Seq(S) /\ Starts(s, n)
  <1> DEFINE q == SubSeq(s, 1, n)
  <1>1. Len(s) \in Nat /\ n \in Nat /\ n <= Len(s)
    OBVIOUS
  <1>2. q \in Seq(S)
    BY <1>1
  <1>3. Len(q) = n
    BY <1>1
  <1>4. \A i \in 1..n : q[i] = s[i]
    BY <1>1
  <1> QED BY <1>2, <1>3, <1>4, Zenon DEF Starts

(* The inspector shows the new events, the newest first, above the old     *)
(* ones, and no more than it keeps (Live).                                 *)
LEMMA OntoIs ==
    ASSUME NEW S, NEW e \in Seq(S), NEW old \in Seq(S)
    PROVE  Onto(e, old) \in Seq(S) /\ IsOnto(e, old, Onto(e, old))
  <1> DEFINE k == Len(e)
             m == Len(old)
             back == Reverse(e)
             all == back \o old
             n == Few(k + m)
  <1>1. k \in Nat /\ m \in Nat /\ Kept \in Nat
    BY SseAssumption
  <1>2. back \in Seq(S) /\ Len(back) = k /\ \A i \in 1..k : back[i] = e[(k - i) + 1]
    <2>1. back = [i \in 1..k |-> e[(k - i) + 1]]
      BY DEF Reverse
    <2>2. \A i \in 1..k : e[(k - i) + 1] \in S
      <3>1. \A i \in 1..k : (k - i) + 1 \in 1..k
        BY <1>1
      <3> QED BY <3>1
    <2> HIDE DEF back
    <2> QED BY <1>1, <2>1, <2>2
  <1> HIDE DEF back
  <1>3. all \in Seq(S) /\ Cats(back, old)
    BY <1>2, Concats
  <1>4. Len(all) = k + m /\ n \in 0..(k + m) /\ n <= Kept
    BY <1>1, <1>2, <1>3 DEF Cats, Few
  <1>5. SubSeq(all, 1, n) \in Seq(S) /\ Starts(all, n)
    <2> HIDE DEF all, n
    <2>1. all \in Seq(S) /\ n \in 0..Len(all)
      BY <1>3, <1>4
    <2> QED BY <2>1, StartIs, Zenon
  <1>6. Onto(e, old) = SubSeq(all, 1, n)
    BY Zenon DEF Onto, Few, all, n, k, m, back
  <1> DEFINE q == Onto(e, old)
  <1>7. q \in Seq(S) /\ Len(q) = n /\ \A i \in 1..n : q[i] = all[i]
    BY <1>5, <1>6 DEF Starts
  <1> HIDE DEF q
  <1>8. ASSUME NEW i \in 1..n
        PROVE  q[i] = IF i <= k THEN e[(k - i) + 1] ELSE old[i - k]
    <2>1. q[i] = all[i]
      BY <1>7
    <2>2. CASE i <= k
      <3>1. i \in 1..k
        BY <1>1, <2>2
      <3> QED BY <1>2, <1>3, <2>1, <2>2, <3>1 DEF Cats
    <2>3. CASE ~(i <= k)
      <3>1. i - k \in 1..m /\ k + (i - k) = i
        BY <1>1, <1>4, <2>3
      <3>2. all[k + (i - k)] = old[i - k]
        BY <1>2, <1>3, <3>1 DEF Cats
      <3> QED BY <2>1, <2>3, <3>1, <3>2
    <2> QED BY <2>2, <2>3
  <1>9. IsOnto(e, old, q)
    BY <1>7, <1>8 DEF IsOnto
  <1> QED BY <1>7, <1>9 DEF q

IsHead(o, s) == Len(o) <= Len(s) /\ \A i \in 1..Len(o) : s[i] = o[i]

(* To start with o, as elements and as sequences.                          *)
LEMMA HeadIs ==
    ASSUME NEW S, NEW o \in Seq(S), NEW s \in Seq(S)
    PROVE  IsHead(o, s) <=> Len(o) <= Len(s) /\ SubSeq(s, 1, Len(o)) = o
  <1>1. Len(o) \in Nat /\ Len(s) \in Nat
    OBVIOUS
  <1>2. CASE Len(o) <= Len(s)
    <2> DEFINE n == Len(o)
               h == SubSeq(s, 1, n)
    <2>1. h \in Seq(S) /\ Starts(s, n)
      <3>1. n \in 0..Len(s)
        BY <1>1, <1>2
      <3> HIDE DEF n
      <3> QED BY <3>1, StartIs, Zenon
    <2>2. Len(h) = n /\ \A i \in 1..n : h[i] = s[i]
      BY <2>1 DEF Starts
    <2> HIDE DEF h
    <2>3. h = o <=> \A i \in 1..n : s[i] = o[i]
      <3>1. ASSUME \A i \in 1..n : s[i] = o[i] PROVE h = o
        <4>1. \A i \in 1..n : h[i] = o[i]
          BY <2>2, <3>1
        <4> QED BY <2>1, <2>2, <4>1
      <3> QED BY <2>2, <3>1
    <2> QED BY <1>2, <2>3 DEF IsHead, h
  <1> QED BY <1>2 DEF IsHead

(* What is shown of a new batch goes above what was owed before.           *)
LEMMA OntoGrows ==
    ASSUME NEW S, NEW a \in Seq(S), NEW e \in Seq(S), NEW b \in Seq(S),
           IsHead(Onto(a, <<>>), b)
    PROVE  IsHead(Onto(a \o e, <<>>), Onto(e, b))
  <1> DEFINE k == Len(e)
             m == Len(a)
             n == Len(b)
             old == Onto(a, <<>>)
             j == a \o e
             o == Onto(j, <<>>)
             s == Onto(e, b)
  <1>1. k \in Nat /\ m \in Nat /\ n \in Nat /\ Kept \in Nat /\ <<>> \in Seq(S) /\ Len(<<>>) = 0
    BY SseAssumption
  <1>2. j \in Seq(S) /\ Cats(a, e)
    BY Concats
  <1>3. Len(j) = m + k
    BY <1>2 DEF Cats
  <1>4. /\ Len(old) = Few(m)
        /\ \A i \in 1..Len(old) : old[i] = IF i <= m THEN a[(m - i) + 1] ELSE <<>>[i - m]
    <2>1. IsOnto(a, <<>>, old)
      BY <1>1, OntoIs
    <2>2. m + Len(<<>>) = m
      BY <1>1
    <2> QED BY <2>1, <2>2 DEF IsOnto
  <1>5. /\ Len(s) = Few(k + n)
        /\ \A i \in 1..Len(s) : s[i] = IF i <= k THEN e[(k - i) + 1] ELSE b[i - k]
    <2>1. IsOnto(e, b, s)
      BY OntoIs
    <2> QED BY <2>1 DEF IsOnto
  <1>6. /\ Len(o) = Few(m + k)
        /\ \A i \in 1..Len(o) : o[i] = IF i <= m + k THEN j[((m + k) - i) + 1] ELSE <<>>[i - (m + k)]
    <2> HIDE DEF j
    <2>1. IsOnto(j, <<>>, o)
      BY <1>1, <1>2, OntoIs
    <2>2. (m + k) + Len(<<>>) = m + k
      BY <1>1
    <2> QED BY <1>3, <2>1, <2>2 DEF IsOnto
  <1>7. Len(old) <= n /\ \A i \in 1..Len(old) : b[i] = old[i]
    BY DEF IsHead
  <1>8. \A i \in 1..m : j[i] = a[i]
    BY <1>2 DEF Cats
  <1>9. \A i \in 1..k : j[m + i] = e[i]
    BY <1>2 DEF Cats
  <1> HIDE DEF k, m, n, old, j, o, s
  <1>10. Len(o) <= Len(s)
    BY <1>1, <1>4, <1>5, <1>6, <1>7 DEF Few
  <1>11. ASSUME NEW i \in 1..Len(o) PROVE s[i] = o[i]
    <2>1. i \in Nat /\ i > 0 /\ i <= m + k /\ i <= Kept /\ i \in 1..Len(s)
      BY <1>1, <1>5, <1>6, <1>10 DEF Few
    <2>2. o[i] = j[((m + k) - i) + 1]
      BY <1>6, <2>1
    <2>3. CASE i <= k
      <3>1. (k - i) + 1 \in 1..k /\ m + ((k - i) + 1) = ((m + k) - i) + 1
        BY <1>1, <2>1, <2>3
      <3>2. j[m + ((k - i) + 1)] = e[(k - i) + 1]
        BY <1>9, <3>1
      <3>3. s[i] = e[(k - i) + 1]
        BY <1>5, <2>1, <2>3
      <3> QED BY <2>2, <3>1, <3>2, <3>3
    <2>4. CASE ~(i <= k)
      <3> DEFINE d == i - k
      <3>1. d \in Nat /\ d > 0 /\ d <= m /\ d <= Kept
        BY <1>1, <2>1, <2>4
      <3>2. (m - d) + 1 \in 1..m /\ (m - d) + 1 = ((m + k) - i) + 1
        BY <1>1, <2>1, <3>1
      <3>3. s[i] = b[d]
        BY <1>5, <2>1, <2>4
      <3> HIDE DEF d
      <3>4. d \in 1..Len(old)
        BY <1>1, <1>4, <3>1 DEF Few
      <3>5. b[d] = a[(m - d) + 1]
        BY <1>4, <1>7, <3>1, <3>4
      <3>6. j[(m - d) + 1] = a[(m - d) + 1]
        BY <1>8, <3>2
      <3> QED BY <2>2, <3>2, <3>3, <3>5, <3>6
    <2> QED BY <2>3, <2>4
  <1> QED BY <1>10, <1>11 DEF IsHead, o, s, j

Since(v) == SubSeq(tail, since[v] + 1, Len(tail))

Owed(v) == Onto(Passing(clients[v], Since(v)), <<>>)

TailTypes ==
    /\ tail \in Seq(TailTables)
    /\ since \in [Viewers -> Nat] /\ \A v \in Viewers : since[v] <= Len(tail)
    /\ screen \in [Viewers -> Seq(TailTables)]
    /\ DOMAIN clients \subseteq Viewers

OwedInv == \A v \in DOMAIN clients \ broken : IsHead(Owed(v), screen[v])

TailInv == TailTypes /\ OwedInv

-----------------------------------------------------------------------------
(* The elements of the end of a sequence.                                  *)
LEMMA RestIs ==
    ASSUME NEW S, NEW s \in Seq(S), NEW n \in Nat, n <= Len(s)
    PROVE  /\ SubSeq(s, n + 1, Len(s)) \in Seq(S)
           /\ Len(SubSeq(s, n + 1, Len(s))) = Len(s) - n
           /\ \A i \in 1..(Len(s) - n) : SubSeq(s, n + 1, Len(s))[i] = s[n + i]
  <1> DEFINE q == SubSeq(s, n + 1, Len(s))
             m == Len(s)
  <1>1. m \in Nat /\ n \in Nat /\ n <= m /\ m - n \in Nat /\ (m - (n + 1)) + 1 = m - n
    OBVIOUS
  <1>2. q \in Seq(S)
    BY <1>1
  <1>3. Len(q) = m - n
    <2>1. CASE n = m
      <3>1. q = <<>> /\ m - n = 0
        BY <1>1, <2>1
      <3> QED BY <3>1
    <2>2. CASE n # m
      <3>1. n + 1 <= m /\ n + 1 \in Nat /\ n + 1 \in 1..m /\ m \in 1..m
        <4> HIDE DEF m
        <4> QED BY <1>1, <2>2
      <3>2. Len(q) = (m - (n + 1)) + 1
        BY <1>1, <3>1
      <3> QED BY <1>1, <3>2
    <2> QED BY <2>1, <2>2
  <1>4. ASSUME NEW i \in 1..(m - n) PROVE q[i] = s[n + i]
    <2>1. i + (n + 1) - 1 = n + i /\ (n + 1) + i - 1 = n + i /\ n + 1 \in Nat
      BY <1>1
    <2>2. i \in 1..((m - (n + 1)) + 1)
      BY <1>1
    <2>3. q[i] = s[(n + 1) + i - 1]
      BY <1>1, <2>1, <2>2
    <2> QED BY <2>1, <2>3
  <1> QED BY <1>2, <1>3, <1>4, Zenon

(* What came since grows with the batches.                                 *)
LEMMA RestGrows ==
    ASSUME NEW S, NEW s \in Seq(S), NEW e \in Seq(S), NEW n \in Nat, n <= Len(s)
    PROVE  SubSeq(s \o e, n + 1, Len(s \o e)) = SubSeq(s, n + 1, Len(s)) \o e
  <1> DEFINE m == Len(s)
             k == Len(e)
             j == s \o e
             a == SubSeq(s, n + 1, m)
             x == SubSeq(j, n + 1, Len(j))
             y == a \o e
  <1>1. m \in Nat /\ k \in Nat /\ n \in Nat /\ n <= m
    OBVIOUS
  <1>2. j \in Seq(S) /\ Cats(s, e)
    BY Concats
  <1>3. Len(j) = m + k /\ n <= Len(j)
    BY <1>1, <1>2 DEF Cats
  <1>4. a \in Seq(S) /\ Len(a) = m - n /\ \A i \in 1..(m - n) : a[i] = s[n + i]
    BY RestIs
  <1>5. x \in Seq(S) /\ Len(x) = (m + k) - n /\ \A i \in 1..((m + k) - n) : x[i] = j[n + i]
    <2> HIDE DEF j
    <2>1. /\ x \in Seq(S) /\ Len(x) = Len(j) - n
          /\ \A i \in 1..(Len(j) - n) : x[i] = j[n + i]
      BY <1>2, <1>3, RestIs
    <2> QED BY <1>3, <2>1
  <1>6. \A i \in 1..m : j[i] = s[i]
    BY <1>2 DEF Cats
  <1>7. \A i \in 1..k : j[m + i] = e[i]
    BY <1>2 DEF Cats
  <1> HIDE DEF a
  <1>8. y \in Seq(S) /\ Cats(a, e)
    BY <1>4, Concats
  <1>9. Len(y) = (m - n) + k
    BY <1>4, <1>8 DEF Cats
  <1>10. \A i \in 1..(m - n) : y[i] = a[i]
    BY <1>4, <1>8 DEF Cats
  <1>11. \A i \in 1..k : y[(m - n) + i] = e[i]
    BY <1>4, <1>8 DEF Cats
  <1> HIDE DEF m, k, j, x, y
  <1>12. ASSUME NEW i \in 1..((m + k) - n) PROVE x[i] = y[i]
    <2>1. CASE i <= m - n
      <3>1. i \in 1..(m - n) /\ n + i \in 1..m
        BY <1>1, <2>1
      <3> QED BY <1>4, <1>5, <1>6, <1>10, <3>1
    <2>2. CASE ~(i <= m - n)
      <3>1. i - (m - n) \in 1..k /\ m + (i - (m - n)) = n + i /\ (m - n) + (i - (m - n)) = i
        BY <1>1, <2>2
      <3>2. j[m + (i - (m - n))] = e[i - (m - n)]
        BY <1>7, <3>1
      <3>3. y[(m - n) + (i - (m - n))] = e[i - (m - n)]
        BY <1>11, <3>1
      <3> QED BY <1>5, <3>1, <3>2, <3>3
    <2> QED BY <2>1, <2>2
  <1>13. Len(x) = Len(y) /\ Len(x) = (m + k) - n
    BY <1>1, <1>5, <1>9
  <1>14. x = y
    <2>1. x \in Seq(S) /\ y \in Seq(S) /\ Len(x) = Len(y) /\ \A i \in 1..Len(x) : x[i] = y[i]
      BY <1>5, <1>8, <1>12, <1>13
    <2> QED BY ONLY <2>1
  <1> QED BY <1>14 DEF x, y, a, j, m

(* Before the first viewer the invariant holds.                            *)
LEMMA TailInitial ==
    SseInit => TailInv
  <1> SUFFICES ASSUME SseInit PROVE TailInv
    OBVIOUS
  <1>1. tail = <<>> /\ clients = <<>> /\ since = [v \in Viewers |-> 0] /\ screen = [v \in Viewers |-> <<>>]
    BY DEF SseInit
  <1>2. DOMAIN clients = {} /\ <<>> \in Seq(TailTables) /\ Len(tail) = 0
    BY <1>1
  <1>3. TailTypes
    BY <1>1, <1>2 DEF TailTypes
  <1>4. OwedInv
    BY <1>2 DEF OwedInv
  <1> QED BY <1>3, <1>4 DEF TailInv

(* A step of one viewer leaves the others' lists and what they are owed,   *)
(* and one that connects is owed nothing yet (ViewerConnects, Gone).       *)
LEMMA OthersKeep ==
    ASSUME TailInv, NEW v \in Viewers, UNCHANGED <<tail, screen>>, TailTypes',
           \A w \in DOMAIN clients' \ broken' :
                \/ w \in DOMAIN clients \ broken /\ clients'[w] = clients[w] /\ since'[w] = since[w]
                \/ w = v /\ since'[w] = Len(tail)
    PROVE  TailInv'
  <1>1. ASSUME NEW w \in DOMAIN clients' \ broken' PROVE IsHead(Owed(w), screen[w])'
    <2>1. CASE w \in DOMAIN clients \ broken /\ clients'[w] = clients[w] /\ since'[w] = since[w]
      <3>1. IsHead(Owed(w), screen[w])
        BY <2>1 DEF TailInv, OwedInv
      <3>2. Since(w)' = Since(w)
        BY <2>1 DEF Since
      <3>3. Owed(w)' = Owed(w) /\ screen'[w] = screen[w]
        BY <2>1, <3>2 DEF Owed
      <3> QED BY <3>1, <3>3
    <2>2. CASE w = v /\ since'[w] = Len(tail)
      <3> DEFINE n == Len(tail)
      <3>1. tail \in Seq(TailTables) /\ n \in Nat /\ tail' = tail /\ w \in Viewers
        BY <2>2 DEF TailInv, TailTypes
      <3>2. SubSeq(tail, n + 1, n) = <<>>
        BY <3>1, RestIs
      <3>3. Since(w)' = <<>>
        BY <2>2, <3>1, <3>2 DEF Since
      <3>4. Owed(w)' = Onto(<<>>, <<>>)
        BY <3>3, PassingNone DEF Owed
      <3>5. Len(Onto(<<>>, <<>>)) = 0
        <4>1. <<>> \in Seq(TailTables) /\ Len(<<>>) = 0
          OBVIOUS
        <4>2. IsOnto(<<>>, <<>>, Onto(<<>>, <<>>))
          BY <4>1, OntoIs
        <4> QED BY <4>1, <4>2, SseAssumption DEF IsOnto, Few
      <3>6. Len(screen'[w]) \in Nat
        BY <3>1 DEF TailTypes
      <3> QED BY <3>4, <3>5, <3>6 DEF IsHead
    <2> QED BY <1>1, <2>1, <2>2
  <1> QED BY <1>1 DEF TailInv, OwedInv

(* A batch reaches every client whose connection is up, and what it adds   *)
(* to the list is what it adds to what is owed (Tell).                     *)
LEMMA TellKeeps ==
    ASSUME TailInv, Tell
    PROVE  TailInv'
  <1>1. PICK n \in 1..2 : \E batch \in [1..n -> TailTables] :
           /\ tail' = tail \o batch
           /\ screen' = [v \in Viewers |->
                   IF v \in DOMAIN clients \ broken THEN Onto(Shown(v, batch), screen[v]) ELSE screen[v]]
    BY DEF Tell
  <1>2. PICK batch \in [1..n -> TailTables] :
           /\ tail' = tail \o batch
           /\ screen' = [v \in Viewers |->
                   IF v \in DOMAIN clients \ broken THEN Onto(Shown(v, batch), screen[v]) ELSE screen[v]]
    BY <1>1
  <1>3. /\ UNCHANGED <<clients, broken, since>>
        /\ batch \in Seq(TailTables) /\ tail \in Seq(TailTables)
        /\ since \in [Viewers -> Nat] /\ \A v \in Viewers : since[v] <= Len(tail)
        /\ screen \in [Viewers -> Seq(TailTables)] /\ DOMAIN clients \subseteq Viewers
    BY DEF Tell, TailInv, TailTypes
  <1>4. tail' \in Seq(TailTables) /\ Len(tail') = Len(tail) + Len(batch)
    <2>1. tail \o batch \in Seq(TailTables) /\ Cats(tail, batch)
      BY <1>3, Concats
    <2> QED BY <1>2, <2>1 DEF Cats
  <1>5. ASSUME NEW v \in Viewers PROVE Shown(v, batch) \in Seq(TailTables)
    BY <1>3, PassingConcat DEF Shown
  <1>6. ASSUME NEW v \in Viewers
        PROVE  screen'[v] \in Seq(TailTables) /\ since[v] <= Len(tail')
    <2>1. screen[v] \in Seq(TailTables) /\ since[v] \in Nat /\ since[v] <= Len(tail)
      BY <1>3
    <2>2. Len(tail) \in Nat /\ Len(batch) \in Nat
      BY <1>3
    <2>3. since[v] <= Len(tail')
      BY <1>4, <2>1, <2>2
    <2>4. Onto(Shown(v, batch), screen[v]) \in Seq(TailTables)
      BY <1>5, <2>1, OntoIs
    <2> QED BY <1>2, <2>1, <2>3, <2>4
  <1>7. TailTypes'
    <2>1. screen' \in [Viewers -> Seq(TailTables)]
      BY <1>2, <1>6
    <2> QED BY <1>3, <1>4, <1>6, <2>1 DEF TailTypes
  <1>8. ASSUME NEW v \in DOMAIN clients \ broken PROVE IsHead(Owed(v), screen[v])'
    <2> DEFINE f == clients[v]
               a == Since(v)
               p == Passing(f, a)
               q == Passing(f, batch)
    <2>1. v \in Viewers /\ screen[v] \in Seq(TailTables) /\ since[v] \in Nat /\ since[v] <= Len(tail)
      BY <1>3
    <2>2. a \in Seq(TailTables)
      BY <1>3, <2>1, RestIs DEF Since
    <2>3. Since(v)' = a \o batch
      <3>1. SubSeq(tail \o batch, since[v] + 1, Len(tail \o batch))
                = SubSeq(tail, since[v] + 1, Len(tail)) \o batch
        BY <1>3, <2>1, RestGrows
      <3> QED BY <1>2, <1>3, <3>1 DEF Since
    <2> HIDE DEF a
    <2>4. /\ p \in Seq(TailTables) /\ q \in Seq(TailTables)
          /\ Passing(f, a \o batch) = p \o q
      <3>1. a \in Seq(TailTables) /\ batch \in Seq(TailTables)
        BY <1>3, <2>2
      <3> HIDE DEF f
      <3>2. p \in Seq(TailTables) /\ Splits(f, a, batch)
        BY <3>1, PassingConcat, Zenon
      <3>3. q \in Seq(TailTables)
        BY <3>1, PassingConcat, Zenon
      <3> QED BY <3>2, <3>3 DEF Splits
    <2>5. IsHead(Onto(p, <<>>), screen[v])
      BY DEF TailInv, OwedInv, Owed, a
    <2>6. Owed(v)' = Onto(p \o q, <<>>)
      BY <1>3, <2>3, <2>4 DEF Owed
    <2>7. screen'[v] = Onto(q, screen[v])
      BY <1>2, <2>1 DEF Shown
    <2> HIDE DEF p, q
    <2>8. IsHead(Onto(p \o q, <<>>), Onto(q, screen[v]))
      BY <2>1, <2>4, <2>5, OntoGrows
    <2> QED BY <2>6, <2>7, <2>8
  <1>9. OwedInv'
    BY <1>3, <1>8 DEF OwedInv
  <1> QED BY <1>7, <1>9 DEF TailInv

(* No step of a viewer or of the sink breaks the invariant.                *)
LEMMA TailStep ==
    ASSUME TailInv, [SseNext]_sseVars
    PROVE  TailInv'
  <1>0. TailTypes
    BY DEF TailInv
  <1>1. ASSUME NEW v \in Viewers, ViewerConnects(v)
        PROVE  TailInv'
    <2>1. PICK filter : clients' = [w \in DOMAIN clients \cup {v} |-> IF w = v THEN filter ELSE clients[w]]
      BY <1>1 DEF ViewerConnects
    <2>2. /\ v \notin DOMAIN clients /\ since' = [since EXCEPT ![v] = Len(tail)]
          /\ UNCHANGED <<tail, broken, screen>>
      BY <1>1 DEF ViewerConnects
    <2>3. TailTypes'
      <3>1. DOMAIN clients' = DOMAIN clients \cup {v}
        BY <2>1
      <3>2. Len(tail) \in Nat
        BY <1>0 DEF TailTypes
      <3>3. since' \in [Viewers -> Nat] /\ \A w \in Viewers : since'[w] <= Len(tail)
        BY <1>0, <2>2, <3>2 DEF TailTypes
      <3> QED BY <1>0, <2>2, <3>1, <3>3 DEF TailTypes
    <2>4. \A w \in DOMAIN clients' \ broken' :
             \/ w \in DOMAIN clients \ broken /\ clients'[w] = clients[w] /\ since'[w] = since[w]
             \/ w = v /\ since'[w] = Len(tail)
      BY <1>0, <2>1, <2>2 DEF TailTypes
    <2> QED BY <2>2, <2>3, <2>4, OthersKeep
  <1>2. ASSUME NEW v \in Viewers, Breaks(v)
        PROVE  TailInv'
    <2>1. broken' = broken \cup {v} /\ UNCHANGED <<tail, clients, since, screen>>
      BY <1>2 DEF Breaks
    <2>2. TailTypes'
      BY <1>0, <2>1 DEF TailTypes
    <2>3. \A w \in DOMAIN clients' \ broken' :
             w \in DOMAIN clients \ broken /\ clients'[w] = clients[w] /\ since'[w] = since[w]
      BY <2>1
    <2> QED BY <2>1, <2>2, <2>3, OthersKeep
  <1>3. ASSUME NEW v \in Viewers, Gone(v)
        PROVE  TailInv'
    <2>1. /\ clients' = [w \in DOMAIN clients \ {v} |-> clients[w]]
          /\ broken' = broken \ {v} /\ UNCHANGED <<tail, since, screen>>
      BY <1>3 DEF Gone
    <2>2. TailTypes'
      BY <1>0, <2>1 DEF TailTypes
    <2>3. \A w \in DOMAIN clients' \ broken' :
             w \in DOMAIN clients \ broken /\ clients'[w] = clients[w] /\ since'[w] = since[w]
      BY <2>1
    <2> QED BY <2>1, <2>2, <2>3, OthersKeep
  <1>4. CASE Tell
    BY <1>4, TellKeeps
  <1>5. CASE CloseSse
    <2>1. clients' = <<>> /\ UNCHANGED <<tail, since, screen>>
      BY <1>5 DEF CloseSse
    <2>2. DOMAIN clients' = {}
      BY <2>1
    <2>3. TailTypes'
      BY <1>0, <2>1, <2>2 DEF TailTypes
    <2> QED BY <2>2, <2>3 DEF TailInv, OwedInv
  <1>6. CASE UNCHANGED sseVars
    <2>1. UNCHANGED <<tail, clients, broken, since, screen>>
      BY <1>6 DEF sseVars
    <2>2. TailTypes'
      BY <1>0, <2>1 DEF TailTypes
    <2>3. OwedInv'
      BY <2>1 DEF OwedInv, TailInv, Owed, Since
    <2> QED BY <2>2, <2>3 DEF TailInv
  <1> QED BY <1>1, <1>2, <1>3, <1>4, <1>5, <1>6 DEF SseNext

(* However many viewers come and go, none that is connected misses an      *)
(* event of its tables.                                                    *)
THEOREM TailStaysWhole ==
    SseSpec => []TailHasNoGap
  <1>1. TailInv => TailHasNoGap
    <2> SUFFICES ASSUME TailInv, NEW v \in DOMAIN clients \ broken
                 PROVE  /\ Len(Owed(v)) <= Len(screen[v])
                        /\ SubSeq(screen[v], 1, Len(Owed(v))) = Owed(v)
      BY Zenon DEF TailHasNoGap, Owed, Since
    <2>1. /\ v \in Viewers /\ screen[v] \in Seq(TailTables) /\ tail \in Seq(TailTables)
          /\ since[v] \in Nat /\ since[v] <= Len(tail)
      BY DEF TailInv, TailTypes
    <2>2. Since(v) \in Seq(TailTables)
      BY <2>1, RestIs DEF Since
    <2>3. Passing(clients[v], Since(v)) \in Seq(TailTables)
      BY <2>2, PassingConcat
    <2>4. Owed(v) \in Seq(TailTables)
      <3>1. <<>> \in Seq(TailTables)
        OBVIOUS
      <3> QED BY <2>3, <3>1, OntoIs DEF Owed
    <2>5. IsHead(Owed(v), screen[v])
      BY DEF TailInv, OwedInv
    <2> QED BY <2>1, <2>4, <2>5, HeadIs
  <1>2. TailInv /\ [SseNext]_sseVars => TailInv'
    BY TailStep
  <1> QED BY <1>1, <1>2, TailInitial, PTL DEF SseSpec
=============================================================================
