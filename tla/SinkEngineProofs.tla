--------------------------- MODULE SinkEngineProofs ---------------------------
(***************************************************************************)
(* Theorems about SinkEngine, for every number of sinks, log and bound.     *)
(***************************************************************************)
EXTENDS SinkEngine, FiniteSetTheorems, TLAPS

USE ConfigAssumption, BudgetAssumption

-----------------------------------------------------------------------------
(* Lemmas about the operators the engine is built from. *)

LEMMA SeqMonotone ==
    ASSUME NEW S, NEW T, S \subseteq T, NEW s \in Seq(S)
    PROVE  s \in Seq(T)
  OBVIOUS

LEMMA PutType ==
    ASSUME NEW S, NEW q \in Seq(S), NEW t \in S
    PROVE  /\ Put(q, t) \in Seq(S)
           /\ Len(Put(q, t)) = Len(q) + 1
           /\ \A i \in 1..Len(q) : Put(q, t)[i] = q[i]
           /\ Put(q, t)[Len(q) + 1] = t
  BY DEF Put

LEMMA SplitType ==
    ASSUME NEW S, NEW q \in Seq(S), NEW n \in 1..Len(q)
    PROVE  /\ SubSeq(q, 1, n) \in Seq(S)
           /\ Len(SubSeq(q, 1, n)) = n
           /\ \A i \in 1..n : SubSeq(q, 1, n)[i] = q[i]
           /\ Rest(q, n) \in Seq(S)
           /\ Len(Rest(q, n)) = Len(q) - n
           /\ \A i \in 1..(Len(q) - n) : Rest(q, n)[i] = q[n + i]
  BY DEF Rest

LEMMA ConcatType ==
    ASSUME NEW S, NEW s \in Seq(S), NEW t \in Seq(S)
    PROVE  /\ s \o t \in Seq(S)
           /\ Len(s \o t) = Len(s) + Len(t)
           /\ \A i \in 1..Len(s) : (s \o t)[i] = s[i]
           /\ \A i \in 1..Len(t) : (s \o t)[Len(s) + i] = t[i]
  OBVIOUS

LEMMA DurablesFinite == Cardinality(Durable) \in Nat
  <1>1. IsFiniteSet(Sink)
    BY FS_Interval DEF Sink
  <1> QED BY <1>1, FS_Subset, FS_CardinalityType

\* The log only grows, and stays well formed.
LEMMA LogGrows ==
    ASSUME DbOK, NEW n \in Nat, MetaWrites(n)
    PROVE  /\ wal' \in Seq(Change) /\ WellFormed(wal)'
           /\ Len(wal') \in Nat /\ Len(wal) <= Len(wal')
           /\ \A i \in 1..Len(wal) : wal'[i] = wal[i]
  <1> DEFINE new == [i \in 1..n |-> [meta |-> TRUE, first |-> Len(wal) + i]]
  <1>1. wal \in Seq(Change) /\ WellFormed(wal) /\ Len(wal) \in Nat
    BY DEF DbOK
  <1>2. CASE ~PublishesMeta
    BY <1>1, <1>2 DEF MetaWrites
  <1>3. CASE PublishesMeta
    <2>1. wal' = wal \o new
      BY <1>3 DEF MetaWrites
    <2>2. new \in Seq(Change) /\ Len(new) = n
      BY <1>1 DEF Change
    <2> HIDE DEF new
    <2>3. wal' \in Seq(Change) /\ Len(wal') = Len(wal) + n
      BY <1>1, <2>1, <2>2, ConcatType
    <2>4. \A i \in 1..Len(wal) : wal'[i] = wal[i]
      BY <1>1, <2>1, <2>2, ConcatType
    <2>5. \A i \in 1..Len(wal') : i > Len(wal) => wal'[i].first = i
      <3>1. \A j \in 1..n : wal'[Len(wal) + j] = new[j]
        BY <1>1, <2>1, <2>2, ConcatType
      <3>2. \A j \in 1..n : new[j].first = Len(wal) + j
        BY DEF new
      <3>3. ASSUME NEW i \in 1..Len(wal'), i > Len(wal)
            PROVE  wal'[i].first = i
        <4>1. i - Len(wal) \in 1..n /\ Len(wal) + (i - Len(wal)) = i
          BY <1>1, <2>3, <3>3
        <4> QED BY <3>1, <3>2, <4>1
      <3> QED BY <3>3
    <2>6. WellFormed(wal)'
      BY <1>1, <2>3, <2>4, <2>5 DEF WellFormed
    <2> QED BY <1>1, <2>3, <2>4, <2>6
  <1> QED BY <1>2, <1>3

LEMMA ResumeAfterType ==
    ASSUME DbOK, NEW p \in 0..Len(wal)
    PROVE  ResumeAfter(p) \in 0..p
  <1>1. Len(wal) \in Nat /\ p \in Nat
    BY DEF DbOK
  <1>2. CASE p < Len(wal)
    <2>1. p + 1 \in 1..Len(wal)
      BY <1>1, <1>2
    <2>2. wal[p + 1].first \in 1..(p + 1)
      BY <2>1 DEF DbOK, WellFormed
    <2> QED BY <1>1, <1>2, <2>2 DEF ResumeAfter
  <1>3. CASE ~(p < Len(wal))
    BY <1>1, <1>3 DEF ResumeAfter
  <1> QED BY <1>2, <1>3

\* What maybeAck() leaves typed.
LEMMA MaybeAckType ==
    ASSUME DbOK, StreamOK, PumpOK, NEW ds \in [Sink -> 0..seq], MaybeAck(ds)
    PROVE  /\ flushed' \in 0..Len(wal)
           /\ outstanding' \in SUBSET Event
           /\ ackedSeq' \in 0..seq
           /\ DOMAIN bySeq' \subseteq 1..seq
           /\ \A q \in DOMAIN bySeq' : bySeq'[q] \in Event
  <1>1. PICK min \in {ds[s] : s \in Durable} :
            IF min <= ackedSeq
            THEN UNCHANGED <<flushed, outstanding, bySeq, ackedSeq>>
            ELSE /\ IF min \in DOMAIN bySeq
                    THEN Ack(bySeq[min])
                    ELSE UNCHANGED <<flushed, outstanding>>
                 /\ bySeq' = [q \in DOMAIN bySeq \ Forgotten(min) |-> bySeq[q]]
                 /\ ackedSeq' = min
    BY DEF MaybeAck
  <1>2. min \in 0..seq
    BY DEF Sink
  <1>3. CASE min <= ackedSeq
    BY <1>1, <1>3 DEF StreamOK, PumpOK
  <1>4. CASE ~(min <= ackedSeq)
    <2>1. ASSUME NEW e \in Event, Ack(e)
          PROVE  flushed' \in 0..Len(wal) /\ outstanding' \in SUBSET Event
      <3>1. Len(wal) \in Nat
        BY DEF DbOK
      <3>2. AckTarget(e) \in 0..Len(wal)
        BY <3>1 DEF AckTarget, Event
      <3>3. flushed' \in 0..Len(wal)
        BY <2>1, <3>1, <3>2 DEF Ack, StillOut, Larger, StreamOK
      <3>4. outstanding' \in SUBSET Event
        BY <2>1 DEF Ack, StillOut, StreamOK
      <3> QED BY <3>3, <3>4
    <2>2. flushed' \in 0..Len(wal) /\ outstanding' \in SUBSET Event
      BY <1>1, <1>4, <2>1 DEF PumpOK, StreamOK
    <2>3. /\ DOMAIN bySeq' \subseteq 1..seq
          /\ \A q \in DOMAIN bySeq' : bySeq'[q] \in Event
      BY <1>1, <1>4 DEF PumpOK
    <2> QED BY <1>1, <1>2, <1>4, <2>2, <2>3
  <1> QED BY <1>3, <1>4

-----------------------------------------------------------------------------
(* Type correctness: one lemma per action. *)

LEMMA InitType == Init => TypeOK
  <1> SUFFICES ASSUME Init PROVE TypeOK
    OBVIOUS
  <1> USE DEF Init, PerSink
  <1>1. DbOK
    BY DEF DbOK, Status
  <1>2. StreamOK
    BY <1>1 DEF StreamOK, DbOK
  <1>3. PumpOK
    <2>1. putting \in BOOLEAN /\ (putting => at \in Durable)
      BY Zenon
    <2>2. /\ pulled \in 0..sent /\ at \in 0..(NumSinks + 1)
          /\ at # 0 => pulled # 0 /\ seq # 0
          /\ seq \in Nat /\ ackedSeq \in 0..seq
          /\ DOMAIN bySeq \subseteq 1..seq
          /\ \A q \in DOMAIN bySeq : bySeq[q] \in Event
      BY <1>1, <1>2 DEF DbOK, StreamOK
    <2> QED BY <2>1, <2>2, Zenon DEF PumpOK
  <1>4. SinksOK
    BY <1>1 DEF SinksOK, DbOK, WorkerPC, Status, Waiting
  <1>5. ControlOK
    BY DEF ControlOK
  <1> QED BY <1>1, <1>2, <1>3, <1>4, <1>5 DEF TypeOK

LEMMA ConnectType == TypeOK /\ Connect => TypeOK'
  <1> SUFFICES ASSUME TypeOK, Connect PROVE TypeOK'
    OBVIOUS
  <1> USE DEF TypeOK, Connect, dbVars, sinkVars, faultVars
  <1>1. DbOK'
    BY DEF DbOK, Event
  <1>2. ResumeAfter(confirmed) \in 0..confirmed /\ confirmed \in 0..Len(wal)
    BY ResumeAfterType DEF DbOK
  <1>3. Len(wal) \in Nat
    BY DEF DbOK
  <1>4. StreamOK'
    BY <1>2, <1>3 DEF StreamOK, Event
  <1>5. PumpOK'
    BY <1>2, <1>3 DEF PumpOK, Event
  <1>6. SinksOK'
    BY DEF SinksOK, Tracked, Event
  <1>7. ControlOK'
    BY DEF ControlOK
  <1> QED BY <1>1, <1>4, <1>5, <1>6, <1>7

LEMMA ReceiveType == TypeOK /\ Receive => TypeOK'
  <1> SUFFICES ASSUME TypeOK, Receive PROVE TypeOK'
    OBVIOUS
  <1> USE DEF TypeOK, Receive, dbVars, pumpVars, sinkVars, faultVars
  <1>1. DbOK'
    BY DEF DbOK, Event
  <1>2. Len(wal) \in Nat
    BY DEF DbOK
  <1>3. StreamOK'
    BY <1>2 DEF StreamOK, Event
  <1>4. PumpOK'
    BY <1>2 DEF PumpOK, StreamOK, Event
  <1>5. SinksOK'
    BY DEF SinksOK, Tracked, Event
  <1>6. ControlOK'
    BY DEF ControlOK
  <1> QED BY <1>1, <1>3, <1>4, <1>5, <1>6

LEMMA KeepaliveType == TypeOK /\ Keepalive => TypeOK'
  <1> SUFFICES ASSUME TypeOK, Keepalive PROVE TypeOK'
    OBVIOUS
  <1> USE DEF TypeOK, Keepalive, dbVars, pumpVars, sinkVars, faultVars
  <1>1. DbOK' /\ StreamOK' /\ PumpOK'
    BY DEF DbOK, StreamOK, PumpOK, Event
  <1>2. SinksOK'
    BY DEF SinksOK, Tracked, Event
  <1>3. ControlOK'
    BY DEF ControlOK
  <1> QED BY <1>1, <1>2, <1>3

LEMMA SendStatusType == TypeOK /\ SendStatus => TypeOK'
  <1> SUFFICES ASSUME TypeOK, SendStatus PROVE TypeOK'
    OBVIOUS
  <1> USE DEF TypeOK, SendStatus, streamVars, pumpVars, sinkVars, faultVars
  <1>1. DbOK'
    BY DEF DbOK, StreamOK, Event
  <1>2. StreamOK' /\ PumpOK'
    BY DEF StreamOK, PumpOK, Event
  <1>3. SinksOK' /\ ControlOK'
    BY DEF SinksOK, Tracked, Event, ControlOK
  <1> QED BY <1>1, <1>2, <1>3

LEMMA DisconnectType == TypeOK /\ Disconnect => TypeOK'
  <1> SUFFICES ASSUME TypeOK, Disconnect PROVE TypeOK'
    OBVIOUS
  <1> USE DEF TypeOK, Disconnect, dbVars, pumpVars, sinkVars
  <1>1. DbOK' /\ StreamOK' /\ PumpOK'
    BY DEF DbOK, StreamOK, PumpOK, Event
  <1>2. SinksOK'
    BY DEF SinksOK, Tracked, Event
  <1>3. ControlOK'
    BY DEF ControlOK
  <1> QED BY <1>1, <1>2, <1>3

LEMMA PullType == TypeOK /\ Pull => TypeOK'
  <1> SUFFICES ASSUME TypeOK, Pull PROVE TypeOK'
    OBVIOUS
  <1> USE DEF TypeOK, Pull, dbVars, streamVars, sinkVars, faultVars
  <1>1. DbOK' /\ StreamOK'
    BY DEF DbOK, StreamOK, Event
  <1>2. Len(wal) \in Nat /\ sent \in 0..Len(wal)
    BY DEF DbOK, StreamOK
  <1>3. PumpOK'
    BY <1>2 DEF PumpOK, Event, Sink
  <1>4. Tracked \subseteq Tracked' /\ 0..seq \subseteq 0..seq'
    BY DEF PumpOK, Tracked, Event
  <1>5. SinksOK'
    BY <1>4, SeqMonotone DEF SinksOK, Event
  <1>6. ControlOK'
    BY DEF ControlOK
  <1> QED BY <1>1, <1>3, <1>5, <1>6

LEMMA FanOutSkipType == TypeOK /\ FanOutSkip => TypeOK'
  <1> SUFFICES ASSUME TypeOK, FanOutSkip PROVE TypeOK'
    OBVIOUS
  <1> USE DEF TypeOK, FanOutSkip, dbVars, streamVars, faultVars
  <1>1. DbOK' /\ StreamOK'
    BY DEF DbOK, StreamOK, Event
  <1>2. at \in 1..NumSinks
    BY DEF Sink
  <1>3. PumpOK'
    BY <1>2 DEF PumpOK, Event
  <1>a. seq \in 0..seq
    BY DEF PumpOK
  <1>4. SinksOK'
    BY <1>a DEF SinksOK, Tracked, Event
  <1>5. ControlOK'
    BY DEF ControlOK
  <1> QED BY <1>1, <1>3, <1>4, <1>5

\* The item the pump puts into a queue.
LEMMA PutItemType ==
    ASSUME TypeOK, at \in Sink
    PROVE  Put(queue[at], [seq |-> seq, event |-> pulled]) \in Seq(Tracked)
  <1>1. seq \in 1..seq /\ pulled \in Event
    BY DEF TypeOK, PumpOK, StreamOK, DbOK, Sink, Event
  <1>2. [seq |-> seq, event |-> pulled] \in Tracked
    BY <1>1 DEF Tracked
  <1> QED BY <1>2, PutType DEF TypeOK, SinksOK

LEMMA FanOutWaitsType == TypeOK /\ FanOutWaits => TypeOK'
  <1> SUFFICES ASSUME TypeOK, FanOutWaits PROVE TypeOK'
    OBVIOUS
  <1> USE DEF TypeOK, FanOutWaits, dbVars, streamVars, sinkVars, faultVars
  <1>1. DbOK' /\ StreamOK' /\ ControlOK'
    BY DEF DbOK, StreamOK, ControlOK, Event
  <1>2. PumpOK'
    BY DEF PumpOK, Event
  <1>3. SinksOK'
    BY DEF SinksOK, Tracked, Event
  <1> QED BY <1>1, <1>2, <1>3

LEMMA FanOutDurableType == TypeOK /\ FanOutDurable => TypeOK'
  <1> SUFFICES ASSUME TypeOK, FanOutDurable PROVE TypeOK'
    OBVIOUS
  <1>0. Put(queue[at], [seq |-> seq, event |-> pulled]) \in Seq(Tracked)
    BY PutItemType DEF FanOutDurable
  <1> USE DEF TypeOK, FanOutDurable, dbVars, streamVars, faultVars
  <1>1. DbOK' /\ StreamOK'
    BY DEF DbOK, StreamOK, Event
  <1>2. at \in 1..NumSinks
    BY DEF Sink
  <1>3. PumpOK'
    <2>1. putting' \in BOOLEAN /\ (putting' => at' \in Durable)
      BY Zenon
    <2>2. /\ pulled' \in 0..sent' /\ at' \in 0..(NumSinks + 1)
          /\ at' # 0 => pulled' # 0 /\ seq' # 0
          /\ seq' \in Nat /\ ackedSeq' \in 0..seq'
          /\ DOMAIN bySeq' \subseteq 1..seq'
          /\ \A q \in DOMAIN bySeq' : bySeq'[q] \in Event'
      BY <1>2 DEF PumpOK, Event
    <2> QED BY <2>1, <2>2, Zenon DEF PumpOK
  <1>4. SinksOK'
    BY <1>0 DEF SinksOK, Tracked, Event
  <1>5. ControlOK'
    BY DEF ControlOK
  <1> QED BY <1>1, <1>3, <1>4, <1>5

LEMMA FanOutEphemeralType == TypeOK /\ FanOutEphemeral => TypeOK'
  <1> SUFFICES ASSUME TypeOK, FanOutEphemeral PROVE TypeOK'
    OBVIOUS
  <1>0. Put(queue[at], [seq |-> seq, event |-> pulled]) \in Seq(Tracked)
    BY PutItemType DEF FanOutEphemeral
  <1> USE DEF TypeOK, FanOutEphemeral, dbVars, streamVars, faultVars
  <1>1. DbOK' /\ StreamOK'
    BY DEF DbOK, StreamOK, Event
  <1>2. at \in 1..NumSinks
    BY DEF Sink
  <1>3. PumpOK'
    BY <1>2 DEF PumpOK, Event
  <1>4. SinksOK'
    BY <1>0 DEF SinksOK, Tracked, Event
  <1>5. ControlOK'
    BY DEF ControlOK
  <1> QED BY <1>1, <1>3, <1>4, <1>5

LEMMA FanOutEndType == TypeOK /\ FanOutEnd => TypeOK'
  <1> SUFFICES ASSUME TypeOK, FanOutEnd PROVE TypeOK'
    OBVIOUS
  <1>a. at = NumSinks + 1 /\ NumSinks \in Nat
    BY DEF FanOutEnd, PumpAcks
  <1>0. at # 0 /\ Len(wal) \in Nat /\ sent \in 0..Len(wal)
    BY <1>a DEF TypeOK, DbOK, StreamOK
  <1>2. pulled \in Event /\ Len(wal) \in Nat
    BY <1>0 DEF TypeOK, PumpOK, Event
  <1> USE DEF TypeOK, FanOutEnd, PumpAcks, dbVars, sinkVars, faultVars
  <1>1. DbOK'
    BY DEF DbOK, Event
  <1>3. /\ flushed' \in 0..Len(wal)
        /\ outstanding' \in SUBSET Event
        /\ ackedSeq' \in 0..seq
        /\ DOMAIN bySeq' \subseteq 1..seq
        /\ \A q \in DOMAIN bySeq' : bySeq'[q] \in Event
    <2>1. CASE Durable = {} /\ Ack(pulled) /\ UNCHANGED ackedSeq
                 /\ bySeq' = [q \in DOMAIN bySeq \ {seq} |-> bySeq[q]]
      <3>1. AckTarget(pulled) \in 0..Len(wal)
        BY <1>2 DEF AckTarget, Event
      <3>2. flushed' \in 0..Len(wal) /\ outstanding' \in SUBSET Event
        BY <1>2, <2>1, <3>1 DEF Ack, StillOut, Larger, StreamOK
      <3> QED BY <2>1, <3>2 DEF PumpOK
    <2>2. CASE MaybeAck(deliveredSeq)
      <3>1. deliveredSeq \in [Sink -> 0..seq]
        BY DEF SinksOK
      <3> QED BY <2>2, <3>1, MaybeAckType
    <2>3. CASE UNCHANGED <<flushed, outstanding, bySeq, ackedSeq>>
      BY <2>3 DEF StreamOK, PumpOK
    <2> QED BY <2>1, <2>2, <2>3
  <1>4. StreamOK'
    BY <1>3 DEF StreamOK, Event
  <1>6. PumpOK'
    <2>1. ~putting
      <3>1. at \notin Sink
        BY DEF Sink
      <3> QED BY <3>1 DEF PumpOK
    <2>2. putting' \in BOOLEAN /\ (putting' => at' \in Durable)
      BY <2>1, Zenon DEF PumpOK
    <2>3. /\ pulled' \in 0..sent' /\ at' \in 0..(NumSinks + 1)
          /\ at' # 0 => pulled' # 0 /\ seq' # 0
          /\ seq' \in Nat /\ ackedSeq' \in 0..seq'
          /\ DOMAIN bySeq' \subseteq 1..seq'
          /\ \A q \in DOMAIN bySeq' : bySeq'[q] \in Event'
      BY <1>3 DEF PumpOK, Event
    <2> QED BY <2>2, <2>3, Zenon DEF PumpOK
  <1>5. SinksOK' /\ ControlOK'
    BY DEF SinksOK, Tracked, Event, ControlOK
  <1> QED BY <1>1, <1>4, <1>5, <1>6

\* A taken batch and what is left behind it.
LEMMA TakenType ==
    ASSUME TypeOK, NEW s \in Sink, queue[s] # <<>>,
           NEW n, n = Smaller(Len(queue[s]), BatchSize)
    PROVE  /\ n \in 1..Len(queue[s])
           /\ SubSeq(queue[s], 1, n) \in Seq(Tracked)
           /\ SubSeq(queue[s], 1, n) # <<>>
           /\ Rest(queue[s], n) \in Seq(Tracked)
  <1>1. queue[s] \in Seq(Tracked)
    BY DEF TypeOK, SinksOK
  <1>2. Len(queue[s]) \in Nat \ {0}
    BY <1>1
  <1>3. n \in 1..Len(queue[s])
    BY <1>2 DEF Smaller
  <1>4. Len(SubSeq(queue[s], 1, n)) = n /\ n # 0
    BY <1>1, <1>2, <1>3, SplitType
  <1> QED BY <1>1, <1>3, <1>4, SplitType

\* Where a worker is after it has looked at the status.
LEMMA EnterType ==
    ASSUME SinksOK, NEW s \in Sink, NEW p \in WorkerPC \ Waiting,
           NEW w \in Waiting, Enter(s, p, w)
    PROVE  /\ pc' \in [Sink -> WorkerPC]
           /\ resume' \in [Sink -> BOOLEAN]
           /\ \A t \in Sink : resume'[t] <=> pc'[t] \in Waiting
           /\ \A t \in Sink \ {s} : pc'[t] = pc[t]
           /\ pc'[s] \in {p, w}
  <1>1. w \in WorkerPC
    BY DEF Waiting, WorkerPC
  <1>2. CASE status[s] = "paused"
    <2>1. pc' = [pc EXCEPT ![s] = w] /\ resume' = [resume EXCEPT ![s] = TRUE]
      BY <1>2 DEF Enter
    <2> QED BY <1>1, <2>1 DEF SinksOK
  <1>3. CASE status[s] # "paused"
    <2>1. pc' = [pc EXCEPT ![s] = p] /\ resume' = [resume EXCEPT ![s] = FALSE]
      BY <1>3 DEF Enter
    <2> QED BY <2>1 DEF SinksOK
  <1> QED BY <1>2, <1>3

LEMMA TakeBatchType == ASSUME NEW s \in Sink PROVE TypeOK /\ TakeBatch(s) => TypeOK'
  <1> SUFFICES ASSUME TypeOK, TakeBatch(s) PROVE TypeOK'
    OBVIOUS
  <1> DEFINE n == Smaller(Len(queue[s]), BatchSize)
  <1>1. /\ SubSeq(queue[s], 1, n) \in Seq(Tracked)
        /\ SubSeq(queue[s], 1, n) # <<>>
        /\ Rest(queue[s], n) \in Seq(Tracked)
    BY TakenType DEF TakeBatch, HasItems
  <1>2. /\ batch' = [batch EXCEPT ![s] = SubSeq(queue[s], 1, n)]
        /\ queue' = [queue EXCEPT ![s] = Rest(queue[s], n)]
    BY DEF TakeBatch
  <1> HIDE DEF n
  <1>3. /\ pc' \in [Sink -> WorkerPC]
        /\ resume' \in [Sink -> BOOLEAN]
        /\ \A t \in Sink : resume'[t] <=> pc'[t] \in Waiting
        /\ \A t \in Sink \ {s} : pc'[t] = pc[t]
        /\ pc'[s] \in {"deliver", "waitHold"}
    <2>1. CASE s \in Durable
      <3>1. Enter(s, "deliver", "waitHold")
        BY <2>1 DEF TakeBatch
      <3>2. "deliver" \in WorkerPC \ Waiting /\ "waitHold" \in Waiting
        BY DEF WorkerPC, Waiting
      <3> QED BY <3>1, <3>2, EnterType DEF TypeOK
    <2>2. CASE s \notin Durable
      <3>1. pc' = [pc EXCEPT ![s] = "deliver"] /\ UNCHANGED resume /\ pc[s] = "take"
        BY <2>2 DEF TakeBatch
      <3> QED BY <3>1 DEF TypeOK, SinksOK, WorkerPC, Waiting
    <2> QED BY <2>1, <2>2
  <1>4. attempt' = [attempt EXCEPT ![s] = 0]
    BY DEF TakeBatch
  <1>5. UNCHANGED <<dbVars, received, streamVars, pumpVars, deliveredSeq,
                    ackedEventId, status, calls, faultVars>>
    BY DEF TakeBatch
  <1> USE DEF TypeOK, dbVars, streamVars, pumpVars, faultVars
  <1>6. DbOK' /\ StreamOK' /\ PumpOK' /\ ControlOK'
    BY <1>5 DEF DbOK, StreamOK, PumpOK, ControlOK, Event
  <1>7. Tracked' = Tracked
    BY <1>5 DEF Tracked, Event
  <1>8. SinksOK'
    BY <1>1, <1>2, <1>3, <1>4, <1>5, <1>7 DEF SinksOK
  <1> QED BY <1>6, <1>8

\* The item a batch ends with.
LEMMA LastType ==
    ASSUME TypeOK, NEW s \in Sink, batch[s] # <<>>
    PROVE  /\ Len(batch[s]) \in Nat \ {0}
           /\ batch[s][Len(batch[s])] \in Tracked
           /\ batch[s][Len(batch[s])].seq \in 0..seq
           /\ batch[s][Len(batch[s])].event \in 0..Len(wal)
  <1>1. batch[s] \in Seq(Tracked)
    BY DEF TypeOK, SinksOK
  <1>2. Len(batch[s]) \in Nat \ {0} /\ batch[s][Len(batch[s])] \in Tracked
    BY <1>1
  <1>3. /\ batch[s][Len(batch[s])].seq \in 1..seq
        /\ batch[s][Len(batch[s])].event \in Event
    BY <1>2 DEF Tracked
  <1>4. seq \in Nat /\ Len(wal) \in Nat
    BY DEF TypeOK, PumpOK, DbOK
  <1> QED BY <1>2, <1>3, <1>4 DEF Event

LEMMA AdvanceType ==
    ASSUME TypeOK, NEW s \in Sink, batch[s] # <<>>, Advance(s)
    PROVE  /\ deliveredSeq' \in [Sink -> 0..seq]
           /\ ackedEventId' \in [Sink -> 0..Len(wal)]
  BY LastType DEF Advance, TypeOK, SinksOK

LEMMA DeliverableType ==
    ASSUME TypeOK, NEW s \in Sink
    PROVE  Deliverable(batch[s]) \subseteq Event
  <1>1. batch[s] \in Seq(Tracked)
    BY DEF TypeOK, SinksOK
  <1>2. \A i \in 1..Len(batch[s]) : batch[s][i] \in Tracked
    BY <1>1
  <1>3. \A i \in 1..Len(batch[s]) : batch[s][i].event \in Event
    BY <1>2 DEF Tracked
  <1> QED BY <1>3 DEF Deliverable

LEMMA DeliverType == ASSUME NEW s \in Sink PROVE TypeOK /\ Deliver(s) => TypeOK'
  <1> SUFFICES ASSUME TypeOK, Deliver(s) PROVE TypeOK'
    OBVIOUS
  <1>1. batch[s] # <<>>
    BY DEF Deliver, TypeOK, SinksOK
  <1>2. /\ deliveredSeq' \in [Sink -> 0..seq]
        /\ ackedEventId' \in [Sink -> 0..Len(wal)]
    BY <1>1, AdvanceType DEF Deliver
  <1>3. Deliverable(batch[s]) \subseteq Event
    BY DeliverableType
  <1> USE DEF TypeOK, Deliver, dbVars, streamVars, pumpVars, faultVars
  <1>4. DbOK'
    BY <1>3 DEF DbOK, Event
  <1>5. StreamOK' /\ PumpOK' /\ ControlOK'
    BY DEF StreamOK, PumpOK, ControlOK, Event
  <1>6. Tracked' = Tracked
    BY DEF Tracked, Event
  <1>7. SinksOK'
    BY <1>2, <1>6 DEF SinksOK, WorkerPC, Waiting
  <1> QED BY <1>4, <1>5, <1>7

LEMMA SkipBatchType == ASSUME NEW s \in Sink PROVE TypeOK /\ SkipBatch(s) => TypeOK'
  <1> SUFFICES ASSUME TypeOK, SkipBatch(s) PROVE TypeOK'
    OBVIOUS
  <1>1. batch[s] # <<>>
    BY DEF SkipBatch, TypeOK, SinksOK
  <1>2. /\ deliveredSeq' \in [Sink -> 0..seq]
        /\ ackedEventId' \in [Sink -> 0..Len(wal)]
    BY <1>1, AdvanceType DEF SkipBatch
  <1>3. /\ flushed' \in 0..Len(wal)
        /\ outstanding' \in SUBSET Event
        /\ ackedSeq' \in 0..seq
        /\ DOMAIN bySeq' \subseteq 1..seq
        /\ \A q \in DOMAIN bySeq' : bySeq'[q] \in Event
    BY <1>2, MaybeAckType DEF SkipBatch, TypeOK
  <1>a. /\ pc' \in [Sink -> WorkerPC]
        /\ resume' \in [Sink -> BOOLEAN]
        /\ \A t \in Sink : resume'[t] <=> pc'[t] \in Waiting
        /\ \A t \in Sink \ {s} : pc'[t] = pc[t]
        /\ pc'[s] \in {"take", "waitTop"}
    <2>1. "take" \in WorkerPC \ Waiting /\ "waitTop" \in Waiting
      BY DEF WorkerPC, Waiting
    <2> QED BY <2>1, EnterType DEF SkipBatch, TypeOK
  <1>d. batch' = [batch EXCEPT ![s] = <<>>] /\ UNCHANGED <<wal, seq, queue, attempt, status>>
    BY DEF SkipBatch, dbVars
  <1>b. Tracked' = Tracked
    BY <1>d DEF Tracked, Event
  <1>c. SinksOK'
    <2>1. SinksOK
      BY DEF TypeOK
    <2>2. batch' \in [Sink -> Seq(Tracked)]
      BY <2>1, <1>d DEF SinksOK
    <2>3. \A t \in Sink : batch'[t] = <<>> <=> pc'[t] \in {"take", "waitTop"}
      BY <2>1, <1>a, <1>d DEF SinksOK
    <2> QED BY <1>2, <1>a, <1>b, <1>d, <2>1, <2>2, <2>3 DEF SinksOK
  <1>e. UNCHANGED <<dbVars, received, conn, sent, pulled, at, putting, seq, calls,
                    faultVars>>
    BY DEF SkipBatch
  <1>4. DbOK' /\ ControlOK'
    BY <1>e DEF TypeOK, dbVars, faultVars, DbOK, ControlOK, Event
  <1>5. StreamOK'
    BY <1>3, <1>e DEF TypeOK, StreamOK, Event, dbVars
  <1>6. PumpOK'
    BY <1>3, <1>e DEF TypeOK, PumpOK, Event, dbVars
  <1> QED BY <1>c, <1>4, <1>5, <1>6 DEF TypeOK

\* When the log grows, what was typed by it stays typed.
LEMMA TypesGrow ==
    ASSUME TypeOK, wal' \in Seq(Change), Len(wal) <= Len(wal'), seq' = seq
    PROVE  /\ Event \subseteq Event' /\ Tracked \subseteq Tracked'
           /\ 0..Len(wal) \subseteq 0..Len(wal')
           /\ Seq(Tracked) \subseteq Seq(Tracked')
  <1>1. Len(wal) \in Nat /\ Len(wal') \in Nat
    BY DEF TypeOK, DbOK
  <1>2. Event \subseteq Event' /\ 0..Len(wal) \subseteq 0..Len(wal')
    BY <1>1 DEF Event
  <1>3. Tracked \subseteq Tracked'
    BY <1>2 DEF Tracked
  <1> QED BY <1>2, <1>3, SeqMonotone

LEMMA AckCheckpointType ==
    ASSUME NEW s \in Sink PROVE TypeOK /\ AckCheckpoint(s) => TypeOK'
  <1> SUFFICES ASSUME TypeOK, AckCheckpoint(s) PROVE TypeOK'
    OBVIOUS
  <1>1. /\ wal' \in Seq(Change) /\ WellFormed(wal)'
        /\ Len(wal') \in Nat /\ Len(wal) <= Len(wal')
    BY LogGrows DEF AckCheckpoint, TypeOK
  <1>2. /\ Event \subseteq Event' /\ Tracked \subseteq Tracked'
        /\ 0..Len(wal) \subseteq 0..Len(wal')
        /\ Seq(Tracked) \subseteq Seq(Tracked')
    BY <1>1, TypesGrow DEF AckCheckpoint
  <1>3. /\ flushed' \in 0..Len(wal)
        /\ outstanding' \in SUBSET Event
        /\ ackedSeq' \in 0..seq
        /\ DOMAIN bySeq' \subseteq 1..seq
        /\ \A q \in DOMAIN bySeq' : bySeq'[q] \in Event
    <2>1. deliveredSeq \in [Sink -> 0..seq]
      BY DEF TypeOK, SinksOK
    <2> QED BY <2>1, MaybeAckType DEF AckCheckpoint, TypeOK
  <1>c. /\ pc' \in [Sink -> WorkerPC]
        /\ resume' \in [Sink -> BOOLEAN]
        /\ \A t \in Sink : resume'[t] <=> pc'[t] \in Waiting
        /\ \A t \in Sink \ {s} : pc'[t] = pc[t]
        /\ pc'[s] \in {"take", "waitTop"}
    <2>1. "take" \in WorkerPC \ Waiting /\ "waitTop" \in Waiting
      BY DEF WorkerPC, Waiting
    <2> QED BY <2>1, EnterType DEF AckCheckpoint, TypeOK
  <1>d. /\ batch' = [batch EXCEPT ![s] = <<>>]
        /\ UNCHANGED <<seq, queue, attempt, deliveredSeq, ackedEventId, status>>
    BY DEF AckCheckpoint
  <1>8. SinksOK'
    BY <1>2, <1>c, <1>d DEF TypeOK, SinksOK
  <1> USE DEF TypeOK, AckCheckpoint, faultVars
  <1>a. ckpt' \in [Sink -> 0..Len(wal)]
    BY DEF DbOK, SinksOK
  <1>b. ckpt' \in [Sink -> 0..Len(wal')] /\ received' \in [Sink -> SUBSET Event']
    BY <1>a, <1>2 DEF DbOK
  <1>4. DbOK'
    BY <1>1, <1>2, <1>b DEF DbOK
  <1>5. StreamOK'
    BY <1>2, <1>3 DEF StreamOK
  <1>6. PumpOK'
    BY <1>2, <1>3 DEF PumpOK
  <1>7. ControlOK'
    BY DEF ControlOK
  <1> QED BY <1>4, <1>5, <1>6, <1>7, <1>8

LEMMA DeliverFailsType ==
    ASSUME NEW s \in Sink PROVE TypeOK /\ DeliverFails(s) => TypeOK'
  <1> SUFFICES ASSUME TypeOK, DeliverFails(s) PROVE TypeOK'
    OBVIOUS
  <1> USE DEF TypeOK, DeliverFails, dbVars, streamVars, pumpVars, faultVars
  <1>1. DbOK' /\ StreamOK' /\ PumpOK' /\ ControlOK'
    BY DEF DbOK, StreamOK, PumpOK, ControlOK, Event
  <1>2. Tracked' = Tracked
    BY DEF Tracked, Event
  <1>3. CASE attempt[s] + 1 >= MaxAttempts
    <2>1. /\ status' = [status EXCEPT ![s] = "paused"]
          /\ pc' = [pc EXCEPT ![s] = "pausing"]
          /\ attempt' = [attempt EXCEPT ![s] = @ + 1]
      BY <1>3
    <2> QED BY <1>1, <1>2, <2>1 DEF SinksOK, WorkerPC, Status, Waiting
  <1>4. CASE ~(attempt[s] + 1 >= MaxAttempts)
    <2>1. /\ UNCHANGED <<status, pc>>
          /\ attempt' = [attempt EXCEPT ![s] = @ + 1]
      BY <1>4
    <2> QED BY <1>1, <1>2, <2>1 DEF SinksOK
  <1> QED BY <1>3, <1>4

LEMMA PauseCommitsType ==
    ASSUME NEW s \in Sink PROVE TypeOK /\ PauseCommits(s) => TypeOK'
  <1> SUFFICES ASSUME TypeOK, PauseCommits(s) PROVE TypeOK'
    OBVIOUS
  <1>1. /\ wal' \in Seq(Change) /\ WellFormed(wal)'
        /\ Len(wal') \in Nat /\ Len(wal) <= Len(wal')
    BY LogGrows DEF PauseCommits, TypeOK
  <1>2. /\ Event \subseteq Event' /\ Tracked \subseteq Tracked'
        /\ 0..Len(wal) \subseteq 0..Len(wal')
        /\ Seq(Tracked) \subseteq Seq(Tracked')
    BY <1>1, TypesGrow DEF PauseCommits, pumpVars
  <1> USE DEF TypeOK, PauseCommits, streamVars, pumpVars, faultVars
  <1>3. DbOK'
    BY <1>1, <1>2 DEF DbOK, Status
  <1>4. StreamOK' /\ PumpOK' /\ ControlOK'
    BY <1>2 DEF StreamOK, PumpOK, ControlOK
  <1>5. SinksOK'
    BY <1>2 DEF SinksOK, WorkerPC, Waiting
  <1> QED BY <1>3, <1>4, <1>5

LEMMA PauseSettlesType ==
    ASSUME NEW s \in Sink PROVE TypeOK /\ PauseSettles(s) => TypeOK'
  <1> SUFFICES ASSUME TypeOK, PauseSettles(s) PROVE TypeOK'
    OBVIOUS
  <1> USE DEF TypeOK, PauseSettles, dbVars, streamVars, pumpVars, faultVars
  <1>1. DbOK' /\ StreamOK' /\ PumpOK' /\ ControlOK'
    BY DEF DbOK, StreamOK, PumpOK, ControlOK, Event
  <1>2. Tracked' = Tracked
    BY DEF Tracked, Event
  <1>3. SinksOK'
    BY <1>2 DEF SinksOK, WorkerPC, Waiting
  <1> QED BY <1>1, <1>3

LEMMA DeliverOnceType ==
    ASSUME NEW s \in Sink PROVE TypeOK /\ DeliverOnce(s) => TypeOK'
  <1> SUFFICES ASSUME TypeOK, DeliverOnce(s) PROVE TypeOK'
    OBVIOUS
  <1>1. Deliverable(batch[s]) \subseteq Event
    BY DeliverableType
  <1> USE DEF TypeOK, DeliverOnce, dbVars, streamVars, pumpVars, faultVars
  <1>2. DbOK'
    BY <1>1 DEF DbOK, Event
  <1>3. StreamOK' /\ PumpOK' /\ ControlOK'
    BY DEF StreamOK, PumpOK, ControlOK, Event
  <1>4. Tracked' = Tracked
    BY DEF Tracked, Event
  <1>5. SinksOK'
    BY <1>4 DEF SinksOK, WorkerPC, Waiting
  <1> QED BY <1>2, <1>3, <1>5

LEMMA CallStartsType ==
    ASSUME NEW c \in 1..MaxCalls PROVE TypeOK /\ CallStarts(c) => TypeOK'
  <1> SUFFICES ASSUME TypeOK, CallStarts(c) PROVE TypeOK'
    OBVIOUS
  <1> USE DEF TypeOK, CallStarts, dbVars, streamVars, pumpVars, faultVars
  <1>1. DbOK' /\ StreamOK' /\ PumpOK'
    BY DEF DbOK, StreamOK, PumpOK, Event
  <1>2. ControlOK'
    BY DEF ControlOK, Call
  <1>3. Tracked' = Tracked
    BY DEF Tracked, Event
  <1>4. SinksOK'
    BY <1>3 DEF SinksOK, Status
  <1> QED BY <1>1, <1>2, <1>4

\* A request under way has the type of one, and concerns a configured sink.
LEMMA CallType ==
    ASSUME TypeOK, NEW c \in 1..MaxCalls, calls[c].step # "unused"
    PROVE  calls[c] \in Call /\ calls[c].sink \in Sink
  BY DEF TypeOK, ControlOK, Call, Unused

LEMMA CallCommitsType ==
    ASSUME NEW c \in 1..MaxCalls PROVE TypeOK /\ CallCommits(c) => TypeOK'
  <1> SUFFICES ASSUME TypeOK, CallCommits(c) PROVE TypeOK'
    OBVIOUS
  <1>1. /\ wal' \in Seq(Change) /\ WellFormed(wal)'
        /\ Len(wal') \in Nat /\ Len(wal) <= Len(wal')
    <2>1. CASE MetaWrites(1)
      BY <2>1, LogGrows DEF TypeOK
    <2>2. CASE UNCHANGED wal
      BY <2>2 DEF TypeOK, DbOK, WellFormed
    <2> QED BY <2>1, <2>2 DEF CallCommits
  <1>2. /\ Event \subseteq Event' /\ Tracked \subseteq Tracked'
        /\ 0..Len(wal) \subseteq 0..Len(wal')
        /\ Seq(Tracked) \subseteq Seq(Tracked')
    BY <1>1, TypesGrow DEF CallCommits, pumpVars
  <1>3. calls[c] \in Call
    BY CallType DEF CallCommits
  <1> USE DEF TypeOK, CallCommits, streamVars, pumpVars, sinkVars, faultVars
  <1>4. DbOK'
    BY <1>1, <1>2 DEF DbOK, Status
  <1>5. StreamOK' /\ PumpOK'
    BY <1>2 DEF StreamOK, PumpOK
  <1>6. ControlOK'
    BY <1>3 DEF ControlOK, Call
  <1>7. SinksOK'
    BY <1>2 DEF SinksOK
  <1> QED BY <1>4, <1>5, <1>6, <1>7

LEMMA CallFailsType ==
    ASSUME NEW c \in 1..MaxCalls PROVE TypeOK /\ CallFails(c) => TypeOK'
  <1> SUFFICES ASSUME TypeOK, CallFails(c) PROVE TypeOK'
    OBVIOUS
  <1>1. calls[c] \in Call
    BY CallType DEF CallFails
  <1> USE DEF TypeOK, CallFails, dbVars, streamVars, pumpVars, sinkVars, faultVars
  <1>2. DbOK' /\ StreamOK' /\ PumpOK'
    BY DEF DbOK, StreamOK, PumpOK, Event
  <1>3. ControlOK'
    BY <1>1 DEF ControlOK, Call
  <1>4. SinksOK'
    BY DEF SinksOK, Tracked, Event
  <1> QED BY <1>2, <1>3, <1>4

\* Where a woken worker goes.
LEMMA WakeType ==
    ASSUME SinksOK, NEW s \in Sink, resume[s], Wake(s)
    PROVE  /\ pc' \in [Sink -> WorkerPC] /\ resume' \in [Sink -> BOOLEAN]
           /\ attempt' \in [Sink -> Nat]
           /\ \A t \in Sink : resume'[t] <=> pc'[t] \in Waiting
           /\ \A t \in Sink :
                 batch[t] = <<>> <=> pc'[t] \in {"take", "waitTop"}
  <1>1. pc[s] \in Waiting
    BY DEF SinksOK
  <1>2. \A t \in Sink : batch[t] = <<>> <=> pc[t] \in {"take", "waitTop"}
    BY DEF SinksOK
  <1>3. CASE pc[s] = "waitTop"
    <2>1. Enter(s, "take", "waitTop") /\ UNCHANGED attempt
      BY <1>3 DEF Wake
    <2>2. "take" \in WorkerPC \ Waiting /\ "waitTop" \in Waiting
      BY DEF WorkerPC, Waiting
    <2>3. attempt' \in [Sink -> Nat]
      BY <2>1 DEF SinksOK
    <2> QED BY <1>2, <1>3, <2>1, <2>2, <2>3, EnterType
  <1>4. CASE pc[s] = "waitHold"
    <2>1. Enter(s, "deliver", "waitHold") /\ UNCHANGED attempt
      BY <1>4 DEF Wake
    <2>2. "deliver" \in WorkerPC \ Waiting /\ "waitHold" \in Waiting
      BY DEF WorkerPC, Waiting
    <2>3. attempt' \in [Sink -> Nat]
      BY <2>1 DEF SinksOK
    <2>4. /\ pc' \in [Sink -> WorkerPC] /\ resume' \in [Sink -> BOOLEAN]
          /\ \A t \in Sink : resume'[t] <=> pc'[t] \in Waiting
          /\ \A t \in Sink \ {s} : pc'[t] = pc[t]
          /\ pc'[s] \in {"deliver", "waitHold"}
      BY <2>1, <2>2, EnterType
    <2> QED BY <1>2, <1>4, <2>3, <2>4
  <1>5. CASE pc[s] = "waitRetry"
    <2>1. /\ pc' = [pc EXCEPT ![s] = "deliver"]
          /\ resume' = [resume EXCEPT ![s] = FALSE]
          /\ attempt' = [attempt EXCEPT ![s] = 0]
      BY <1>5 DEF Wake
    <2> QED BY <1>2, <1>5, <2>1 DEF SinksOK, WorkerPC, Waiting
  <1> QED BY <1>1, <1>3, <1>4, <1>5 DEF Waiting

LEMMA ResumeCallsType ==
    ASSUME NEW c \in 1..MaxCalls PROVE TypeOK /\ ResumeCalls(c) => TypeOK'
  <1> SUFFICES ASSUME TypeOK, ResumeCalls(c) PROVE TypeOK'
    OBVIOUS
  <1>1. calls[c] \in Call /\ calls[c].sink \in Sink
    BY CallType DEF ResumeCalls
  <1>2. /\ calls' = [calls EXCEPT ![c].step = "done"]
        /\ UNCHANGED <<dbVars, received, streamVars, pumpVars, queue, batch,
                       deliveredSeq, ackedEventId, status, faultVars>>
    BY DEF ResumeCalls
  <1>3. /\ pc' \in [Sink -> WorkerPC] /\ resume' \in [Sink -> BOOLEAN]
        /\ attempt' \in [Sink -> Nat]
        /\ \A t \in Sink : resume'[t] <=> pc'[t] \in Waiting
        /\ \A t \in Sink :
              batch[t] = <<>> <=> pc'[t] \in {"take", "waitTop"}
    <2>1. CASE resume[calls[c].sink]
      <3>1. Wake(calls[c].sink)
        BY <2>1 DEF ResumeCalls
      <3> QED BY <1>1, <2>1, <3>1, WakeType DEF TypeOK
    <2>2. CASE ~resume[calls[c].sink]
      <3>1. UNCHANGED <<pc, resume, attempt>>
        BY <2>2 DEF ResumeCalls
      <3> QED BY <3>1 DEF TypeOK, SinksOK
    <2> QED BY <2>1, <2>2
  <1>4. DbOK' /\ StreamOK' /\ PumpOK'
    BY <1>2 DEF TypeOK, dbVars, streamVars, pumpVars, DbOK, StreamOK, PumpOK,
                Event
  <1>5. ControlOK'
    BY <1>1, <1>2 DEF TypeOK, ControlOK, Call, faultVars
  <1>6. SinksOK'
    <2>1. Tracked' = Tracked
      BY <1>2 DEF Tracked, Event, dbVars, pumpVars
    <2>2. UNCHANGED <<queue, batch, deliveredSeq, ackedEventId, status, seq, wal>>
      BY <1>2 DEF dbVars, pumpVars
    <2> QED BY <1>3, <2>1, <2>2 DEF TypeOK, SinksOK
  <1> QED BY <1>4, <1>5, <1>6 DEF TypeOK

LEMMA CrashType == TypeOK /\ Crash => TypeOK'
  <1> SUFFICES ASSUME TypeOK, Crash PROVE TypeOK'
    OBVIOUS
  <1>1. /\ wal' \in Seq(Change) /\ WellFormed(wal)'
        /\ Len(wal') \in Nat /\ Len(wal) <= Len(wal') /\ Len(wal) \in Nat
    BY LogGrows, DurablesFinite DEF Crash, TypeOK, DbOK
  <1>2. Event \subseteq Event' /\ 0..Len(wal) \subseteq 0..Len(wal')
    BY <1>1 DEF Event
  <1>3. UNCHANGED <<confirmed, ckpt, dbStatus, received, disconnects>>
    BY DEF Crash
  <1>4. DbOK'
    BY <1>1, <1>2, <1>3 DEF TypeOK, DbOK
  <1>5. /\ conn' = FALSE /\ sent' = 0 /\ outstanding' = {} /\ flushed' = 0
        /\ pulled' = 0 /\ at' = 0 /\ putting' = FALSE /\ seq' = 0 /\ ackedSeq' = 0
        /\ bySeq' = [q \in {} |-> 0]
    BY DEF Crash
  <1>6. StreamOK' /\ PumpOK'
    <2>1. StreamOK'
      <3>1. conn' \in BOOLEAN
        BY <1>5, Zenon
      <3>2. flushed' \in 0..Len(wal') /\ sent' \in 0..Len(wal')
        BY <1>1, <1>5
      <3>3. outstanding' \in SUBSET Event'
        BY <1>5
      <3> QED BY <3>1, <3>2, <3>3, Zenon DEF StreamOK
    <2>2. /\ DOMAIN bySeq' \subseteq 1..seq'
          /\ \A q \in DOMAIN bySeq' : bySeq'[q] \in Event'
      <3>1. DOMAIN bySeq' = {}
        BY <1>5
      <3> QED BY <3>1
    <2>3. /\ pulled' \in 0..sent' /\ at' \in 0..(NumSinks + 1)
          /\ at' # 0 => pulled' # 0 /\ seq' # 0
          /\ seq' \in Nat /\ ackedSeq' \in 0..seq'
      BY <1>5
    <2>4. putting' \in BOOLEAN /\ (putting' => at' \in Durable)
      BY <1>5, Zenon
    <2> QED BY <2>1, <2>2, <2>3, <2>4, Zenon DEF PumpOK
  <1>7. /\ queue' = [t \in Sink |-> <<>>] /\ batch' = [t \in Sink |-> <<>>]
        /\ attempt' = [t \in Sink |-> 0] /\ deliveredSeq' = [t \in Sink |-> 0]
        /\ ackedEventId' = ckpt' /\ status' = dbStatus'
        /\ pc' = StartPC(dbStatus') /\ resume' = StartResume(dbStatus')
    BY <1>3 DEF Crash, PerSink, StartPosition
  <1>8. SinksOK'
    <2>1. /\ ckpt' \in [Sink -> 0..Len(wal')] /\ dbStatus' \in [Sink -> Status]
      BY <1>4 DEF DbOK
    <2>2. /\ pc' \in [Sink -> WorkerPC] /\ resume' \in [Sink -> BOOLEAN]
          /\ \A t \in Sink : /\ pc'[t] \in {"take", "waitTop"}
                             /\ resume'[t] <=> pc'[t] \in Waiting
      BY <1>7, <2>1 DEF StartPC, StartResume, WorkerPC, Waiting
    <2>3. /\ queue' \in [Sink -> Seq(Tracked')] /\ batch' \in [Sink -> Seq(Tracked')]
          /\ attempt' \in [Sink -> Nat] /\ deliveredSeq' \in [Sink -> 0..seq']
      BY <1>5, <1>7
    <2> QED BY <1>7, <2>1, <2>2, <2>3 DEF SinksOK
  <1>9. ControlOK'
    <2>1. crashes' \in 0..MaxCrashes /\ disconnects' \in 0..MaxDisconnects
      BY <1>3 DEF Crash, TypeOK, ControlOK
    <2>2. \A c \in 1..MaxCalls : calls[c] # Unused => calls[c] \in Call
      BY DEF TypeOK, ControlOK
    <2>3. \A c \in 1..MaxCalls : calls[c] # Unused =>
             [calls[c] EXCEPT !.step = "done"] \in Call
      BY <2>2 DEF Call
    <2> QED BY <2>1, <2>3 DEF Crash, ControlOK
  <1> QED BY <1>4, <1>6, <1>8, <1>9 DEF TypeOK

(* Every step keeps the types. *)
LEMMA NextType == TypeOK /\ [Next]_vars => TypeOK'
  <1> SUFFICES ASSUME TypeOK, [Next]_vars PROVE TypeOK'
    OBVIOUS
  <1>1. CASE Connect \/ Receive \/ Keepalive \/ SendStatus \/ Disconnect
    BY <1>1, ConnectType, ReceiveType, KeepaliveType, SendStatusType,
       DisconnectType
  <1>2. CASE Pump
    BY <1>2, PullType, FanOutSkipType, FanOutWaitsType, FanOutDurableType,
       FanOutEphemeralType, FanOutEndType DEF Pump
  <1>3. ASSUME NEW s \in Sink, Worker(s) PROVE TypeOK'
    BY <1>3, TakeBatchType, DeliverType, SkipBatchType, AckCheckpointType,
       DeliverFailsType, PauseCommitsType, PauseSettlesType, DeliverOnceType
       DEF Worker
  <1>4. ASSUME NEW c \in 1..MaxCalls, CallStarts(c) \/ Request(c) PROVE TypeOK'
    BY <1>4, CallStartsType, CallCommitsType, CallFailsType, ResumeCallsType
       DEF Request
  <1>5. CASE Crash
    BY <1>5, CrashType
  <1>6. CASE UNCHANGED vars
    <2> USE DEF vars, dbVars, streamVars, pumpVars, sinkVars, faultVars
    <2>1. DbOK' /\ StreamOK' /\ PumpOK' /\ ControlOK'
      BY <1>6 DEF TypeOK, DbOK, StreamOK, PumpOK, ControlOK, Event
    <2>2. SinksOK'
      BY <1>6 DEF TypeOK, SinksOK, Tracked, Event
    <2> QED BY <2>1, <2>2 DEF TypeOK
  <1> QED BY <1>1, <1>2, <1>3, <1>4, <1>5, <1>6 DEF Next

(* Type correctness of the engine, whatever the sinks, the log and the      *)
(* faults: among others the slot, the session and every checkpoint stay     *)
(* within the log, queues hold events of the log only, and a worker holds a *)
(* batch, or has a resume callback, exactly when its program counter says.  *)
THEOREM TypeCorrect == Spec => []TypeOK
  BY InitType, NextType, PTL DEF Spec
-----------------------------------------------------------------------------
(* Pausing and resuming. *)

\* What Enter() leaves of the program counters.
LEMMA EnterLooks ==
    ASSUME TypeOK, NEW k \in Sink, NEW p, NEW w, Enter(k, p, w)
    PROVE  /\ pc'[k] = IF status[k] = "paused" THEN w ELSE p
           /\ \A s \in Sink : s # k => pc'[s] = pc[s]
  BY DEF Enter, TypeOK, SinksOK

\* A worker that reaches a pause loop, or a batch from one, has looked at the
\* status in the same step.
LEMMA WorkerLooks ==
    ASSUME TypeOK, NEW k \in Sink, Worker(k), NEW s \in Durable
    PROVE  /\ \/ pc'[s] = pc[s]
              \/ pc'[s] \notin {"waitTop", "waitHold"}
              \/ status[s] = "paused" /\ status' = status
           /\ pc[s] \in {"take", "waitTop", "waitHold"} /\ pc'[s] = "deliver"
              => status[s] = "running"
  <1>0. s \in Sink /\ status[s] \in {"running", "paused"}
    BY DEF TypeOK, SinksOK, Status
  <1>1. CASE TakeBatch(k)
    <2>1. CASE s = k
      <3>1. Enter(s, "deliver", "waitHold") /\ status' = status
        BY <1>1, <2>1 DEF TakeBatch
      <3> QED BY <1>0, <3>1, EnterLooks
    <2>2. CASE s # k
      BY <1>0, <1>1, <2>2, EnterLooks DEF TakeBatch, TypeOK, SinksOK
    <2> QED BY <2>1, <2>2
  <1>2. CASE SkipBatch(k) \/ AckCheckpoint(k)
    <2>1. Enter(k, "take", "waitTop") /\ status' = status
      BY <1>2 DEF SkipBatch, AckCheckpoint
    <2> QED BY <1>0, <2>1, EnterLooks
  <1>3. CASE Deliver(k)
    BY <1>0, <1>3 DEF Deliver, TypeOK, SinksOK
  <1>4. CASE DeliverFails(k)
    BY <1>0, <1>4 DEF DeliverFails, TypeOK, SinksOK
  <1>5. CASE PauseCommits(k)
    BY <1>0, <1>5 DEF PauseCommits, TypeOK, SinksOK
  <1>6. CASE PauseSettles(k)
    BY <1>0, <1>6 DEF PauseSettles, TypeOK, SinksOK
  <1>7. CASE DeliverOnce(k)
    BY <1>0, <1>7 DEF DeliverOnce, TypeOK, SinksOK
  <1> QED BY <1>1, <1>2, <1>3, <1>4, <1>5, <1>6, <1>7 DEF Worker

\* The same for a worker that is woken.
LEMMA WakeLooks ==
    ASSUME TypeOK, NEW c \in 1..MaxCalls, ResumeCalls(c), NEW s \in Durable
    PROVE  /\ \/ /\ pc'[s] = pc[s]
                 /\ s = calls[c].sink => pc[s] \notin Waiting
              \/ pc'[s] \notin {"waitTop", "waitHold"}
              \/ status[s] = "paused" /\ status' = status
           /\ pc[s] \in {"take", "waitTop", "waitHold"} /\ pc'[s] = "deliver"
              => status[s] = "running"
  <1>0. s \in Sink /\ status[s] \in {"running", "paused"} /\ status' = status
    BY DEF TypeOK, SinksOK, Status, ResumeCalls
  <1>1. calls[c].sink \in Sink
    BY CallType DEF ResumeCalls
  <1> DEFINE k == calls[c].sink
  <1>2. CASE ~resume[k]
    <2>1. pc' = pc
      BY <1>2 DEF ResumeCalls
    <2>2. pc[k] \notin Waiting
      BY <1>1, <1>2 DEF TypeOK, SinksOK
    <2> QED BY <2>1, <2>2
  <1>3. CASE resume[k]
    <2>1. Wake(k) /\ pc[k] \in Waiting
      BY <1>1, <1>3 DEF ResumeCalls, TypeOK, SinksOK
    <2> HIDE DEF k
    <2>2. CASE pc[k] = "waitTop"
      <3>1. Enter(k, "take", "waitTop")
        BY <2>1, <2>2 DEF Wake
      <3> QED BY <1>0, <1>1, <3>1, EnterLooks DEF k
    <2>3. CASE pc[k] = "waitHold"
      <3>1. Enter(k, "deliver", "waitHold")
        BY <2>1, <2>3 DEF Wake
      <3> QED BY <1>0, <1>1, <3>1, EnterLooks DEF k
    <2>4. CASE pc[k] = "waitRetry"
      <3>1. pc' = [pc EXCEPT ![k] = "deliver"]
        BY <2>1, <2>4 DEF Wake
      <3> QED BY <1>0, <1>1, <2>4, <3>1 DEF k, TypeOK, SinksOK
    <2> QED BY <2>1, <2>2, <2>3, <2>4 DEF Waiting
  <1> QED BY <1>2, <1>3

LEMMA PausedStep ==
    ASSUME TypeOK, [Next]_vars, NEW s \in Durable,
           pc[s] \in {"take", "waitTop", "waitHold"}, pc'[s] = "deliver"
    PROVE  status[s] = "running"
  <1> USE DEF vars, dbVars, streamVars, pumpVars, sinkVars, faultVars
  <1>1. CASE pc' = pc
    BY <1>1
  <1>2. CASE Connect \/ Receive \/ Keepalive \/ SendStatus \/ Disconnect
    BY <1>1, <1>2 DEF Connect, Receive, Keepalive, SendStatus, Disconnect
  <1>3. CASE Pump
    BY <1>1, <1>3 DEF Pump, Pull, FanOutSkip, FanOutWaits, FanOutDurable,
                      FanOutEphemeral, FanOutEnd
  <1>4. ASSUME NEW k \in Sink, Worker(k) PROVE status[s] = "running"
    BY <1>4, WorkerLooks
  <1>5. ASSUME NEW c \in 1..MaxCalls, CallStarts(c) \/ Request(c)
        PROVE  status[s] = "running"
    BY <1>1, <1>5, WakeLooks DEF CallStarts, Request, CallCommits, CallFails
  <1>6. CASE Crash
    BY <1>6 DEF Crash, StartPC
  <1> QED BY <1>1, <1>2, <1>3, <1>4, <1>5, <1>6 DEF Next

(* engine.ts:267-285: whenever a pause comes in, no worker starts on a new  *)
(* batch while its sink is paused, from its queue or from a wait at the     *)
(* boundary.  The retries of a batch under way (line 286) go on, as in the  *)
(* code: the theorem says nothing of them.                                  *)
THEOREM PauseHolds == Spec => PausedStartsNothing
  <1>1. TypeOK /\ [Next]_vars
        => [\A s \in Durable :
              pc[s] \in {"take", "waitTop", "waitHold"} /\ pc'[s] = "deliver"
              => status[s] = "running"]_vars
    BY PausedStep
  <1> QED BY <1>1, TypeCorrect, PTL DEF Spec, PausedStartsNothing

\* A step of a request keeps what may wake s, unless it wakes s.
LEMMA UnderWayStays ==
    ASSUME TypeOK, NEW c \in 1..MaxCalls, CallStarts(c) \/ Request(c),
           NEW s \in Sink, ResumeUnderWay(s)
    PROVE  ResumeUnderWay(s)' \/ (ResumeCalls(c) /\ calls[c].sink = s)
  <1>1. PICK d \in 1..MaxCalls :
            /\ calls[d].op = "resume" /\ calls[d].sink = s
            /\ calls[d].step \in {"writing", "written", "failed"}
    BY DEF ResumeUnderWay
  <1>2. calls \in [1..MaxCalls -> Call \union {Unused}]
    BY DEF TypeOK, ControlOK
  <1>3. CASE d # c
    <2>1. calls'[d] = calls[d]
      BY <1>2, <1>3 DEF CallStarts, Request, CallCommits, CallFails, ResumeCalls
    <2> QED BY <1>1, <2>1 DEF ResumeUnderWay
  <1>4. CASE d = c
    <2>0. calls[c] \in Call /\ calls[c] # Unused
      BY <1>1, <1>4, CallType DEF Unused
    <2>1. CASE CallCommits(c)
      <3>1. calls'[c] = [calls[c] EXCEPT !.step = "written"]
        BY <1>1, <1>2, <1>4, <2>1 DEF CallCommits
      <3>2. /\ calls'[c].op = "resume" /\ calls'[c].sink = s
            /\ calls'[c].step = "written"
        BY <1>1, <1>4, <2>0, <3>1 DEF Call
      <3> QED BY <3>2 DEF ResumeUnderWay
    <2>2. CASE CallFails(c)
      <3>1. calls'[c] = [calls[c] EXCEPT !.step = "failed"]
        BY <1>2, <2>2 DEF CallFails
      <3>2. /\ calls'[c].op = "resume" /\ calls'[c].sink = s
            /\ calls'[c].step = "failed"
        BY <1>1, <1>4, <2>0, <3>1 DEF Call
      <3> QED BY <3>2 DEF ResumeUnderWay
    <2>3. CASE ResumeCalls(c)
      BY <1>1, <1>4, <2>3
    <2> QED BY <2>0, <2>1, <2>2, <2>3 DEF CallStarts, Request
  <1> QED BY <1>3, <1>4

\* A request that sets a sink to running is one that may wake it.
LEMMA StartsUnderWay ==
    ASSUME TypeOK, NEW c \in 1..MaxCalls, CallStarts(c), NEW s \in Sink,
           status'[s] = "running", status[s] # "running"
    PROVE  ResumeUnderWay(s)'
  <1>1. PICK k \in Sink, op \in {"pause", "resume"} :
            /\ calls' = [calls EXCEPT ![c] =
                            [op |-> op, sink |-> k, step |-> "writing"]]
            /\ status' = [status EXCEPT ![k] =
                            IF op = "pause" THEN "paused" ELSE "running"]
    BY DEF CallStarts
  <1>2. k = s /\ op = "resume"
    BY <1>1 DEF TypeOK, SinksOK
  <1>3. calls'[c] = [op |-> "resume", sink |-> s, step |-> "writing"]
    BY <1>1, <1>2 DEF TypeOK, ControlOK
  <1> QED BY <1>3 DEF ResumeUnderWay

LEMMA ResumeStep ==
    TypeOK /\ OperatorResumeGoesOn /\ [Next]_vars => OperatorResumeGoesOn'
  <1> SUFFICES ASSUME TypeOK, OperatorResumeGoesOn, [Next]_vars, NEW s \in Durable,
                      pc'[s] \in {"waitTop", "waitHold"}, status'[s] = "running"
               PROVE  ResumeUnderWay(s)'
    BY DEF OperatorResumeGoesOn
  <1> USE DEF vars, dbVars, streamVars, pumpVars, sinkVars, faultVars
  <1>0. s \in Sink /\ status[s] \in {"running", "paused"}
    BY DEF TypeOK, SinksOK, Status
  <1>1. CASE UNCHANGED <<pc, status, calls>>
    BY <1>1 DEF OperatorResumeGoesOn, ResumeUnderWay
  <1>2. CASE Connect \/ Receive \/ Keepalive \/ SendStatus \/ Disconnect
    BY <1>1, <1>2 DEF Connect, Receive, Keepalive, SendStatus, Disconnect
  <1>3. CASE Pump
    BY <1>1, <1>3 DEF Pump, Pull, FanOutSkip, FanOutWaits, FanOutDurable,
                      FanOutEphemeral, FanOutEnd
  <1>4. ASSUME NEW k \in Sink, Worker(k) PROVE ResumeUnderWay(s)'
    <2>1. calls' = calls
      BY <1>4 DEF Worker, TakeBatch, Deliver, SkipBatch, AckCheckpoint,
                  DeliverFails, PauseCommits, PauseSettles, DeliverOnce
    <2>2. pc'[s] = pc[s]
      BY <1>4, WorkerLooks
    <2>3. status[s] = "running"
      <3>1. CASE DeliverFails(k)
        BY <1>0, <3>1 DEF DeliverFails, TypeOK, SinksOK
      <3>2. CASE ~DeliverFails(k)
        BY <1>4, <3>2 DEF Worker, TakeBatch, Deliver, SkipBatch, AckCheckpoint,
                          PauseCommits, PauseSettles, DeliverOnce
      <3> QED BY <3>1, <3>2
    <2> QED BY <2>1, <2>2, <2>3 DEF OperatorResumeGoesOn, ResumeUnderWay
  <1>5. ASSUME NEW c \in 1..MaxCalls, CallStarts(c) \/ Request(c)
        PROVE  ResumeUnderWay(s)'
    <2>1. CASE ResumeCalls(c)
      <3>1. status[s] = "running"
        BY <2>1 DEF ResumeCalls
      <3>2. pc'[s] = pc[s] /\ (s = calls[c].sink => pc[s] \notin Waiting)
        BY <2>1, <3>1, WakeLooks
      <3>3. s # calls[c].sink
        BY <3>2 DEF Waiting
      <3> QED BY <1>0, <1>5, <3>1, <3>2, <3>3, UnderWayStays DEF OperatorResumeGoesOn
    <2>2. CASE ~ResumeCalls(c)
      <3>1. pc' = pc
        BY <1>5, <2>2 DEF CallStarts, Request, CallCommits, CallFails
      <3>2. CASE status[s] = "running"
        BY <1>0, <1>5, <2>2, <3>1, <3>2, UnderWayStays DEF OperatorResumeGoesOn
      <3>3. CASE status[s] # "running"
        <4>1. CallStarts(c)
          BY <1>5, <2>2, <3>3 DEF Request, CallCommits, CallFails
        <4> QED BY <1>0, <3>3, <4>1, StartsUnderWay
      <3> QED BY <3>2, <3>3
    <2> QED BY <2>1, <2>2
  <1>6. CASE Crash
    BY <1>6 DEF Crash, StartPC
  <1>7. CASE UNCHANGED vars
    BY <1>1, <1>7
  <1> QED BY <1>2, <1>3, <1>4, <1>5, <1>6, <1>7 DEF Next

(* engine.ts:374-381: a worker that waits because an operator paused its    *)
(* sink does not stay asleep when the sink is resumed: it found the sink    *)
(* paused in the step that registered its callback, so the request that set *)
(* it to running is still to call the callback, or was told of its failure. *)
THEOREM ResumeWakes == Spec => []OperatorResumeGoesOn
  <1>1. Init => OperatorResumeGoesOn
    BY DEF Init, PerSink, OperatorResumeGoesOn, Sink
  <1> QED BY <1>1, InitType, NextType, ResumeStep, PTL DEF Spec

-----------------------------------------------------------------------------
(***************************************************************************)
(* The safety of the engine as long as no replication connection has been   *)
(* lost: process deaths at any point, failing deliveries, pauses and        *)
(* metadata events included.                                                *)
(*                                                                          *)
(* Within one session the seq of an event is its position less a constant,  *)
(* and each durable sink has, or holds in its line (batch, then queue), all *)
(* user events the pump is past.  The end of a batch is therefore a         *)
(* position with nothing undelivered below it, and so is the least of them  *)
(* that maybeAck() releases.                                                *)
(***************************************************************************)

\* Nothing that r misses lies in log w up to position p.
Got(w, r, p) == \A e \in 1..p : e \in 1..Len(w) /\ ~w[e].meta => e \in r

\* Item t names its event by number and by position, at most h.
Numbered(t, base, h) == t.event = base + t.seq /\ t.event <= h

\* Batch b and queue q hold events up to h, b before q and q in order.
InLine(b, q, base, h) ==
    /\ \A i \in 1..Len(b) : Numbered(b[i], base, h)
    /\ \A i \in 1..Len(q) : Numbered(q[i], base, h)
    /\ \A i \in 1..Len(b), j \in 1..Len(q) : b[i].event < q[j].event
    /\ \A i, j \in 1..Len(q) : i < j => q[i].event < q[j].event

\* The user events of w after base and up to h are in r, or in b or q.
Covered(w, r, b, q, base, h) ==
    \A e \in (base + 1)..h :
        \/ w[e].meta
        \/ e \in r
        \/ \E i \in 1..Len(b) : b[i].event = e
        \/ \E i \in 1..Len(q) : q[i].event = e

\* Where the session started: seq counts from here.
Base == pulled - seq

\* The last event the pump is through with, as far as sink s is concerned.
Handled(s) == IF at # 0 /\ at <= s THEN pulled - 1 ELSE pulled

LineOK(s) ==
    /\ InLine(batch[s], queue[s], Base, Handled(s))
    /\ Covered(wal, received[s], batch[s], queue[s], Base, Handled(s))
    /\ pc[s] = "ack" => Deliverable(batch[s]) \subseteq received[s]

\* Every position that stands for "all up to here" does so.
PositionsOK(s) ==
    /\ Got(wal, received[s], confirmed) /\ Got(wal, received[s], flushed)
    /\ Got(wal, received[s], ckpt[s]) /\ Got(wal, received[s], ackedEventId[s])
    /\ Got(wal, received[s], Base) /\ Got(wal, received[s], Base + ackedSeq)
    /\ Got(wal, received[s], Base + deliveredSeq[s])

\* Until its first session a process has nothing in memory.
Fresh ==
    ~conn => /\ sent = 0 /\ seq = 0
             /\ \A s \in Durable : queue[s] = <<>> /\ batch[s] = <<>>

\* bySeq maps numbers to their events, and the library still holds every
\* event the engine has not released.
NumbersOK ==
    /\ seq <= pulled
    /\ \A q \in DOMAIN bySeq : bySeq[q] = Base + q
    /\ Durable # {} => (Base + ackedSeq + 1)..sent \subseteq outstanding

SafeInv ==
    disconnects = 0 =>
        /\ Fresh /\ NumbersOK /\ BySeqIsWindow
        /\ \A s \in Durable : LineOK(s) /\ PositionsOK(s)

-----------------------------------------------------------------------------
(* The window of bySeq. *)

\* maybeAck() with positions ds, when bySeq is the window.
LEMMA MaybeAckWindow ==
    ASSUME TypeOK, BySeqIsWindow, Durable # {},
           NEW ds \in [Sink -> 0..seq], MaybeAck(ds)
    PROVE  /\ ackedSeq' \in ackedSeq..seq
           /\ DOMAIN bySeq' = (ackedSeq' + 1)..seq
           /\ \A q \in DOMAIN bySeq' : q \in DOMAIN bySeq /\ bySeq'[q] = bySeq[q]
           /\ \/ UNCHANGED <<flushed, outstanding, ackedSeq>>
              \/ /\ ackedSeq < ackedSeq' /\ ackedSeq' \in DOMAIN bySeq
                 /\ \A s \in Durable : ackedSeq' <= ds[s]
                 /\ Ack(bySeq[ackedSeq'])
  <1>1. PICK min \in {ds[s] : s \in Durable} :
            /\ IsMin(min, ds)
            /\ IF min <= ackedSeq
               THEN UNCHANGED <<flushed, outstanding, bySeq, ackedSeq>>
               ELSE /\ IF min \in DOMAIN bySeq
                       THEN Ack(bySeq[min])
                       ELSE UNCHANGED <<flushed, outstanding>>
                    /\ bySeq' = [q \in DOMAIN bySeq \ Forgotten(min) |-> bySeq[q]]
                    /\ ackedSeq' = min
    BY DEF MaybeAck
  <1>2. /\ min \in 0..seq /\ seq \in Nat /\ ackedSeq \in 0..seq
        /\ DOMAIN bySeq = (ackedSeq + 1)..seq
    BY DEF Sink, TypeOK, PumpOK, BySeqIsWindow
  <1>3. CASE min <= ackedSeq
    BY <1>1, <1>2, <1>3
  <1>4. CASE ~(min <= ackedSeq)
    <2>1. min \in DOMAIN bySeq /\ ackedSeq' = min /\ Ack(bySeq[min])
      BY <1>1, <1>2, <1>4
    <2>2. bySeq' = [q \in DOMAIN bySeq \ Forgotten(min) |-> bySeq[q]]
      BY <1>1, <1>4
    <2>3. DOMAIN bySeq \ Forgotten(min) = (min + 1)..seq
      BY <1>2, <1>4 DEF Forgotten
    <2>4. DOMAIN bySeq' = (min + 1)..seq
      BY <2>2, <2>3
    <2>5. \A q \in DOMAIN bySeq' : q \in DOMAIN bySeq /\ bySeq'[q] = bySeq[q]
      BY <2>2
    <2>6. \A s \in Durable : min <= ds[s]
      BY <1>1 DEF IsMin
    <2> QED BY <1>2, <1>4, <2>1, <2>4, <2>5, <2>6
  <1> QED BY <1>3, <1>4

\* Delivery moves a position within the numbers given out.
LEMMA AdvanceInRange ==
    ASSUME TypeOK, NEW s \in Sink, pc[s] = "deliver", Advance(s)
    PROVE  deliveredSeq' \in [Sink -> 0..seq]
  BY AdvanceType DEF TypeOK, SinksOK

LEMMA WindowStep == TypeOK /\ BySeqIsWindow /\ [Next]_vars => BySeqIsWindow'
  <1> SUFFICES ASSUME TypeOK, BySeqIsWindow, [Next]_vars, Durable # {}
               PROVE  DOMAIN bySeq' = (ackedSeq' + 1)..seq'
    BY DEF BySeqIsWindow
  <1>0. /\ seq \in Nat /\ ackedSeq \in 0..seq
        /\ DOMAIN bySeq = (ackedSeq + 1)..seq
    BY DEF TypeOK, PumpOK, BySeqIsWindow
  <1>a. deliveredSeq \in [Sink -> 0..seq]
    BY DEF TypeOK, SinksOK
  <1>1. CASE UNCHANGED <<seq, bySeq, ackedSeq>>
    BY <1>0, <1>1
  <1>2. CASE Pull
    BY <1>0, <1>2 DEF Pull
  <1>3. CASE FanOutEnd
    <2>1. CASE MaybeAck(deliveredSeq)
      BY <1>3, <1>a, <2>1, MaybeAckWindow DEF FanOutEnd
    <2>2. CASE UNCHANGED <<flushed, outstanding, bySeq, ackedSeq>>
      BY <1>3, <2>2, <1>0 DEF FanOutEnd
    <2> QED BY <1>3, <2>1, <2>2 DEF FanOutEnd, PumpAcks
  <1>4. ASSUME NEW s \in Sink, SkipBatch(s)
        PROVE  DOMAIN bySeq' = (ackedSeq' + 1)..seq'
    <2>1. deliveredSeq' \in [Sink -> 0..seq] /\ MaybeAck(deliveredSeq')
      BY <1>4, AdvanceInRange DEF SkipBatch
    <2> QED BY <1>4, <2>1, MaybeAckWindow DEF SkipBatch
  <1>5. ASSUME NEW s \in Sink, AckCheckpoint(s)
        PROVE  DOMAIN bySeq' = (ackedSeq' + 1)..seq'
    BY <1>5, <1>a, MaybeAckWindow DEF AckCheckpoint
  <1>6. CASE Crash
    BY <1>6 DEF Crash
  <1> USE DEF vars, dbVars, streamVars, pumpVars, sinkVars, faultVars
  <1>7. CASE Connect \/ Receive \/ Keepalive \/ SendStatus \/ Disconnect
    BY <1>7, <1>1 DEF Connect, Receive, Keepalive, SendStatus, Disconnect
  <1>8. CASE FanOutSkip \/ FanOutWaits \/ FanOutDurable \/ FanOutEphemeral
    BY <1>8, <1>1 DEF FanOutSkip, FanOutWaits, FanOutDurable, FanOutEphemeral
  <1>9. ASSUME NEW s \in Sink,
               TakeBatch(s) \/ Deliver(s) \/ DeliverFails(s) \/ PauseCommits(s)
               \/ PauseSettles(s) \/ DeliverOnce(s)
        PROVE  UNCHANGED <<seq, bySeq, ackedSeq>>
    BY <1>9 DEF TakeBatch, Deliver, DeliverFails, PauseCommits, PauseSettles,
                DeliverOnce
  <1>10. ASSUME NEW c \in 1..MaxCalls, CallStarts(c) \/ Request(c)
         PROVE  UNCHANGED <<seq, bySeq, ackedSeq>>
    BY <1>10 DEF CallStarts, Request, CallCommits, CallFails, ResumeCalls
  <1>11. CASE UNCHANGED vars
    BY <1>11, <1>1
  <1> QED BY <1>1, <1>2, <1>3, <1>4, <1>5, <1>6, <1>7, <1>8, <1>9, <1>10,
             <1>11 DEF Next, Pump, Worker

(* engine.ts:250-257: whatever the order in which the pump and the workers  *)
(* call maybeAck(), bySeq holds the numbers between the acked and the       *)
(* newest one, so the event to acknowledge is always found and nothing      *)
(* older is retained.                                                       *)
THEOREM WindowKept == Spec => []BySeqIsWindow
  <1>1. Init => BySeqIsWindow
    BY DEF Init, BySeqIsWindow
  <1> QED BY <1>1, InitType, NextType, WindowStep, PTL DEF Spec

-----------------------------------------------------------------------------
(* What a sink has, and what stands in its line. *)

LEMMA GotDown ==
    ASSUME NEW w, NEW r, NEW p \in Int, NEW q \in Int, q <= p, Got(w, r, p)
    PROVE  Got(w, r, q)
  BY DEF Got

LEMMA GotMore ==
    ASSUME NEW w, NEW r, NEW r2, r \subseteq r2, NEW p, Got(w, r, p)
    PROVE  Got(w, r2, p)
  BY DEF Got

\* A step of the log: none, or n metadata changes at its end.
LogStep == UNCHANGED wal \/ \E n \in Nat : MetaWrites(n)

LEMMA NewAreMeta ==
    ASSUME DbOK, LogStep
    PROVE  /\ Len(wal) \in Nat /\ Len(wal') \in Nat /\ Len(wal) <= Len(wal')
           /\ \A i \in 1..Len(wal) : wal'[i] = wal[i]
           /\ \A i \in (Len(wal) + 1)..Len(wal') : wal'[i].meta
  <1>1. wal \in Seq(Change) /\ Len(wal) \in Nat
    BY DEF DbOK
  <1>2. CASE UNCHANGED wal
    BY <1>1, <1>2
  <1>3. ASSUME NEW n \in Nat, MetaWrites(n)
        PROVE  /\ Len(wal') \in Nat /\ Len(wal) <= Len(wal')
               /\ \A i \in 1..Len(wal) : wal'[i] = wal[i]
               /\ \A i \in (Len(wal) + 1)..Len(wal') : wal'[i].meta
    <2> DEFINE new == [i \in 1..n |-> [meta |-> TRUE, first |-> Len(wal) + i]]
    <2>1. CASE ~PublishesMeta
      BY <1>1, <1>3, <2>1 DEF MetaWrites
    <2>2. CASE PublishesMeta
      <3>1. wal' = wal \o new
        BY <1>3, <2>2 DEF MetaWrites
      <3>2. new \in Seq(Change) /\ Len(new) = n
        BY <1>1 DEF Change
      <3>3. \A i \in 1..n : new[i].meta
        OBVIOUS
      <3> HIDE DEF new
      <3>a. Len(wal') = Len(wal) + n
        BY <1>1, <3>1, <3>2, ConcatType
      <3>b. \A i \in 1..Len(wal) : wal'[i] = wal[i]
        BY <1>1, <3>1, <3>2, ConcatType
      <3>4. \A i \in 1..n : wal'[Len(wal) + i] = new[i]
        BY <1>1, <3>1, <3>2, ConcatType
      <3>5. ASSUME NEW i \in (Len(wal) + 1)..Len(wal') PROVE wal'[i].meta
        <4>1. i - Len(wal) \in 1..n /\ Len(wal) + (i - Len(wal)) = i
          BY <1>1, <3>a
        <4> QED BY <3>3, <3>4, <4>1
      <3> QED BY <1>1, <3>a, <3>b, <3>5
    <2> QED BY <2>1, <2>2
  <1> QED BY <1>1, <1>2, <1>3 DEF LogStep

\* More log and more deliveries leave a covered position covered.
LEMMA GotKept ==
    ASSUME DbOK, LogStep, NEW r, NEW r2, r \subseteq r2, NEW p, Got(wal, r, p)
    PROVE  Got(wal', r2, p)
  <1> SUFFICES ASSUME NEW e \in 1..p, e \in 1..Len(wal'), ~wal'[e].meta
               PROVE  e \in r2
    BY DEF Got
  <1>1. e \in 1..Len(wal) /\ wal'[e] = wal[e]
    BY NewAreMeta
  <1> QED BY <1>1 DEF Got

LEMMA CoveredKept ==
    ASSUME DbOK, LogStep, NEW r, NEW r2, r \subseteq r2, NEW b, NEW q,
           NEW base \in Nat, NEW h \in 0..Len(wal),
           Covered(wal, r, b, q, base, h)
    PROVE  Covered(wal', r2, b, q, base, h)
  <1> SUFFICES ASSUME NEW e \in (base + 1)..h
               PROVE  \/ wal'[e].meta
                      \/ e \in r2
                      \/ \E i \in 1..Len(b) : b[i].event = e
                      \/ \E i \in 1..Len(q) : q[i].event = e
    BY DEF Covered
  <1>1. e \in 1..Len(wal) /\ wal'[e] = wal[e]
    BY NewAreMeta
  <1> QED BY <1>1 DEF Covered

LEMMA DeliverableKept ==
    ASSUME TypeOK, LogStep, NEW s \in Sink, batch'[s] = batch[s]
    PROVE  Deliverable(batch[s])' = Deliverable(batch[s])
  <1>a. batch[s] \in Seq(Tracked)
    BY DEF TypeOK, SinksOK
  <1>b. \A i \in 1..Len(batch[s]) : batch[s][i] \in Tracked
    BY <1>a
  <1>1. \A i \in 1..Len(batch[s]) : batch[s][i].event \in Event
    BY <1>b DEF Tracked
  <1>2. \A e \in Event : wal'[e] = wal[e]
    BY NewAreMeta DEF TypeOK, Event
  <1> QED BY <1>1, <1>2 DEF Deliverable, IsUser

\* takeBatch() moves the head of the queue into the empty batch.
LEMMA LineTake ==
    ASSUME NEW S, NEW q \in Seq(S), NEW n \in 1..Len(q), NEW base, NEW h,
           InLine(<<>>, q, base, h)
    PROVE  InLine(SubSeq(q, 1, n), Rest(q, n), base, h)
  <1> DEFINE b == SubSeq(q, 1, n)
             z == Rest(q, n)
  <1>0. Len(q) \in Nat /\ n \in Nat /\ n <= Len(q)
    OBVIOUS
  <1>1. /\ Len(b) = n /\ \A i \in 1..n : b[i] = q[i]
        /\ Len(z) = Len(q) - n /\ \A i \in 1..(Len(q) - n) : z[i] = q[n + i]
    BY SplitType
  <1> HIDE DEF b, z
  <1>2. \A i \in 1..Len(b) : i \in 1..Len(q) /\ i <= n
    BY <1>0, <1>1
  <1>3. \A i \in 1..Len(z) : n + i \in 1..Len(q)
    BY <1>0, <1>1
  <1>4. \A i \in 1..Len(b), j \in 1..Len(z) : i < n + j
    BY <1>0, <1>1
  <1>5. \A i, j \in 1..Len(z) : i < j => n + i < n + j
    BY <1>0, <1>1
  <1>6. /\ \A i \in 1..Len(q) : Numbered(q[i], base, h)
        /\ \A i, j \in 1..Len(q) : i < j => q[i].event < q[j].event
    BY DEF InLine
  <1>7. \A i \in 1..Len(b) : Numbered(b[i], base, h)
    BY <1>1, <1>2, <1>6
  <1>8. \A i \in 1..Len(z) : Numbered(z[i], base, h)
    BY <1>1, <1>3, <1>6
  <1>9. ASSUME NEW i \in 1..Len(b), NEW j \in 1..Len(z)
        PROVE  b[i].event < z[j].event
    <2>1. b[i] = q[i] /\ z[j] = q[n + j]
      BY <1>1
    <2>2. q[i].event < q[n + j].event
      BY <1>2, <1>3, <1>4, <1>6
    <2> QED BY <2>1, <2>2
  <1>10. ASSUME NEW i \in 1..Len(z), NEW j \in 1..Len(z), i < j
         PROVE  z[i].event < z[j].event
    <2>1. z[i] = q[n + i] /\ z[j] = q[n + j]
      BY <1>1
    <2>2. q[n + i].event < q[n + j].event
      BY <1>3, <1>5, <1>6, <1>10
    <2> QED BY <2>1, <2>2
  <1>11. InLine(b, z, base, h)
    BY <1>7, <1>8, <1>9, <1>10 DEF InLine
  <1> QED BY <1>11 DEF b, z

LEMMA CoveredTake ==
    ASSUME NEW S, NEW q \in Seq(S), NEW n \in 1..Len(q),
           NEW w, NEW r, NEW base, NEW h, Covered(w, r, <<>>, q, base, h)
    PROVE  Covered(w, r, SubSeq(q, 1, n), Rest(q, n), base, h)
  <1> DEFINE b == SubSeq(q, 1, n)
             z == Rest(q, n)
  <1>0. Len(q) \in Nat /\ n \in Nat /\ n <= Len(q)
    OBVIOUS
  <1>1. /\ Len(b) = n /\ \A i \in 1..n : b[i] = q[i]
        /\ Len(z) = Len(q) - n /\ \A i \in 1..(Len(q) - n) : z[i] = q[n + i]
    BY SplitType
  <1> HIDE DEF b, z
  <1>2. ASSUME NEW i \in 1..Len(q)
        PROVE  \/ \E j \in 1..Len(b) : b[j] = q[i]
               \/ \E j \in 1..Len(z) : z[j] = q[i]
    <2>1. CASE i <= n
      BY <1>0, <1>1, <2>1
    <2>2. CASE ~(i <= n)
      <3>1. i - n \in 1..Len(z) /\ n + (i - n) = i
        BY <1>0, <1>1, <2>2
      <3> QED BY <1>1, <3>1
    <2> QED BY <2>1, <2>2
  <1>3. ASSUME NEW e \in (base + 1)..h
        PROVE  \/ w[e].meta \/ e \in r
               \/ \E i \in 1..Len(b) : b[i].event = e
               \/ \E i \in 1..Len(z) : z[i].event = e
    <2>1. CASE w[e].meta \/ e \in r
      BY <2>1
    <2>2. CASE \E i \in 1..Len(q) : q[i].event = e
      BY <2>2, <1>2
    <2> QED BY <2>1, <2>2 DEF Covered
  <1>4. Covered(w, r, b, z, base, h)
    BY <1>3 DEF Covered
  <1> QED BY <1>4 DEF b, z

\* put() of the event after h.
LEMMA LinePut ==
    ASSUME NEW S, NEW b \in Seq(S), NEW q \in Seq(S), NEW t \in S,
           NEW base \in Int, NEW h \in Int,
           \A x \in S : x.event \in Int,
           InLine(b, q, base, h), Numbered(t, base, h + 1), t.event = h + 1
    PROVE  InLine(b, Put(q, t), base, h + 1)
  <1> DEFINE z == Put(q, t)
  <1>0. Len(q) \in Nat /\ Len(b) \in Nat
    OBVIOUS
  <1>1. /\ Len(z) = Len(q) + 1
        /\ \A i \in 1..Len(q) : z[i] = q[i]
        /\ z[Len(q) + 1] = t
    BY DEF Put
  <1> HIDE DEF z
  <1>2. \A i \in 1..Len(b) : b[i].event \in Int /\ b[i].event <= h
                             /\ Numbered(b[i], base, h + 1)
    BY DEF InLine, Numbered
  <1>3. \A i \in 1..Len(q) : q[i].event \in Int /\ q[i].event <= h
                             /\ Numbered(q[i], base, h + 1)
    BY DEF InLine, Numbered
  <1>4. \A i \in 1..Len(z) : i \in 1..Len(q) \/ i = Len(q) + 1
    BY <1>0, <1>1
  <1>5. \A i \in 1..Len(z) : Numbered(z[i], base, h + 1)
    BY <1>1, <1>3, <1>4
  <1>6. ASSUME NEW i \in 1..Len(b), NEW j \in 1..Len(z)
        PROVE  b[i].event < z[j].event
    <2>1. CASE j \in 1..Len(q)
      BY <1>1, <2>1 DEF InLine
    <2>2. CASE j = Len(q) + 1
      BY <1>1, <1>2, <2>2
    <2> QED BY <1>4, <2>1, <2>2
  <1>7. \A i, j \in 1..Len(z) : i < j => z[i].event < z[j].event
    <2> SUFFICES ASSUME NEW i \in 1..Len(z), NEW j \in 1..Len(z), i < j
                 PROVE  z[i].event < z[j].event
      OBVIOUS
    <2>1. i \in 1..Len(q)
      BY <1>0, <1>1
    <2>2. CASE j \in 1..Len(q)
      BY <1>1, <2>1, <2>2 DEF InLine
    <2>3. CASE j = Len(q) + 1
      BY <1>1, <1>3, <2>1, <2>3
    <2> QED BY <1>4, <2>2, <2>3
  <1>8. InLine(b, z, base, h + 1)
    BY <1>2, <1>5, <1>6, <1>7 DEF InLine
  <1> QED BY <1>8 DEF z

LEMMA CoveredPut ==
    ASSUME NEW S, NEW b, NEW q \in Seq(S), NEW t \in S,
           NEW w, NEW r, NEW base \in Int, NEW h \in Int, t.event = h + 1,
           Covered(w, r, b, q, base, h)
    PROVE  Covered(w, r, b, Put(q, t), base, h + 1)
  <1> DEFINE z == Put(q, t)
  <1>0. Len(q) \in Nat
    OBVIOUS
  <1>1. /\ Len(z) = Len(q) + 1
        /\ \A i \in 1..Len(q) : z[i] = q[i]
        /\ z[Len(q) + 1] = t
    BY DEF Put
  <1> HIDE DEF z
  <1>2. \A i \in 1..Len(q) : i \in 1..Len(z)
    BY <1>0, <1>1
  <1>3. Len(q) + 1 \in 1..Len(z)
    BY <1>0, <1>1
  <1>4. ASSUME NEW e \in (base + 1)..(h + 1)
        PROVE  \/ w[e].meta \/ e \in r
               \/ \E i \in 1..Len(b) : b[i].event = e
               \/ \E i \in 1..Len(z) : z[i].event = e
    <2>1. CASE e = h + 1
      BY <1>1, <1>3, <2>1
    <2>2. CASE e # h + 1
      <3>1. e \in (base + 1)..h
        BY <2>2
      <3> QED BY <1>1, <1>2, <3>1 DEF Covered
    <2> QED BY <2>1, <2>2
  <1>5. Covered(w, r, b, z, base, h + 1)
    BY <1>4 DEF Covered
  <1> QED BY <1>5 DEF z

\* Once the user events of batch b are delivered, its end is a covered
\* position, and the batch may go.
LEMMA BatchDelivered ==
    ASSUME NEW w, NEW r, NEW r2, r \subseteq r2, NEW b, NEW q,
           NEW base \in Nat, NEW h \in Int, Len(b) \in Nat, b # <<>>, Len(b) # 0,
           Len(q) \in Nat,
           \A i \in 1..Len(b) : b[i].event \in Int,
           \A j \in 1..Len(q) : q[j].event \in Int,
           InLine(b, q, base, h), Covered(w, r, b, q, base, h),
           Got(w, r, base),
           \A i \in 1..Len(b) : w[b[i].event].meta \/ b[i].event \in r2
    PROVE  /\ Got(w, r2, b[Len(b)].event)
           /\ Covered(w, r2, <<>>, q, base, h)
  <1>1. Len(b) \in 1..Len(b)
    OBVIOUS
  <1>2. Got(w, r2, b[Len(b)].event)
    <2> SUFFICES ASSUME NEW e \in 1..b[Len(b)].event, e \in 1..Len(w), ~w[e].meta
                 PROVE  e \in r2
      BY DEF Got
    <2>0. e \in Int /\ b[Len(b)].event \in Int /\ e <= b[Len(b)].event
      BY <1>1
    <2>1. CASE e <= base
      BY <2>0, <2>1 DEF Got
    <2>2. CASE ~(e <= base)
      <3>1. b[Len(b)].event <= h
        BY <1>1 DEF InLine, Numbered
      <3>2. e \in (base + 1)..h
        BY <2>0, <2>2, <3>1
      <3>a. \A j \in 1..Len(q) : b[Len(b)].event < q[j].event
        BY <1>1 DEF InLine
      <3>3. \A j \in 1..Len(q) : q[j].event # e
        BY <2>0, <3>a
      <3>4. e \in r \/ \E i \in 1..Len(b) : b[i].event = e
        BY <3>2, <3>3 DEF Covered
      <3> QED BY <3>4
    <2> QED BY <2>0, <2>1, <2>2
  <1>3. Covered(w, r2, <<>>, q, base, h)
    BY DEF Covered
  <1> QED BY <1>2, <1>3

\* Without its batch a line is still in order.
LEMMA LineDrop ==
    ASSUME NEW b, NEW q, NEW base, NEW h, InLine(b, q, base, h)
    PROVE  InLine(<<>>, q, base, h)
  BY DEF InLine

\* The pump goes on past an event the sink needs no copy of.
LEMMA LinePass ==
    ASSUME NEW S, NEW b \in Seq(S), NEW q \in Seq(S), \A x \in S : x.event \in Int,
           NEW base, NEW h \in Int, InLine(b, q, base, h)
    PROVE  InLine(b, q, base, h + 1)
  <1>1. \A i \in 1..Len(b) : b[i].event \in Int
    OBVIOUS
  <1>2. \A i \in 1..Len(q) : q[i].event \in Int
    OBVIOUS
  <1> QED BY <1>1, <1>2 DEF InLine, Numbered

LEMMA CoveredPass ==
    ASSUME NEW w, NEW r, NEW b, NEW q, NEW base \in Int, NEW h \in Int,
           Covered(w, r, b, q, base, h), w[h + 1].meta \/ h + 1 \in r
    PROVE  Covered(w, r, b, q, base, h + 1)
  <1> SUFFICES ASSUME NEW e \in (base + 1)..(h + 1)
               PROVE  \/ w[e].meta
                      \/ e \in r
                      \/ \E i \in 1..Len(b) : b[i].event = e
                      \/ \E i \in 1..Len(q) : q[i].event = e
    BY Zenon DEF Covered
  <1>1. e = h + 1 \/ e \in (base + 1)..h
    OBVIOUS
  <1>2. CASE e = h + 1
    BY <1>2
  <1>3. CASE e \in (base + 1)..h
    BY <1>3, Zenon DEF Covered
  <1> QED BY <1>1, <1>2, <1>3

-----------------------------------------------------------------------------
(* Steps that leave a sink's line, or its positions, as they are. *)

\* What the types say of numbers and lines.
LEMMA Ranges ==
    ASSUME TypeOK, seq <= pulled
    PROVE  /\ Base \in Nat /\ pulled \in Nat /\ seq \in Nat /\ sent \in Nat
           /\ Len(wal) \in Nat /\ Base + seq = pulled /\ pulled <= sent
           /\ sent <= Len(wal) /\ ackedSeq \in Nat /\ ackedSeq <= seq
           /\ confirmed \in Nat /\ flushed \in Nat /\ at \in Nat
           /\ at # 0 => pulled # 0
           /\ \A s \in Sink :
                 /\ Handled(s) \in 0..Len(wal)
                 /\ ckpt[s] \in Nat /\ ackedEventId[s] \in Nat
                 /\ deliveredSeq[s] \in Nat /\ deliveredSeq[s] <= seq
                 /\ batch[s] \in Seq(Tracked) /\ queue[s] \in Seq(Tracked)
           /\ \A x \in Tracked : x.event \in Event /\ x.event \in Int
                                 /\ x.seq \in 1..seq
  <1>1. /\ pulled \in 0..sent /\ sent \in 0..Len(wal) /\ Len(wal) \in Nat
        /\ seq \in Nat /\ ackedSeq \in 0..seq /\ at \in 0..(NumSinks + 1)
        /\ at # 0 => pulled # 0
        /\ confirmed \in 0..Len(wal) /\ flushed \in 0..Len(wal)
    BY DEF TypeOK, DbOK, StreamOK, PumpOK
  <1>2. /\ ckpt \in [Sink -> 0..Len(wal)] /\ ackedEventId \in [Sink -> 0..Len(wal)]
        /\ deliveredSeq \in [Sink -> 0..seq]
        /\ batch \in [Sink -> Seq(Tracked)] /\ queue \in [Sink -> Seq(Tracked)]
    BY DEF TypeOK, DbOK, SinksOK
  <1>3. \A s \in Sink : Handled(s) \in 0..Len(wal)
    BY <1>1 DEF Handled, Sink
  <1>4. \A x \in Tracked : x.event \in Event /\ x.event \in Int
                           /\ x.seq \in 1..seq
    BY <1>1 DEF Tracked, Event
  <1>5. Base \in Nat /\ Base + seq = pulled
    BY <1>1 DEF Base
  <1> QED BY <1>1, <1>2, <1>3, <1>4, <1>5

LEMMA LineKept ==
    ASSUME TypeOK, NumbersOK, LogStep, NEW s \in Durable, LineOK(s),
           Base' = Base, Handled(s)' = Handled(s),
           queue'[s] = queue[s], batch'[s] = batch[s],
           received[s] \subseteq received'[s],
           pc'[s] = "ack" => \/ pc[s] = "ack"
                             \/ Deliverable(batch[s]) \subseteq received'[s]
    PROVE  LineOK(s)'
  <1>1. Base \in Nat /\ Handled(s) \in 0..Len(wal) /\ DbOK
    BY Ranges DEF NumbersOK, TypeOK
  <1>2. InLine(batch'[s], queue'[s], Base', Handled(s)')
    BY DEF LineOK
  <1>3. Covered(wal', received'[s], batch'[s], queue'[s], Base', Handled(s)')
    BY <1>1, CoveredKept DEF LineOK
  <1>4. pc'[s] = "ack" => Deliverable(batch[s])' \subseteq received'[s]
    BY DeliverableKept DEF LineOK
  <1> QED BY <1>2, <1>3, <1>4 DEF LineOK

\* Each position stays, or moves to a covered one.
LEMMA PositionsKept ==
    ASSUME TypeOK, LogStep, NEW s \in Durable, PositionsOK(s),
           received[s] \subseteq received'[s], Base' = Base,
           confirmed' = confirmed \/ Got(wal, received'[s], confirmed'),
           flushed' = flushed \/ Got(wal, received'[s], flushed'),
           ckpt'[s] = ckpt[s] \/ Got(wal, received'[s], ckpt'[s]),
           \/ ackedEventId'[s] = ackedEventId[s]
           \/ Got(wal, received'[s], ackedEventId'[s]),
           ackedSeq' = ackedSeq \/ Got(wal, received'[s], Base + ackedSeq'),
           \/ deliveredSeq'[s] = deliveredSeq[s]
           \/ Got(wal, received'[s], Base + deliveredSeq'[s])
    PROVE  PositionsOK(s)'
  <1>1. \A p : Got(wal, received[s], p) => Got(wal', received'[s], p)
    BY GotKept DEF TypeOK
  <1>2. \A p : Got(wal, received'[s], p) => Got(wal', received'[s], p)
    BY GotKept DEF TypeOK
  <1>3. /\ Got(wal', received'[s], confirmed') /\ Got(wal', received'[s], flushed')
        /\ Got(wal', received'[s], ckpt'[s])
        /\ Got(wal', received'[s], ackedEventId'[s])
    BY <1>1, <1>2 DEF PositionsOK
  <1>4. /\ Got(wal', received'[s], Base')
        /\ Got(wal', received'[s], Base' + ackedSeq')
        /\ Got(wal', received'[s], Base' + deliveredSeq'[s])
    BY <1>1, <1>2 DEF PositionsOK
  <1> QED BY <1>3, <1>4 DEF PositionsOK

\* maybeAck() on covered positions.
LEMMA MaybeAckSafe ==
    ASSUME TypeOK, NumbersOK, BySeqIsWindow, Durable # {},
           NEW ds \in [Sink -> 0..seq], MaybeAck(ds),
           \A s \in Durable : PositionsOK(s) /\ Got(wal, received[s], Base + ds[s])
    PROVE  /\ \A s \in Durable : /\ Got(wal, received[s], flushed')
                                 /\ Got(wal, received[s], Base + ackedSeq')
           /\ (Base + ackedSeq' + 1)..sent \subseteq outstanding'
           /\ \A q \in DOMAIN bySeq' : bySeq'[q] = Base + q
  <1>0. /\ Base \in Nat /\ seq \in Nat /\ sent \in Nat /\ ackedSeq \in Nat
        /\ Base + seq <= sent /\ flushed \in Nat
    BY Ranges DEF NumbersOK
  <1>1. \A q \in DOMAIN bySeq' : bySeq'[q] = Base + q
    BY MaybeAckWindow DEF NumbersOK
  <1>2. CASE UNCHANGED <<flushed, outstanding, ackedSeq>>
    BY <1>1, <1>2 DEF PositionsOK, NumbersOK
  <1>3. CASE /\ ackedSeq < ackedSeq' /\ ackedSeq' \in DOMAIN bySeq
             /\ \A s \in Durable : ackedSeq' <= ds[s]
             /\ Ack(bySeq[ackedSeq'])
    <2> DEFINE e == Base + ackedSeq'
    <2>1. bySeq[ackedSeq'] = e /\ ackedSeq' \in 1..seq
      BY <1>0, <1>3, MaybeAckWindow DEF NumbersOK, BySeqIsWindow
    <2>2. e \in (Base + ackedSeq + 1)..sent /\ e \in Nat
      BY <1>0, <1>3, <2>1
    <2> HIDE DEF e
    <2>3. e \in outstanding
      BY <2>2 DEF NumbersOK
    <2>4. /\ flushed' = flushed \/ flushed' = e
          /\ outstanding' = {x \in outstanding : x > e}
      BY <1>3, <2>1, <2>3 DEF Ack, AckTarget, StillOut, Larger
    <2>5. \A s \in Durable : Got(wal, received[s], e)
      <3> SUFFICES ASSUME NEW s \in Durable PROVE Got(wal, received[s], e)
        OBVIOUS
      <3>1. ds[s] \in 0..seq /\ ackedSeq' <= ds[s]
        BY <1>3 DEF Sink
      <3>2. e <= Base + ds[s] /\ Base + ds[s] \in Int /\ e \in Int
        BY <1>0, <2>1, <2>2, <3>1 DEF e
      <3> QED BY <3>2, GotDown
    <2>6. (e + 1)..sent \subseteq outstanding'
      <3> SUFFICES ASSUME NEW x \in (e + 1)..sent PROVE x \in outstanding'
        OBVIOUS
      <3>1. x \in (Base + ackedSeq + 1)..sent /\ x > e
        BY <1>0, <2>2
      <3> QED BY <2>4, <3>1 DEF NumbersOK
    <2>7. \A s \in Durable : Got(wal, received[s], flushed')
      BY <2>4, <2>5 DEF PositionsOK
    <2> QED BY <1>1, <2>5, <2>6, <2>7 DEF e
  <1> QED BY <1>2, <1>3, MaybeAckWindow

-----------------------------------------------------------------------------
(* One lemma per action: what SafeInv says of the state before, and of the   *)
(* state after.                                                              *)

Body == Fresh /\ NumbersOK /\ \A s \in Durable : LineOK(s) /\ PositionsOK(s)

\* A sink the step does not concern.
LEMMA Untouched ==
    ASSUME TypeOK, Body, UNCHANGED <<wal, Base>>, NEW s \in Durable,
           UNCHANGED <<confirmed, flushed, ackedSeq>>,
           received'[s] = received[s], ckpt'[s] = ckpt[s],
           ackedEventId'[s] = ackedEventId[s], deliveredSeq'[s] = deliveredSeq[s],
           queue'[s] = queue[s], batch'[s] = batch[s], pc'[s] = "ack" => pc[s] = "ack",
           Handled(s)' = Handled(s)
    PROVE  LineOK(s)' /\ PositionsOK(s)'
  BY LineKept, PositionsKept DEF Body, LogStep

LEMMA InitSafe == Init => SafeInv
  <1> SUFFICES ASSUME Init PROVE SafeInv
    OBVIOUS
  <1> USE DEF Init, PerSink
  <1>0. Base = 0
    BY DEF Base
  <1>a. Fresh
    BY DEF Fresh, Sink
  <1>b. NumbersOK
    BY <1>0 DEF NumbersOK
  <1>c. BySeqIsWindow
    BY DEF BySeqIsWindow
  <1>2. ASSUME NEW s \in Durable PROVE LineOK(s) /\ PositionsOK(s)
    BY DEF LineOK, PositionsOK, Got, InLine, Covered, Base, Handled, Sink
  <1> QED BY <1>a, <1>b, <1>c, <1>2 DEF SafeInv

LEMMA ConnectSafe == TypeOK /\ Body /\ Connect => Body'
  <1> SUFFICES ASSUME TypeOK, Body, Connect PROVE Body'
    OBVIOUS
  <1>0. /\ sent = 0 /\ pulled = 0 /\ seq = 0 /\ at = 0 /\ Base = 0 /\ ackedSeq = 0
        /\ DOMAIN bySeq = {}
        /\ \A s \in Durable : queue[s] = <<>> /\ batch[s] = <<>>
    <2>1. /\ sent = 0 /\ seq = 0 /\ at = 0
          /\ \A s \in Durable : queue[s] = <<>> /\ batch[s] = <<>>
      BY DEF Body, Connect, Fresh
    <2>2. pulled \in 0..sent /\ ackedSeq \in 0..seq /\ DOMAIN bySeq \subseteq 1..seq
      BY DEF TypeOK, PumpOK
    <2>3. pulled = 0 /\ ackedSeq = 0
      BY <2>1, <2>2
    <2>4. 1..seq = {}
      BY <2>1
    <2>5. DOMAIN bySeq = {}
      BY <2>2, <2>4
    <2> QED BY <2>1, <2>3, <2>5 DEF Base
  <1> DEFINE R == ResumeAfter(confirmed)
  <1>1. R \in 0..confirmed /\ confirmed \in Nat
    BY ResumeAfterType DEF TypeOK, DbOK
  <1>2. /\ pulled' = R /\ sent' = R /\ seq' = 0 /\ ackedSeq' = 0 /\ at' = 0
        /\ bySeq' = bySeq /\ outstanding' = {} /\ flushed' = 0 /\ conn' = TRUE
    BY <1>0 DEF Connect
  <1> HIDE DEF R
  <1>3. Base' = R
    BY <1>1, <1>2 DEF Base
  <1>4. Fresh' /\ NumbersOK'
    BY <1>0, <1>1, <1>2, <1>3 DEF Fresh, NumbersOK
  <1>5. ASSUME NEW s \in Durable PROVE LineOK(s)' /\ PositionsOK(s)'
    <2>1. /\ queue'[s] = <<>> /\ batch'[s] = <<>> /\ pc' = pc
          /\ ckpt' = ckpt /\ confirmed' = confirmed /\ wal' = wal
          /\ received' = received
          /\ ackedEventId' = ackedEventId /\ deliveredSeq' = deliveredSeq
      BY <1>0, <1>5 DEF Connect, sinkVars, dbVars
    <2>a. /\ deliveredSeq \in [Sink -> 0..seq] /\ s \in Sink
          /\ batch[s] = <<>> => pc[s] \in {"take", "waitTop"}
      BY DEF TypeOK, SinksOK
    <2>2. deliveredSeq[s] = 0 /\ pc[s] # "ack"
      BY <1>0, <2>a
    <2>3. LineOK(s)'
      BY <1>1, <1>2, <1>3, <2>1, <2>2 DEF LineOK, InLine, Covered, Handled
    <2>4. Got(wal, received[s], R) /\ Got(wal, received[s], 0)
      BY <1>1, GotDown DEF Body, PositionsOK
    <2>5. PositionsOK(s)'
      BY <1>1, <1>2, <1>3, <2>1, <2>2, <2>4 DEF PositionsOK, Body
    <2> QED BY <2>3, <2>5
  <1> QED BY <1>4, <1>5 DEF Body

LEMMA ReceiveSafe == TypeOK /\ Body /\ Receive => Body'
  <1> SUFFICES ASSUME TypeOK, Body, Receive PROVE Body'
    OBVIOUS
  <1> USE DEF Receive, dbVars, pumpVars, sinkVars
  <1>0. sent \in Nat /\ Base \in Nat /\ ackedSeq \in Nat /\ Base' = Base
    BY Ranges DEF Body, NumbersOK, Base
  <1>1. Fresh'
    BY DEF Fresh
  <1>2. NumbersOK'
    <2>1. (Base + ackedSeq + 1)..(sent + 1)
             \subseteq (Base + ackedSeq + 1)..sent \union {sent + 1}
      BY <1>0
    <2> QED BY <1>0, <2>1 DEF Body, NumbersOK
  <1>3. ASSUME NEW s \in Durable PROVE LineOK(s)' /\ PositionsOK(s)'
    BY <1>0, Untouched DEF Handled
  <1> QED BY <1>1, <1>2, <1>3 DEF Body

LEMMA KeepaliveSafe == TypeOK /\ Body /\ Keepalive => Body'
  <1> SUFFICES ASSUME TypeOK, Body, Keepalive PROVE Body'
    OBVIOUS
  <1> USE DEF Keepalive, dbVars, pumpVars, sinkVars
  <1>0. /\ sent \in Nat /\ Base \in Nat /\ ackedSeq \in Nat /\ Base' = Base
    BY Ranges DEF Body, NumbersOK, Base
  <1>1. Fresh' /\ NumbersOK'
    BY <1>0 DEF Fresh, NumbersOK, Body
  <1>2. ASSUME NEW s \in Durable PROVE LineOK(s)' /\ PositionsOK(s)'
    <2>1. LineOK(s) /\ PositionsOK(s)
      BY DEF Body
    <2>2. sent <= Base + ackedSeq
      <3>1. (Base + ackedSeq + 1)..sent \subseteq {}
        BY DEF Body, NumbersOK
      <3> QED BY <1>0, <3>1
    <2>3. Got(wal, received[s], sent)
      BY <1>0, <2>1, <2>2, GotDown DEF PositionsOK
    <2>4. LineOK(s)'
      BY <1>0, <2>1, LineKept DEF LogStep, Handled, Body
    <2>5. PositionsOK(s)'
      BY <1>0, <2>1, <2>3, PositionsKept DEF LogStep
    <2> QED BY <2>4, <2>5
  <1> QED BY <1>1, <1>2 DEF Body

LEMMA SendStatusSafe == TypeOK /\ Body /\ SendStatus => Body'
  <1> SUFFICES ASSUME TypeOK, Body, SendStatus PROVE Body'
    OBVIOUS
  <1> USE DEF SendStatus, streamVars, pumpVars, sinkVars
  <1>0. Base' = Base
    BY DEF Base
  <1>1. Fresh' /\ NumbersOK'
    BY <1>0 DEF Fresh, NumbersOK, Body
  <1>2. ASSUME NEW s \in Durable PROVE LineOK(s)' /\ PositionsOK(s)'
    <2>1. LineOK(s) /\ PositionsOK(s)
      BY DEF Body
    <2>2. LineOK(s)'
      BY <1>0, <2>1, LineKept DEF LogStep, Handled, Body
    <2>3. PositionsOK(s)'
      BY <1>0, <2>1, PositionsKept DEF LogStep, PositionsOK
    <2> QED BY <2>2, <2>3
  <1> QED BY <1>1, <1>2 DEF Body

LEMMA PullSafe == TypeOK /\ Body /\ BySeqIsWindow /\ Pull => Body'
  <1> SUFFICES ASSUME TypeOK, Body, BySeqIsWindow, Pull PROVE Body'
    OBVIOUS
  <1> USE DEF Pull, dbVars, streamVars, sinkVars
  <1>0. /\ pulled \in Nat /\ seq \in Nat /\ sent \in Nat /\ seq <= pulled
    BY Ranges DEF Body, NumbersOK
  <1>1. Base' = Base /\ Base \in Nat /\ Base + (seq + 1) = pulled + 1
    BY <1>0 DEF Base
  <1>2. Fresh'
    BY <1>0 DEF Fresh, Body
  <1>3. NumbersOK'
    BY <1>0, <1>1 DEF NumbersOK, Body
  <1>4. ASSUME NEW s \in Durable PROVE LineOK(s)' /\ PositionsOK(s)'
    <2>1. Handled(s)' = Handled(s)
      BY <1>0 DEF Handled, Sink
    <2> QED BY <1>1, <2>1, Untouched
  <1> QED BY <1>2, <1>3, <1>4 DEF Body

LEMMA FanOutSkipSafe == TypeOK /\ Body /\ FanOutSkip => Body'
  <1> SUFFICES ASSUME TypeOK, Body, FanOutSkip PROVE Body'
    OBVIOUS
  <1> USE DEF FanOutSkip, dbVars, streamVars
  <1>0. /\ pulled \in Nat /\ seq \in Nat /\ Base + seq = pulled /\ at \in Sink
        /\ at \in Nat \ {0} /\ Base \in Nat /\ Base' = Base
        /\ pulled \in Event /\ Len(wal) \in Nat /\ ackedEventId[at] \in Nat
        /\ IsUser(pulled) /\ pulled <= ackedEventId[at]
    <2>1. at \in Sink /\ at # 0
      BY DEF Sink
    <2>2. pulled # 0 /\ pulled \in 0..Len(wal)
      BY <2>1, Ranges DEF Body, NumbersOK
    <2> QED BY <2>1, <2>2, Ranges DEF Body, NumbersOK, Event, Base, AlreadyDelivered
  <1>1. Fresh' /\ NumbersOK'
    BY <1>0 DEF Fresh, NumbersOK, Body
  <1>2. ASSUME NEW s \in Durable, s # at PROVE LineOK(s)' /\ PositionsOK(s)'
    <2>1. Handled(s)' = Handled(s)
      BY <1>0, <1>2 DEF Handled, Sink
    <2>2. deliveredSeq'[s] = deliveredSeq[s]
      BY <1>2 DEF TypeOK, SinksOK
    <2> QED BY <1>0, <2>1, <2>2, Untouched
  <1>3. ASSUME NEW s \in Durable, s = at PROVE LineOK(s)' /\ PositionsOK(s)'
    <2>0. LineOK(s) /\ PositionsOK(s) /\ s \in Sink
      BY DEF Body
    <2>1. Handled(s) = pulled - 1 /\ Handled(s)' = pulled
      BY <1>0, <1>3 DEF Handled
    <2>2. pulled \in received[s]
      BY <1>0, <1>3, <2>0 DEF PositionsOK, Got, Event, IsUser
    <2>3. /\ batch[s] \in Seq(Tracked) /\ queue[s] \in Seq(Tracked)
          /\ \A x \in Tracked : x.event \in Int
      BY <2>0, Ranges DEF Body, NumbersOK
    <2>a. pulled - 1 \in Int /\ (pulled - 1) + 1 = pulled /\ Base \in Int
      BY <1>0
    <2>4. InLine(batch[s], queue[s], Base, pulled)
      <3>1. InLine(batch[s], queue[s], Base, (pulled - 1) + 1)
        BY <2>0, <2>1, <2>3, <2>a, LinePass DEF LineOK
      <3> QED BY <3>1, <2>a
    <2>5. Covered(wal, received[s], batch[s], queue[s], Base, pulled)
      <3>1. Covered(wal, received[s], batch[s], queue[s], Base, (pulled - 1) + 1)
        BY <2>0, <2>1, <2>2, <2>a, CoveredPass DEF LineOK
      <3> QED BY <3>1, <2>a
    <2>6. UNCHANGED <<queue, batch, pc, received, wal, ckpt, ackedEventId,
                      confirmed, flushed, ackedSeq>>
      OBVIOUS
    <2>7. LineOK(s)'
      <3>1. pc[s] = "ack" => Deliverable(batch[s]) \subseteq received[s]
        BY <2>0 DEF LineOK
      <3>2. Deliverable(batch[s])' = Deliverable(batch[s])
        BY <2>6 DEF Deliverable, IsUser
      <3>3. /\ InLine(batch'[s], queue'[s], Base', Handled(s)')
            /\ Covered(wal', received'[s], batch'[s], queue'[s], Base', Handled(s)')
        BY <1>0, <2>1, <2>4, <2>5, <2>6
      <3> QED BY <2>6, <3>1, <3>2, <3>3 DEF LineOK
    <2>8. Got(wal, received[s], Base + seq)
      BY <1>0, <1>3, <2>0, GotDown DEF PositionsOK
    <2>9. deliveredSeq'[s] = seq
      BY <1>0, <1>3 DEF TypeOK, SinksOK
    <2>10. PositionsOK(s)'
      BY <1>0, <2>0, <2>6, <2>8, <2>9, PositionsKept DEF LogStep
    <2> QED BY <2>7, <2>10
  <1> QED BY <1>1, <1>2, <1>3 DEF Body

LEMMA FanOutDurableSafe == TypeOK /\ Body /\ FanOutDurable => Body'
  <1> SUFFICES ASSUME TypeOK, Body, FanOutDurable PROVE Body'
    OBVIOUS
  <1> USE DEF FanOutDurable, dbVars, streamVars
  <1> DEFINE t == [seq |-> seq, event |-> pulled]
  <1>0. /\ pulled \in Nat /\ seq \in Nat /\ Base + seq = pulled /\ at \in Sink
        /\ at \in Nat \ {0} /\ Base \in Nat /\ Base' = Base
        /\ pulled \in Event /\ sent # 0 /\ t \in Tracked
    <2>1. at \in Sink /\ at # 0
      BY DEF Sink
    <2>2. pulled # 0 /\ pulled \in 0..Len(wal) /\ seq # 0 /\ pulled <= sent
      BY <2>1, Ranges DEF Body, NumbersOK, TypeOK, PumpOK
    <2>3. pulled \in Event /\ seq \in 1..seq
      BY <2>2, Ranges DEF Body, NumbersOK, Event
    <2> QED BY <2>1, <2>2, <2>3, Ranges DEF Body, NumbersOK, Base, Tracked
  <1>1. Fresh' /\ NumbersOK'
    BY <1>0 DEF Fresh, NumbersOK, Body
  <1>2. ASSUME NEW s \in Durable, s # at PROVE LineOK(s)' /\ PositionsOK(s)'
    <2>1. Handled(s)' = Handled(s)
      BY <1>0, <1>2 DEF Handled, Sink
    <2>2. queue'[s] = queue[s]
      BY <1>2 DEF TypeOK, SinksOK
    <2> QED BY <1>0, <2>1, <2>2, Untouched
  <1>3. ASSUME NEW s \in Durable, s = at PROVE LineOK(s)' /\ PositionsOK(s)'
    <2>0. LineOK(s) /\ PositionsOK(s) /\ s \in Sink
      BY DEF Body
    <2>1. Handled(s) = pulled - 1 /\ Handled(s)' = pulled
      BY <1>0, <1>3 DEF Handled
    <2>3. /\ batch[s] \in Seq(Tracked) /\ queue[s] \in Seq(Tracked)
          /\ \A x \in Tracked : x.event \in Int
      BY <2>0, Ranges DEF Body, NumbersOK
    <2>a. /\ pulled - 1 \in Int /\ (pulled - 1) + 1 = pulled /\ Base \in Int
          /\ t.event = pulled /\ Numbered(t, Base, pulled)
      BY <1>0 DEF Numbered
    <2>b. t \in Tracked
      BY <1>0
    <2>6. /\ UNCHANGED <<batch, pc, received, wal, ckpt, ackedEventId,
                         confirmed, flushed, ackedSeq, deliveredSeq>>
          /\ queue'[s] = Put(queue[s], t)
      BY <1>3, <2>0 DEF TypeOK, SinksOK
    <2> HIDE DEF t
    <2>4. InLine(batch[s], Put(queue[s], t), Base, pulled)
      <3>1. InLine(batch[s], Put(queue[s], t), Base, (pulled - 1) + 1)
        BY <2>0, <2>1, <2>3, <2>a, <2>b, LinePut DEF LineOK
      <3> QED BY <3>1, <2>a
    <2>5. Covered(wal, received[s], batch[s], Put(queue[s], t), Base, pulled)
      <3>1. Covered(wal, received[s], batch[s], Put(queue[s], t), Base, (pulled - 1) + 1)
        BY <2>0, <2>1, <2>3, <2>a, <2>b, CoveredPut DEF LineOK
      <3> QED BY <3>1, <2>a
    <2>7. LineOK(s)'
      <3>1. pc[s] = "ack" => Deliverable(batch[s]) \subseteq received[s]
        BY <2>0 DEF LineOK
      <3>2. Deliverable(batch[s])' = Deliverable(batch[s])
        BY <2>6 DEF Deliverable, IsUser
      <3>3. /\ InLine(batch'[s], queue'[s], Base', Handled(s)')
            /\ Covered(wal', received'[s], batch'[s], queue'[s], Base', Handled(s)')
        BY <1>0, <2>1, <2>4, <2>5, <2>6
      <3> QED BY <2>6, <3>1, <3>2, <3>3 DEF LineOK
    <2>10. PositionsOK(s)'
      BY <1>0, <2>0, <2>6, PositionsKept DEF LogStep
    <2> QED BY <2>7, <2>10
  <1> QED BY <1>1, <1>2, <1>3 DEF Body

LEMMA FanOutEphemeralSafe == TypeOK /\ Body /\ FanOutEphemeral => Body'
  <1> SUFFICES ASSUME TypeOK, Body, FanOutEphemeral PROVE Body'
    OBVIOUS
  <1> USE DEF FanOutEphemeral, dbVars, streamVars
  <1>0. at \in Sink /\ at \in Nat \ {0} /\ Base' = Base
    BY DEF Sink, Base
  <1>a. ASSUME NEW s \in Durable PROVE queue'[s] = queue[s]
    BY DEF TypeOK, SinksOK
  <1>1. Fresh' /\ NumbersOK'
    BY <1>0, <1>a DEF Fresh, NumbersOK, Body
  <1>2. ASSUME NEW s \in Durable PROVE LineOK(s)' /\ PositionsOK(s)'
    <2>1. Handled(s)' = Handled(s)
      BY <1>0 DEF Handled, Sink
    <2> QED BY <1>0, <1>a, <2>1, Untouched
  <1> QED BY <1>1, <1>2 DEF Body

\* A step that calls maybeAck() with positions ds and takes no sink's
\* deliveries back: what it leaves, but for the lines.
LEMMA AfterMaybeAck ==
    ASSUME TypeOK, Body, BySeqIsWindow, Durable # {}, LogStep, Base' = Base,
           NEW ds \in [Sink -> 0..seq], MaybeAck(ds),
           \A s \in Durable : Got(wal, received[s], Base + ds[s]),
           UNCHANGED <<received, confirmed, sent, pulled, seq>>,
           \A s \in Durable :
              /\ deliveredSeq'[s] = deliveredSeq[s] \/ deliveredSeq'[s] = ds[s]
              /\ \/ ackedEventId'[s] = ackedEventId[s]
                 \/ Got(wal, received[s], ackedEventId'[s])
              /\ ckpt'[s] = ckpt[s] \/ Got(wal, received[s], ckpt'[s])
    PROVE  NumbersOK' /\ \A s \in Durable : PositionsOK(s)'
  <1>1. /\ \A s \in Durable : /\ Got(wal, received[s], flushed')
                              /\ Got(wal, received[s], Base + ackedSeq')
        /\ (Base + ackedSeq' + 1)..sent \subseteq outstanding'
        /\ \A q \in DOMAIN bySeq' : bySeq'[q] = Base + q
    BY MaybeAckSafe DEF Body
  <1>2. NumbersOK'
    BY <1>1 DEF NumbersOK, Body
  <1>3. ASSUME NEW s \in Durable PROVE PositionsOK(s)'
    BY <1>1, PositionsKept DEF Body
  <1> QED BY <1>2, <1>3

LEMMA FanOutEndSafe == TypeOK /\ Body /\ BySeqIsWindow /\ FanOutEnd => Body'
  <1> SUFFICES ASSUME TypeOK, Body, BySeqIsWindow, FanOutEnd PROVE Body'
    OBVIOUS
  <1> USE DEF FanOutEnd, dbVars, sinkVars
  <1>0. /\ Base' = Base /\ at = NumSinks + 1 /\ at' = 0
        /\ UNCHANGED <<wal, received, conn, sent, pulled, seq, queue, batch, pc,
                       confirmed, ckpt, ackedEventId, deliveredSeq>>
    BY DEF Base
  <1>1. Fresh'
    BY <1>0 DEF Fresh, Body
  <1>2. ASSUME NEW s \in Durable PROVE LineOK(s)'
    <2>1. Handled(s)' = Handled(s)
      BY <1>0 DEF Handled, Sink
    <2> QED BY <1>0, <2>1, LineKept DEF Body, LogStep
  <1>3. CASE Durable = {}
    <2>1. \A q \in DOMAIN bySeq' : q \in DOMAIN bySeq /\ bySeq'[q] = bySeq[q]
      BY <1>3 DEF PumpAcks, MaybeAck
    <2>2. NumbersOK'
      BY <1>0, <1>3, <2>1 DEF NumbersOK, Body
    <2> QED BY <1>1, <1>3, <2>2 DEF Body
  <1>4. CASE Durable # {} /\ MaybeAck(deliveredSeq)
    <2>1. deliveredSeq \in [Sink -> 0..seq]
      BY DEF TypeOK, SinksOK
    <2>2. \A s \in Durable : Got(wal, received[s], Base + deliveredSeq[s])
      BY DEF Body, PositionsOK
    <2>3. NumbersOK' /\ \A s \in Durable : PositionsOK(s)'
      BY <1>0, <1>4, <2>1, <2>2, AfterMaybeAck DEF LogStep
    <2> QED BY <1>1, <1>2, <2>3 DEF Body
  <1>5. CASE UNCHANGED <<flushed, outstanding, bySeq, ackedSeq>>
    <2>1. NumbersOK'
      BY <1>0, <1>5 DEF NumbersOK, Body
    <2>2. ASSUME NEW s \in Durable PROVE PositionsOK(s)'
      BY <1>0, <1>5, PositionsKept DEF Body, LogStep
    <2> QED BY <1>1, <1>2, <2>1, <2>2 DEF Body
  <1> QED BY <1>3, <1>4, <1>5 DEF PumpAcks

\* What the end of a delivered batch stands for.
LEMMA BatchEnd ==
    ASSUME TypeOK, Body, NEW s \in Durable, batch[s] # <<>>,
           NEW r2, received[s] \subseteq r2, Deliverable(batch[s]) \subseteq r2
    PROVE  LET last == batch[s][Len(batch[s])] IN
           /\ Got(wal, r2, last.event) /\ last.event = Base + last.seq
           /\ InLine(<<>>, queue[s], Base, Handled(s))
           /\ Covered(wal, r2, <<>>, queue[s], Base, Handled(s))
  <1> DEFINE b == batch[s]
             q == queue[s]
  <1>1. /\ b \in Seq(Tracked) /\ q \in Seq(Tracked) /\ Base \in Nat
        /\ Handled(s) \in Int /\ \A x \in Tracked : x.event \in Int
    BY Ranges DEF Body, NumbersOK
  <1>2. /\ InLine(b, q, Base, Handled(s)) /\ Got(wal, received[s], Base)
        /\ Covered(wal, received[s], b, q, Base, Handled(s))
    BY DEF Body, LineOK, PositionsOK
  <1>3. \A i \in 1..Len(b) : wal[b[i].event].meta \/ b[i].event \in r2
    BY DEF Deliverable, IsUser
  <1>4. b # <<>>
    OBVIOUS
  <1> HIDE DEF b, q
  <1>5. Len(b) \in Nat /\ Len(q) \in Nat /\ Len(b) # 0
    BY <1>1, <1>4
  <1>6. \A i \in 1..Len(b) : b[i].event \in Int
    BY <1>1
  <1>7. \A i \in 1..Len(q) : q[i].event \in Int
    BY <1>1
  <1>8. /\ Got(wal, r2, b[Len(b)].event)
        /\ Covered(wal, r2, <<>>, q, Base, Handled(s))
    BY <1>1, <1>2, <1>3, <1>4, <1>5, <1>6, <1>7, BatchDelivered
  <1>9. b[Len(b)].event = Base + b[Len(b)].seq
    <2>1. Len(b) \in 1..Len(b)
      BY <1>5
    <2> QED BY <1>2, <2>1 DEF InLine, Numbered
  <1>10. InLine(<<>>, q, Base, Handled(s))
    BY <1>2, LineDrop
  <1> QED BY <1>8, <1>9, <1>10 DEF b, q

LEMMA TakeBatchSafe ==
    ASSUME NEW k \in Sink, TypeOK, Body, TakeBatch(k) PROVE Body'
  <1> USE DEF dbVars, streamVars, pumpVars
  <1> DEFINE n == Smaller(Len(queue[k]), BatchSize)
  <1>0. /\ Base' = Base /\ Base \in Int
        /\ UNCHANGED <<wal, received, conn, sent, pulled, at, seq, confirmed,
                       ckpt, ackedEventId, deliveredSeq, flushed, outstanding,
                       bySeq, ackedSeq>>
    BY Ranges DEF TakeBatch, Base, Body, NumbersOK
  <1>1. /\ queue[k] # <<>> /\ pc[k] = "take" /\ batch[k] = <<>>
        /\ queue[k] \in Seq(Tracked)
    BY DEF TakeBatch, HasItems, TypeOK, SinksOK
  <1>2. n \in 1..Len(queue[k])
    <2>1. Len(queue[k]) \in Nat /\ Len(queue[k]) # 0
      BY <1>1
    <2> QED BY <2>1 DEF Smaller
  <1>3. /\ batch' = [batch EXCEPT ![k] = SubSeq(queue[k], 1, n)]
        /\ queue' = [queue EXCEPT ![k] = Rest(@, n)]
    BY DEF TakeBatch
  <1>a. \A s \in Sink : s # k => pc'[s] = pc[s]
    BY DEF TakeBatch, Enter, TypeOK, SinksOK
  <1>b. pc'[k] # "ack"
    BY DEF TakeBatch, Enter, TypeOK, SinksOK
  <1> HIDE DEF n
  <1>4. \A s \in Sink : s # k => queue'[s] = queue[s] /\ batch'[s] = batch[s]
    BY <1>3 DEF TypeOK, SinksOK
  <1>5. batch'[k] = SubSeq(queue[k], 1, n) /\ queue'[k] = Rest(queue[k], n)
    BY <1>3 DEF TypeOK, SinksOK
  <1>6. Handled(k)' = Handled(k) /\ \A s \in Sink : Handled(s)' = Handled(s)
    BY <1>0 DEF Handled
  <1>7. Fresh'
    BY <1>0, <1>1, <1>4 DEF Fresh, Body
  <1>8. NumbersOK'
    BY <1>0 DEF NumbersOK, Body
  <1>9. ASSUME NEW s \in Durable PROVE LineOK(s)' /\ PositionsOK(s)'
    <2>0. s \in Sink
      OBVIOUS
    <2>1. CASE s # k
      BY <1>0, <1>4, <1>6, <1>a, <2>0, <2>1, Untouched
    <2>2. CASE s = k
      <3>1. LineOK(k) /\ PositionsOK(k)
        BY <2>2 DEF Body
      <3>2. /\ InLine(<<>>, queue[k], Base, Handled(k))
            /\ Covered(wal, received[k], <<>>, queue[k], Base, Handled(k))
        BY <1>1, <3>1 DEF LineOK
      <3>3. InLine(SubSeq(queue[k], 1, n), Rest(queue[k], n), Base, Handled(k))
        BY <1>1, <1>2, <3>2, LineTake
      <3>4. Covered(wal, received[k], SubSeq(queue[k], 1, n), Rest(queue[k], n),
                    Base, Handled(k))
        BY <1>1, <1>2, <3>2, CoveredTake
      <3>5. LineOK(k)'
        BY <1>0, <1>5, <1>6, <1>b, <3>3, <3>4 DEF LineOK
      <3>6. PositionsOK(k)'
        BY <1>0, <2>2, <3>1, PositionsKept DEF LogStep
      <3> QED BY <2>2, <3>5, <3>6
    <2> QED BY <2>1, <2>2
  <1> QED BY <1>7, <1>8, <1>9 DEF Body

LEMMA DeliverSafe ==
    ASSUME NEW k \in Sink, TypeOK, Body, Deliver(k) PROVE Body'
  <1> USE DEF dbVars, streamVars, pumpVars
  <1> DEFINE last == batch[k][Len(batch[k])]
  <1>0. /\ Base' = Base
        /\ UNCHANGED <<wal, conn, sent, pulled, at, seq, confirmed, ckpt, queue,
                       batch, flushed, outstanding, bySeq, ackedSeq>>
    BY DEF Deliver, Base
  <1>1. k \in Durable /\ batch[k] # <<>>
    BY DEF Deliver, TypeOK, SinksOK
  <1>2. /\ received'[k] = received[k] \union Deliverable(batch[k])
        /\ \A s \in Sink : s # k => received'[s] = received[s]
    BY DEF Deliver, TypeOK, DbOK
  <1>3. /\ deliveredSeq'[k] = last.seq /\ ackedEventId'[k] = last.event
        /\ \A s \in Sink : s # k => /\ deliveredSeq'[s] = deliveredSeq[s]
                                    /\ ackedEventId'[s] = ackedEventId[s]
                                    /\ pc'[s] = pc[s]
    BY DEF Deliver, Advance, TypeOK, SinksOK
  <1>4. Fresh' /\ NumbersOK'
    BY <1>0 DEF Fresh, NumbersOK, Body
  <1>5. \A s \in Sink : Handled(s)' = Handled(s)
    BY <1>0 DEF Handled
  <1>6. ASSUME NEW s \in Durable PROVE LineOK(s)' /\ PositionsOK(s)'
    <2>0. s \in Sink /\ LineOK(s) /\ PositionsOK(s) /\ NumbersOK
      BY DEF Body
    <2>1. CASE s # k
      BY <1>0, <1>2, <1>3, <1>5, <2>0, <2>1, Untouched
    <2>2. CASE s = k
      <3>1. /\ received[s] \subseteq received'[s]
            /\ Deliverable(batch[s]) \subseteq received'[s]
        BY <1>2, <2>2
      <3>2. Got(wal, received'[s], last.event) /\ last.event = Base + last.seq
        BY <1>1, <2>2, <3>1, BatchEnd
      <3>3. LineOK(s)'
        BY <1>0, <1>5, <2>0, <3>1, LineKept DEF LogStep
      <3>4. /\ Got(wal, received'[s], ackedEventId'[s])
            /\ Got(wal, received'[s], Base + deliveredSeq'[s])
        BY <1>3, <2>2, <3>2
      <3>5. PositionsOK(s)'
        BY <1>0, <2>0, <3>1, <3>4, PositionsKept DEF LogStep
      <3> QED BY <3>3, <3>5
    <2> QED BY <2>1, <2>2
  <1> QED BY <1>4, <1>6 DEF Body

\* The line of a sink whose delivered batch goes.
LEMMA LineFreed ==
    ASSUME TypeOK, Body, LogStep, NEW s \in Durable, batch[s] # <<>>,
           Deliverable(batch[s]) \subseteq received[s],
           Base' = Base, Handled(s)' = Handled(s), queue'[s] = queue[s],
           received'[s] = received[s], batch'[s] = <<>>, pc'[s] # "ack"
    PROVE  LineOK(s)'
  <1>1. /\ InLine(<<>>, queue[s], Base, Handled(s))
        /\ Covered(wal, received[s], <<>>, queue[s], Base, Handled(s))
    BY BatchEnd
  <1>2. Base \in Nat /\ Handled(s) \in 0..Len(wal) /\ DbOK
    BY Ranges DEF Body, NumbersOK, TypeOK
  <1>3. Covered(wal', received'[s], <<>>, queue[s], Base, Handled(s))
    BY <1>1, <1>2, CoveredKept
  <1> QED BY <1>1, <1>3 DEF LineOK

LEMMA SkipBatchSafe ==
    ASSUME NEW k \in Sink, TypeOK, Body, BySeqIsWindow, SkipBatch(k) PROVE Body'
  <1> USE DEF dbVars
  <1> DEFINE last == batch[k][Len(batch[k])]
  <1>0. /\ Base' = Base
        /\ UNCHANGED <<wal, received, conn, sent, pulled, at, seq, confirmed,
                       ckpt, queue>>
    BY DEF SkipBatch, Base
  <1>1. /\ k \in Durable /\ batch[k] # <<>> /\ Deliverable(batch[k]) = {}
        /\ conn /\ MaybeAck(deliveredSeq')
    BY DEF SkipBatch, TypeOK, SinksOK, Body, Fresh
  <1>2. /\ deliveredSeq'[k] = last.seq /\ ackedEventId'[k] = last.event
        /\ batch'[k] = <<>> /\ pc'[k] # "ack"
        /\ \A s \in Sink : s # k => /\ deliveredSeq'[s] = deliveredSeq[s]
                                    /\ ackedEventId'[s] = ackedEventId[s]
                                    /\ batch'[s] = batch[s] /\ pc'[s] = pc[s]
    BY DEF SkipBatch, Advance, Enter, TypeOK, SinksOK
  <1>3. deliveredSeq' \in [Sink -> 0..seq]
    BY AdvanceInRange DEF SkipBatch
  <1>4. Got(wal, received[k], last.event) /\ last.event = Base + last.seq
    BY <1>1, BatchEnd
  <1>5. \A s \in Durable : Got(wal, received[s], Base + deliveredSeq'[s])
    BY <1>2, <1>4 DEF Body, PositionsOK
  <1>6. NumbersOK' /\ \A s \in Durable : PositionsOK(s)'
    BY <1>0, <1>1, <1>2, <1>3, <1>4, <1>5, AfterMaybeAck DEF LogStep
  <1>7. Fresh'
    BY <1>0, <1>1 DEF Fresh
  <1>8. ASSUME NEW s \in Durable PROVE LineOK(s)'
    <2>0. s \in Sink /\ LineOK(s) /\ NumbersOK /\ Handled(s)' = Handled(s)
      BY <1>0 DEF Body, Handled
    <2>1. CASE s # k
      BY <1>0, <1>2, <2>0, <2>1, LineKept DEF LogStep
    <2>2. CASE s = k
      BY <1>0, <1>1, <1>2, <2>0, <2>2, LineFreed DEF LogStep
    <2> QED BY <2>1, <2>2
  <1> QED BY <1>6, <1>7, <1>8 DEF Body

LEMMA AckCheckpointSafe ==
    ASSUME NEW k \in Sink, TypeOK, Body, BySeqIsWindow, AckCheckpoint(k)
    PROVE  Body'
  <1>0. /\ Base' = Base /\ LogStep
        /\ UNCHANGED <<received, conn, sent, pulled, at, seq, confirmed, queue,
                       deliveredSeq, ackedEventId>>
    BY DEF AckCheckpoint, Base, LogStep
  <1>1. /\ batch[k] # <<>> /\ pc[k] = "ack" /\ MaybeAck(deliveredSeq)
        /\ Durable # {}
    BY DEF AckCheckpoint, TypeOK, SinksOK, MaybeAck
  <1>2. /\ batch'[k] = <<>> /\ pc'[k] # "ack"
        /\ \A s \in Sink : s # k => batch'[s] = batch[s] /\ pc'[s] = pc[s]
    BY DEF AckCheckpoint, Enter, TypeOK, SinksOK
  <1>3. \A s \in Sink : ckpt'[s] = ckpt[s] \/ ckpt'[s] = ackedEventId[s]
    BY DEF AckCheckpoint, TypeOK, DbOK
  <1>4. deliveredSeq \in [Sink -> 0..seq]
    BY DEF TypeOK, SinksOK
  <1>5. \A s \in Durable : /\ Got(wal, received[s], Base + deliveredSeq[s])
                           /\ Got(wal, received[s], ackedEventId[s])
    BY DEF Body, PositionsOK
  <1>6. NumbersOK' /\ \A s \in Durable : PositionsOK(s)'
    BY <1>0, <1>1, <1>3, <1>4, <1>5, AfterMaybeAck
  <1>7. Fresh'
    BY <1>0, <1>2 DEF Fresh, Body
  <1>8. ASSUME NEW s \in Durable PROVE LineOK(s)'
    <2>0. s \in Sink /\ LineOK(s) /\ NumbersOK /\ Handled(s)' = Handled(s)
      BY <1>0 DEF Body, Handled
    <2>1. CASE s # k
      BY <1>0, <1>2, <2>0, <2>1, LineKept
    <2>2. CASE s = k
      <3>1. Deliverable(batch[s]) \subseteq received[s]
        BY <1>1, <2>0, <2>2 DEF LineOK
      <3> QED BY <1>0, <1>1, <1>2, <2>0, <2>2, <3>1, LineFreed
    <2> QED BY <2>1, <2>2
  <1> QED BY <1>6, <1>7, <1>8 DEF Body

\* The steps that move no event and no position.
LEMMA QuietSafe ==
    ASSUME TypeOK, Body, LogStep,
           UNCHANGED <<streamVars, pulled, at, seq, bySeq, ackedSeq, queue,
                       confirmed, ckpt, deliveredSeq, ackedEventId>>,
           \A s \in Durable : /\ batch'[s] = batch[s]
                              /\ received'[s] = received[s]
                              /\ pc'[s] = "ack" => pc[s] = "ack"
    PROVE  Body'
  <1> USE DEF streamVars
  <1>1. Base' = Base
    BY DEF Base
  <1>2. Fresh' /\ NumbersOK'
    BY <1>1 DEF Fresh, NumbersOK, Body
  <1>3. ASSUME NEW s \in Durable PROVE LineOK(s)' /\ PositionsOK(s)'
    <2>1. LineOK(s) /\ PositionsOK(s) /\ NumbersOK /\ Handled(s)' = Handled(s)
      BY DEF Body, Handled
    <2>2. LineOK(s)'
      BY <1>1, <2>1, LineKept
    <2>3. PositionsOK(s)'
      BY <1>1, <2>1, PositionsKept
    <2> QED BY <2>2, <2>3
  <1> QED BY <1>2, <1>3 DEF Body

LEMMA FanOutWaitsSafe == TypeOK /\ Body /\ FanOutWaits => Body'
  BY QuietSafe DEF FanOutWaits, LogStep, dbVars, sinkVars

LEMMA QuietWorkers ==
    ASSUME NEW k \in Sink, TypeOK, Body,
           DeliverFails(k) \/ PauseCommits(k) \/ PauseSettles(k) \/ DeliverOnce(k)
    PROVE  Body'
  <1> USE DEF dbVars, streamVars, pumpVars, LogStep
  <1>1. CASE DeliverFails(k)
    <2>1. \A s \in Sink : pc'[s] = "ack" => pc[s] = "ack"
      BY <1>1 DEF DeliverFails, TypeOK, SinksOK
    <2> QED BY <1>1, <2>1, QuietSafe DEF DeliverFails
  <1>2. CASE PauseCommits(k)
    <2>1. \A s \in Sink : pc'[s] = "ack" => pc[s] = "ack"
      BY <1>2 DEF PauseCommits, TypeOK, SinksOK
    <2> QED BY <1>2, <2>1, QuietSafe DEF PauseCommits
  <1>3. CASE PauseSettles(k)
    <2>1. \A s \in Sink : pc'[s] = "ack" => pc[s] = "ack"
      BY <1>3 DEF PauseSettles, TypeOK, SinksOK
    <2> QED BY <1>3, <2>1, QuietSafe DEF PauseSettles
  <1>4. CASE DeliverOnce(k)
    <2>1. \A s \in Durable : /\ batch'[s] = batch[s]
                             /\ received'[s] = received[s]
                             /\ pc'[s] = "ack" => pc[s] = "ack"
      BY <1>4 DEF DeliverOnce, TypeOK, SinksOK, DbOK
    <2> QED BY <1>4, <2>1, QuietSafe DEF DeliverOnce
  <1> QED BY <1>1, <1>2, <1>3, <1>4

LEMMA RequestsSafe ==
    ASSUME NEW c \in 1..MaxCalls, TypeOK, Body, CallStarts(c) \/ Request(c)
    PROVE  Body'
  <1> USE DEF dbVars, streamVars, pumpVars, LogStep
  <1>1. CASE CallStarts(c)
    BY <1>1, QuietSafe DEF CallStarts
  <1>2. CASE CallCommits(c)
    <2>1. LogStep
      BY <1>2 DEF CallCommits
    <2> QED BY <1>2, <2>1, QuietSafe DEF CallCommits, sinkVars
  <1>3. CASE CallFails(c)
    BY <1>3, QuietSafe DEF CallFails, sinkVars
  <1>4. CASE ResumeCalls(c)
    <2> DEFINE k == calls[c].sink
    <2>1. \A s \in Sink : pc'[s] = "ack" => pc[s] = "ack"
      BY <1>4 DEF ResumeCalls, Wake, Enter, TypeOK, SinksOK
    <2> QED BY <1>4, <2>1, QuietSafe DEF ResumeCalls
  <1> QED BY <1>1, <1>2, <1>3, <1>4 DEF Request

LEMMA CrashSafe == TypeOK /\ Body /\ Crash => Body'
  <1> SUFFICES ASSUME TypeOK, Body, Crash PROVE Body'
    OBVIOUS
  <1>0. /\ conn' = FALSE /\ sent' = 0 /\ pulled' = 0 /\ seq' = 0 /\ at' = 0
        /\ ackedSeq' = 0 /\ flushed' = 0 /\ bySeq' = [q \in {} |-> 0]
        /\ ackedEventId' = ckpt /\ ckpt' = ckpt /\ confirmed' = confirmed
        /\ received' = received /\ LogStep
    BY DurablesFinite DEF Crash, StartPosition, LogStep
  <1>1. \A s \in Sink : /\ queue'[s] = <<>> /\ batch'[s] = <<>>
                        /\ deliveredSeq'[s] = 0 /\ pc'[s] # "ack"
    BY DEF Crash, PerSink, StartPC
  <1>2. Base' = 0
    BY <1>0 DEF Base
  <1>3. Fresh' /\ NumbersOK'
    BY <1>0, <1>1, <1>2 DEF Fresh, NumbersOK
  <1>4. ASSUME NEW s \in Durable PROVE LineOK(s)' /\ PositionsOK(s)'
    <2>1. LineOK(s)'
      BY <1>0, <1>1, <1>2 DEF LineOK, InLine, Covered, Handled
    <2>2. \A p : Got(wal, received[s], p) => Got(wal', received'[s], p)
      BY <1>0, GotKept DEF TypeOK
    <2>3. Got(wal', received'[s], 0) /\ 0 + 0 = 0
      BY DEF Got
    <2>4. PositionsOK(s)'
      BY <1>0, <1>1, <1>2, <2>2, <2>3 DEF PositionsOK, Body
    <2> QED BY <2>1, <2>4
  <1> QED BY <1>3, <1>4 DEF Body

\* While disconnects is 0 it was 0 before, and no connection is lost.
LEMMA StillConnected ==
    ASSUME TypeOK, [Next]_vars, disconnects' = 0
    PROVE  disconnects = 0 /\ ~Disconnect
  <1> USE DEF vars, dbVars, streamVars, pumpVars, sinkVars, faultVars
  <1>1. ASSUME Disconnect PROVE FALSE
    BY <1>1 DEF Disconnect, TypeOK, ControlOK
  <1>2. CASE Next
    BY <1>1, <1>2 DEF Next, Pump, Worker, Request, Connect, Receive, Keepalive,
       SendStatus, Pull, FanOutSkip, FanOutWaits, FanOutDurable,
       FanOutEphemeral, FanOutEnd,
       TakeBatch, Deliver, SkipBatch, AckCheckpoint, DeliverFails, PauseCommits,
       PauseSettles, DeliverOnce, CallStarts, CallCommits, CallFails,
       ResumeCalls, Crash
  <1> QED BY <1>1, <1>2

LEMMA NextSafe == TypeOK /\ SafeInv /\ [Next]_vars => SafeInv'
  <1> SUFFICES ASSUME TypeOK, SafeInv, [Next]_vars, disconnects' = 0 PROVE SafeInv'
    BY DEF SafeInv
  <1> USE DEF vars, dbVars, streamVars, pumpVars, sinkVars, faultVars
  <1>0. disconnects = 0 /\ ~Disconnect
    BY StillConnected
  <1>1. Body /\ BySeqIsWindow
    BY <1>0 DEF SafeInv, Body
  <1>2. BySeqIsWindow'
    BY <1>1, WindowStep
  <1>3. CASE Connect \/ Receive \/ Keepalive \/ SendStatus
    BY <1>1, <1>2, <1>3, ConnectSafe, ReceiveSafe, KeepaliveSafe, SendStatusSafe
       DEF SafeInv, Body
  <1>4. CASE Pump
    BY <1>1, <1>2, <1>4, PullSafe, FanOutSkipSafe, FanOutWaitsSafe,
       FanOutDurableSafe, FanOutEphemeralSafe, FanOutEndSafe DEF Pump, SafeInv, Body
  <1>5. ASSUME NEW k \in Sink, Worker(k) PROVE Body'
    BY <1>1, <1>5, TakeBatchSafe, DeliverSafe, SkipBatchSafe, AckCheckpointSafe,
       QuietWorkers DEF Worker
  <1>6. ASSUME NEW c \in 1..MaxCalls, CallStarts(c) \/ Request(c) PROVE Body'
    BY <1>1, <1>6, RequestsSafe
  <1>7. CASE Crash
    BY <1>1, <1>2, <1>7, CrashSafe DEF SafeInv, Body
  <1>8. CASE UNCHANGED vars
    <2>1. Body'
      BY <1>1, <1>8, QuietSafe DEF LogStep
    <2> QED BY <1>2, <2>1 DEF SafeInv, Body
  <1> QED BY <1>0, <1>2, <1>3, <1>4, <1>5, <1>6, <1>7, <1>8 DEF Next, SafeInv, Body

LEMMA SafeInvariant == Spec => [](TypeOK /\ SafeInv)
  BY InitType, NextType, InitSafe, NextSafe, PTL DEF Spec

-----------------------------------------------------------------------------

\* Got, spelled as the module of the engine does.
LEMMA GotIsDelivered ==
    ASSUME NEW s \in Sink, NEW p, Got(wal, received[s], p)
    PROVE  Delivered(s, p)
  BY DEF Got, Delivered, Event, IsUser

(* engine.ts:90 and :245-257: until a replication connection is lost,       *)
(* neither the server's nor the session's position passes a user event that *)
(* some durable sink has not acknowledged, wherever the process dies.       *)
THEOREM SlotIsSafe == Spec => [](disconnects = 0 => SlotHoldsUndelivered)
  <1>1. SafeInv => (disconnects = 0 => SlotHoldsUndelivered)
    BY GotIsDelivered DEF SafeInv, PositionsOK, SlotHoldsUndelivered
  <1> QED BY <1>1, SafeInvariant, PTL

(* checkpoint.ts:52 and engine.ts:205-212: until then no checkpoint, in the *)
(* table or in memory, is past a user event its sink has not acknowledged,  *)
(* so that what a restart skips was delivered.                              *)
THEOREM CheckpointIsSafe == Spec => [](disconnects = 0 => CheckpointCoversDelivered)
  <1>1. SafeInv => (disconnects = 0 => CheckpointCoversDelivered)
    BY GotIsDelivered DEF SafeInv, PositionsOK, CheckpointCoversDelivered
  <1> QED BY <1>1, SafeInvariant, PTL

-----------------------------------------------------------------------------
(* The engine implements AtLeastOnce. *)

\* Every step but a delivery and a status update is one of the log, or none.
LEMMA LogOnly ==
    ASSUME [Next]_vars, ~SendStatus,
           \A k \in Sink : ~Deliver(k) /\ ~DeliverOnce(k)
    PROVE  LogStep /\ UNCHANGED <<received, confirmed>>
  <1> USE DEF vars, dbVars, streamVars, pumpVars, sinkVars, faultVars, LogStep
  <1>1. CASE Connect \/ Receive \/ Keepalive \/ Disconnect
    BY <1>1 DEF Connect, Receive, Keepalive, Disconnect
  <1>2. CASE Pump
    BY <1>2 DEF Pump, Pull, FanOutSkip, FanOutWaits, FanOutDurable,
                FanOutEphemeral, FanOutEnd
  <1>3. ASSUME NEW k \in Sink, Worker(k)
        PROVE  LogStep /\ UNCHANGED <<received, confirmed>>
    BY <1>3 DEF Worker, TakeBatch, SkipBatch, AckCheckpoint, DeliverFails,
                PauseCommits, PauseSettles
  <1>4. ASSUME NEW c \in 1..MaxCalls, CallStarts(c) \/ Request(c)
        PROVE  LogStep /\ UNCHANGED <<received, confirmed>>
    BY <1>4 DEF CallStarts, Request, CallCommits, CallFails, ResumeCalls
  <1>5. CASE Crash
    BY <1>5, DurablesFinite DEF Crash
  <1>6. CASE UNCHANGED vars
    BY <1>6
  <1> QED BY <1>1, <1>2, <1>3, <1>4, <1>5, <1>6 DEF Next

LEMMA StepKeepsPromise ==
    ASSUME TypeOK, TypeOK', [Next]_vars,
           \A r \in Durable : Got(wal, received[r], flushed)
    PROVE  [Promise!ANext]_(Promise!avars)
  <1>0. /\ Len(wal) \in Nat /\ confirmed \in 0..Len(wal) /\ flushed \in 0..Len(wal)
        /\ DOMAIN wal = 1..Len(wal)
    BY DEF TypeOK, DbOK, StreamOK
  <1>1. CASE SendStatus
    <2>1. /\ confirmed' = flushed /\ flushed > confirmed
          /\ UNCHANGED <<wal, received>>
      BY <1>1 DEF SendStatus
    <2>2. confirmed' \in (confirmed + 1)..Len(wal)
      BY <1>0, <2>1
    <2>3. \A r \in Durable : Promise!Has(r, confirmed')
      BY <1>0, <2>1 DEF Got, Promise!Has
    <2> QED BY <2>1, <2>2, <2>3 DEF Promise!ANext, Promise!Release
  <1>2. ASSUME NEW k \in Sink, Deliver(k) \/ DeliverOnce(k)
        PROVE  Promise!ANext
    <2>1. UNCHANGED <<wal, confirmed>>
      BY <1>2 DEF Deliver, DeliverOnce, dbVars
    <2>2. \A r \in Durable : received[r] \subseteq received'[r]
      BY <1>2 DEF Deliver, DeliverOnce, TypeOK, DbOK
    <2>3. \A r \in Durable : received'[r] \subseteq 1..Len(wal)
      BY <2>1 DEF TypeOK, DbOK, Event
    <2> QED BY <2>1, <2>2, <2>3 DEF Promise!ANext, Promise!Receives
  <1>3. CASE ~SendStatus /\ \A k \in Sink : ~Deliver(k) /\ ~DeliverOnce(k)
    <2>1. LogStep /\ UNCHANGED <<received, confirmed>>
      BY <1>3, LogOnly
    <2>2. Len(wal') >= Len(wal) /\ \A i \in 1..Len(wal) : wal'[i] = wal[i]
      BY <2>1, NewAreMeta DEF TypeOK
    <2> QED BY <2>1, <2>2 DEF Promise!ANext, Promise!Log
  <1> QED BY <1>1, <1>2, <1>3

(* docs/guide/delivery-guarantees.md: while no connection is lost, the      *)
(* engine keeps its promise to the database and the durable sinks: the log  *)
(* is only extended, a sink only gains events of it, and a position is      *)
(* released when every durable sink has all user events up to it.           *)
THEOREM PromiseKept == ASSUME MaxDisconnects = 0 PROVE Spec => KeepsPromise
  <1>1. Init => Promise!AInit
    BY DEF Init, PerSink, Promise!AInit, Sink
  <1>2. TypeOK => disconnects = 0
    BY DEF TypeOK, ControlOK
  <1>3. TypeOK /\ TypeOK' /\ SafeInv /\ [Next]_vars
        => [Promise!ANext]_(Promise!avars)
    BY <1>2, StepKeepsPromise DEF SafeInv, PositionsOK
  <1> QED BY <1>1, <1>3, SafeInvariant, PTL DEF Spec, KeepsPromise, Promise!ASpec

===============================================================================
