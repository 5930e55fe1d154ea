---------------------------- MODULE SinkEngineOrder ----------------------------
(***************************************************************************)
(* The order of delivery, and what is written to walcast.sinks, for every   *)
(* number of sinks, log and bound.                                          *)
(*                                                                          *)
(* The first part holds as long as no replication connection has been lost  *)
(* and walcast.sinks is not published.  (A metadata event that comes again  *)
(* after a restart is compared with no position and takes its sink's back,  *)
(* so with metadata these properties are not to be had.)  What waits for a  *)
(* sink lies above its position, in order, and a position only moves to the *)
(* end of what waits first.                                                 *)
(*                                                                          *)
(* The second part lets the metadata be published, and counts: every write  *)
(* is paid for by a delivery, a pause or a request, and none twice.         *)
(***************************************************************************)
EXTENDS SinkEngineProofs

USE ConfigAssumption, BudgetAssumption

\* The log the slot retains has no metadata, and none is added.
NoMeta == ~PublishesMeta /\ \A i \in 1..Len(InitialWal) : ~InitialWal[i].meta

AllUser == \A i \in 1..Len(wal) : ~wal[i].meta

Rising(q) == \A i, j \in 1..Len(q) : i < j => q[i].event < q[j].event

Above(q, a) == \A i \in 1..Len(q) : q[i].event > a

\* The event the pump waits to put into the queue of s is above its position.
WaitsAbove(s) == putting /\ at = s => ackedEventId[s] < pulled

OrderOK(s) ==
    /\ ckpt[s] <= ackedEventId[s]
    /\ deliveredSeq[s] = 0 \/ Base + deliveredSeq[s] <= ackedEventId[s]
    /\ Rising(batch[s])
    /\ pc[s] # "ack" => Above(batch[s], ackedEventId[s])
    /\ Above(queue[s], ackedEventId[s])
    /\ WaitsAbove(s)

OrderInv == AllUser /\ (disconnects = 0 => \A s \in Durable : OrderOK(s))

-----------------------------------------------------------------------------
LEMMA TakeInOrder ==
    ASSUME NEW S, NEW q \in Seq(S), NEW n \in 1..Len(q), NEW a,
           Rising(q), Above(q, a)
    PROVE  /\ Rising(SubSeq(q, 1, n))
           /\ Above(SubSeq(q, 1, n), a) /\ Above(Rest(q, n), a)
  <1> DEFINE b == SubSeq(q, 1, n)
             z == Rest(q, n)
  <1>0. Len(q) \in Nat /\ n \in Nat /\ n <= Len(q)
    OBVIOUS
  <1>1. /\ Len(b) = n /\ \A i \in 1..n : b[i] = q[i]
        /\ Len(z) = Len(q) - n /\ \A i \in 1..(Len(q) - n) : z[i] = q[n + i]
    BY SplitType
  <1> HIDE DEF b, z
  <1>2. \A i \in 1..Len(b) : i \in 1..Len(q) /\ b[i] = q[i]
    BY <1>0, <1>1
  <1>3. \A i \in 1..Len(z) : n + i \in 1..Len(q) /\ z[i] = q[n + i]
    BY <1>0, <1>1
  <1>4. Rising(b) /\ Above(b, a)
    BY <1>2 DEF Rising, Above
  <1>5. Above(z, a)
    BY <1>3 DEF Above
  <1> QED BY <1>4, <1>5 DEF b, z

LEMMA PutAbove ==
    ASSUME NEW S, \A x \in S : x.event \in Int, NEW q \in Seq(S), NEW t \in S,
           NEW a \in Int, Above(q, a), t.event > a
    PROVE  Above(Put(q, t), a)
  <1> DEFINE z == Put(q, t)
  <1>1. /\ Len(z) = Len(q) + 1 /\ z[Len(q) + 1] = t
        /\ \A i \in 1..Len(q) : z[i] = q[i]
    BY PutType
  <1>2. Len(q) \in Nat
    OBVIOUS
  <1> HIDE DEF z
  <1>3. \A i \in 1..Len(z) : i \in 1..Len(q) \/ i = Len(q) + 1
    BY <1>1, <1>2
  <1>4. Above(z, a)
    BY <1>1, <1>3 DEF Above
  <1> QED BY <1>4 DEF z

\* The step to the end of the batch goes up, and stays below the queue.
LEMMA AdvanceUp ==
    ASSUME TypeOK, Body, NEW s \in Durable, OrderOK(s), pc[s] = "deliver",
           Advance(s)
    PROVE  /\ ackedEventId'[s] > ackedEventId[s] /\ ackedEventId'[s] \in Int
           /\ deliveredSeq'[s] > deliveredSeq[s]
           /\ Base + deliveredSeq'[s] = ackedEventId'[s]
           /\ Above(queue[s], ackedEventId'[s])
           /\ at = s => ackedEventId'[s] < pulled
           /\ \A r \in Sink : r # s => /\ ackedEventId'[r] = ackedEventId[r]
                                       /\ deliveredSeq'[r] = deliveredSeq[r]
  <1> DEFINE last == batch[s][Len(batch[s])]
  <1>0. batch[s] # <<>> /\ batch[s] \in Seq(Tracked)
    BY DEF TypeOK, SinksOK
  <1>1. Len(batch[s]) \in 1..Len(batch[s])
    BY <1>0
  <1>2. /\ deliveredSeq' = [deliveredSeq EXCEPT ![s] = last.seq]
        /\ ackedEventId' = [ackedEventId EXCEPT ![s] = last.event]
    BY DEF Advance
  <1>3. /\ deliveredSeq'[s] = last.seq /\ ackedEventId'[s] = last.event
        /\ \A r \in Sink : r # s => /\ ackedEventId'[r] = ackedEventId[r]
                                    /\ deliveredSeq'[r] = deliveredSeq[r]
    BY <1>2 DEF TypeOK, SinksOK
  <1>4. last \in Tracked /\ last.event \in Int /\ last.seq \in 1..seq
    BY <1>0, <1>1, Ranges DEF Body, NumbersOK
  <1>5. /\ Base \in Nat /\ seq \in Nat /\ deliveredSeq[s] \in Nat
        /\ ackedEventId[s] \in Nat
    BY Ranges DEF Body, NumbersOK
  <1> HIDE DEF last
  <1>6. /\ last.event = Base + last.seq /\ last.event > ackedEventId[s]
        /\ \A j \in 1..Len(queue[s]) : last.event < queue[s][j].event
    BY <1>1 DEF Body, LineOK, InLine, Numbered, OrderOK, Above, last
  <1>9. at = s => last.event < pulled
    <2>1. last.event <= Handled(s)
      BY <1>1 DEF Body, LineOK, InLine, Numbered, last
    <2>2. s # 0 /\ s \in Nat /\ pulled \in Nat
      BY Ranges DEF Body, NumbersOK, Sink
    <2> QED BY <1>4, <2>1, <2>2 DEF Handled
  <1>7. last.seq > deliveredSeq[s]
    BY <1>4, <1>5, <1>6 DEF OrderOK
  <1>8. Above(queue[s], last.event)
    <2> SUFFICES ASSUME NEW j \in 1..Len(queue[s])
                 PROVE  queue[s][j].event > last.event
      BY DEF Above
    <2>1. queue[s] \in Seq(Tracked) /\ \A x \in Tracked : x.event \in Int
      BY Ranges DEF Body, NumbersOK
    <2>2. queue[s][j].event \in Int
      BY <2>1
    <2> QED BY <1>4, <1>6, <2>2
  <1> QED BY <1>3, <1>4, <1>6, <1>7, <1>8, <1>9

-----------------------------------------------------------------------------
\* What a step does to the positions and the line of a durable sink.
Quiet(s) ==
    /\ UNCHANGED <<ckpt[s], ackedEventId[s], queue[s], batch[s]>>
    /\ pc'[s] # "ack" => pc[s] # "ack"
    /\ deliveredSeq'[s] = deliveredSeq[s] /\ Base' = Base
    /\ putting' /\ at' = s => putting /\ at = s /\ pulled' = pulled

LEMMA QuietOrder ==
    ASSUME NEW s \in Durable, OrderOK(s), Quiet(s)
    PROVE  OrderOK(s)'
  BY DEF OrderOK, Quiet, WaitsAbove, Above, Rising

LEMMA NoNewMeta ==
    ASSUME NoMeta, TypeOK, [Next]_vars
    PROVE  UNCHANGED wal
  <1> USE DEF NoMeta, MetaWrites, vars, dbVars
  <1>1. CASE Connect \/ Receive \/ Keepalive \/ SendStatus \/ Disconnect
    BY <1>1 DEF Connect, Receive, Keepalive, SendStatus, Disconnect
  <1>2. CASE Pump
    BY <1>2 DEF Pump, Pull, FanOutSkip, FanOutWaits, FanOutDurable,
                FanOutEphemeral, FanOutEnd
  <1>3. ASSUME NEW k \in Sink, Worker(k) PROVE UNCHANGED wal
    BY <1>3 DEF Worker, TakeBatch, Deliver, SkipBatch, AckCheckpoint,
                DeliverFails, PauseCommits, PauseSettles, DeliverOnce
  <1>4. ASSUME NEW c \in 1..MaxCalls, CallStarts(c) \/ Request(c)
        PROVE  UNCHANGED wal
    BY <1>4 DEF CallStarts, Request, CallCommits, CallFails, ResumeCalls
  <1>5. CASE Crash
    BY <1>5 DEF Crash
  <1> QED BY <1>1, <1>2, <1>3, <1>4, <1>5 DEF Next

LEMMA SessionOrder ==
    ASSUME TypeOK, Body, Connect \/ Receive \/ Keepalive \/ SendStatus,
           NEW s \in Durable, OrderOK(s)
    PROVE  OrderOK(s)'
  <1> USE DEF dbVars, pumpVars, sinkVars
  <1>1. CASE Connect
    <2>1. seq = 0
      BY <1>1 DEF Connect, Body, Fresh
    <2>2. deliveredSeq[s] \in 0..seq
      BY DEF TypeOK, SinksOK
    <2>3. deliveredSeq[s] = 0
      BY <2>1, <2>2
    <2>4. WaitsAbove(s)'
      <3>1. at' # s
        BY <1>1 DEF Connect, Sink
      <3> QED BY <3>1, Zenon DEF WaitsAbove
    <2> QED BY <1>1, <2>3, <2>4 DEF Connect, OrderOK
  <1>2. CASE Receive \/ Keepalive \/ SendStatus
    BY <1>2, QuietOrder DEF Receive, Keepalive, SendStatus, Quiet, Base
  <1> QED BY <1>1, <1>2

LEMMA PumpOrder ==
    ASSUME TypeOK, Body, AllUser, Pump, NEW s \in Durable, OrderOK(s)
    PROVE  OrderOK(s)'
  <1> USE DEF dbVars, streamVars, sinkVars
  <1>0. /\ Base \in Nat /\ seq \in Nat /\ pulled \in Nat /\ Base + seq = pulled
        /\ ackedEventId[s] \in Nat /\ s \in Sink
        /\ queue[s] \in Seq(Tracked) /\ \A x \in Tracked : x.event \in Int
        /\ s # 0
        /\ Len(wal) \in Nat /\ pulled <= Len(wal)
    BY Ranges DEF Body, NumbersOK, Sink
  <1>a. putting \in BOOLEAN /\ (putting => at \in Durable) /\ 0 \notin Durable
        /\ NumSinks + 1 \notin Durable
    BY DEF TypeOK, PumpOK, Sink
  <1>1. CASE Pull
    <2>1. Base' = Base
      BY <1>0, <1>1 DEF Pull, Base
    <2> QED BY <1>1, <1>a, <2>1, QuietOrder DEF Pull, Quiet
  <1>2. CASE FanOutSkip
    <2>1. Base' = Base
      BY <1>2 DEF FanOutSkip, Base
    <2>2. CASE s # at
      BY <1>2, <2>1, <2>2, QuietOrder DEF FanOutSkip, Quiet, TypeOK, SinksOK
    <2>3. CASE s = at
      <3>1. deliveredSeq'[s] = seq
        BY <1>2, <2>3 DEF FanOutSkip, TypeOK, SinksOK
      <3>2. Base + seq <= ackedEventId[s]
        BY <1>0, <1>2, <2>3 DEF FanOutSkip, AlreadyDelivered
      <3> QED BY <1>2, <2>1, <3>1, <3>2 DEF FanOutSkip, OrderOK, WaitsAbove
    <2> QED BY <2>2, <2>3
  <1>6. CASE FanOutWaits
    <2>1. Base' = Base
      BY <1>6 DEF FanOutWaits, Base
    <2>2. CASE s # at
      BY <1>6, <2>1, <2>2, QuietOrder DEF FanOutWaits, Quiet
    <2>3. CASE s = at
      <3>1. IsUser(pulled)
        <4>1. pulled # 0
          BY <1>0, <2>3 DEF TypeOK, PumpOK
        <4> QED BY <1>0, <4>1 DEF IsUser, AllUser
      <3>2. pulled > ackedEventId[s]
        BY <1>0, <1>6, <2>3, <3>1 DEF FanOutWaits, AlreadyDelivered
      <3> QED BY <1>0, <1>6, <2>1, <2>3, <3>2
              DEF FanOutWaits, OrderOK, WaitsAbove, Above, Rising
    <2> QED BY <2>2, <2>3
  <1>3. CASE FanOutDurable
    <2>1. Base' = Base
      BY <1>3 DEF FanOutDurable, Base
    <2>2. CASE s # at
      BY <1>3, <2>1, <2>2, QuietOrder DEF FanOutDurable, Quiet, TypeOK, SinksOK
    <2>3. CASE s = at
      <3> DEFINE t == [seq |-> seq, event |-> pulled]
      <3>d. at # 0
        BY <1>0, <2>3
      <3>a. pulled # 0 /\ seq # 0
        BY <3>d DEF TypeOK, PumpOK
      <3>1. pulled \in 1..Len(wal) /\ seq \in 1..seq
        BY <1>0, <3>a
      <3>2. t \in Tracked
        BY <3>1 DEF Tracked, Event
      <3>3. pulled > ackedEventId[s]
        <4>1. CASE putting
          BY <1>0, <2>3, <4>1 DEF OrderOK, WaitsAbove
        <4>2. CASE ~putting
          BY <1>0, <1>3, <2>3, <3>1, <4>2
             DEF FanOutDurable, AlreadyDelivered, IsUser, AllUser
        <4> QED BY <4>1, <4>2
      <3>4. queue'[s] = Put(queue[s], t)
        BY <1>3, <2>3 DEF FanOutDurable, TypeOK, SinksOK
      <3>5. t.event > ackedEventId[s]
        BY <3>3
      <3> HIDE DEF t
      <3>b. Above(queue[s], ackedEventId[s])
        BY DEF OrderOK
      <3>c. Above(Put(queue[s], t), ackedEventId[s])
        BY <1>0, <3>2, <3>5, <3>b, PutAbove
      <3>6. Above(queue'[s], ackedEventId[s])
        BY <3>4, <3>c
      <3> QED BY <1>3, <2>1, <3>6 DEF FanOutDurable, OrderOK, WaitsAbove
    <2> QED BY <2>2, <2>3
  <1>4. CASE FanOutEphemeral
    BY <1>4, <1>a, QuietOrder DEF FanOutEphemeral, Quiet, Base, TypeOK, SinksOK
  <1>5. CASE FanOutEnd
    BY <1>5, <1>a, QuietOrder DEF FanOutEnd, Quiet, Base
  <1> QED BY <1>1, <1>2, <1>3, <1>4, <1>5, <1>6 DEF Pump

LEMMA WorkerOrder ==
    ASSUME TypeOK, Body, NEW k \in Sink, Worker(k), NEW s \in Durable, OrderOK(s)
    PROVE  OrderOK(s)'
  <1> USE DEF dbVars, streamVars, pumpVars
  <1>0. Base' = Base /\ s \in Sink
    BY DEF Worker, TakeBatch, Deliver, SkipBatch, AckCheckpoint, DeliverFails,
           PauseCommits, PauseSettles, DeliverOnce, Base
  <1>1. CASE TakeBatch(k)
    <2>1. CASE s # k
      BY <1>0, <1>1, <2>1, QuietOrder DEF TakeBatch, Enter, Quiet, TypeOK, SinksOK
    <2>2. CASE s = k
      <3> DEFINE n == Smaller(Len(queue[s]), BatchSize)
      <3>1. queue[s] # <<>> /\ queue[s] \in Seq(Tracked) /\ batch[s] = <<>>
            /\ pc[s] # "ack"
        BY <1>1, <2>2 DEF TakeBatch, HasItems, TypeOK, SinksOK
      <3>2. n \in 1..Len(queue[s])
        <4>1. Len(queue[s]) \in Nat /\ Len(queue[s]) # 0
          BY <3>1
        <4> QED BY <4>1 DEF Smaller
      <3>3. /\ batch'[s] = SubSeq(queue[s], 1, n) /\ queue'[s] = Rest(queue[s], n)
            /\ UNCHANGED <<ckpt, ackedEventId, deliveredSeq>>
        BY <1>1, <2>2 DEF TakeBatch, TypeOK, SinksOK
      <3> HIDE DEF n
      <3>4. Rising(queue[s]) /\ Above(queue[s], ackedEventId[s])
        BY DEF Body, LineOK, InLine, OrderOK, Rising
      <3>5. /\ Rising(batch'[s]) /\ Above(batch'[s], ackedEventId[s])
            /\ Above(queue'[s], ackedEventId[s])
        BY <3>1, <3>2, <3>3, <3>4, TakeInOrder
      <3>6. WaitsAbove(s)'
        BY <1>1, Zenon DEF TakeBatch, WaitsAbove, OrderOK
      <3> QED BY <1>0, <3>3, <3>5, <3>6 DEF OrderOK
    <2> QED BY <2>1, <2>2
  <1>2. CASE Deliver(k)
    <2>1. CASE s # k
      BY <1>0, <1>2, <2>1, QuietOrder DEF Deliver, Advance, Quiet, TypeOK, SinksOK
    <2>2. CASE s = k
      <3>1. /\ ackedEventId'[s] > ackedEventId[s] /\ ackedEventId'[s] \in Int
            /\ Base + deliveredSeq'[s] = ackedEventId'[s]
            /\ Above(queue[s], ackedEventId'[s])
            /\ at = s => ackedEventId'[s] < pulled
        BY <1>2, <2>2, AdvanceUp DEF Deliver
      <3>2. UNCHANGED <<queue, batch, ckpt>> /\ pc'[s] = "ack"
        BY <1>2, <2>2 DEF Deliver, TypeOK, SinksOK
      <3>3. ckpt[s] \in Nat /\ ackedEventId[s] \in Nat
        BY <1>0, Ranges DEF Body, NumbersOK
      <3>4. ckpt'[s] <= ackedEventId'[s]
        BY <3>1, <3>2, <3>3 DEF OrderOK
      <3>5. Base' + deliveredSeq'[s] <= ackedEventId'[s]
        BY <1>0, <3>1
      <3>6. at' = at /\ pulled' = pulled
        BY <1>2 DEF Deliver
      <3>7. WaitsAbove(s)'
        BY <3>1, <3>6, Zenon DEF WaitsAbove
      <3> QED BY <1>0, <3>1, <3>2, <3>4, <3>5, <3>7 DEF OrderOK
    <2> QED BY <2>1, <2>2
  <1>3. CASE SkipBatch(k)
    <2>1. CASE s # k
      BY <1>0, <1>3, <2>1, QuietOrder DEF SkipBatch, Advance, Enter, Quiet, TypeOK,
         SinksOK
    <2>2. CASE s = k
      <3>1. /\ ackedEventId'[s] > ackedEventId[s] /\ ackedEventId'[s] \in Int
            /\ Base + deliveredSeq'[s] = ackedEventId'[s]
            /\ Above(queue[s], ackedEventId'[s])
            /\ at = s => ackedEventId'[s] < pulled
        BY <1>3, <2>2, AdvanceUp DEF SkipBatch
      <3>2. UNCHANGED <<queue, ckpt>> /\ batch'[s] = <<>>
        BY <1>3, <2>2 DEF SkipBatch, TypeOK, SinksOK
      <3>3. ckpt[s] \in Nat /\ ackedEventId[s] \in Nat
        BY <1>0, Ranges DEF Body, NumbersOK
      <3>4. ckpt'[s] <= ackedEventId'[s]
        BY <3>1, <3>2, <3>3 DEF OrderOK
      <3>5. Base' + deliveredSeq'[s] <= ackedEventId'[s]
        BY <1>0, <3>1
      <3>6. at' = at /\ pulled' = pulled
        BY <1>3 DEF SkipBatch
      <3>7. WaitsAbove(s)'
        BY <3>1, <3>6, Zenon DEF WaitsAbove
      <3> QED BY <1>0, <3>1, <3>2, <3>4, <3>5, <3>7 DEF OrderOK, Rising, Above
    <2> QED BY <2>1, <2>2
  <1>4. CASE AckCheckpoint(k)
    <2>0. UNCHANGED <<queue, ackedEventId, deliveredSeq>>
      BY <1>4 DEF AckCheckpoint
    <2>1. CASE s # k
      BY <1>0, <1>4, <2>0, <2>1, QuietOrder DEF AckCheckpoint, Enter, Quiet, TypeOK,
         SinksOK, DbOK
    <2>2. CASE s = k
      <3>1. ckpt'[s] = ackedEventId[s] /\ batch'[s] = <<>>
        BY <1>4, <2>2 DEF AckCheckpoint, TypeOK, SinksOK, DbOK
      <3>2. ackedEventId[s] \in Nat
        BY <1>0, Ranges DEF Body, NumbersOK
      <3>3. WaitsAbove(s)'
        BY <1>4, <2>0, Zenon DEF AckCheckpoint, WaitsAbove, OrderOK
      <3> QED BY <1>0, <2>0, <3>1, <3>2, <3>3 DEF OrderOK, Rising, Above
    <2> QED BY <2>1, <2>2
  <1>5. CASE DeliverFails(k)
    BY <1>0, <1>5, QuietOrder DEF DeliverFails, Quiet, TypeOK, SinksOK
  <1>6. CASE PauseCommits(k)
    BY <1>0, <1>6, QuietOrder DEF PauseCommits, Quiet, TypeOK, SinksOK
  <1>7. CASE PauseSettles(k)
    BY <1>0, <1>7, QuietOrder DEF PauseSettles, Quiet, TypeOK, SinksOK
  <1>8. CASE DeliverOnce(k)
    BY <1>0, <1>8, QuietOrder DEF DeliverOnce, Quiet, TypeOK, SinksOK
  <1> QED BY <1>1, <1>2, <1>3, <1>4, <1>5, <1>6, <1>7, <1>8 DEF Worker

LEMMA RequestOrder ==
    ASSUME TypeOK, NEW c \in 1..MaxCalls, CallStarts(c) \/ Request(c),
           NEW s \in Durable, OrderOK(s)
    PROVE  OrderOK(s)'
  <1> USE DEF dbVars, streamVars, pumpVars, sinkVars, Quiet, Base
  <1>1. CASE CallStarts(c)
    BY <1>1, QuietOrder DEF CallStarts
  <1>2. CASE CallCommits(c)
    BY <1>2, QuietOrder DEF CallCommits
  <1>3. CASE CallFails(c)
    BY <1>3, QuietOrder DEF CallFails
  <1>4. CASE ResumeCalls(c)
    <2>1. pc'[s] # "ack" => pc[s] # "ack"
      BY <1>4 DEF ResumeCalls, Wake, Enter, TypeOK, SinksOK, Waiting
    <2> QED BY <1>4, <2>1, QuietOrder DEF ResumeCalls
  <1> QED BY <1>1, <1>2, <1>3, <1>4 DEF Request

LEMMA CrashOrder ==
    ASSUME TypeOK, Crash, NEW s \in Durable
    PROVE  OrderOK(s)'
  <1>1. /\ ckpt' = ckpt /\ ackedEventId' = ckpt
        /\ deliveredSeq'[s] = 0 /\ batch'[s] = <<>> /\ queue'[s] = <<>>
    BY DEF Crash, StartPosition, PerSink
  <1>2. ckpt[s] \in 0..Len(wal) /\ Len(wal) \in Nat
    BY DEF TypeOK, DbOK
  <1>3. ckpt'[s] <= ackedEventId'[s]
    BY <1>1, <1>2
  <1>4. WaitsAbove(s)'
    BY Zenon DEF Crash, WaitsAbove
  <1> QED BY <1>1, <1>3, <1>4 DEF OrderOK, Rising, Above

LEMMA NextOrder ==
    ASSUME NoMeta
    PROVE  TypeOK /\ SafeInv /\ OrderInv /\ [Next]_vars => OrderInv'
  <1> SUFFICES ASSUME TypeOK, SafeInv, OrderInv, [Next]_vars PROVE OrderInv'
    OBVIOUS
  <1>1. AllUser'
    BY NoNewMeta DEF OrderInv, AllUser
  <1>2. ASSUME disconnects' = 0, NEW s \in Durable PROVE OrderOK(s)'
    <2>0. disconnects = 0 /\ ~Disconnect
      BY <1>2, StillConnected
    <2>1. Body /\ OrderOK(s) /\ AllUser
      BY <2>0 DEF SafeInv, Body, OrderInv
    <2>2. CASE Connect \/ Receive \/ Keepalive \/ SendStatus
      BY <2>1, <2>2, SessionOrder
    <2>3. CASE Pump
      BY <2>1, <2>3, PumpOrder
    <2>4. ASSUME NEW k \in Sink, Worker(k) PROVE OrderOK(s)'
      BY <2>1, <2>4, WorkerOrder
    <2>5. ASSUME NEW c \in 1..MaxCalls, CallStarts(c) \/ Request(c)
          PROVE  OrderOK(s)'
      BY <2>1, <2>5, RequestOrder
    <2>6. CASE Crash
      BY <2>6, CrashOrder
    <2>7. CASE UNCHANGED vars
      BY <2>1, <2>7, QuietOrder DEF vars, Quiet, Base, dbVars, pumpVars, sinkVars
    <2> QED BY <2>0, <2>2, <2>3, <2>4, <2>5, <2>6, <2>7 DEF Next
  <1> QED BY <1>1, <1>2 DEF OrderInv

LEMMA InitOrder == ASSUME NoMeta PROVE Init => OrderInv
  <1> SUFFICES ASSUME Init PROVE OrderInv
    OBVIOUS
  <1>1. AllUser
    BY DEF Init, NoMeta, AllUser
  <1>2. ASSUME NEW s \in Durable PROVE OrderOK(s)
    BY DEF Init, PerSink, OrderOK, WaitsAbove, Rising, Above, Sink
  <1> QED BY <1>1, <1>2 DEF OrderInv

LEMMA OrderInvariant ==
    ASSUME NoMeta PROVE Spec => [](TypeOK /\ SafeInv /\ OrderInv)
  <1>1. Init => OrderInv
    BY InitOrder
  <1>2. TypeOK /\ SafeInv /\ OrderInv /\ [Next]_vars => OrderInv'
    BY NextOrder
  <1> QED BY <1>1, <1>2, InitType, NextType, InitSafe, NextSafe, PTL DEF Spec

-----------------------------------------------------------------------------

(* plugin-kit types.ts:64: what a durable sink will be handed is in         *)
(* ascending order and after all it was handed before, while no connection  *)
(* is lost and no metadata is published.                                    *)
THEOREM DeliveredInOrder ==
    ASSUME NoMeta PROVE Spec => [](disconnects = 0 => StrictCommitOrder)
  <1>1. TypeOK /\ SafeInv /\ OrderInv => (disconnects = 0 => StrictCommitOrder)
    <2> SUFFICES ASSUME TypeOK, SafeInv, OrderInv, disconnects = 0, NEW s \in Durable
                 PROVE  LET p == Pending(s) IN
                        /\ \A i, j \in 1..Len(p) : i < j => p[i].event < p[j].event
                        /\ \A i \in 1..Len(p) : p[i].event > ackedEventId[s]
      BY DEF StrictCommitOrder
    <2>1. Body /\ OrderOK(s) /\ s \in Sink
      BY DEF SafeInv, Body, OrderInv
    <2> DEFINE b == IF pc[s] \in {"ack", "take", "waitTop"} THEN <<>> ELSE batch[s]
               q == queue[s]
               p == b \o q
    <2>2. /\ queue[s] \in Seq(Tracked) /\ batch[s] \in Seq(Tracked)
      BY <2>1, Ranges DEF Body, NumbersOK
    <2>3. b \in Seq(Tracked) /\ q \in Seq(Tracked)
      BY <2>2
    <2>4. /\ Rising(b) /\ Above(b, ackedEventId[s])
          /\ Rising(q) /\ Above(q, ackedEventId[s])
          /\ \A i \in 1..Len(b), j \in 1..Len(q) : b[i].event < q[j].event
      BY <2>1 DEF Body, LineOK, InLine, OrderOK, Rising, Above
    <2>5. Pending(s) = p
      BY DEF Pending
    <2> HIDE DEF b, q
    <2>6. Len(b) \in Nat /\ Len(q) \in Nat
      BY <2>3
    <2>a. Len(p) = Len(b) + Len(q)
      BY <2>3, ConcatType
    <2>b. \A i \in 1..Len(b) : p[i] = b[i]
      BY <2>3, ConcatType
    <2>c. \A i \in 1..Len(q) : p[Len(b) + i] = q[i]
      BY <2>3, ConcatType
    <2> HIDE DEF p
    <2>7. ASSUME NEW i \in 1..Len(p)
          PROVE  \/ i \in 1..Len(b) /\ p[i] = b[i]
                 \/ /\ i \in (Len(b) + 1)..(Len(b) + Len(q))
                    /\ i - Len(b) \in 1..Len(q) /\ p[i] = q[i - Len(b)]
      <3>1. CASE i <= Len(b)
        BY <2>6, <2>b, <3>1
      <3>2. CASE ~(i <= Len(b))
        <4>1. i - Len(b) \in 1..Len(q) /\ Len(b) + (i - Len(b)) = i
          BY <2>6, <2>a, <3>2
        <4> QED BY <2>6, <2>a, <2>c, <3>2, <4>1
      <3> QED BY <3>1, <3>2
    <2>8. ASSUME NEW i \in 1..Len(p), NEW j \in 1..Len(p), i < j
          PROVE  p[i].event < p[j].event
      <3>1. CASE i \in 1..Len(b) /\ j \in 1..Len(b)
        BY <2>4, <2>b, <2>8, <3>1 DEF Rising
      <3>2. CASE i \in 1..Len(b) /\ ~(j \in 1..Len(b))
        BY <2>4, <2>7, <2>b, <3>2
      <3>3. CASE ~(i \in 1..Len(b))
        <4>1. ~(j \in 1..Len(b)) /\ i - Len(b) < j - Len(b)
          BY <2>6, <2>8, <3>3
        <4> QED BY <2>4, <2>7, <3>3, <4>1 DEF Rising
      <3> QED BY <3>1, <3>2, <3>3
    <2>9. \A i \in 1..Len(p) : p[i].event > ackedEventId[s]
      BY <2>4, <2>7 DEF Above
    <2> QED BY <2>5, <2>8, <2>9
  <1> QED BY <1>1, OrderInvariant, PTL

(* engine.ts:205-212: no user event at or below a persisted checkpoint is   *)
(* handed to its sink again, while no connection is lost and no metadata    *)
(* is published.                                                            *)
THEOREM CheckpointedIsSkipped ==
    ASSUME NoMeta PROVE Spec => [](disconnects = 0 => SkipsCheckpointed)
  <1>1. TypeOK /\ SafeInv /\ OrderInv => (disconnects = 0 => SkipsCheckpointed)
    <2> SUFFICES ASSUME TypeOK, SafeInv, OrderInv, disconnects = 0, NEW s \in Durable,
                        pc[s] = "deliver", NEW e \in Deliverable(batch[s])
                 PROVE  e > ckpt[s]
      BY DEF SkipsCheckpointed
    <2>1. Body /\ OrderOK(s) /\ s \in Sink
      BY DEF SafeInv, Body, OrderInv
    <2>2. PICK i \in 1..Len(batch[s]) : e = batch[s][i].event
      BY DEF Deliverable
    <2>3. /\ e \in Int /\ ckpt[s] \in Nat /\ ackedEventId[s] \in Nat
      <3>1. batch[s] \in Seq(Tracked) /\ \A x \in Tracked : x.event \in Int
        BY <2>1, Ranges DEF Body, NumbersOK
      <3>2. e \in Int
        BY <2>2, <3>1
      <3> QED BY <2>1, <3>2, Ranges DEF Body, NumbersOK
    <2>4. e > ackedEventId[s] /\ ckpt[s] <= ackedEventId[s]
      BY <2>1, <2>2 DEF OrderOK, Above
    <2> QED BY <2>3, <2>4
  <1> QED BY <1>1, OrderInvariant, PTL

LEMMA StepAdvances ==
    ASSUME NoMeta, TypeOK, SafeInv, OrderInv, disconnects = 0, ~Disconnect,
           [Next]_vars, NEW s \in Durable
    PROVE  /\ ckpt'[s] >= ckpt[s]
           /\ crashes' = crashes => /\ deliveredSeq'[s] >= deliveredSeq[s]
                                    /\ ackedEventId'[s] >= ackedEventId[s]
  <1> USE DEF vars, dbVars, streamVars, pumpVars, sinkVars, faultVars
  <1>0. Body /\ OrderOK(s) /\ s \in Sink
    BY DEF SafeInv, Body, OrderInv
  <1>1. /\ ckpt[s] \in Nat /\ ackedEventId[s] \in Nat /\ deliveredSeq[s] \in Nat
        /\ seq \in Nat /\ deliveredSeq[s] <= seq /\ ckpt[s] <= ackedEventId[s]
    BY <1>0, Ranges DEF Body, NumbersOK, OrderOK
  <1>2. CASE UNCHANGED <<ckpt[s], deliveredSeq[s], ackedEventId[s]>>
    BY <1>1, <1>2
  <1>3. CASE Connect \/ Receive \/ Keepalive \/ SendStatus
    BY <1>2, <1>3 DEF Connect, Receive, Keepalive, SendStatus
  <1>4. CASE Pull \/ FanOutWaits \/ FanOutDurable \/ FanOutEphemeral \/ FanOutEnd
    BY <1>2, <1>4 DEF Pull, FanOutWaits, FanOutDurable, FanOutEphemeral, FanOutEnd
  <1>5. CASE FanOutSkip
    <2>1. /\ UNCHANGED <<ckpt, ackedEventId>>
          /\ deliveredSeq'[s] = deliveredSeq[s] \/ deliveredSeq'[s] = seq
      BY <1>5 DEF FanOutSkip, TypeOK, SinksOK
    <2> QED BY <1>1, <2>1
  <1>6. ASSUME NEW k \in Sink, Deliver(k) \/ SkipBatch(k)
        PROVE  /\ ckpt'[s] = ckpt[s]
               /\ deliveredSeq'[s] >= deliveredSeq[s]
               /\ ackedEventId'[s] >= ackedEventId[s]
    <2>1. ckpt' = ckpt /\ k \in Durable /\ pc[k] = "deliver" /\ Advance(k)
      BY <1>6 DEF Deliver, SkipBatch
    <2>2. OrderOK(k)
      BY <2>1 DEF OrderInv
    <2>3. /\ ackedEventId'[k] > ackedEventId[k] /\ deliveredSeq'[k] > deliveredSeq[k]
          /\ \A r \in Sink : r # k => /\ ackedEventId'[r] = ackedEventId[r]
                                      /\ deliveredSeq'[r] = deliveredSeq[r]
      BY <1>0, <2>1, <2>2, AdvanceUp
    <2>4. deliveredSeq' \in [Sink -> 0..seq] /\ ackedEventId' \in [Sink -> 0..Len(wal)]
      BY <2>1, AdvanceType DEF TypeOK, SinksOK
    <2>5. /\ deliveredSeq'[s] \in Int /\ ackedEventId'[s] \in Int
      BY <1>0, <1>1, <2>4 DEF TypeOK, DbOK
    <2>6. CASE s = k
      BY <1>1, <2>1, <2>3, <2>5, <2>6
    <2>7. CASE s # k
      BY <1>0, <1>1, <2>1, <2>3, <2>7
    <2> QED BY <2>6, <2>7
  <1>7. ASSUME NEW k \in Sink, AckCheckpoint(k)
        PROVE  /\ UNCHANGED <<deliveredSeq, ackedEventId>>
               /\ ckpt'[s] = ckpt[s] \/ ckpt'[s] = ackedEventId[s]
    BY <1>7 DEF AckCheckpoint, TypeOK, DbOK
  <1>8. ASSUME NEW k \in Sink,
               TakeBatch(k) \/ DeliverFails(k) \/ PauseCommits(k)
               \/ PauseSettles(k) \/ DeliverOnce(k)
        PROVE  UNCHANGED <<ckpt[s], deliveredSeq[s], ackedEventId[s]>>
    BY <1>8 DEF TakeBatch, DeliverFails, PauseCommits, PauseSettles, DeliverOnce
  <1>9. ASSUME NEW c \in 1..MaxCalls, CallStarts(c) \/ Request(c)
        PROVE  UNCHANGED <<ckpt[s], deliveredSeq[s], ackedEventId[s]>>
    BY <1>9 DEF CallStarts, Request, CallCommits, CallFails, ResumeCalls
  <1>10. CASE Crash
    <2>1. ckpt' = ckpt /\ crashes' # crashes
      BY <1>10 DEF Crash, TypeOK, ControlOK
    <2> QED BY <1>1, <2>1
  <1>11. CASE UNCHANGED vars
    BY <1>2, <1>11
  <1>12. ASSUME NEW k \in Sink, Worker(k)
         PROVE  /\ ckpt'[s] >= ckpt[s]
                /\ deliveredSeq'[s] >= deliveredSeq[s]
                /\ ackedEventId'[s] >= ackedEventId[s]
    BY <1>1, <1>6, <1>7, <1>8, <1>12 DEF Worker
  <1>13. ASSUME NEW c \in 1..MaxCalls, CallStarts(c) \/ Request(c)
         PROVE  /\ ckpt'[s] >= ckpt[s]
                /\ deliveredSeq'[s] >= deliveredSeq[s]
                /\ ackedEventId'[s] >= ackedEventId[s]
    BY <1>1, <1>9, <1>13
  <1> QED BY <1>3, <1>4, <1>5, <1>10, <1>11, <1>12, <1>13 DEF Next, Pump

(* engine.ts:48 and checkpoint.ts:52: without lost connections and          *)
(* published metadata the checkpoint of a sink never goes back, nor do its  *)
(* positions in memory while the process lives.                             *)
THEOREM PositionsOnlyAdvance ==
    ASSUME MaxDisconnects = 0, NoMeta PROVE Spec => PositionsAdvance
  <1>1. TypeOK /\ TypeOK' => disconnects = 0 /\ disconnects' = 0
    BY DEF TypeOK, ControlOK
  <1>2. TypeOK /\ TypeOK' /\ SafeInv /\ OrderInv /\ [Next]_vars
        => [\A s \in Durable :
              /\ ckpt'[s] >= ckpt[s]
              /\ crashes' = crashes => /\ deliveredSeq'[s] >= deliveredSeq[s]
                                       /\ ackedEventId'[s] >= ackedEventId[s]]_vars
    BY <1>1, StillConnected, StepAdvances
  <1> QED BY <1>2, OrderInvariant, PTL DEF Spec, PositionsAdvance


-----------------------------------------------------------------------------
(* The writes to walcast.sinks, with published metadata, while the first    *)
(* process lives and keeps its session.                                     *)

FirstLife == crashes = 0 /\ disconnects = 0

\* What waits for a sink is new to it: it lies behind all the sink has got.
NewOK(s) ==
    \A e \in received[s] :
        /\ e <= Handled(s)
        /\ Above(queue[s], e)
        /\ pc[s] # "ack" => Above(batch[s], e)

NewInv == FirstLife => \A s \in Durable : NewOK(s)

\* Steps that only take from the line of s, or move the pump past it.
LEMMA QuietNew ==
    ASSUME TypeOK, NEW s \in Durable, NewOK(s),
           received'[s] = received[s], queue'[s] = queue[s],
           Handled(s) \in Int, Handled(s)' \in Int, Handled(s) <= Handled(s)',
           \/ batch'[s] = <<>>
           \/ batch'[s] = batch[s] /\ (pc'[s] # "ack" => pc[s] # "ack")
    PROVE  NewOK(s)'
  <1> SUFFICES ASSUME NEW e \in received[s]
               PROVE  /\ e <= Handled(s)'
                      /\ Above(queue'[s], e)
                      /\ pc'[s] # "ack" => Above(batch'[s], e)
    BY DEF NewOK
  <1>1. e \in Int
    BY DEF TypeOK, DbOK, Event
  <1>2. /\ e <= Handled(s) /\ Above(queue[s], e)
        /\ pc[s] # "ack" => Above(batch[s], e)
    BY DEF NewOK
  <1>3. Above(<<>>, e)
    BY DEF Above
  <1> QED BY <1>1, <1>2, <1>3

LEMMA SessionNew ==
    ASSUME TypeOK, Body, Connect \/ Receive \/ Keepalive \/ SendStatus,
           NEW s \in Durable, NewOK(s)
    PROVE  NewOK(s)'
  <1> USE DEF dbVars, pumpVars, sinkVars
  <1>0. s \in Sink /\ Handled(s) \in Int
    BY Ranges DEF Body, NumbersOK
  <1>1. CASE Connect
    <2>1. at = 0 /\ at' = 0 /\ pulled = 0
      BY <1>1 DEF Connect, Body, Fresh
    <2>2. received[s] = {}
      <3>1. \A e \in received[s] : e <= 0 /\ e \in 1..Len(wal)
        BY <1>0, <2>1 DEF NewOK, Handled, TypeOK, DbOK, Event
      <3> QED BY <3>1 DEF TypeOK, DbOK
    <2>3. received'[s] = {}
      BY <1>1, <2>2 DEF Connect
    <2> QED BY <2>3 DEF NewOK
  <1>2. CASE Receive \/ Keepalive \/ SendStatus
    <2>1. Handled(s)' = Handled(s)
      BY <1>2 DEF Receive, Keepalive, SendStatus, Handled
    <2> QED BY <1>0, <1>2, <2>1, QuietNew DEF Receive, Keepalive, SendStatus
  <1> QED BY <1>1, <1>2

LEMMA PumpNew ==
    ASSUME TypeOK, Body, Pump, NEW s \in Durable, NewOK(s)
    PROVE  NewOK(s)'
  <1> USE DEF dbVars, streamVars, sinkVars
  <1>0. /\ s \in Nat \ {0} /\ s <= NumSinks /\ s \in Sink /\ at \in Nat /\ pulled \in Nat
        /\ queue[s] \in Seq(Tracked) /\ \A x \in Tracked : x.event \in Int
        /\ NumSinks \in Nat /\ Len(wal) \in Nat /\ pulled <= Len(wal)
    BY Ranges DEF Body, NumbersOK, Sink
  <1>1. Handled(s) \in Int /\ Handled(s)' \in Int /\ Handled(s) <= Handled(s)'
    <2>1. CASE Pull
      BY <1>0, <2>1 DEF Pull, Handled
    <2>2. CASE FanOutSkip \/ FanOutDurable \/ FanOutEphemeral
      <3>1. at' = at + 1 /\ pulled' = pulled /\ at # 0
        BY <1>0, <2>2 DEF FanOutSkip, FanOutDurable, FanOutEphemeral, Sink
      <3> QED BY <1>0, <3>1 DEF Handled
    <2>3. CASE FanOutEnd
      BY <1>0, <2>3 DEF FanOutEnd, Handled
    <2>4. CASE FanOutWaits
      BY <1>0, <2>4 DEF FanOutWaits, Handled
    <2> QED BY <2>1, <2>2, <2>3, <2>4 DEF Pump
  <1>2. received' = received /\ batch' = batch /\ pc' = pc
    BY DEF Pump, Pull, FanOutSkip, FanOutWaits, FanOutDurable, FanOutEphemeral, FanOutEnd
  <1>3. CASE queue'[s] = queue[s]
    BY <1>1, <1>2, <1>3, QuietNew
  <1>4. CASE FanOutDurable /\ s = at
    <2> DEFINE t == [seq |-> seq, event |-> pulled]
    <2>1. queue'[s] = Put(queue[s], t)
      BY <1>4 DEF FanOutDurable, TypeOK, SinksOK
    <2>2. t \in Tracked /\ t.event = pulled
      <3>1. at # 0
        BY <1>0, <1>4
      <3>2. pulled # 0 /\ seq # 0 /\ seq \in Nat
        BY <3>1 DEF TypeOK, PumpOK
      <3>3. pulled \in 1..Len(wal) /\ seq \in 1..seq
        BY <1>0, <3>2
      <3> QED BY <3>3 DEF Tracked, Event
    <2> HIDE DEF t
    <2>3. ASSUME NEW e \in received[s]
          PROVE  e <= Handled(s)' /\ Above(queue'[s], e) /\ (pc[s] # "ack" => Above(batch[s], e))
      <3>1. e \in Int
        BY <1>0 DEF TypeOK, DbOK, Event
      <3>2. /\ e <= Handled(s) /\ Above(queue[s], e)
            /\ pc[s] # "ack" => Above(batch[s], e)
        BY DEF NewOK
      <3>3. Handled(s) = pulled - 1
        BY <1>0, <1>4 DEF Handled
      <3>4. t.event > e
        BY <1>0, <2>2, <3>1, <3>2, <3>3
      <3>5. Above(Put(queue[s], t), e)
        BY <1>0, <2>2, <3>1, <3>2, <3>4, PutAbove
      <3> QED BY <1>1, <2>1, <3>1, <3>2, <3>5
    <2> QED BY <1>2, <2>3 DEF NewOK
  <1>5. queue'[s] = queue[s] \/ (FanOutDurable /\ s = at)
    BY DEF Pump, Pull, FanOutSkip, FanOutWaits, FanOutDurable, FanOutEphemeral, FanOutEnd, TypeOK, SinksOK
  <1> QED BY <1>3, <1>4, <1>5

LEMMA TakeNew ==
    ASSUME TypeOK, Body, NEW s \in Durable, TakeBatch(s), NewOK(s), Handled(s)' = Handled(s)
    PROVE  NewOK(s)'
  <1> DEFINE n == Smaller(Len(queue[s]), BatchSize)
  <1>0. s \in Sink /\ queue[s] # <<>> /\ queue[s] \in Seq(Tracked)
    BY DEF TakeBatch, HasItems, TypeOK, SinksOK
  <1>1. n \in 1..Len(queue[s])
    BY <1>0, TakenType
  <1>2. /\ batch'[s] = SubSeq(queue[s], 1, n) /\ queue'[s] = Rest(queue[s], n)
        /\ received' = received
    BY <1>0 DEF TakeBatch, TypeOK, SinksOK
  <1> HIDE DEF n
  <1>a. Rising(queue[s])
    BY DEF Body, LineOK, InLine, Rising
  <1>3. ASSUME NEW e \in received[s]
        PROVE  e <= Handled(s)' /\ Above(queue'[s], e) /\ Above(batch'[s], e)
    <2>1. e <= Handled(s) /\ Above(queue[s], e)
      BY DEF NewOK
    <2>2. Above(SubSeq(queue[s], 1, n), e) /\ Above(Rest(queue[s], n), e)
      BY <1>0, <1>1, <1>a, <2>1, TakeInOrder
    <2> QED BY <1>2, <2>1, <2>2
  <1> QED BY <1>2, <1>3 DEF NewOK

\* What has just been delivered lies before the queue.
LEMMA DeliverNew ==
    ASSUME TypeOK, Body, NEW s \in Durable, Deliver(s), NewOK(s), Handled(s)' = Handled(s)
    PROVE  NewOK(s)'
  <1>0. s \in Sink /\ pc'[s] = "ack" /\ queue' = queue
    BY DEF Deliver, TypeOK, SinksOK
  <1>1. received'[s] = received[s] \union Deliverable(batch[s])
    BY <1>0 DEF Deliver, TypeOK, DbOK
  <1>2. InLine(batch[s], queue[s], Base, Handled(s))
    BY DEF Body, LineOK
  <1>3. /\ queue[s] \in Seq(Tracked) /\ batch[s] \in Seq(Tracked)
        /\ \A x \in Tracked : x.event \in Int
    BY <1>0, Ranges DEF Body, NumbersOK
  <1>4. ASSUME NEW e \in received'[s] PROVE e <= Handled(s) /\ Above(queue[s], e)
    <2>1. CASE e \in received[s]
      BY <2>1 DEF NewOK
    <2>2. CASE e \in Deliverable(batch[s])
      <3>1. PICK i \in 1..Len(batch[s]) : e = batch[s][i].event
        BY <2>2 DEF Deliverable
      <3>2. e <= Handled(s)
        BY <1>2, <3>1 DEF InLine, Numbered
      <3>3. \A j \in 1..Len(queue[s]) : e < queue[s][j].event
        BY <1>2, <3>1 DEF InLine
      <3>4. e \in Int /\ \A j \in 1..Len(queue[s]) : queue[s][j].event \in Int
        BY <1>3, <3>1
      <3> QED BY <3>2, <3>3, <3>4 DEF Above
    <2> QED BY <1>1, <2>1, <2>2
  <1> QED BY <1>0, <1>4 DEF NewOK

LEMMA WorkerNew ==
    ASSUME TypeOK, Body, NEW k \in Sink, Worker(k), NEW s \in Durable, NewOK(s)
    PROVE  NewOK(s)'
  <1> USE DEF dbVars, streamVars, pumpVars
  <1>0. Handled(s)' = Handled(s) /\ s \in Sink /\ Handled(s) \in Int
    <2>1. UNCHANGED <<at, pulled>>
      BY DEF Worker, TakeBatch, Deliver, SkipBatch, AckCheckpoint, DeliverFails,
             PauseCommits, PauseSettles, DeliverOnce
    <2> QED BY <2>1, Ranges DEF Body, NumbersOK, Handled
  <1>1. CASE s = k /\ (TakeBatch(k) \/ Deliver(k))
    BY <1>0, <1>1, TakeNew, DeliverNew
  <1>2. CASE s # k
    <2>1. /\ received'[s] = received[s] /\ queue'[s] = queue[s]
          /\ batch'[s] = batch[s] /\ pc'[s] = pc[s]
      <3> USE DEF TypeOK, SinksOK, DbOK
      <3>1. CASE TakeBatch(k) \/ SkipBatch(k) \/ AckCheckpoint(k)
        BY <1>0, <1>2, <3>1 DEF TakeBatch, SkipBatch, AckCheckpoint, Enter
      <3>2. CASE Deliver(k) \/ DeliverFails(k)
        BY <1>0, <1>2, <3>2 DEF Deliver, DeliverFails
      <3>3. CASE PauseCommits(k) \/ PauseSettles(k) \/ DeliverOnce(k)
        BY <1>0, <1>2, <3>3 DEF PauseCommits, PauseSettles, DeliverOnce
      <3> QED BY <3>1, <3>2, <3>3 DEF Worker
    <2> QED BY <1>0, <2>1, QuietNew
  <1>3. CASE s = k /\ (SkipBatch(k) \/ AckCheckpoint(k))
    <2>1. received' = received /\ queue' = queue /\ batch'[s] = <<>>
      BY <1>0, <1>3 DEF SkipBatch, AckCheckpoint, TypeOK, SinksOK
    <2> QED BY <1>0, <2>1, QuietNew
  <1>4. CASE s = k /\ (DeliverFails(k) \/ PauseCommits(k) \/ PauseSettles(k) \/ DeliverOnce(k))
    <2>1. /\ received' = received /\ queue' = queue /\ batch' = batch
          /\ pc'[s] # "ack" => pc[s] # "ack"
      BY <1>0, <1>4 DEF DeliverFails, PauseCommits, PauseSettles, DeliverOnce, TypeOK, SinksOK
    <2> QED BY <1>0, <2>1, QuietNew
  <1> QED BY <1>1, <1>2, <1>3, <1>4 DEF Worker

LEMMA RequestNew ==
    ASSUME TypeOK, Body, NEW c \in 1..MaxCalls, CallStarts(c) \/ Request(c),
           NEW s \in Durable, NewOK(s)
    PROVE  NewOK(s)'
  <1> USE DEF dbVars, streamVars, pumpVars, sinkVars
  <1>1. /\ UNCHANGED <<at, pulled, received, queue, batch>>
        /\ pc'[s] # "ack" => pc[s] # "ack"
    <2>1. CASE CallStarts(c) \/ CallCommits(c) \/ CallFails(c)
      BY <2>1 DEF CallStarts, CallCommits, CallFails
    <2>2. CASE ResumeCalls(c)
      BY <2>2 DEF ResumeCalls, Wake, Enter, TypeOK, SinksOK, Waiting
    <2> QED BY <2>1, <2>2 DEF Request
  <1>2. Handled(s)' = Handled(s) /\ Handled(s) \in Int
    BY <1>1, Ranges DEF Body, NumbersOK, Handled
  <1> QED BY <1>1, <1>2, QuietNew

\* A first life was one before, and neither dies nor loses its connection.
LEMMA StillFirst ==
    ASSUME TypeOK, [Next]_vars, FirstLife'
    PROVE  FirstLife /\ ~Disconnect /\ ~Crash
  <1> USE DEF vars, dbVars, streamVars, pumpVars, sinkVars, faultVars
  <1>1. disconnects = 0 /\ ~Disconnect
    BY StillConnected DEF FirstLife
  <1>2. ASSUME Crash PROVE FALSE
    BY <1>2 DEF Crash, FirstLife, TypeOK, ControlOK
  <1>3. crashes = 0
    BY <1>1, <1>2 DEF FirstLife, Next, Pump, Worker, Request, Connect, Receive, Keepalive,
       SendStatus, Pull, FanOutSkip, FanOutWaits, FanOutDurable, FanOutEphemeral, FanOutEnd,
       TakeBatch, Deliver, SkipBatch, AckCheckpoint, DeliverFails, PauseCommits,
       PauseSettles, DeliverOnce, CallStarts, CallCommits, CallFails, ResumeCalls
  <1> QED BY <1>1, <1>2, <1>3 DEF FirstLife

LEMMA NextNew == TypeOK /\ SafeInv /\ NewInv /\ [Next]_vars => NewInv'
  <1> SUFFICES ASSUME TypeOK, SafeInv, NewInv, [Next]_vars, FirstLife', NEW s \in Durable
               PROVE  NewOK(s)'
    BY DEF NewInv
  <1>0. ~Disconnect /\ ~Crash /\ Body /\ NewOK(s)
    BY StillFirst DEF FirstLife, SafeInv, Body, NewInv
  <1>1. CASE Connect \/ Receive \/ Keepalive \/ SendStatus
    BY <1>0, <1>1, SessionNew
  <1>2. CASE Pump
    BY <1>0, <1>2, PumpNew
  <1>3. ASSUME NEW k \in Sink, Worker(k) PROVE NewOK(s)'
    BY <1>0, <1>3, WorkerNew
  <1>4. ASSUME NEW c \in 1..MaxCalls, CallStarts(c) \/ Request(c) PROVE NewOK(s)'
    BY <1>0, <1>4, RequestNew
  <1>5. CASE UNCHANGED vars
    <2>1. Handled(s)' = Handled(s) /\ Handled(s) \in Int
      BY <1>0, <1>5, Ranges DEF Body, NumbersOK, Handled, vars, pumpVars
    <2> QED BY <1>0, <1>5, <2>1, QuietNew DEF vars, dbVars, sinkVars
  <1> QED BY <1>0, <1>1, <1>2, <1>3, <1>4, <1>5 DEF Next

-----------------------------------------------------------------------------
(* Who pays for a write: a delivery, a pause or a request.  A delivery that *)
(* is not checkpointed yet, a request that has not written, and one that    *)
(* has, all have something left of what they brought.                       *)

DeliveredTo == {d \in Durable \X Event : IsUser(d[2]) /\ d[2] \in received[d[1]]}
Acking == {s \in Durable : pc[s] = "ack"}
InStep(step) == {c \in 1..MaxCalls : calls[c].step = step}
Made == {c \in 1..MaxCalls : calls[c] # Unused}
PausedRows == {s \in Durable : dbStatus[s] = "paused"}

\* Sinks whose worker waits and whose row says so, or whose waking is under way.
Holding == Waiting \union {"pauseWritten"}
Held ==
    {s \in Durable : /\ pc[s] \in Holding
                     /\ \/ dbStatus[s] = "paused"
                        \/ \E c \in InStep("written") : calls[c].sink = s}

Owed ==
    Cardinality(Acking) + 2 * Cardinality(InStep("writing")) + Cardinality(InStep("written"))

Brought == Cardinality(DeliveredTo) + Cardinality(Held) + 2 * Cardinality(Made)

Balance == Len(wal) + Owed <= Len(InitialWal) + Brought

CountInv == FirstLife => Balance

\* Sets that are compared.
LEMMA NotFewer ==
    ASSUME NEW S, NEW T, IsFiniteSet(T), S \subseteq T
    PROVE  Cardinality(S) <= Cardinality(T) /\ Cardinality(S) \in Nat
  BY FS_Subset, FS_CardinalityType

LEMMA OneMore ==
    ASSUME NEW S, NEW T, IsFiniteSet(T), NEW x, x \notin S, S \union {x} \subseteq T
    PROVE  Cardinality(S) + 1 <= Cardinality(T)
  <1>1. IsFiniteSet(S)
    BY FS_Subset
  <1>2. Cardinality(S \union {x}) = Cardinality(S) + 1
    BY <1>1, FS_AddElement
  <1> QED BY <1>2, NotFewer

LEMMA AtMostOneMore ==
    ASSUME NEW S, NEW T, IsFiniteSet(T), NEW x, S \subseteq T \union {x}
    PROVE  Cardinality(S) <= Cardinality(T) + 1
  <1>0. Cardinality(T) \in Nat
    BY FS_CardinalityType
  <1>a. /\ IsFiniteSet(T \union {x})
        /\ Cardinality(T \union {x}) = IF x \in T THEN Cardinality(T) ELSE Cardinality(T) + 1
    BY FS_AddElement
  <1>1. IsFiniteSet(T \union {x}) /\ Cardinality(T \union {x}) <= Cardinality(T) + 1
    BY <1>0, <1>a
  <1>2. Cardinality(S) <= Cardinality(T \union {x}) /\ Cardinality(S) \in Nat
    BY <1>1, NotFewer
  <1>3. Cardinality(T) \in Nat /\ Cardinality(T \union {x}) \in Nat
    BY <1>1, FS_CardinalityType
  <1> QED BY <1>1, <1>2, <1>3

LEMMA FiniteSinks == ASSUME NEW S, S \subseteq Durable PROVE IsFiniteSet(S)
  <1>1. IsFiniteSet(Sink)
    BY FS_Interval DEF Sink
  <1> QED BY <1>1, FS_Subset

LEMMA FiniteCalls == ASSUME NEW S, S \subseteq 1..MaxCalls PROVE IsFiniteSet(S)
  <1>1. IsFiniteSet(1..MaxCalls)
    BY FS_Interval
  <1> QED BY <1>1, FS_Subset

LEMMA FinitePairs ==
    ASSUME NEW n \in Nat, NEW D, D \subseteq Durable \X (1..n)
    PROVE  IsFiniteSet(D)
  <1>0. IsFiniteSet(Durable) /\ IsFiniteSet(1..n)
    BY FiniteSinks, FS_Interval
  <1>1. IsFiniteSet(Durable \X (1..n))
    BY <1>0, FS_Product
  <1> QED BY <1>1, FS_Subset

\* All that Balance counts is finite, before and after a step.
LEMMA Counted ==
    ASSUME TypeOK, TypeOK'
    PROVE  /\ IsFiniteSet(DeliveredTo) /\ IsFiniteSet(DeliveredTo')
           /\ IsFiniteSet(Acking) /\ IsFiniteSet(Acking')
           /\ IsFiniteSet(Held) /\ IsFiniteSet(Held')
           /\ IsFiniteSet(Made) /\ IsFiniteSet(Made')
           /\ IsFiniteSet(InStep("writing")) /\ IsFiniteSet(InStep("writing")')
           /\ IsFiniteSet(InStep("written")) /\ IsFiniteSet(InStep("written")')
           /\ Len(wal) \in Nat /\ Len(wal') \in Nat /\ Len(InitialWal) \in Nat
  <1>1. Len(wal) \in Nat /\ Len(wal') \in Nat /\ Len(InitialWal) \in Nat
    BY DEF TypeOK, DbOK
  <1>2. DeliveredTo \subseteq Durable \X (1..Len(wal)) /\ DeliveredTo' \subseteq Durable \X (1..Len(wal'))
    BY DEF DeliveredTo, Event
  <1>3. IsFiniteSet(DeliveredTo) /\ IsFiniteSet(DeliveredTo')
    BY <1>1, <1>2, FinitePairs
  <1>4. Acking \subseteq Durable /\ Acking' \subseteq Durable /\ Held \subseteq Durable /\ Held' \subseteq Durable
    BY DEF Acking, Held
  <1>5. /\ Made \subseteq 1..MaxCalls /\ Made' \subseteq 1..MaxCalls
        /\ InStep("writing") \subseteq 1..MaxCalls /\ InStep("writing")' \subseteq 1..MaxCalls
        /\ InStep("written") \subseteq 1..MaxCalls /\ InStep("written")' \subseteq 1..MaxCalls
    BY DEF Made, InStep
  <1> QED BY <1>1, <1>3, <1>4, <1>5, FiniteSinks, FiniteCalls

LEMMA Numbers ==
    ASSUME TypeOK, TypeOK'
    PROVE  /\ Owed \in Nat /\ Owed' \in Nat /\ Brought \in Nat /\ Brought' \in Nat
           /\ Len(wal) \in Nat /\ Len(wal') \in Nat /\ Len(InitialWal) \in Nat
  <1>1. /\ Cardinality(Acking) \in Nat /\ Cardinality(InStep("writing")) \in Nat
        /\ Cardinality(InStep("written")) \in Nat
    BY Counted, FS_CardinalityType
  <1>2. /\ Cardinality(Acking') \in Nat /\ Cardinality(InStep("writing")') \in Nat
        /\ Cardinality(InStep("written")') \in Nat
    BY Counted, FS_CardinalityType
  <1>3. /\ Cardinality(DeliveredTo) \in Nat /\ Cardinality(Held) \in Nat
        /\ Cardinality(Made) \in Nat
    BY Counted, FS_CardinalityType
  <1>4. /\ Cardinality(DeliveredTo') \in Nat /\ Cardinality(Held') \in Nat
        /\ Cardinality(Made') \in Nat
    BY Counted, FS_CardinalityType
  <1>5. Owed \in Nat
    BY <1>1 DEF Owed
  <1>6. Owed' \in Nat
    BY <1>2 DEF Owed
  <1>7. Brought \in Nat
    BY <1>3 DEF Brought
  <1>8. Brought' \in Nat
    BY <1>4 DEF Brought
  <1> QED BY <1>5, <1>6, <1>7, <1>8, Counted

\* A step that writes nothing, takes no delivery back and lets nobody go.
LEMMA QuietCount ==
    ASSUME TypeOK, TypeOK', Balance, wal' = wal, UNCHANGED calls,
           Acking' \subseteq Acking, Held \subseteq Held',
           DeliveredTo \subseteq DeliveredTo'
    PROVE  Balance'
  <1>1. Made' = Made /\ InStep("writing")' = InStep("writing") /\ InStep("written")' = InStep("written")
    BY DEF Made, InStep
  <1>2. Owed' <= Owed
    <2>1. Cardinality(Acking') <= Cardinality(Acking)
      BY Counted, NotFewer
    <2>2. /\ Cardinality(Acking) \in Nat /\ Cardinality(Acking') \in Nat
          /\ Cardinality(InStep("writing")) \in Nat /\ Cardinality(InStep("written")) \in Nat
      BY Counted, FS_CardinalityType
    <2> QED BY <1>1, <2>1, <2>2 DEF Owed
  <1>3. Brought <= Brought'
    <2>1. /\ Cardinality(Held) <= Cardinality(Held')
          /\ Cardinality(DeliveredTo) <= Cardinality(DeliveredTo')
      BY Counted, NotFewer
    <2>2. /\ Cardinality(Held) \in Nat /\ Cardinality(Held') \in Nat
          /\ Cardinality(DeliveredTo) \in Nat /\ Cardinality(DeliveredTo') \in Nat
          /\ Cardinality(Made) \in Nat
      BY Counted, FS_CardinalityType
    <2> QED BY <1>1, <2>1, <2>2 DEF Brought
  <1> QED BY <1>2, <1>3, Numbers DEF Balance

\* The log gets longer by one transaction at most.
LEMMA OneWrite == ASSUME DbOK, MetaWrites(1) PROVE Len(wal') <= Len(wal) + 1
  <1> DEFINE new == [i \in 1..1 |-> [meta |-> TRUE, first |-> Len(wal) + i]]
  <1>1. wal \in Seq(Change) /\ Len(wal) \in Nat
    BY DEF DbOK
  <1>2. new \in Seq(Change) /\ Len(new) = 1
    BY <1>1 DEF Change
  <1>3. wal' = wal \/ wal' = wal \o new
    BY DEF MetaWrites
  <1> HIDE DEF new
  <1>4. Len(wal \o new) = Len(wal) + Len(new)
    BY <1>1, <1>2, ConcatType
  <1> QED BY <1>1, <1>2, <1>3, <1>4

\* Neither a longer log nor more deliveries take a delivery back.
LEMMA DeliveredGrows ==
    ASSUME TypeOK, LogStep, \A s \in Durable : received[s] \subseteq received'[s]
    PROVE  DeliveredTo \subseteq DeliveredTo'
  <1>1. /\ Len(wal) \in Nat /\ Len(wal') \in Nat /\ Len(wal) <= Len(wal')
        /\ \A i \in 1..Len(wal) : wal'[i] = wal[i]
    BY NewAreMeta DEF TypeOK
  <1>2. \A e \in Event : e \in Event' /\ (IsUser(e) => IsUser(e)')
    BY <1>1 DEF Event, IsUser
  <1> QED BY <1>2 DEF DeliveredTo

\* Whom a step lets go: a worker that goes on, or whose row or call changes.
LEMMA HeldKept ==
    ASSUME \A s \in Durable : pc[s] \in Holding => pc'[s] \in Holding,
           \A s \in Durable : dbStatus[s] = "paused" => dbStatus'[s] = "paused",
           \A c \in InStep("written") :
               c \in InStep("written")' /\ calls'[c].sink = calls[c].sink
    PROVE  Held \subseteq Held'
  BY DEF Held

LEMMA StillCount ==
    ASSUME TypeOK, TypeOK', Balance, UNCHANGED <<wal, dbStatus, calls>>,
           \A s \in Durable : /\ received[s] \subseteq received'[s]
                              /\ pc'[s] = "ack" => pc[s] = "ack"
                              /\ pc[s] \in Holding => pc'[s] \in Holding
    PROVE  Balance'
  <1>1. Acking' \subseteq Acking
    BY DEF Acking
  <1>2. InStep("written")' = InStep("written")
    BY DEF InStep
  <1>3. Held \subseteq Held'
    BY <1>2, HeldKept
  <1>4. DeliveredTo \subseteq DeliveredTo'
    BY DeliveredGrows DEF LogStep
  <1> QED BY <1>1, <1>3, <1>4, QuietCount

\* The pump and the session leave workers and requests alone.
LEMMA PumpCount ==
    ASSUME TypeOK, TypeOK', Balance,
           Connect \/ Receive \/ Keepalive \/ SendStatus \/ Pump \/ UNCHANGED vars
    PROVE  Balance'
  <1>1. UNCHANGED <<wal, dbStatus, calls, received, pc>>
    BY DEF Connect, Receive, Keepalive, SendStatus, Pump, Pull, FanOutSkip, FanOutWaits, FanOutDurable,
       FanOutEphemeral, FanOutEnd, vars, dbVars, sinkVars
  <1> QED BY <1>1, StillCount

\* Workers that take, skip, fail, fall asleep, or are ephemeral.
LEMMA QuietWorkerCount ==
    ASSUME TypeOK, TypeOK', Balance, NEW k \in Sink,
           TakeBatch(k) \/ SkipBatch(k) \/ DeliverFails(k) \/ PauseSettles(k) \/ DeliverOnce(k)
    PROVE  Balance'
  <1> USE DEF dbVars
  <1>0. pc \in [Sink -> WorkerPC] /\ received \in [Sink -> SUBSET Event]
    BY DEF TypeOK, SinksOK, DbOK
  <1>1. UNCHANGED <<wal, dbStatus, calls>>
    BY DEF TakeBatch, SkipBatch, DeliverFails, PauseSettles, DeliverOnce
  <1>2. \A s \in Sink : received[s] \subseteq received'[s]
    BY <1>0 DEF TakeBatch, SkipBatch, DeliverFails, PauseSettles, DeliverOnce
  <1>3. \A s \in Sink \ {k} : pc'[s] = pc[s]
    BY <1>0 DEF TakeBatch, SkipBatch, DeliverFails, PauseSettles, DeliverOnce, Enter
  <1>4. (pc'[k] = "ack" => pc[k] = "ack") /\ (pc[k] \in Holding => pc'[k] \in Holding)
    <2>1. CASE TakeBatch(k) \/ SkipBatch(k)
      BY <1>0, <2>1 DEF TakeBatch, SkipBatch, Enter, Holding, Waiting
    <2>2. CASE DeliverFails(k) \/ PauseSettles(k) \/ DeliverOnce(k)
      BY <1>0, <2>2 DEF DeliverFails, PauseSettles, DeliverOnce, Holding, Waiting
    <2> QED BY <2>1, <2>2
  <1> QED BY <1>1, <1>2, <1>3, <1>4, StillCount

\* A delivery brings an event that is new to the sink, for its checkpoint.
LEMMA DeliverCount ==
    ASSUME TypeOK, TypeOK', Balance, NEW k \in Sink, Deliver(k), NewOK(k)
    PROVE  Balance'
  <1> USE DEF dbVars
  <1>0. /\ k \in Durable /\ pc[k] = "deliver" /\ pc' = [pc EXCEPT ![k] = "ack"]
        /\ received' = [received EXCEPT ![k] = @ \union Deliverable(batch[k])]
        /\ UNCHANGED <<wal, dbStatus, calls>>
    BY DEF Deliver
  <1>1. pc \in [Sink -> WorkerPC] /\ received \in [Sink -> SUBSET Event]
    BY DEF TypeOK, SinksOK, DbOK
  <1>2. Made' = Made /\ InStep("writing")' = InStep("writing") /\ InStep("written")' = InStep("written")
    BY <1>0 DEF Made, InStep
  <1>3. Owed' <= Owed + 1
    <2>1. Acking' \subseteq Acking \union {k}
      BY <1>0, <1>1 DEF Acking
    <2>2. Cardinality(Acking') <= Cardinality(Acking) + 1
      BY <2>1, Counted, AtMostOneMore
    <2>3. /\ Cardinality(Acking) \in Nat /\ Cardinality(Acking') \in Nat
          /\ Cardinality(InStep("writing")) \in Nat /\ Cardinality(InStep("written")) \in Nat
      BY Counted, FS_CardinalityType
    <2> QED BY <1>2, <2>2, <2>3 DEF Owed
  <1>4. Brought + 1 <= Brought'
    <2>1. Held \subseteq Held'
      <3>1. \A s \in Durable : pc[s] \in Holding => pc'[s] \in Holding
        BY <1>0, <1>1 DEF Holding, Waiting
      <3> QED BY <1>0, <1>2, <3>1, HeldKept
    <2>2. PICK e \in Deliverable(batch[k]) : e \notin received[k]
      <3>1. PICK i \in 1..Len(batch[k]) : batch[k][i].event \in Deliverable(batch[k])
        BY DEF Deliver, Deliverable
      <3>2. batch[k][i].event \in Int
        <4>1. batch[k][i] \in Tracked
          BY DEF TypeOK, SinksOK
        <4> QED BY <4>1 DEF Tracked, Event, TypeOK, DbOK
      <3>3. ASSUME batch[k][i].event \in received[k] PROVE FALSE
        <4>1. Above(batch[k], batch[k][i].event)
          BY <1>0, <3>3 DEF NewOK
        <4> QED BY <3>2, <4>1 DEF Above
      <3> QED BY <3>1, <3>3
    <2>3. e \in Event /\ IsUser(e)
      <3>1. PICK i \in 1..Len(batch[k]) : e = batch[k][i].event
        BY DEF Deliverable
      <3>2. batch[k][i] \in Tracked
        BY DEF TypeOK, SinksOK
      <3> QED BY <3>1, <3>2 DEF Tracked, Deliverable
    <2>4. DeliveredTo \subseteq DeliveredTo'
      <3>1. \A s \in Durable : received[s] \subseteq received'[s]
        BY <1>0, <1>1
      <3> QED BY <1>0, <3>1, DeliveredGrows DEF LogStep
    <2>5. <<k, e>> \notin DeliveredTo /\ <<k, e>> \in DeliveredTo'
      <3>1. e \in received'[k] /\ Event' = Event /\ IsUser(e)'
        BY <1>0, <1>1, <2>2, <2>3 DEF Event, IsUser
      <3> QED BY <1>0, <2>2, <2>3, <3>1 DEF DeliveredTo
    <2>6. Cardinality(DeliveredTo) + 1 <= Cardinality(DeliveredTo')
      BY <2>4, <2>5, Counted, OneMore
    <2>7. Cardinality(Held) <= Cardinality(Held')
      BY <2>1, Counted, NotFewer
    <2>8. /\ Cardinality(Held) \in Nat /\ Cardinality(Held') \in Nat
          /\ Cardinality(DeliveredTo) \in Nat /\ Cardinality(DeliveredTo') \in Nat
          /\ Cardinality(Made) \in Nat
      BY Counted, FS_CardinalityType
    <2> QED BY <1>2, <2>6, <2>7, <2>8 DEF Brought
  <1> QED BY <1>0, <1>3, <1>4, Numbers DEF Balance

\* A checkpoint is written for a delivery, and used up with it.
LEMMA AckCount ==
    ASSUME TypeOK, TypeOK', Balance, NEW k \in Sink, AckCheckpoint(k), k \in Durable
    PROVE  Balance'
  <1> USE DEF dbVars
  <1>0. /\ pc[k] = "ack" /\ MetaWrites(1) /\ Enter(k, "take", "waitTop")
        /\ UNCHANGED <<received, dbStatus, calls>>
    BY DEF AckCheckpoint
  <1>1. pc \in [Sink -> WorkerPC]
    BY DEF TypeOK, SinksOK
  <1>2. Made' = Made /\ InStep("writing")' = InStep("writing") /\ InStep("written")' = InStep("written")
    BY <1>0 DEF Made, InStep
  <1>3. (\A s \in Sink \ {k} : pc'[s] = pc[s]) /\ pc'[k] # "ack"
    BY <1>0, <1>1 DEF Enter
  <1>4. Owed' + 1 <= Owed
    <2>1. Acking' \union {k} \subseteq Acking /\ k \notin Acking'
      BY <1>0, <1>3 DEF Acking
    <2>2. Cardinality(Acking') + 1 <= Cardinality(Acking)
      BY <2>1, Counted, OneMore
    <2>3. /\ Cardinality(Acking) \in Nat /\ Cardinality(Acking') \in Nat
          /\ Cardinality(InStep("writing")) \in Nat /\ Cardinality(InStep("written")) \in Nat
      BY Counted, FS_CardinalityType
    <2> QED BY <1>2, <2>2, <2>3 DEF Owed
  <1>5. Brought <= Brought'
    <2>1. Held \subseteq Held'
      <3>1. \A s \in Durable : pc[s] \in Holding => pc'[s] \in Holding
        BY <1>0, <1>3 DEF Holding, Waiting
      <3> QED BY <1>0, <1>2, <3>1, HeldKept
    <2>2. DeliveredTo \subseteq DeliveredTo'
      BY <1>0, DeliveredGrows DEF LogStep
    <2>3. /\ Cardinality(Held) <= Cardinality(Held')
          /\ Cardinality(DeliveredTo) <= Cardinality(DeliveredTo')
      BY <2>1, <2>2, Counted, NotFewer
    <2>4. /\ Cardinality(Held) \in Nat /\ Cardinality(Held') \in Nat
          /\ Cardinality(DeliveredTo) \in Nat /\ Cardinality(DeliveredTo') \in Nat
          /\ Cardinality(Made) \in Nat
      BY Counted, FS_CardinalityType
    <2> QED BY <1>2, <2>3, <2>4 DEF Brought
  <1>6. Len(wal') <= Len(wal) + 1
    BY <1>0, OneWrite DEF TypeOK
  <1> QED BY <1>4, <1>5, <1>6, Numbers DEF Balance

\* A worker that gives up writes once, and is held from then on.
LEMMA PauseCount ==
    ASSUME TypeOK, TypeOK', Balance, NEW k \in Durable, PauseCommits(k)
    PROVE  Balance'
  <1>0. /\ pc[k] = "pausing" /\ MetaWrites(1) /\ pc' = [pc EXCEPT ![k] = "pauseWritten"]
        /\ dbStatus' = [dbStatus EXCEPT ![k] = "paused"] /\ UNCHANGED <<received, calls>>
    BY DEF PauseCommits
  <1>1. pc \in [Sink -> WorkerPC] /\ dbStatus \in [Sink -> Status] /\ k \in Sink
    BY DEF TypeOK, SinksOK, DbOK
  <1>2. Made' = Made /\ InStep("writing")' = InStep("writing") /\ InStep("written")' = InStep("written")
    BY <1>0 DEF Made, InStep
  <1>3. Owed' <= Owed
    <2>1. Acking' \subseteq Acking
      BY <1>0, <1>1 DEF Acking
    <2>2. Cardinality(Acking') <= Cardinality(Acking)
      BY <2>1, Counted, NotFewer
    <2>3. /\ Cardinality(Acking) \in Nat /\ Cardinality(Acking') \in Nat
          /\ Cardinality(InStep("writing")) \in Nat /\ Cardinality(InStep("written")) \in Nat
      BY Counted, FS_CardinalityType
    <2> QED BY <1>2, <2>2, <2>3 DEF Owed
  <1>4. Brought + 1 <= Brought'
    <2>1. Held \subseteq Held'
      <3>1. /\ \A s \in Durable : pc[s] \in Holding => pc'[s] \in Holding
            /\ \A s \in Durable : dbStatus[s] = "paused" => dbStatus'[s] = "paused"
        BY <1>0, <1>1 DEF Holding
      <3> QED BY <1>0, <1>2, <3>1, HeldKept
    <2>2. k \notin Held /\ k \in Held'
      BY <1>0, <1>1 DEF Held, Holding, Waiting
    <2>3. DeliveredTo \subseteq DeliveredTo'
      BY <1>0, DeliveredGrows DEF LogStep
    <2>4. Cardinality(Held) + 1 <= Cardinality(Held')
      BY <2>1, <2>2, Counted, OneMore
    <2>5. Cardinality(DeliveredTo) <= Cardinality(DeliveredTo')
      BY <2>3, Counted, NotFewer
    <2>6. /\ Cardinality(Held) \in Nat /\ Cardinality(Held') \in Nat
          /\ Cardinality(DeliveredTo) \in Nat /\ Cardinality(DeliveredTo') \in Nat
          /\ Cardinality(Made) \in Nat
      BY Counted, FS_CardinalityType
    <2> QED BY <1>2, <2>4, <2>5, <2>6 DEF Brought
  <1>5. Len(wal') <= Len(wal) + 1
    BY <1>0, OneWrite DEF TypeOK
  <1> QED BY <1>3, <1>4, <1>5, Numbers DEF Balance

\* A request brings two: for its own write, and for the sleep it ends.
LEMMA CallStartsCount ==
    ASSUME TypeOK, TypeOK', Balance, NEW c \in 1..MaxCalls, CallStarts(c)
    PROVE  Balance'
  <1> USE DEF dbVars
  <1>0. calls[c] = Unused /\ UNCHANGED <<wal, received, pc, dbStatus>>
    BY DEF CallStarts
  <1>1. PICK s \in Sink, op \in {"pause", "resume"} :
            calls' = [calls EXCEPT ![c] = [op |-> op, sink |-> s, step |-> "writing"]]
    BY DEF CallStarts
  <1>2. /\ calls'[c].step = "writing" /\ calls[c].step = "unused"
        /\ \A d \in (1..MaxCalls) \ {c} : calls'[d] = calls[d]
    BY <1>0, <1>1 DEF TypeOK, ControlOK, Unused
  <1>3. InStep("written")' = InStep("written") /\ Acking' = Acking
    BY <1>0, <1>2 DEF InStep, Acking
  <1>4. Owed' <= Owed + 2
    <2>1. InStep("writing")' \subseteq InStep("writing") \union {c}
      BY <1>2 DEF InStep
    <2>2. Cardinality(InStep("writing")') <= Cardinality(InStep("writing")) + 1
      BY <2>1, Counted, AtMostOneMore
    <2>3. /\ Cardinality(InStep("writing")) \in Nat /\ Cardinality(InStep("writing")') \in Nat
          /\ Cardinality(Acking) \in Nat /\ Cardinality(InStep("written")) \in Nat
      BY Counted, FS_CardinalityType
    <2> QED BY <1>3, <2>2, <2>3 DEF Owed
  <1>5. Brought + 2 <= Brought'
    <2>1. Held \subseteq Held'
      <3>1. \A d \in InStep("written") : calls'[d].sink = calls[d].sink
        BY <1>2 DEF InStep
      <3> QED BY <1>0, <1>3, <3>1, HeldKept
    <2>2. DeliveredTo \subseteq DeliveredTo'
      BY <1>0, DeliveredGrows DEF LogStep
    <2>3. Made \union {c} \subseteq Made' /\ c \notin Made
      BY <1>0, <1>2 DEF Made, Unused
    <2>4. Cardinality(Made) + 1 <= Cardinality(Made')
      BY <2>3, Counted, OneMore
    <2>5. /\ Cardinality(Held) <= Cardinality(Held')
          /\ Cardinality(DeliveredTo) <= Cardinality(DeliveredTo')
      BY <2>1, <2>2, Counted, NotFewer
    <2>6. /\ Cardinality(Held) \in Nat /\ Cardinality(Held') \in Nat
          /\ Cardinality(DeliveredTo) \in Nat /\ Cardinality(DeliveredTo') \in Nat
          /\ Cardinality(Made) \in Nat /\ Cardinality(Made') \in Nat
      BY Counted, FS_CardinalityType
    <2> QED BY <2>4, <2>5, <2>6 DEF Brought
  <1> QED BY <1>0, <1>4, <1>5, Numbers DEF Balance

\* A request that goes on leaves what it has brought.
LEMMA StaysMade ==
    ASSUME TypeOK, NEW c \in 1..MaxCalls, calls[c] # Unused, NEW step,
           step \in {"written", "done", "failed"}, calls' = [calls EXCEPT ![c].step = step]
    PROVE  /\ calls'[c].step = step /\ calls'[c].sink = calls[c].sink
           /\ \A d \in (1..MaxCalls) \ {c} : calls'[d] = calls[d]
           /\ Made \subseteq Made'
  <1>1. calls \in [1..MaxCalls -> Call \union {Unused}] /\ calls[c] \in Call
    BY DEF TypeOK, ControlOK
  <1>2. calls'[c].step = step /\ calls'[c].sink = calls[c].sink
    BY <1>1 DEF Call
  <1>3. \A d \in (1..MaxCalls) \ {c} : calls'[d] = calls[d]
    BY <1>1
  <1>4. calls'[c] # Unused
    BY <1>2 DEF Unused
  <1> QED BY <1>2, <1>3, <1>4 DEF Made

\* What a write by a request does to the balance.
LEMMA CallCommitsCount ==
    ASSUME TypeOK, TypeOK', Balance, NEW c \in 1..MaxCalls, CallCommits(c)
    PROVE  Balance'
  <1> DEFINE k == calls[c].sink
             isPause == calls[c].op = "pause"
             next == IF isPause THEN "done" ELSE "written"
  <1>0. /\ calls[c].step = "writing" /\ calls' = [calls EXCEPT ![c].step = next]
        /\ UNCHANGED <<received, pc>>
    BY DEF CallCommits, sinkVars
  <1>1. /\ k \in Durable => /\ dbStatus' = [dbStatus EXCEPT ![k] = IF isPause THEN "paused" ELSE "running"]
                            /\ MetaWrites(1)
        /\ k \notin Durable => UNCHANGED <<dbStatus, wal>>
    BY DEF CallCommits
  <1>2. calls[c] # Unused /\ next \in {"written", "done", "failed"}
    BY <1>0 DEF Unused
  <1>3. /\ calls'[c].step = next /\ calls'[c].sink = k
        /\ \A d \in (1..MaxCalls) \ {c} : calls'[d] = calls[d]
        /\ Made \subseteq Made'
    BY <1>0, <1>2, StaysMade
  <1>4. dbStatus \in [Sink -> Status]
    BY DEF TypeOK, DbOK
  <1>5. LogStep
    BY <1>1 DEF LogStep
  <1> HIDE DEF k
  <1>6. Owed' + 1 <= Owed
    <2>1. InStep("writing")' \union {c} \subseteq InStep("writing") /\ c \notin InStep("writing")'
      BY <1>0, <1>3 DEF InStep
    <2>2. Cardinality(InStep("writing")') + 1 <= Cardinality(InStep("writing"))
      BY <2>1, Counted, OneMore
    <2>3. InStep("written")' \subseteq InStep("written") \union {c}
      BY <1>3 DEF InStep
    <2>4. Cardinality(InStep("written")') <= Cardinality(InStep("written")) + 1
      BY <2>3, Counted, AtMostOneMore
    <2>5. Acking' = Acking
      BY <1>0 DEF Acking
    <2>6. /\ Cardinality(InStep("writing")) \in Nat /\ Cardinality(InStep("writing")') \in Nat
          /\ Cardinality(InStep("written")) \in Nat /\ Cardinality(InStep("written")') \in Nat
          /\ Cardinality(Acking) \in Nat
      BY Counted, FS_CardinalityType
    <2> QED BY <2>2, <2>4, <2>5, <2>6 DEF Owed
  <1>7. Held \subseteq Held'
    <2> SUFFICES ASSUME NEW s \in Held PROVE s \in Held'
      OBVIOUS
    <2>1. s \in Durable /\ s \in Sink /\ pc'[s] \in Holding
      BY <1>0 DEF Held
    <2>2. CASE dbStatus'[s] = "paused"
      BY <2>1, <2>2 DEF Held
    <2>3. ASSUME NEW d \in InStep("written"), calls[d].sink = s PROVE s \in Held'
      <3>1. d \in (1..MaxCalls) \ {c}
        BY <1>0 DEF InStep
      <3>2. d \in InStep("written")' /\ calls'[d].sink = s
        BY <1>3, <2>3, <3>1 DEF InStep
      <3> QED BY <2>1, <3>2 DEF Held
    <2>4. CASE dbStatus'[s] # "paused" /\ dbStatus[s] = "paused"
      <3>1. s = k /\ ~isPause
        BY <1>1, <1>4, <2>1, <2>4
      <3>2. c \in InStep("written")' /\ calls'[c].sink = s
        BY <1>3, <3>1 DEF InStep
      <3> QED BY <2>1, <3>2 DEF Held
    <2> QED BY <2>2, <2>3, <2>4 DEF Held
  <1>8. Brought <= Brought'
    <2>1. DeliveredTo \subseteq DeliveredTo'
      BY <1>0, <1>5, DeliveredGrows
    <2>2. /\ Cardinality(Held) <= Cardinality(Held')
          /\ Cardinality(DeliveredTo) <= Cardinality(DeliveredTo')
          /\ Cardinality(Made) <= Cardinality(Made')
      BY <1>3, <1>7, <2>1, Counted, NotFewer
    <2>3. /\ Cardinality(Held) \in Nat /\ Cardinality(Held') \in Nat
          /\ Cardinality(DeliveredTo) \in Nat /\ Cardinality(DeliveredTo') \in Nat
          /\ Cardinality(Made) \in Nat /\ Cardinality(Made') \in Nat
      BY Counted, FS_CardinalityType
    <2> QED BY <2>2, <2>3 DEF Brought
  <1>9. Len(wal') <= Len(wal) + 1
    <2>1. CASE k \in Durable
      BY <1>1, <2>1, OneWrite DEF TypeOK
    <2>2. CASE k \notin Durable
      BY <1>1, <2>2, Numbers
    <2> QED BY <2>1, <2>2
  <1> QED BY <1>6, <1>8, <1>9, Numbers DEF Balance

\* A request whose write is refused, or that wakes its worker, is over; the
\* worker it wakes may sleep no longer.
LEMMA CallFailsCount ==
    ASSUME TypeOK, TypeOK', Balance, NEW c \in 1..MaxCalls, CallFails(c)
    PROVE  Balance'
  <1> USE DEF dbVars, sinkVars
  <1>0. /\ calls[c].step = "writing" /\ calls' = [calls EXCEPT ![c].step = "failed"]
        /\ UNCHANGED <<wal, dbStatus, received, pc>>
    BY DEF CallFails
  <1>1. calls[c] # Unused
    BY <1>0 DEF Unused
  <1>2. /\ calls'[c].step = "failed"
        /\ \A d \in (1..MaxCalls) \ {c} : calls'[d] = calls[d]
        /\ Made \subseteq Made'
    BY <1>0, <1>1, StaysMade
  <1>3. /\ InStep("writing")' \subseteq InStep("writing")
        /\ InStep("written")' = InStep("written") /\ Acking' = Acking
    BY <1>0, <1>2 DEF InStep, Acking
  <1>4. Held \subseteq Held'
    <2>1. \A d \in InStep("written") : calls'[d].sink = calls[d].sink
      BY <1>0, <1>2 DEF InStep
    <2> QED BY <1>0, <1>3, <2>1, HeldKept
  <1>5. DeliveredTo \subseteq DeliveredTo'
    BY <1>0, DeliveredGrows DEF LogStep
  <1>6. /\ Cardinality(InStep("writing")') <= Cardinality(InStep("writing"))
        /\ Cardinality(Held) <= Cardinality(Held')
        /\ Cardinality(DeliveredTo) <= Cardinality(DeliveredTo')
        /\ Cardinality(Made) <= Cardinality(Made')
    BY <1>2, <1>3, <1>4, <1>5, Counted, NotFewer
  <1>7. Owed' <= Owed
    <2>1. /\ Cardinality(InStep("writing")) \in Nat /\ Cardinality(InStep("writing")') \in Nat
          /\ Cardinality(InStep("written")) \in Nat /\ Cardinality(Acking) \in Nat
      BY Counted, FS_CardinalityType
    <2> QED BY <1>3, <1>6, <2>1 DEF Owed
  <1>8. Brought <= Brought'
    <2>1. /\ Cardinality(Held) \in Nat /\ Cardinality(Held') \in Nat
          /\ Cardinality(DeliveredTo) \in Nat /\ Cardinality(DeliveredTo') \in Nat
          /\ Cardinality(Made) \in Nat /\ Cardinality(Made') \in Nat
      BY Counted, FS_CardinalityType
    <2> QED BY <1>6, <2>1 DEF Brought
  <1>9. Len(wal') = Len(wal)
    BY <1>0
  <1>10. /\ Owed \in Nat /\ Owed' \in Nat /\ Brought \in Nat /\ Brought' \in Nat
         /\ Len(wal) \in Nat /\ Len(InitialWal) \in Nat
    BY Numbers
  <1> QED BY <1>7, <1>8, <1>9, <1>10 DEF Balance

LEMMA ResumeCallsCount ==
    ASSUME TypeOK, TypeOK', Balance, NEW c \in 1..MaxCalls, ResumeCalls(c)
    PROVE  Balance'
  <1> USE DEF dbVars
  <1> DEFINE k == calls[c].sink
  <1>0. /\ calls[c].step = "written" /\ calls' = [calls EXCEPT ![c].step = "done"]
        /\ UNCHANGED <<wal, dbStatus, received>>
    BY DEF ResumeCalls
  <1>1. calls[c] # Unused
    BY <1>0 DEF Unused
  <1>2. /\ calls'[c].step = "done"
        /\ \A d \in (1..MaxCalls) \ {c} : calls'[d] = calls[d]
        /\ Made \subseteq Made'
    BY <1>0, <1>1, StaysMade
  <1>3. /\ \A s \in Sink \ {k} : pc'[s] = pc[s]
        /\ \A s \in Sink : pc'[s] = "ack" => pc[s] = "ack"
    <2>0. pc \in [Sink -> WorkerPC]
      BY DEF TypeOK, SinksOK
    <2>1. CASE resume[k]
      <3>1. Wake(k)
        BY <2>1 DEF ResumeCalls
      <3>2. \E p \in {"take", "deliver", "waitTop", "waitHold"} : pc' = [pc EXCEPT ![k] = p]
        <4> HIDE DEF k
        <4>1. CASE pc[k] = "waitTop"
          BY <3>1, <4>1 DEF Wake, Enter
        <4>2. CASE pc[k] = "waitHold"
          BY <3>1, <4>2 DEF Wake, Enter
        <4>3. CASE pc[k] # "waitTop" /\ pc[k] # "waitHold"
          BY <3>1, <4>3 DEF Wake
        <4> QED BY <4>1, <4>2, <4>3
      <3> HIDE DEF k
      <3> QED BY <2>0, <3>2
    <2>2. CASE ~resume[k]
      BY <2>2 DEF ResumeCalls
    <2> QED BY <2>1, <2>2
  <1> HIDE DEF k
  <1>4. /\ InStep("writing")' = InStep("writing") /\ Acking' \subseteq Acking
        /\ InStep("written")' \union {c} \subseteq InStep("written") /\ c \notin InStep("written")'
    BY <1>0, <1>2, <1>3 DEF InStep, Acking
  <1>5. Owed' + 1 <= Owed
    <2>1. Cardinality(InStep("written")') + 1 <= Cardinality(InStep("written"))
      BY <1>4, Counted, OneMore
    <2>2. Cardinality(Acking') <= Cardinality(Acking)
      BY <1>4, Counted, NotFewer
    <2>3. /\ Cardinality(InStep("written")) \in Nat /\ Cardinality(InStep("written")') \in Nat
          /\ Cardinality(InStep("writing")) \in Nat
          /\ Cardinality(Acking) \in Nat /\ Cardinality(Acking') \in Nat
      BY Counted, FS_CardinalityType
    <2> QED BY <1>4, <2>1, <2>2, <2>3 DEF Owed
  <1>6. Held \subseteq Held' \union {k}
    <2> SUFFICES ASSUME NEW s \in Held, s # k PROVE s \in Held'
      OBVIOUS
    <2>1. s \in Durable /\ pc'[s] \in Holding
      BY <1>3 DEF Held
    <2>2. ASSUME NEW d \in InStep("written"), calls[d].sink = s
          PROVE  d \in InStep("written")' /\ calls'[d].sink = s
      <3>1. d \in (1..MaxCalls) \ {c}
        BY <2>2 DEF InStep, k
      <3> QED BY <1>2, <2>2, <3>1 DEF InStep
    <2> QED BY <1>0, <2>1, <2>2 DEF Held
  <1>7. Brought <= Brought' + 1
    <2>1. DeliveredTo \subseteq DeliveredTo'
      BY <1>0, DeliveredGrows DEF LogStep
    <2>2. Cardinality(Held) <= Cardinality(Held') + 1
      BY <1>6, Counted, AtMostOneMore
    <2>3. /\ Cardinality(DeliveredTo) <= Cardinality(DeliveredTo')
          /\ Cardinality(Made) <= Cardinality(Made')
      BY <1>2, <2>1, Counted, NotFewer
    <2>4. /\ Cardinality(Held) \in Nat /\ Cardinality(Held') \in Nat
          /\ Cardinality(DeliveredTo) \in Nat /\ Cardinality(DeliveredTo') \in Nat
          /\ Cardinality(Made) \in Nat /\ Cardinality(Made') \in Nat
      BY Counted, FS_CardinalityType
    <2> QED BY <2>2, <2>3, <2>4 DEF Brought
  <1>8. Len(wal') = Len(wal)
    BY <1>0
  <1>9. /\ Owed \in Nat /\ Owed' \in Nat /\ Brought \in Nat /\ Brought' \in Nat
        /\ Len(wal) \in Nat /\ Len(InitialWal) \in Nat
    BY Numbers
  <1>10. Len(wal) + Owed <= Len(InitialWal) + Brought
    BY DEF Balance
  <1>11. Len(wal) + Owed' <= Len(InitialWal) + Brought'
    <2> DEFINE l == Len(wal)
               i == Len(InitialWal)
               o == Owed
               p == Owed'
               b == Brought
               e == Brought'
    <2>1. /\ l \in Nat /\ i \in Nat /\ o \in Nat /\ p \in Nat /\ b \in Nat /\ e \in Nat
          /\ l + o <= i + b /\ p + 1 <= o /\ b <= e + 1
      BY <1>5, <1>7, <1>9, <1>10
    <2> HIDE DEF l, i, o, p, b, e
    <2>2. l + p <= i + e
      BY <2>1
    <2> QED BY <2>2 DEF l, i, p, e
  <1> QED BY <1>8, <1>11 DEF Balance

\* Only the worker of a durable sink writes.
OnlyDurablesWrite == \A s \in Sink \ Durable : pc[s] \notin {"ack", "pausing"}

LEMMA StartsWriting ==
    ASSUME TypeOK, [Next]_vars, NEW s \in Sink, pc'[s] \in {"ack", "pausing"}
    PROVE  s \in Durable \/ pc[s] \in {"ack", "pausing"}
  <1> USE DEF dbVars, streamVars, pumpVars, sinkVars, faultVars
  <1>0. pc \in [Sink -> WorkerPC]
    BY DEF TypeOK, SinksOK
  <1>1. CASE UNCHANGED pc
    BY <1>1
  <1>2. CASE Connect \/ Receive \/ Keepalive \/ SendStatus \/ Disconnect
    BY <1>1, <1>2 DEF Connect, Receive, Keepalive, SendStatus, Disconnect
  <1>3. CASE Pump
    BY <1>1, <1>3 DEF Pump, Pull, FanOutSkip, FanOutWaits, FanOutDurable, FanOutEphemeral, FanOutEnd
  <1>4. ASSUME NEW k \in Sink, Worker(k) PROVE s \in Durable \/ pc[s] \in {"ack", "pausing"}
    <2>1. CASE TakeBatch(k) \/ SkipBatch(k) \/ AckCheckpoint(k)
      BY <1>0, <2>1 DEF TakeBatch, SkipBatch, AckCheckpoint, Enter
    <2>2. CASE Deliver(k) \/ DeliverFails(k)
      BY <1>0, <2>2 DEF Deliver, DeliverFails
    <2>3. CASE PauseCommits(k) \/ PauseSettles(k) \/ DeliverOnce(k)
      BY <1>0, <2>3 DEF PauseCommits, PauseSettles, DeliverOnce
    <2> QED BY <1>4, <2>1, <2>2, <2>3 DEF Worker
  <1>5. ASSUME NEW c \in 1..MaxCalls, CallStarts(c) \/ Request(c)
        PROVE  s \in Durable \/ pc[s] \in {"ack", "pausing"}
    <2>1. CASE CallStarts(c) \/ CallCommits(c) \/ CallFails(c)
      BY <1>1, <2>1 DEF CallStarts, CallCommits, CallFails
    <2>2. CASE ResumeCalls(c)
      <3>1. pc'[s] = pc[s] \/ pc'[s] \in {"take", "deliver", "waitTop", "waitHold"}
        BY <1>0, <2>2 DEF ResumeCalls, Wake, Enter
      <3> QED BY <3>1
    <2> QED BY <1>5, <2>1, <2>2 DEF Request
  <1>6. CASE Crash
    BY <1>6 DEF Crash, StartPC
  <1>7. CASE UNCHANGED vars
    BY <1>1, <1>7 DEF vars
  <1> QED BY <1>2, <1>3, <1>4, <1>5, <1>6, <1>7 DEF Next

LEMMA NextWrites == TypeOK /\ OnlyDurablesWrite /\ [Next]_vars => OnlyDurablesWrite'
  BY StartsWriting DEF OnlyDurablesWrite

LEMMA NextCount ==
    ASSUME TypeOK, TypeOK', NewInv, OnlyDurablesWrite, CountInv, [Next]_vars
    PROVE  CountInv'
  <1> SUFFICES ASSUME FirstLife' PROVE Balance'
    BY DEF CountInv
  <1>0. ~Disconnect /\ ~Crash /\ Balance /\ \A s \in Durable : NewOK(s)
    BY StillFirst DEF NewInv, CountInv
  <1>1. CASE Connect \/ Receive \/ Keepalive \/ SendStatus \/ Pump \/ UNCHANGED vars
    BY <1>0, <1>1, PumpCount
  <1>2. ASSUME NEW k \in Sink, Worker(k) PROVE Balance'
    <2>1. CASE TakeBatch(k) \/ SkipBatch(k) \/ DeliverFails(k) \/ PauseSettles(k) \/ DeliverOnce(k)
      BY <1>0, <2>1, QuietWorkerCount
    <2>2. CASE Deliver(k)
      BY <1>0, <2>2, DeliverCount DEF Deliver
    <2>3. CASE AckCheckpoint(k)
      <3>1. k \in Durable
        BY <2>3 DEF AckCheckpoint, OnlyDurablesWrite
      <3> QED BY <1>0, <2>3, <3>1, AckCount
    <2>4. CASE PauseCommits(k)
      <3>1. k \in Durable
        BY <2>4 DEF PauseCommits, OnlyDurablesWrite
      <3> QED BY <1>0, <2>4, <3>1, PauseCount
    <2> QED BY <1>2, <2>1, <2>2, <2>3, <2>4 DEF Worker
  <1>3. ASSUME NEW c \in 1..MaxCalls, CallStarts(c) \/ Request(c) PROVE Balance'
    BY <1>0, <1>3, CallStartsCount, CallCommitsCount, CallFailsCount, ResumeCallsCount DEF Request
  <1> QED BY <1>0, <1>1, <1>2, <1>3 DEF Next

LEMMA InitCount == Init => NewInv /\ OnlyDurablesWrite /\ CountInv
  <1> SUFFICES ASSUME Init PROVE NewInv /\ OnlyDurablesWrite /\ CountInv
    OBVIOUS
  <1>1. NewInv
    BY DEF Init, PerSink, NewInv, NewOK, Sink
  <1>2. OnlyDurablesWrite
    BY DEF Init, PerSink, OnlyDurablesWrite
  <1>3. Acking = {} /\ InStep("writing") = {} /\ InStep("written") = {}
    BY DEF Init, PerSink, Acking, InStep, Unused, Sink
  <1>4. Owed = 0
    <2>1. Cardinality({}) = 0
      BY FS_EmptySet
    <2>2. /\ Cardinality(Acking) = 0 /\ Cardinality(InStep("writing")) = 0
          /\ Cardinality(InStep("written")) = 0
      BY <1>3, <2>1
    <2> QED BY <2>2 DEF Owed
  <1>5. DeliveredTo = {} /\ Held = {} /\ Made = {}
    BY DEF Init, PerSink, DeliveredTo, Held, Holding, Waiting, Made, Sink
  <1>6. Brought = 0
    BY <1>5, FS_EmptySet DEF Brought
  <1>7. Len(wal) = Len(InitialWal) /\ Len(InitialWal) \in Nat
    BY DEF Init
  <1> QED BY <1>1, <1>2, <1>4, <1>6, <1>7 DEF CountInv, Balance

\* A held sink is paid for by its row, or by the request that will wake it.
LEMMA HeldAccounted ==
    ASSUME TypeOK
    PROVE  Cardinality(Held) <= Cardinality(PausedRows) + Cardinality(InStep("written"))
  <1> DEFINE W == InStep("written")
             R == {calls[c].sink : c \in W}
             f == [c \in W |-> calls[c].sink]
  <1>1. IsFiniteSet(PausedRows) /\ IsFiniteSet(W)
    <2>1. PausedRows \subseteq Durable /\ W \subseteq 1..MaxCalls
      BY DEF PausedRows, InStep
    <2> QED BY <2>1, FiniteSinks, FiniteCalls
  <1>2. f \in Surjection(W, R)
    BY DEF Surjection
  <1>3. IsFiniteSet(R) /\ Cardinality(R) <= Cardinality(W)
    BY <1>1, <1>2, FS_Surjection
  <1>4. Held \subseteq PausedRows \union R
    BY DEF Held, PausedRows
  <1> HIDE DEF W, R, f
  <1>5. /\ IsFiniteSet(PausedRows \union R)
        /\ Cardinality(PausedRows \union R)
             = Cardinality(PausedRows) + Cardinality(R) - Cardinality(PausedRows \cap R)
    BY <1>1, <1>3, FS_Union
  <1>6. Cardinality(Held) <= Cardinality(PausedRows \union R) /\ Cardinality(Held) \in Nat
    BY <1>4, <1>5, NotFewer
  <1>7. IsFiniteSet(PausedRows \cap R)
    BY <1>1, FS_Subset
  <1>8. /\ Cardinality(PausedRows) \in Nat /\ Cardinality(R) \in Nat
        /\ Cardinality(W) \in Nat /\ Cardinality(PausedRows \cap R) \in Nat
    BY <1>1, <1>3, <1>7, FS_CardinalityType
  <1>9. Cardinality(PausedRows \union R) \in Nat
    BY <1>5, FS_CardinalityType
  <1>10. Cardinality(Held) <= Cardinality(PausedRows) + Cardinality(W)
    BY <1>3, <1>5, <1>6, <1>8, <1>9
  <1> QED BY <1>10 DEF W

LEMMA BalanceAccounts ==
    ASSUME TypeOK, Balance
    PROVE  Len(wal) - Len(InitialWal)
             <= Cardinality(DeliveredTo) + Cardinality(PausedRows) + 2 * Cardinality(Made)
  <1> DEFINE a == Cardinality(Acking)
             b == Cardinality(InStep("writing"))
             w == Cardinality(InStep("written"))
             d == Cardinality(DeliveredTo)
             h == Cardinality(Held)
             m == Cardinality(Made)
             p == Cardinality(PausedRows)
  <1>1. Len(wal) \in Nat /\ Len(InitialWal) \in Nat
    BY DEF TypeOK, DbOK
  <1>2. /\ Acking \subseteq Durable /\ Held \subseteq Durable /\ PausedRows \subseteq Durable
        /\ Made \subseteq 1..MaxCalls /\ InStep("writing") \subseteq 1..MaxCalls
        /\ InStep("written") \subseteq 1..MaxCalls
        /\ DeliveredTo \subseteq Durable \X (1..Len(wal))
    BY DEF Acking, Held, PausedRows, Made, InStep, DeliveredTo, Event
  <1>3. /\ IsFiniteSet(Acking) /\ IsFiniteSet(Held) /\ IsFiniteSet(PausedRows)
        /\ IsFiniteSet(Made) /\ IsFiniteSet(InStep("writing")) /\ IsFiniteSet(InStep("written"))
        /\ IsFiniteSet(DeliveredTo)
    BY <1>1, <1>2, FiniteSinks, FiniteCalls, FinitePairs
  <1>4. a \in Nat /\ b \in Nat /\ w \in Nat /\ d \in Nat /\ h \in Nat /\ m \in Nat /\ p \in Nat
    BY <1>3, FS_CardinalityType
  <1>5. h <= p + w
    BY HeldAccounted
  <1>6. Len(wal) + (a + 2 * b + w) <= Len(InitialWal) + (d + h + 2 * m)
    BY DEF Balance, Owed, Brought
  <1> HIDE DEF a, b, w, d, h, m, p
  <1>7. Len(wal) - Len(InitialWal) <= d + p + 2 * m
    BY <1>1, <1>4, <1>5, <1>6
  <1> QED BY <1>7 DEF d, p, m

(* engine.ts:318: the writes to walcast.sinks that come back as published   *)
(* metadata cause no write of their own.  While the first process lives and *)
(* keeps its session there are at most as many as the user events it has    *)
(* delivered, the rows that say paused, and two for each request, however   *)
(* many sinks, retries, pauses and events there are.                        *)
THEOREM MetaWritesAreAccounted == Spec => []MetaWritesAccounted
  <1>1. TypeOK /\ CountInv => MetaWritesAccounted
    <2> SUFFICES ASSUME TypeOK, CountInv, crashes = 0, disconnects = 0
                 PROVE  Len(wal) - Len(InitialWal)
                          <= Cardinality(DeliveredTo) + Cardinality(PausedRows)
                             + 2 * Cardinality(Made)
      BY DEF MetaWritesAccounted, DeliveredTo, PausedRows, Made
    <2>1. Balance
      BY DEF CountInv, FirstLife
    <2> QED BY <2>1, BalanceAccounts
  <1>2. TypeOK /\ TypeOK' /\ SafeInv /\ NewInv /\ OnlyDurablesWrite /\ CountInv /\ [Next]_vars
        => NewInv' /\ OnlyDurablesWrite' /\ CountInv'
    BY NextNew, NextWrites, NextCount
  <1> QED BY <1>1, <1>2, InitCount, InitType, NextType, InitSafe, NextSafe, PTL DEF Spec
===============================================================================
