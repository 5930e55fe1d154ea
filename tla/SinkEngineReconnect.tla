-------------------------- MODULE SinkEngineReconnect --------------------------
(***************************************************************************)
(* The safety of the sink engine across lost replication connections, for   *)
(* one durable sink and any number of ephemeral ones, every log and bound,  *)
(* with process deaths, failing deliveries, pauses and metadata events.     *)
(*                                                                          *)
(* After a reconnect the line of a sink holds copies of two sessions, so    *)
(* neither is it in order nor do numbers and positions differ by a          *)
(* constant, on which SinkEngineProofs rests.  What remains true is said of *)
(* one event that the sink misses: nothing in the line stands past it       *)
(* unless it stands before, and no position that stands for "all up to      *)
(* here" has reached it.  With two durable sinks the least of their numbers *)
(* may belong to a copy of the other session, which is finding 1: hence     *)
(* OneDurable.  For any number of them, the last part proves that such an   *)
(* event is still in the memory of the sink that misses it, so that it      *)
(* takes a process death to lose it.                                        *)
(***************************************************************************)
EXTENDS SinkEngineProofs

USE ConfigAssumption, BudgetAssumption

OneDurable == \A s, t \in Durable : s = t

\* The user events of the log that s has not acknowledged.
Missing(s) == {e \in Event : IsUser(e) /\ e \notin received[s]}

\* Is event e among the first n items of q?
Among(q, e, n) == \E j \in 1..n : q[j].event = e

\* Where e is as long as s misses it: before whatever stands past it.
Awaited(s, e) ==
    /\ \A i \in 1..Len(batch[s]) : e <= batch[s][i].event => Among(batch[s], e, i)
    /\ \A i \in 1..Len(queue[s]) :
          e <= queue[s][i].event
          => Among(batch[s], e, Len(batch[s])) \/ Among(queue[s], e, i)
    /\ e <= Handled(s) => \/ Among(batch[s], e, Len(batch[s]))
                          \/ Among(queue[s], e, Len(queue[s]))
    /\ pc[s] = "ack" => ~Among(batch[s], e, Len(batch[s]))

\* No position has reached e.
Unreleased(s, e) ==
    /\ e > confirmed /\ e > flushed /\ e > ckpt[s] /\ e > ackedEventId[s]
    /\ e <= sent => e \in outstanding
    /\ deliveredSeq[s] \in DOMAIN bySeq => e > bySeq[deliveredSeq[s]]

\* The number of item t, as long as bySeq has it, is that of its event.
Named(t) == t.seq \in DOMAIN bySeq => bySeq[t.seq] = t.event

NamesOK(s) ==
    /\ \A i \in 1..Len(batch[s]) : Named(batch[s][i])
    /\ \A i \in 1..Len(queue[s]) : Named(queue[s][i])
    /\ at # 0 /\ seq \in DOMAIN bySeq => bySeq[seq] = pulled

MissingOK(s) == \A e \in Missing(s) : Awaited(s, e) /\ Unreleased(s, e)

ReconnectInv == \A s \in Durable : NamesOK(s) /\ MissingOK(s)

-----------------------------------------------------------------------------
(* What a step leaves as it is. *)

\* No step makes a delivered event a missing one.
LEMMA MissingShrinks ==
    ASSUME TypeOK, LogStep, NEW s \in Sink, received[s] \subseteq received'[s]
    PROVE  Missing(s)' \subseteq Missing(s)
  <1> SUFFICES ASSUME NEW e \in 1..Len(wal'), ~wal'[e].meta, e \notin received'[s]
               PROVE  e \in 1..Len(wal) /\ ~wal[e].meta /\ e \notin received[s]
    BY DEF Missing, Event, IsUser
  <1> QED BY NewAreMeta DEF TypeOK

\* What the types say of numbers and lines.
LEMMA Kinds ==
    ASSUME TypeOK
    PROVE  /\ pulled \in Nat /\ seq \in Nat /\ sent \in Nat /\ pulled <= sent
           /\ Len(wal) \in Nat /\ confirmed \in 0..Len(wal) /\ flushed \in Nat
           /\ at \in Nat /\ (at # 0 => pulled \in Event /\ seq \in 1..seq)
           /\ Event \subseteq Nat
           /\ DOMAIN bySeq \subseteq 1..seq
           /\ \A q \in DOMAIN bySeq : bySeq[q] \in Event
           /\ \A s \in Sink :
                 /\ s \in Nat /\ Handled(s) \in Int
                 /\ ckpt[s] \in Nat /\ ackedEventId[s] \in Nat
                 /\ deliveredSeq[s] \in 0..seq
                 /\ batch[s] \in Seq(Tracked) /\ queue[s] \in Seq(Tracked)
           /\ \A x \in Tracked : x.event \in Event /\ x.seq \in 1..seq
  <1>1. /\ pulled \in 0..sent /\ sent \in 0..Len(wal) /\ Len(wal) \in Nat
        /\ seq \in Nat /\ at \in 0..(NumSinks + 1)
        /\ at # 0 => pulled # 0 /\ seq # 0
        /\ confirmed \in 0..Len(wal) /\ flushed \in 0..Len(wal)
        /\ DOMAIN bySeq \subseteq 1..seq
        /\ \A q \in DOMAIN bySeq : bySeq[q] \in Event
    BY DEF TypeOK, DbOK, StreamOK, PumpOK
  <1>2. /\ ckpt \in [Sink -> 0..Len(wal)] /\ ackedEventId \in [Sink -> 0..Len(wal)]
        /\ deliveredSeq \in [Sink -> 0..seq]
        /\ batch \in [Sink -> Seq(Tracked)] /\ queue \in [Sink -> Seq(Tracked)]
    BY DEF TypeOK, DbOK, SinksOK
  <1>3. \A s \in Sink : s \in Nat /\ Handled(s) \in Int
    BY <1>1 DEF Handled, Sink
  <1>4. \A x \in Tracked : x.event \in Event /\ x.seq \in 1..seq
    BY DEF Tracked
  <1>5. at # 0 => pulled \in Event /\ seq \in 1..seq
    BY <1>1 DEF Event
  <1>6. Event \subseteq Nat
    BY <1>1 DEF Event
  <1> QED BY <1>1, <1>2, <1>3, <1>4, <1>5, <1>6

LEMMA AwaitedKept ==
    ASSUME TypeOK, NEW s \in Sink, NEW e, Awaited(s, e), Handled(s)' = Handled(s),
           queue'[s] = queue[s], batch'[s] = batch[s],
           pc'[s] = "ack" => pc[s] = "ack"
    PROVE  Awaited(s, e)'
  BY DEF Awaited

\* Entries of bySeq may go, none changes.
Forgets == \A q \in DOMAIN bySeq' : q \in DOMAIN bySeq /\ bySeq'[q] = bySeq[q]

\* Each position stays, or moves to one below e.
LEMMA UnreleasedKept ==
    ASSUME NEW s \in Sink, NEW e, Unreleased(s, e), Forgets, sent' = sent,
           e \in outstanding => e \in outstanding',
           confirmed' = confirmed \/ e > confirmed',
           flushed' = flushed \/ e > flushed',
           ckpt'[s] = ckpt[s] \/ e > ckpt'[s],
           ackedEventId'[s] = ackedEventId[s] \/ e > ackedEventId'[s],
           \/ deliveredSeq'[s] = deliveredSeq[s]
           \/ deliveredSeq'[s] \in DOMAIN bySeq => e > bySeq[deliveredSeq'[s]]
    PROVE  Unreleased(s, e)'
  BY DEF Unreleased, Forgets

LEMMA NamesKept ==
    ASSUME TypeOK, NEW s \in Sink, NamesOK(s), Forgets,
           UNCHANGED <<seq, pulled>>, at' # 0 => at # 0,
           batch'[s] = batch[s] \/ batch'[s] = <<>>, queue'[s] = queue[s]
    PROVE  NamesOK(s)'
  <1>1. ASSUME NEW t, Named(t)
        PROVE  t.seq \in DOMAIN bySeq' => bySeq'[t.seq] = t.event
    BY <1>1 DEF Named, Forgets
  <1>2. at' # 0 /\ seq' \in DOMAIN bySeq' => bySeq'[seq'] = pulled'
    BY DEF NamesOK, Forgets
  <1> QED BY <1>1, <1>2 DEF NamesOK, Named

-----------------------------------------------------------------------------
(* One lemma per action, for a durable sink s. *)

Here(s) == NamesOK(s) /\ MissingOK(s)

\* A step that does not touch the line of s.
LEMMA LineUntouched ==
    ASSUME TypeOK, NEW s \in Durable, Here(s), LogStep, Forgets,
           UNCHANGED <<seq, pulled, sent>>, at' # 0 => at # 0,
           Handled(s)' = Handled(s), queue'[s] = queue[s], batch'[s] = batch[s],
           received[s] \subseteq received'[s],
           \A e \in Missing(s)' :
              /\ pc'[s] = "ack" => pc[s] = "ack" \/ ~Among(batch[s], e, Len(batch[s]))
              /\ e \in outstanding => e \in outstanding'
              /\ confirmed' = confirmed \/ e > confirmed'
              /\ flushed' = flushed \/ e > flushed'
              /\ ckpt'[s] = ckpt[s] \/ e > ckpt'[s]
              /\ ackedEventId'[s] = ackedEventId[s] \/ e > ackedEventId'[s]
              /\ \/ deliveredSeq'[s] = deliveredSeq[s]
                 \/ deliveredSeq'[s] \in DOMAIN bySeq => e > bySeq[deliveredSeq'[s]]
    PROVE  Here(s)'
  <1>1. NamesOK(s)'
    BY NamesKept DEF Here
  <1>2. ASSUME NEW e \in Missing(s)' PROVE Awaited(s, e)' /\ Unreleased(s, e)'
    <2>1. Awaited(s, e) /\ Unreleased(s, e)
      BY MissingShrinks DEF Here, MissingOK
    <2>2. Awaited(s, e)'
      BY <2>1 DEF Awaited
    <2>3. Unreleased(s, e)'
      BY <2>1, UnreleasedKept
    <2> QED BY <2>2, <2>3
  <1> QED BY <1>1, <1>2 DEF Here, MissingOK

LEMMA InitHere == Init => ReconnectInv
  <1> SUFFICES ASSUME Init, NEW s \in Durable PROVE NamesOK(s) /\ MissingOK(s)
    BY DEF ReconnectInv
  <1> USE DEF Init, PerSink, Sink
  <1>1. NamesOK(s)
    BY DEF NamesOK
  <1>2. ASSUME NEW e \in Missing(s) PROVE Awaited(s, e) /\ Unreleased(s, e)
    <2>1. e \in Nat /\ e > 0
      BY DEF Missing, Event
    <2>2. Awaited(s, e)
      BY <2>1 DEF Awaited, Handled, Among
    <2>3. Unreleased(s, e)
      BY <2>1 DEF Unreleased
    <2> QED BY <2>2, <2>3
  <1> QED BY <1>1, <1>2 DEF MissingOK

LEMMA ConnectHere ==
    ASSUME TypeOK, NEW s \in Durable, Here(s), Connect PROVE Here(s)'
  <1> DEFINE R == ResumeAfter(confirmed)
  <1>1. R \in 0..confirmed /\ confirmed \in Nat
    BY ResumeAfterType DEF TypeOK, DbOK
  <1>2. /\ pulled' = R /\ sent' = R /\ at' = 0 /\ flushed' = 0 /\ outstanding' = {}
        /\ UNCHANGED <<wal, received, confirmed, ckpt, seq, bySeq, queue, batch,
                       pc, ackedEventId, deliveredSeq>>
    BY DEF Connect, dbVars, sinkVars
  <1> HIDE DEF R
  <1>3. NamesOK(s)'
    BY <1>2 DEF Here, NamesOK, Named
  <1>4. ASSUME NEW e \in Missing(s)' PROVE Awaited(s, e)' /\ Unreleased(s, e)'
    <2>1. e \in Missing(s) /\ e \in Nat /\ e > 0
      BY <1>2 DEF Missing, Event, IsUser
    <2>2. Awaited(s, e) /\ Unreleased(s, e) /\ e > confirmed
      BY <2>1 DEF Here, MissingOK, Unreleased
    <2>3. e > R
      BY <1>1, <2>1, <2>2
    <2>4. Awaited(s, e)'
      <3>1. Handled(s)' = R
        BY <1>2 DEF Handled
      <3>2. ~(e <= R)
        BY <1>1, <2>1, <2>3
      <3> QED BY <1>2, <2>2, <3>1, <3>2 DEF Awaited
    <2>5. Unreleased(s, e)'
      BY <1>1, <1>2, <2>1, <2>2, <2>3 DEF Unreleased
    <2> QED BY <2>4, <2>5
  <1> QED BY <1>3, <1>4 DEF Here, MissingOK

LEMMA ReceiveHere ==
    ASSUME TypeOK, NEW s \in Durable, Here(s), Receive PROVE Here(s)'
  <1> USE DEF Receive, dbVars, pumpVars, sinkVars
  <1>0. sent \in Nat
    BY Kinds
  <1>1. NamesOK(s)'
    BY DEF Here, NamesOK, Named
  <1>2. ASSUME NEW e \in Missing(s)' PROVE Awaited(s, e)' /\ Unreleased(s, e)'
    <2>1. e \in Missing(s) /\ e \in Nat
      BY DEF Missing, Event, IsUser
    <2>2. Awaited(s, e) /\ Unreleased(s, e)
      BY <2>1 DEF Here, MissingOK
    <2>3. Handled(s)' = Handled(s)
      BY DEF Handled
    <2>4. Awaited(s, e)'
      BY <2>2, <2>3, AwaitedKept
    <2>5. e <= sent' => e \in outstanding'
      BY <1>0, <2>1, <2>2 DEF Unreleased
    <2>6. Unreleased(s, e)'
      BY <2>2, <2>5 DEF Unreleased
    <2> QED BY <2>4, <2>6
  <1> QED BY <1>1, <1>2 DEF Here, MissingOK

LEMMA SessionHere ==
    ASSUME TypeOK, NEW s \in Durable, Here(s), Keepalive \/ SendStatus \/ Disconnect
    PROVE  Here(s)'
  <1> USE DEF dbVars, pumpVars, sinkVars, streamVars, LogStep, Forgets
  <1>0. /\ UNCHANGED <<wal, received, ckpt, sent, outstanding, pulled, at, seq,
                       bySeq, queue, batch, pc, deliveredSeq, ackedEventId>>
        /\ Missing(s)' = Missing(s) /\ Handled(s)' = Handled(s) /\ LogStep /\ Forgets
    BY DEF Keepalive, SendStatus, Disconnect, Missing, Event, IsUser, Handled
  <1>1. ASSUME NEW e \in Missing(s)
        PROVE  (confirmed' = confirmed \/ e > confirmed')
               /\ (flushed' = flushed \/ e > flushed')
    <2>1. e \in Nat /\ sent \in Nat /\ Unreleased(s, e)
      BY Kinds DEF Missing, Event, Here, MissingOK
    <2>2. CASE Keepalive
      <3>1. e > sent
        BY <2>1, <2>2 DEF Keepalive, Unreleased
      <3> QED BY <2>2, <3>1 DEF Keepalive
    <2>3. CASE SendStatus
      BY <2>1, <2>3 DEF SendStatus, Unreleased
    <2>4. CASE Disconnect
      BY <2>4 DEF Disconnect
    <2> QED BY <2>2, <2>3, <2>4
  <1> QED BY <1>0, <1>1, LineUntouched

\* A new number disturbs none of the names.
LEMMA NamesPull ==
    ASSUME TypeOK, NEW s \in Durable, NamesOK(s), Pull
    PROVE  /\ NamesOK(s)'
           /\ \A q \in 1..seq : q \in DOMAIN bySeq'
                 => q \in DOMAIN bySeq /\ bySeq'[q] = bySeq[q]
  <1> USE DEF Pull, dbVars, streamVars, sinkVars
  <1>0. /\ pulled \in Nat /\ seq \in Nat /\ s \in Nat /\ s >= 1
        /\ DOMAIN bySeq \subseteq 1..seq /\ deliveredSeq[s] \in 0..seq
        /\ \A i \in 1..Len(batch[s]) : batch[s][i].seq \in 1..seq
        /\ \A i \in 1..Len(queue[s]) : queue[s][i].seq \in 1..seq
    <2>1. /\ batch[s] \in Seq(Tracked) /\ queue[s] \in Seq(Tracked)
          /\ \A x \in Tracked : x.seq \in 1..seq
      BY Kinds DEF Sink
    <2>2. /\ \A i \in 1..Len(batch[s]) : batch[s][i] \in Tracked
          /\ \A i \in 1..Len(queue[s]) : queue[s][i] \in Tracked
      BY <2>1
    <2>3. s \in Nat /\ s >= 1
      BY DEF Sink
    <2> QED BY <2>1, <2>2, <2>3, Kinds
  <1>1. /\ DOMAIN bySeq' = DOMAIN bySeq \union {seq + 1}
        /\ bySeq'[seq + 1] = pulled + 1
        /\ \A q \in 1..seq : q \in DOMAIN bySeq'
              => q \in DOMAIN bySeq /\ bySeq'[q] = bySeq[q]
    BY <1>0
  <1>2. ASSUME NEW t, t.seq \in 1..seq, Named(t)
        PROVE  t.seq \in DOMAIN bySeq' => bySeq'[t.seq] = t.event
    BY <1>1, <1>2 DEF Named
  <1>3. NamesOK(s)'
    <2>1. /\ \A i \in 1..Len(batch[s]) : Named(batch[s][i])
          /\ \A i \in 1..Len(queue[s]) : Named(queue[s][i])
      BY DEF NamesOK
    <2>2. batch' = batch /\ queue' = queue /\ bySeq'[seq'] = pulled'
      BY <1>1
    <2> QED BY <1>0, <1>2, <2>1, <2>2 DEF NamesOK, Named
  <1> QED BY <1>1, <1>3

LEMMA PullHere ==
    ASSUME TypeOK, NEW s \in Durable, Here(s), Pull PROVE Here(s)'
  <1> USE DEF Pull, dbVars, streamVars, sinkVars
  <1>0. /\ pulled \in Nat /\ seq \in Nat /\ s \in Nat /\ s >= 1
        /\ DOMAIN bySeq' \subseteq 1..(seq + 1) /\ deliveredSeq[s] \in 0..seq
    BY Kinds DEF Sink
  <1>1. \A q \in 1..seq : q \in DOMAIN bySeq'
              => q \in DOMAIN bySeq /\ bySeq'[q] = bySeq[q]
    BY NamesPull DEF Here
  <1>3. NamesOK(s)'
    BY NamesPull DEF Here
  <1>4. ASSUME NEW e \in Missing(s)' PROVE Awaited(s, e)' /\ Unreleased(s, e)'
    <2>1. Awaited(s, e) /\ Unreleased(s, e)
      BY DEF Missing, Event, IsUser, Here, MissingOK
    <2>2. Handled(s)' = Handled(s)
      BY <1>0 DEF Handled
    <2>3. Awaited(s, e)'
      BY <2>1, <2>2, AwaitedKept
    <2>4. deliveredSeq'[s] \in DOMAIN bySeq' => e > bySeq'[deliveredSeq'[s]]
      <3>1. deliveredSeq[s] \in DOMAIN bySeq' => deliveredSeq[s] \in 1..seq
        BY <1>0, <1>1
      <3> QED BY <1>1, <2>1, <3>1 DEF Unreleased
    <2>5. Unreleased(s, e)'
      BY <2>1, <2>4 DEF Unreleased
    <2> QED BY <2>3, <2>5
  <1> QED BY <1>3, <1>4 DEF Here, MissingOK

\* What the pump is at, and what that says of sink s.
LEMMA FanOutAt ==
    ASSUME TypeOK, NEW s \in Sink, at \in Sink, at' = at + 1, UNCHANGED pulled
    PROVE  /\ at # 0 /\ at' # 0 /\ pulled \in Event /\ pulled \in Nat
           /\ s # at => Handled(s)' = Handled(s)
           /\ s = at => Handled(s) = pulled - 1 /\ Handled(s)' = pulled
  BY Kinds DEF Handled, Sink

LEMMA FanOutSkipHere ==
    ASSUME TypeOK, NEW s \in Durable, Here(s), FanOutSkip PROVE Here(s)'
  <1> USE DEF FanOutSkip, dbVars, streamVars
  <1>0. /\ UNCHANGED <<wal, received, confirmed, ckpt, sent, outstanding, flushed,
                       pulled, seq, bySeq, queue, batch, pc, ackedEventId>>
        /\ at \in Sink /\ at' = at + 1 /\ LogStep /\ Forgets
    BY DEF LogStep, Forgets
  <1>1. CASE s # at
    <2>1. deliveredSeq'[s] = deliveredSeq[s]
      BY <1>1 DEF TypeOK, SinksOK
    <2> QED BY <1>0, <1>1, <2>1, FanOutAt, LineUntouched
  <1>2. CASE s = at
    <2>1. /\ at # 0 /\ at' # 0 /\ pulled \in Event /\ pulled \in Nat
          /\ Handled(s) = pulled - 1 /\ Handled(s)' = pulled
      BY <1>0, <1>2, FanOutAt
    <2>2. deliveredSeq'[s] = seq
      BY <1>2 DEF TypeOK, SinksOK
    <2>3. NamesOK(s)'
      BY <1>0, <2>1, NamesKept DEF Here
    <2>4. ASSUME NEW e \in Missing(s)' PROVE Awaited(s, e)' /\ Unreleased(s, e)'
      <3>1. Awaited(s, e) /\ Unreleased(s, e) /\ e \in Nat
        BY Kinds DEF Missing, Event, IsUser, Here, MissingOK
      <3>2. e > pulled
        BY <1>2, <3>1, <2>1, Kinds DEF AlreadyDelivered, Unreleased
      <3>3. Awaited(s, e)'
        BY <1>0, <2>1, <3>1, <3>2 DEF Awaited
      <3>4. seq \in DOMAIN bySeq => bySeq[seq] = pulled
        BY <2>1 DEF Here, NamesOK
      <3>5. Unreleased(s, e)'
        BY <1>0, <2>2, <3>1, <3>2, <3>4, UnreleasedKept
      <3> QED BY <3>3, <3>5
    <2> QED BY <2>3, <2>4 DEF Here, MissingOK
  <1> QED BY <1>1, <1>2

\* put() of the event the pump is at.
LEMMA AwaitedPut ==
    ASSUME TypeOK, NEW s \in Durable, NEW e \in Nat, Awaited(s, e),
           NEW t \in Tracked, t.event \in Nat, Handled(s) = t.event - 1,
           Handled(s)' = t.event, queue'[s] = Put(queue[s], t),
           UNCHANGED <<batch, pc>>
    PROVE  Awaited(s, e)'
  <1> DEFINE q == queue[s]
             z == queue'[s]
  <1>a. q \in Seq(Tracked) /\ z = Put(q, t)
    BY DEF TypeOK, SinksOK
  <1>1. Len(q) \in Nat
    BY <1>a
  <1> HIDE DEF q, z
  <1>2. /\ Len(z) = Len(q) + 1
        /\ \A i \in 1..Len(q) : z[i] = q[i]
        /\ z[Len(q) + 1] = t
    BY <1>a DEF Put
  <1>3. ASSUME NEW i \in 1..Len(q), Among(q, e, i) PROVE Among(z, e, i)
    <2>1. \A j \in 1..i : j \in 1..Len(q)
      BY <1>1
    <2> QED BY <1>2, <1>3, <2>1 DEF Among
  <1>4. Among(q, e, Len(q)) => Among(z, e, Len(z))
    <2>1. \A j \in 1..Len(q) : j \in 1..Len(z)
      BY <1>1, <1>2
    <2> QED BY <1>2, <2>1 DEF Among
  <1>5. e = t.event => Among(z, e, Len(z))
    <2>1. Len(z) \in 1..Len(z) /\ z[Len(z)] = t
      BY <1>1, <1>2
    <2> QED BY <2>1 DEF Among
  <1>6. /\ \A i \in 1..Len(q) : e <= q[i].event
              => Among(batch[s], e, Len(batch[s])) \/ Among(q, e, i)
        /\ e <= t.event - 1 => Among(batch[s], e, Len(batch[s])) \/ Among(q, e, Len(q))
    BY DEF Awaited, q
  <1>7. e <= t.event => Among(batch[s], e, Len(batch[s])) \/ Among(z, e, Len(z))
    BY <1>4, <1>5, <1>6
  <1>8. ASSUME NEW i \in 1..Len(z), e <= z[i].event
        PROVE  Among(batch[s], e, Len(batch[s])) \/ Among(z, e, i)
    <2>1. CASE i \in 1..Len(q)
      BY <1>2, <1>3, <1>6, <1>8, <2>1
    <2>2. CASE i = Len(q) + 1
      BY <1>2, <1>7, <1>8, <2>2
    <2> QED BY <1>1, <1>2, <2>1, <2>2
  <1> QED BY <1>7, <1>8 DEF Awaited, z

\* What is in line after a put().
LEMMA PutItems ==
    ASSUME NEW q \in Seq(Tracked), NEW t
    PROVE  /\ Len(Put(q, t)) = Len(q) + 1 /\ Len(q) \in Nat
           /\ \A i \in 1..Len(q) : Put(q, t)[i] = q[i]
           /\ Put(q, t)[Len(q) + 1] = t
           /\ \A i \in 1..Len(Put(q, t)) : i \in 1..Len(q) \/ i = Len(q) + 1
  BY DEF Put

LEMMA NamesPut ==
    ASSUME TypeOK, NEW s \in Durable, NamesOK(s), NEW t, Named(t), at # 0,
           queue'[s] = Put(queue[s], t), UNCHANGED <<bySeq, seq, pulled, batch>>
    PROVE  NamesOK(s)'
  <1>1. queue[s] \in Seq(Tracked)
    BY DEF TypeOK, SinksOK
  <1>2. \A i \in 1..Len(queue'[s]) : Named(queue'[s][i])
    BY <1>1, PutItems DEF NamesOK
  <1> QED BY <1>2 DEF NamesOK, Named

LEMMA FanOutWaitsHere ==
    ASSUME TypeOK, NEW s \in Durable, Here(s), FanOutWaits PROVE Here(s)'
  <1>1. /\ UNCHANGED <<wal, received, confirmed, ckpt, sent, flushed, outstanding,
                       pulled, at, seq, bySeq, queue, batch, pc, deliveredSeq,
                       ackedEventId>>
        /\ LogStep /\ Handled(s)' = Handled(s) /\ Forgets
    BY DEF FanOutWaits, dbVars, streamVars, sinkVars, Handled, Forgets, LogStep
  <1> QED BY <1>1, LineUntouched

LEMMA FanOutDurableHere ==
    ASSUME TypeOK, NEW s \in Durable, Here(s), FanOutDurable PROVE Here(s)'
  <1> USE DEF FanOutDurable, dbVars, streamVars
  <1> DEFINE t == [seq |-> seq, event |-> pulled]
  <1>0. /\ UNCHANGED <<wal, received, confirmed, ckpt, sent, outstanding, flushed,
                       pulled, seq, bySeq, batch, pc, ackedEventId, deliveredSeq>>
        /\ at \in Sink /\ at' = at + 1 /\ LogStep /\ Forgets
    BY DEF LogStep, Forgets
  <1>1. CASE s # at
    <2>1. queue'[s] = queue[s]
      BY <1>1 DEF TypeOK, SinksOK
    <2> QED BY <1>0, <1>1, <2>1, FanOutAt, LineUntouched
  <1>2. CASE s = at
    <2>1. /\ at # 0 /\ at' # 0 /\ pulled \in Event /\ pulled \in Nat
          /\ Handled(s) = pulled - 1 /\ Handled(s)' = pulled /\ t \in Tracked
      BY <1>0, <1>2, FanOutAt, Kinds DEF Tracked
    <2>2. queue'[s] = Put(queue[s], t) /\ queue[s] \in Seq(Tracked)
      BY <1>2 DEF TypeOK, SinksOK
    <2>3. t.event = pulled /\ t.seq = seq /\ Named(t)
      BY <2>1 DEF Here, NamesOK, Named
    <2> HIDE DEF t
    <2>4. NamesOK(s)'
      BY <1>0, <2>1, <2>2, <2>3, NamesPut DEF Here
    <2>5. ASSUME NEW e \in Missing(s)' PROVE Awaited(s, e)' /\ Unreleased(s, e)'
      <3>1. Awaited(s, e) /\ Unreleased(s, e) /\ e \in Nat
        BY Kinds DEF Missing, Event, IsUser, Here, MissingOK
      <3>2. Awaited(s, e)'
        BY <1>0, <2>1, <2>2, <2>3, <3>1, AwaitedPut
      <3>3. Unreleased(s, e)'
        BY <1>0, <3>1, UnreleasedKept
      <3> QED BY <3>2, <3>3
    <2> QED BY <2>4, <2>5 DEF Here, MissingOK
  <1> QED BY <1>1, <1>2

LEMMA FanOutEphemeralHere ==
    ASSUME TypeOK, NEW s \in Durable, Here(s), FanOutEphemeral PROVE Here(s)'
  <1> USE DEF FanOutEphemeral, dbVars, streamVars
  <1>1. queue'[s] = queue[s] /\ s # at /\ at \in Sink
    BY DEF TypeOK, SinksOK
  <1> QED BY <1>1, FanOutAt, LineUntouched DEF LogStep, Forgets

\* maybeAck() with positions ds, of which that of s, the only one, is not
\* at a missing event: neither is what it acknowledges.
LEMMA AckReaches ==
    ASSUME TypeOK, OneDurable, NEW s \in Durable, NEW ds \in [Sink -> 0..seq],
           MaybeAck(ds), NEW e \in Event, e > flushed,
           ds[s] \in DOMAIN bySeq => e > bySeq[ds[s]]
    PROVE  /\ e > flushed' /\ (e \in outstanding => e \in outstanding')
  <1>1. PICK min \in {ds[t] : t \in Durable} :
            IF min <= ackedSeq
            THEN UNCHANGED <<flushed, outstanding, bySeq, ackedSeq>>
            ELSE /\ IF min \in DOMAIN bySeq
                    THEN Ack(bySeq[min])
                    ELSE UNCHANGED <<flushed, outstanding>>
                 /\ bySeq' = [q \in DOMAIN bySeq \ Forgotten(min) |-> bySeq[q]]
                 /\ ackedSeq' = min
    BY DEF MaybeAck
  <1>2. min = ds[s]
    BY DEF OneDurable
  <1>3. CASE UNCHANGED <<flushed, outstanding>>
    BY <1>3
  <1>4. CASE min \in DOMAIN bySeq /\ Ack(bySeq[min])
    <2> DEFINE b == bySeq[min]
    <2>1. b \in Nat /\ e \in Nat /\ flushed \in Nat /\ e > b
      BY <1>2, <1>4, Kinds
    <2> HIDE DEF b
    <2>2. Ack(b)
      BY <1>4 DEF b
    <2>3. flushed' \in {flushed, b, b - 1}
      BY <2>2 DEF Ack, AckTarget, Larger
    <2>4. e > flushed'
      BY <2>1, <2>3
    <2>5. e \in outstanding => e \in outstanding'
      BY <2>1, <2>2 DEF Ack, StillOut
    <2> QED BY <2>4, <2>5
  <1> QED BY <1>1, <1>3, <1>4

LEMMA AckForgets ==
    ASSUME NEW ds, MaybeAck(ds) PROVE Forgets
  BY DEF MaybeAck, Forgets

LEMMA FanOutEndHere ==
    ASSUME TypeOK, OneDurable, NEW s \in Durable, Here(s), FanOutEnd PROVE Here(s)'
  <1> USE DEF FanOutEnd, dbVars, sinkVars
  <1>0. /\ UNCHANGED <<wal, received, confirmed, ckpt, sent, pulled, seq, queue,
                       batch, pc, ackedEventId, deliveredSeq>>
        /\ at' = 0 /\ LogStep /\ s \in Sink /\ ~PumpAcks(pulled)
    BY DEF LogStep, PumpAcks
  <1>1. Handled(s)' = Handled(s)
    BY <1>0 DEF Handled, Sink
  <1>2. Forgets
    BY <1>0, AckForgets DEF Forgets
  <1>3. ASSUME NEW e \in Missing(s)'
        PROVE  /\ flushed' = flushed \/ e > flushed'
               /\ e \in outstanding => e \in outstanding'
    <2>1. Unreleased(s, e) /\ e \in Event
      BY <1>0 DEF Missing, Event, IsUser, Here, MissingOK
    <2>2. CASE MaybeAck(deliveredSeq)
      <3>1. deliveredSeq \in [Sink -> 0..seq]
        BY DEF TypeOK, SinksOK
      <3> QED BY <2>1, <2>2, <3>1, AckReaches DEF Unreleased
    <2>3. CASE UNCHANGED <<flushed, outstanding>>
      BY <2>3
    <2> QED BY <1>0, <2>2, <2>3
  <1> QED BY <1>0, <1>1, <1>2, <1>3, LineUntouched

\* takeBatch() moves the head of the queue into the empty batch.
LEMMA AwaitedTake ==
    ASSUME TypeOK, NEW s \in Durable, NEW e \in Nat, Awaited(s, e),
           batch[s] = <<>>, NEW n \in 1..Len(queue[s]), Handled(s)' = Handled(s),
           batch'[s] = SubSeq(queue[s], 1, n), queue'[s] = Rest(queue[s], n),
           pc'[s] # "ack"
    PROVE  Awaited(s, e)'
  <1> DEFINE q == queue[s]
             b == batch'[s]
             z == queue'[s]
  <1>a. /\ q \in Seq(Tracked) /\ n \in 1..Len(q)
        /\ b = SubSeq(q, 1, n) /\ z = Rest(q, n)
    BY DEF TypeOK, SinksOK
  <1>b. /\ \A i \in 1..Len(q) : e <= q[i].event => Among(q, e, i)
        /\ e <= Handled(s) => Among(q, e, Len(q))
    BY DEF Awaited, Among
  <1> HIDE DEF q, b, z
  <1>0. Len(q) \in Nat /\ n \in Nat /\ n <= Len(q)
    BY <1>a
  <1>1. /\ Len(b) = n /\ \A i \in 1..n : b[i] = q[i]
        /\ Len(z) = Len(q) - n /\ \A i \in 1..(Len(q) - n) : z[i] = q[n + i]
    <2>1. q \in Seq(Tracked) /\ n \in 1..Len(q)
      BY <1>a
    <2>2. /\ Len(SubSeq(q, 1, n)) = n
          /\ \A i \in 1..n : SubSeq(q, 1, n)[i] = q[i]
      BY <2>1, SplitType
    <2>3. /\ Len(Rest(q, n)) = Len(q) - n
          /\ \A i \in 1..(Len(q) - n) : Rest(q, n)[i] = q[n + i]
      BY <2>1, SplitType
    <2>4. b = SubSeq(q, 1, n) /\ z = Rest(q, n)
      BY <1>a
    <2> QED BY <2>2, <2>3, <2>4
  <1>2. ASSUME NEW i \in 1..Len(b), e <= b[i].event PROVE Among(b, e, i)
    <2>1. i \in 1..Len(q) /\ b[i] = q[i] /\ \A j \in 1..i : j \in 1..n
      BY <1>0, <1>1
    <2>2. Among(q, e, i)
      BY <1>2, <1>b, <2>1
    <2> QED BY <1>1, <2>1, <2>2 DEF Among
  <1>3. ASSUME NEW i \in 0..Len(z), Among(q, e, n + i)
        PROVE  Among(b, e, Len(b)) \/ Among(z, e, i)
    <2>1. PICK j \in 1..(n + i) : q[j].event = e
      BY <1>3 DEF Among
    <2>2. CASE j <= n
      <3>1. j \in 1..Len(b) /\ b[j] = q[j]
        BY <1>0, <1>1, <2>2
      <3> QED BY <2>1, <3>1 DEF Among
    <2>3. CASE ~(j <= n)
      <3>0. n \in Nat /\ i \in Nat /\ j \in Nat /\ j <= n + i /\ n < j
        BY <1>0, <1>1, <2>3
      <3>1. j - n \in 1..i /\ n + (j - n) = j
        BY <3>0
      <3>2. i <= Len(z) /\ Len(z) = Len(q) - n /\ Len(q) \in Nat
        BY <1>0, <1>1
      <3>3. j - n \in 1..(Len(q) - n)
        BY <1>0, <3>0, <3>1, <3>2
      <3>4. z[j - n] = q[n + (j - n)]
        BY <1>1, <3>3
      <3> QED BY <2>1, <3>1, <3>4 DEF Among
    <2> QED BY <2>2, <2>3
  <1>4. ASSUME NEW i \in 1..Len(z), e <= z[i].event
        PROVE  Among(b, e, Len(b)) \/ Among(z, e, i)
    <2>1. n + i \in 1..Len(q) /\ z[i] = q[n + i] /\ i \in 0..Len(z)
      BY <1>0, <1>1
    <2> QED BY <1>3, <1>4, <1>b, <2>1
  <1>5. e <= Handled(s) => Among(b, e, Len(b)) \/ Among(z, e, Len(z))
    <2>1. n + Len(z) = Len(q) /\ Len(z) \in 0..Len(z)
      BY <1>0, <1>1
    <2> QED BY <1>3, <1>b, <2>1
  <1> QED BY <1>2, <1>4, <1>5 DEF Awaited, b, z

\* The line of a sink whose batch goes, when e is not in it.
LEMMA AwaitedDrop ==
    ASSUME TypeOK, NEW s \in Durable, NEW e, Awaited(s, e),
           ~Among(batch[s], e, Len(batch[s])), batch'[s] = <<>>,
           queue'[s] = queue[s], Handled(s)' = Handled(s), pc'[s] # "ack"
    PROVE  Awaited(s, e)'
  BY DEF Awaited, Among

\* Where the items of a batch and of what is left of the queue come from,
\* and that none is lost.
LEMMA TakenPlaces ==
    ASSUME NEW q \in Seq(Tracked), NEW n \in 1..Len(q), NEW b, b = SubSeq(q, 1, n),
           NEW z, z = Rest(q, n)
    PROVE  /\ \A i \in 1..Len(b) : i \in 1..Len(q) /\ b[i] = q[i]
           /\ \A i \in 1..Len(z) : n + i \in 1..Len(q) /\ z[i] = q[n + i]
  <1>0. Len(q) \in Nat /\ n \in Nat /\ n <= Len(q)
    OBVIOUS
  <1>1. /\ Len(b) = n /\ \A i \in 1..n : b[i] = q[i]
        /\ Len(z) = Len(q) - n /\ \A i \in 1..(Len(q) - n) : z[i] = q[n + i]
    BY SplitType
  <1> QED BY <1>0, <1>1

LEMMA TakenItems ==
    ASSUME NEW q \in Seq(Tracked), NEW n \in 1..Len(q), NEW b, b = SubSeq(q, 1, n),
           NEW z, z = Rest(q, n)
    PROVE  /\ \A i \in 1..Len(b) : i \in 1..Len(q) /\ b[i] = q[i]
           /\ \A i \in 1..Len(z) : n + i \in 1..Len(q) /\ z[i] = q[n + i]
           /\ \A e : Among(q, e, Len(q))
                    => Among(b, e, Len(b)) \/ Among(z, e, Len(z))
  <1>0. Len(q) \in Nat /\ n \in Nat /\ n <= Len(q)
    OBVIOUS
  <1>1. /\ Len(b) = n /\ \A i \in 1..n : b[i] = q[i]
        /\ Len(z) = Len(q) - n /\ \A i \in 1..(Len(q) - n) : z[i] = q[n + i]
    BY SplitType
  <1>2. \A i \in 1..Len(z) : n + i \in 1..Len(q)
    BY <1>0, <1>1
  <1>3. ASSUME NEW e, Among(q, e, Len(q))
        PROVE  Among(b, e, Len(b)) \/ Among(z, e, Len(z))
    <2>1. PICK j \in 1..Len(q) : q[j].event = e
      BY <1>3 DEF Among
    <2>2. CASE j <= n
      <3>1. j \in 1..Len(b) /\ b[j] = q[j]
        BY <1>0, <1>1, <2>2
      <3> QED BY <2>1, <3>1 DEF Among
    <2>3. CASE ~(j <= n)
      <3>1. j - n \in 1..(Len(q) - n) /\ n + (j - n) = j
        BY <1>0, <2>3
      <3>2. j - n \in 1..Len(z) /\ z[j - n] = q[j]
        BY <1>1, <3>1
      <3> QED BY <2>1, <3>2 DEF Among
    <2> QED BY <2>2, <2>3
  <1> QED BY <1>0, <1>1, <1>2, <1>3

LEMMA NamesTake ==
    ASSUME TypeOK, NEW s \in Durable, NamesOK(s), NEW n \in 1..Len(queue[s]),
           batch'[s] = SubSeq(queue[s], 1, n), queue'[s] = Rest(queue[s], n),
           UNCHANGED <<bySeq, seq, pulled, at>>
    PROVE  NamesOK(s)'
  <1>1. queue[s] \in Seq(Tracked)
    BY DEF TypeOK, SinksOK
  <1>2. /\ \A i \in 1..Len(batch'[s]) :
              i \in 1..Len(queue[s]) /\ batch'[s][i] = queue[s][i]
        /\ \A i \in 1..Len(queue'[s]) :
              n + i \in 1..Len(queue[s]) /\ queue'[s][i] = queue[s][n + i]
    <2> DEFINE q == queue[s]
               b == batch'[s]
               z == queue'[s]
    <2>1. q \in Seq(Tracked) /\ n \in 1..Len(q) /\ b = SubSeq(q, 1, n) /\ z = Rest(q, n)
      BY <1>1
    <2> HIDE DEF q, b, z
    <2>2. /\ \A i \in 1..Len(b) : i \in 1..Len(q) /\ b[i] = q[i]
          /\ \A i \in 1..Len(z) : n + i \in 1..Len(q) /\ z[i] = q[n + i]
      BY ONLY <2>1, TakenPlaces, SMTT(30)
    <2> QED BY <2>2 DEF q, b, z
  <1>3. /\ \A i \in 1..Len(batch'[s]) : Named(batch'[s][i])
        /\ \A i \in 1..Len(queue'[s]) : Named(queue'[s][i])
    BY <1>2 DEF NamesOK
  <1> QED BY <1>3 DEF NamesOK, Named

LEMMA TakeBatchHere ==
    ASSUME TypeOK, NEW s \in Durable, Here(s), NEW k \in Sink, TakeBatch(k)
    PROVE  Here(s)'
  <1> USE DEF dbVars, streamVars, pumpVars
  <1> DEFINE n == Smaller(Len(queue[k]), BatchSize)
  <1>0. /\ UNCHANGED <<wal, received, sent, pulled, at, seq, confirmed, ckpt,
                       ackedEventId, deliveredSeq, flushed, outstanding, bySeq>>
        /\ Handled(s)' = Handled(s) /\ LogStep /\ Forgets
    BY DEF TakeBatch, Handled, LogStep, Forgets
  <1>1. queue[k] # <<>> /\ batch[k] = <<>>
    BY DEF TakeBatch, HasItems, TypeOK, SinksOK
  <1>2. /\ batch' = [batch EXCEPT ![k] = SubSeq(queue[k], 1, n)]
        /\ queue' = [queue EXCEPT ![k] = Rest(@, n)]
    BY DEF TakeBatch
  <1>3. s # k => pc'[s] = pc[s]
    BY DEF TakeBatch, Enter, TypeOK, SinksOK
  <1>4. pc'[k] # "ack"
    BY DEF TakeBatch, Enter, TypeOK, SinksOK
  <1>5. n \in 1..Len(queue[k])
    BY <1>1, TakenType
  <1> HIDE DEF n
  <1>6. CASE s # k
    <2>1. queue'[s] = queue[s] /\ batch'[s] = batch[s]
      BY <1>2, <1>6 DEF TypeOK, SinksOK
    <2> QED BY <1>0, <1>3, <1>6, <2>1, LineUntouched
  <1>7. CASE s = k
    <2>1. batch'[s] = SubSeq(queue[s], 1, n) /\ queue'[s] = Rest(queue[s], n)
      BY <1>2, <1>7 DEF TypeOK, SinksOK
    <2>2. queue[s] \in Seq(Tracked) /\ Len(queue[s]) \in Nat
      BY DEF TypeOK, SinksOK
    <2>3. NamesOK(s)'
      BY <1>0, <1>5, <1>7, <2>1, NamesTake DEF Here
    <2>4. ASSUME NEW e \in Missing(s)' PROVE Awaited(s, e)' /\ Unreleased(s, e)'
      <3>1. Awaited(s, e) /\ Unreleased(s, e) /\ e \in Nat
        BY <1>0, Kinds DEF Missing, Event, IsUser, Here, MissingOK
      <3>2. Awaited(s, e)'
        BY <1>0, <1>1, <1>4, <1>5, <1>7, <2>1, <3>1, AwaitedTake
      <3>3. Unreleased(s, e)'
        BY <1>0, <3>1, UnreleasedKept
      <3> QED BY <3>2, <3>3
    <2> QED BY <2>3, <2>4 DEF Here, MissingOK
  <1> QED BY <1>6, <1>7

\* An event that is not in the batch lies behind the end of it, and the
\* number of the end, if bySeq has it, is that of the end.
LEMMA BatchPassed ==
    ASSUME TypeOK, NEW s \in Durable, NamesOK(s), batch[s] # <<>>, NEW e \in Event,
           Awaited(s, e), ~Among(batch[s], e, Len(batch[s]))
    PROVE  LET last == batch[s][Len(batch[s])] IN
           /\ e > last.event
           /\ last.seq \in DOMAIN bySeq => e > bySeq[last.seq]
  <1>1. /\ Len(batch[s]) \in 1..Len(batch[s]) /\ e \in Nat
        /\ batch[s][Len(batch[s])].event \in Nat
    <2>1. Len(batch[s]) \in Nat \ {0} /\ batch[s][Len(batch[s])] \in Tracked
      BY LastType
    <2> QED BY <2>1, Kinds
  <1> QED BY <1>1 DEF Awaited, NamesOK, Named

LEMMA DeliverHere ==
    ASSUME TypeOK, NEW s \in Durable, Here(s), NEW k \in Sink, Deliver(k)
    PROVE  Here(s)'
  <1> USE DEF dbVars, streamVars, pumpVars
  <1> DEFINE last == batch[s][Len(batch[s])]
  <1>0. /\ UNCHANGED <<wal, sent, pulled, at, seq, confirmed, ckpt, queue, batch,
                       flushed, outstanding, bySeq>>
        /\ Handled(s)' = Handled(s) /\ LogStep /\ Forgets
    BY DEF Deliver, Handled, LogStep, Forgets
  <1>1. CASE s # k
    <2>1. /\ received'[s] = received[s] /\ pc'[s] = pc[s]
          /\ deliveredSeq'[s] = deliveredSeq[s] /\ ackedEventId'[s] = ackedEventId[s]
      BY <1>1 DEF Deliver, Advance, TypeOK, DbOK, SinksOK
    <2> QED BY <1>0, <2>1, LineUntouched
  <1>2. CASE s = k
    <2>1. /\ received'[s] = received[s] \union Deliverable(batch[s])
          /\ deliveredSeq'[s] = last.seq /\ ackedEventId'[s] = last.event
          /\ batch[s] # <<>>
      BY <1>2 DEF Deliver, Advance, TypeOK, DbOK, SinksOK
    <2>2. ASSUME NEW e \in Missing(s)'
          PROVE  /\ e > last.event /\ ~Among(batch[s], e, Len(batch[s]))
                 /\ last.seq \in DOMAIN bySeq => e > bySeq[last.seq]
      <3>1. e \in Missing(s) /\ e \in Event /\ e \notin Deliverable(batch[s])
        BY <1>0, <2>1 DEF Missing, Event, IsUser
      <3>2. ~Among(batch[s], e, Len(batch[s]))
        BY <3>1 DEF Among, Deliverable, Missing
      <3> QED BY <2>1, <3>1, <3>2, BatchPassed DEF Here, MissingOK
    <2> QED BY <1>0, <2>1, <2>2, LineUntouched
  <1> QED BY <1>1, <1>2

\* A worker is through with batch[k], and maybeAck() looks at positions ds.
LEMMA BatchGoes ==
    ASSUME TypeOK, OneDurable, NEW s \in Durable, Here(s), NEW k \in Durable, LogStep,
           batch[k] # <<>>, Deliverable(batch[k]) \subseteq received[k],
           NEW ds \in [Sink -> 0..seq], MaybeAck(ds),
           \/ ds = deliveredSeq
           \/ ds[k] = batch[k][Len(batch[k])].seq,
           UNCHANGED <<received, confirmed, sent, pulled, at, seq, queue>>,
           deliveredSeq'[k] = ds[k],
           ckpt'[k] = ckpt[k] \/ ckpt'[k] = ackedEventId[k],
           \/ ackedEventId'[k] = ackedEventId[k]
           \/ ackedEventId'[k] = batch[k][Len(batch[k])].event,
           batch'[k] = <<>>, pc'[k] # "ack"
    PROVE  Here(s)'
  <1>0. s = k /\ Forgets /\ Handled(s)' = Handled(s)
    BY AckForgets DEF OneDurable, Handled
  <1>1. NamesOK(s)'
    BY <1>0, NamesKept DEF Here
  <1>2. ASSUME NEW e \in Missing(s)' PROVE Awaited(s, e)' /\ Unreleased(s, e)'
    <2>1. e \in Missing(s) /\ e \in Event /\ Awaited(s, e) /\ Unreleased(s, e)
      BY MissingShrinks DEF Missing, Here, MissingOK
    <2>2. ~Among(batch[s], e, Len(batch[s]))
      BY <1>0, <2>1 DEF Among, Deliverable, Missing
    <2>3. /\ e > batch[s][Len(batch[s])].event
          /\ ds[s] \in DOMAIN bySeq => e > bySeq[ds[s]]
      BY <1>0, <2>1, <2>2, BatchPassed DEF Here, Unreleased
    <2>4. e > flushed' /\ (e \in outstanding => e \in outstanding')
      BY <2>1, <2>3, AckReaches DEF Unreleased
    <2>5. Awaited(s, e)'
      BY <1>0, <2>1, <2>2, AwaitedDrop
    <2>6. e > ckpt'[s] \/ ckpt'[s] = ckpt[s]
      BY <1>0, <2>1 DEF Unreleased
    <2>7. Unreleased(s, e)'
      BY <1>0, <2>1, <2>3, <2>4, <2>6, UnreleasedKept
    <2> QED BY <2>5, <2>7
  <1> QED BY <1>1, <1>2 DEF Here, MissingOK

LEMMA SkipBatchHere ==
    ASSUME TypeOK, OneDurable, NEW s \in Durable, Here(s), NEW k \in Sink, SkipBatch(k)
    PROVE  Here(s)'
  <1>1. /\ k \in Durable /\ batch[k] # <<>> /\ Deliverable(batch[k]) = {}
        /\ MaybeAck(deliveredSeq') /\ LogStep
        /\ UNCHANGED <<received, confirmed, ckpt, sent, pulled, at, seq, queue>>
    BY DEF SkipBatch, TypeOK, SinksOK, dbVars, LogStep
  <1>2. deliveredSeq' \in [Sink -> 0..seq]
    BY AdvanceInRange DEF SkipBatch
  <1>3. /\ deliveredSeq'[k] = batch[k][Len(batch[k])].seq
        /\ ackedEventId'[k] = batch[k][Len(batch[k])].event
        /\ batch'[k] = <<>> /\ pc'[k] # "ack"
    BY DEF SkipBatch, Advance, Enter, TypeOK, SinksOK
  <1> QED BY <1>1, <1>2, <1>3, BatchGoes

LEMMA AckCheckpointHere ==
    ASSUME TypeOK, OneDurable, NEW s \in Durable, Here(s), NEW k \in Sink,
           AckCheckpoint(k)
    PROVE  Here(s)'
  <1>1. /\ batch[k] # <<>> /\ pc[k] = "ack" /\ MaybeAck(deliveredSeq) /\ LogStep
        /\ UNCHANGED <<received, confirmed, sent, pulled, at, seq, queue,
                       deliveredSeq, ackedEventId>>
    BY DEF AckCheckpoint, TypeOK, SinksOK, LogStep
  <1>2. deliveredSeq \in [Sink -> 0..seq]
    BY DEF TypeOK, SinksOK
  <1>3. batch'[k] = <<>> /\ pc'[k] # "ack" /\ ckpt'[k] = ackedEventId[k]
    BY DEF AckCheckpoint, Enter, TypeOK, SinksOK, DbOK
  <1>4. CASE k \in Durable
    <2>1. s = k
      BY <1>4 DEF OneDurable
    <2>2. Deliverable(batch[k]) \subseteq received[k]
      <3> SUFFICES ASSUME NEW e \in Deliverable(batch[k]), e \notin received[k]
                   PROVE  FALSE
        OBVIOUS
      <3>1. e \in Missing(s) /\ Among(batch[s], e, Len(batch[s]))
        BY <2>1, DeliverableType DEF Missing, Among, Deliverable
      <3> QED BY <1>1, <2>1, <3>1 DEF Here, MissingOK, Awaited
    <2> QED BY <1>1, <1>2, <1>3, <1>4, <2>2, BatchGoes
  <1>5. CASE k \notin Durable
    <2>1. batch'[s] = batch[s] /\ pc'[s] = pc[s] /\ ckpt'[s] = ckpt[s]
      BY <1>5 DEF AckCheckpoint, Enter, TypeOK, SinksOK, DbOK
    <2>2. Handled(s)' = Handled(s) /\ Forgets
      BY <1>1, AckForgets DEF Handled
    <2>3. ASSUME NEW e \in Missing(s)'
          PROVE  e > flushed' /\ (e \in outstanding => e \in outstanding')
      <3>1. e \in Event /\ Unreleased(s, e)
        BY <1>1, MissingShrinks DEF Missing, Here, MissingOK
      <3> QED BY <1>1, <1>2, <3>1, AckReaches DEF Unreleased
    <2> QED BY <1>1, <2>1, <2>2, <2>3, LineUntouched
  <1> QED BY <1>4, <1>5

\* The workers' steps that move no event and no position.
LEMMA QuietHere ==
    ASSUME TypeOK, NEW s \in Durable, Here(s), NEW k \in Sink,
           DeliverFails(k) \/ PauseCommits(k) \/ PauseSettles(k) \/ DeliverOnce(k)
    PROVE  Here(s)'
  <1> USE DEF dbVars, streamVars, pumpVars, LogStep
  <1>1. /\ UNCHANGED <<confirmed, ckpt, sent, flushed, outstanding, pulled, at, seq,
                       bySeq, queue, deliveredSeq, ackedEventId>>
        /\ LogStep /\ Handled(s)' = Handled(s) /\ Forgets
    BY DEF DeliverFails, PauseCommits, PauseSettles, DeliverOnce, Handled, Forgets
  <1>2. /\ batch'[s] = batch[s] /\ received'[s] = received[s]
        /\ pc'[s] = "ack" => pc[s] = "ack"
    BY DEF DeliverFails, PauseCommits, PauseSettles, DeliverOnce, TypeOK,
           SinksOK, DbOK
  <1> QED BY <1>1, <1>2, LineUntouched

LEMMA RequestsHere ==
    ASSUME TypeOK, NEW s \in Durable, Here(s),
           NEW c \in 1..MaxCalls, CallStarts(c) \/ Request(c)
    PROVE  Here(s)'
  <1> USE DEF dbVars, streamVars, pumpVars, sinkVars, LogStep
  <1>1. /\ UNCHANGED <<received, confirmed, ckpt, sent, flushed, outstanding,
                       pulled, at, seq, bySeq, queue, batch, deliveredSeq,
                       ackedEventId>>
        /\ LogStep /\ Handled(s)' = Handled(s) /\ Forgets
    BY DEF CallStarts, Request, CallCommits, CallFails, ResumeCalls, Handled, Forgets
  <1>2. pc'[s] = "ack" => pc[s] = "ack"
    BY DEF CallStarts, Request, CallCommits, CallFails, ResumeCalls, Wake, Enter,
           TypeOK, SinksOK
  <1> QED BY <1>1, <1>2, LineUntouched

LEMMA CrashHere ==
    ASSUME TypeOK, NEW s \in Durable, Here(s), Crash PROVE Here(s)'
  <1>0. /\ sent' = 0 /\ pulled' = 0 /\ at' = 0 /\ flushed' = 0
        /\ bySeq' = [q \in {} |-> 0] /\ ackedEventId' = ckpt /\ LogStep
        /\ UNCHANGED <<received, confirmed, ckpt>>
    BY DurablesFinite DEF Crash, StartPosition, LogStep
  <1>1. queue'[s] = <<>> /\ batch'[s] = <<>> /\ pc'[s] # "ack"
    BY DEF Crash, PerSink, StartPC, Sink
  <1>2. NamesOK(s)'
    BY <1>0, <1>1 DEF NamesOK
  <1>3. ASSUME NEW e \in Missing(s)' PROVE Awaited(s, e)' /\ Unreleased(s, e)'
    <2>1. e \in Missing(s)
      BY <1>0, MissingShrinks
    <2>2. Unreleased(s, e) /\ e \in Nat /\ e > 0
      BY <2>1 DEF Here, MissingOK, Missing, Event
    <2>3. ~(e <= 0)
      BY <2>2
    <2>4. Awaited(s, e)'
      BY <1>0, <1>1, <2>3 DEF Awaited, Handled
    <2>5. Unreleased(s, e)'
      BY <1>0, <2>2, <2>3 DEF Unreleased
    <2> QED BY <2>4, <2>5
  <1> QED BY <1>2, <1>3 DEF Here, MissingOK

LEMMA NextHere == OneDurable /\ TypeOK /\ ReconnectInv /\ [Next]_vars => ReconnectInv'
  <1> SUFFICES ASSUME OneDurable, TypeOK, [Next]_vars, NEW s \in Durable, Here(s)
               PROVE  Here(s)'
    BY DEF ReconnectInv, Here
  <1>1. CASE Connect \/ Receive \/ Keepalive \/ SendStatus \/ Disconnect
    BY <1>1, ConnectHere, ReceiveHere, SessionHere
  <1>2. CASE Pump
    BY <1>2, PullHere, FanOutSkipHere, FanOutWaitsHere,
       FanOutDurableHere, FanOutEphemeralHere, FanOutEndHere DEF Pump
  <1>3. ASSUME NEW k \in Sink, Worker(k) PROVE Here(s)'
    BY <1>3, TakeBatchHere, DeliverHere, SkipBatchHere, AckCheckpointHere,
       QuietHere DEF Worker
  <1>4. ASSUME NEW c \in 1..MaxCalls, CallStarts(c) \/ Request(c) PROVE Here(s)'
    BY <1>4, RequestsHere
  <1>5. CASE Crash
    BY <1>5, CrashHere
  <1>6. CASE UNCHANGED vars
    <2>1. /\ UNCHANGED <<wal, received, confirmed, ckpt, sent, flushed, outstanding,
                         pulled, at, seq, bySeq, queue, batch, pc, deliveredSeq,
                         ackedEventId>>
          /\ LogStep /\ Handled(s)' = Handled(s) /\ Forgets
      BY <1>6 DEF vars, dbVars, streamVars, pumpVars, sinkVars, Handled, Forgets, LogStep
    <2> QED BY <2>1, LineUntouched
  <1> QED BY <1>1, <1>2, <1>3, <1>4, <1>5, <1>6 DEF Next

LEMMA ReconnectInvariant ==
    ASSUME OneDurable PROVE Spec => [](TypeOK /\ ReconnectInv)
  <1>1. TypeOK /\ ReconnectInv /\ [Next]_vars => ReconnectInv'
    BY NextHere
  <1> QED BY <1>1, InitType, NextType, InitHere, PTL DEF Spec

-----------------------------------------------------------------------------
(* What no missing event has reached is behind all that is missing. *)

LEMMA MissingBeyond ==
    ASSUME TypeOK, ReconnectInv, NEW s \in Durable
    PROVE  /\ Got(wal, received[s], confirmed) /\ Got(wal, received[s], flushed)
           /\ Got(wal, received[s], ckpt[s]) /\ Got(wal, received[s], ackedEventId[s])
  <1>1. ASSUME NEW e \in Event, IsUser(e), e \notin received[s]
        PROVE  e > confirmed /\ e > flushed /\ e > ckpt[s] /\ e > ackedEventId[s]
    BY <1>1 DEF ReconnectInv, MissingOK, Missing, Unreleased
  <1>2. /\ confirmed \in Nat /\ flushed \in Nat /\ ckpt[s] \in Nat
        /\ ackedEventId[s] \in Nat
    BY Kinds DEF Sink
  <1> QED BY <1>1, <1>2 DEF Got, Event, IsUser

(* engine.ts:90 and :245-257, with any number of reconnects: the slot of an *)
(* engine with one durable sink holds every user event that this sink has   *)
(* not acknowledged, wherever the connection or the process is lost.        *)
THEOREM SlotIsSafeAcrossReconnects ==
    ASSUME OneDurable PROVE Spec => []SlotHoldsUndelivered
  <1>1. TypeOK /\ ReconnectInv => SlotHoldsUndelivered
    BY MissingBeyond, GotIsDelivered DEF SlotHoldsUndelivered
  <1> QED BY <1>1, ReconnectInvariant, PTL

(* checkpoint.ts:52 and engine.ts:205-212, likewise: redelivery, by a       *)
(* reconnect or after a restart, takes no checkpoint past a user event that *)
(* the one durable sink has not acknowledged.                               *)
THEOREM CheckpointIsSafeAcrossReconnects ==
    ASSUME OneDurable PROVE Spec => []CheckpointCoversDelivered
  <1>1. TypeOK /\ ReconnectInv => CheckpointCoversDelivered
    BY MissingBeyond, GotIsDelivered DEF CheckpointCoversDelivered
  <1> QED BY <1>1, ReconnectInvariant, PTL

(* docs/guide/delivery-guarantees.md: an engine with one durable sink keeps *)
(* its promise however often the connection is lost.                        *)
THEOREM PromiseKeptAcrossReconnects ==
    ASSUME OneDurable PROVE Spec => KeepsPromise
  <1>1. Init => Promise!AInit
    BY DEF Init, PerSink, Promise!AInit, Sink
  <1>2. TypeOK /\ TypeOK' /\ ReconnectInv /\ [Next]_vars
        => [Promise!ANext]_(Promise!avars)
    BY MissingBeyond, StepKeepsPromise
  <1> QED BY <1>1, <1>2, ReconnectInvariant, PTL DEF Spec, KeepsPromise, Promise!ASpec

-----------------------------------------------------------------------------
(* With any number of durable sinks the session may be acknowledged past an *)
(* event that one of them misses (finding 1), but only while that sink has  *)
(* the event in hand: it is lost if the process dies then, and in no other  *)
(* way.                                                                     *)

\* The last number that sink s was given or passed over.
LastSeq(s) == IF at # 0 /\ at <= s THEN seq - 1 ELSE seq

SeqsOK(s) ==
    /\ deliveredSeq[s] <= LastSeq(s)
    /\ \A i \in 1..Len(batch[s]) : batch[s][i].seq <= LastSeq(s)
    /\ \A i \in 1..Len(queue[s]) : queue[s][i].seq <= LastSeq(s)

\* Event e is in the memory of s.
InHand(s, e) == Among(batch[s], e, Len(batch[s])) \/ Among(queue[s], e, Len(queue[s]))

\* The slot still has e to send, and no number of s acknowledges it.
OnSlot(s, e) ==
    /\ e > confirmed /\ e > flushed
    /\ e <= sent => e \in outstanding
    /\ \A q \in DOMAIN bySeq : q <= LastSeq(s) => e > bySeq[q]

Due(s, e) ==
    /\ Awaited(s, e) /\ e > ckpt[s] /\ e > ackedEventId[s]
    /\ InHand(s, e) \/ OnSlot(s, e)

Sound(s) == NamesOK(s) /\ SeqsOK(s) /\ \A e \in Missing(s) : Due(s, e)

DueInv == \A s \in Durable : Sound(s)

\* The process dies only when the slot is past nothing a durable sink misses.
DiesInTime == Crash => \A s \in Durable : Delivered(s, confirmed)

\* A step that leaves the line of s, and the numbers in it, alone.
LEMMA LineLeft ==
    ASSUME TypeOK, NEW s \in Durable, Sound(s), LogStep, Forgets,
           UNCHANGED <<seq, pulled, sent>>, at' # 0 => at # 0,
           Handled(s)' = Handled(s), LastSeq(s)' = LastSeq(s),
           queue'[s] = queue[s], batch'[s] = batch[s],
           received[s] \subseteq received'[s],
           deliveredSeq'[s] <= LastSeq(s),
           \A e \in Missing(s)' :
              /\ pc'[s] = "ack" => pc[s] = "ack" \/ ~Among(batch[s], e, Len(batch[s]))
              /\ ckpt'[s] = ckpt[s] \/ e > ckpt'[s]
              /\ ackedEventId'[s] = ackedEventId[s] \/ e > ackedEventId'[s]
              /\ OnSlot(s, e) => /\ e \in outstanding => e \in outstanding'
                                 /\ e > confirmed' /\ e > flushed'
    PROVE  Sound(s)'
  <1>1. NamesOK(s)'
    BY NamesKept DEF Sound
  <1>2. SeqsOK(s)'
    BY DEF Sound, SeqsOK
  <1>3. ASSUME NEW e \in Missing(s)' PROVE Due(s, e)'
    <2>1. Due(s, e)
      BY MissingShrinks DEF Sound
    <2>2. Awaited(s, e)' /\ e > ckpt'[s] /\ e > ackedEventId'[s]
      BY <2>1 DEF Awaited, Due
    <2>3. InHand(s, e)' \/ OnSlot(s, e)'
      BY <2>1 DEF Due, InHand, OnSlot, Forgets
    <2> QED BY <2>2, <2>3 DEF Due
  <1> QED BY <1>1, <1>2, <1>3 DEF Sound

LEMMA InitDue == Init => DueInv
  <1> SUFFICES ASSUME Init, NEW s \in Durable PROVE Sound(s)
    BY DEF DueInv
  <1> USE DEF Init, PerSink, Sink
  <1>1. NamesOK(s) /\ SeqsOK(s)
    BY DEF NamesOK, SeqsOK, LastSeq
  <1>2. ASSUME NEW e \in Missing(s) PROVE Due(s, e)
    <2>1. e \in Nat /\ e > 0
      BY DEF Missing, Event
    <2> QED BY <2>1 DEF Due, Awaited, Handled, Among, OnSlot
  <1> QED BY <1>1, <1>2 DEF Sound

LEMMA ConnectDue ==
    ASSUME TypeOK, NEW s \in Durable, Sound(s), Connect PROVE Sound(s)'
  <1> DEFINE R == ResumeAfter(confirmed)
  <1>1. R \in 0..confirmed /\ confirmed \in Nat
    BY ResumeAfterType DEF TypeOK, DbOK
  <1>2. /\ pulled' = R /\ sent' = R /\ at' = 0 /\ at = 0 /\ flushed' = 0
        /\ UNCHANGED <<wal, received, confirmed, ckpt, seq, bySeq, queue, batch,
                       pc, ackedEventId, deliveredSeq>>
    BY DEF Connect, dbVars, sinkVars
  <1> HIDE DEF R
  <1>3. NamesOK(s)' /\ SeqsOK(s)' /\ LastSeq(s)' = LastSeq(s)
    BY <1>2 DEF Sound, NamesOK, Named, SeqsOK, LastSeq
  <1>4. ASSUME NEW e \in Missing(s)' PROVE Due(s, e)'
    <2>1. e \in Missing(s) /\ e \in Nat /\ e > 0
      BY <1>2 DEF Missing, Event, IsUser
    <2>2. Due(s, e)
      BY <2>1 DEF Sound
    <2>3. e <= R => InHand(s, e)
      BY <1>1, <2>1, <2>2 DEF Due, OnSlot
    <2>4. Handled(s)' = R
      BY <1>2 DEF Handled
    <2>5. Awaited(s, e)'
      BY <1>2, <2>2, <2>3, <2>4 DEF Due, Awaited, InHand
    <2>6. OnSlot(s, e) => OnSlot(s, e)'
      <3>1. OnSlot(s, e) => ~(e <= R)
        BY <1>1, <2>1 DEF OnSlot
      <3> QED BY <1>2, <1>3, <2>1, <3>1 DEF OnSlot
    <2> QED BY <1>2, <2>2, <2>5, <2>6 DEF Due, InHand
  <1> QED BY <1>3, <1>4 DEF Sound

LEMMA ReceiveDue ==
    ASSUME TypeOK, NEW s \in Durable, Sound(s), Receive PROVE Sound(s)'
  <1> USE DEF Receive, dbVars, pumpVars, sinkVars
  <1>0. sent \in Nat /\ LastSeq(s)' = LastSeq(s) /\ Handled(s)' = Handled(s)
    BY Kinds DEF LastSeq, Handled
  <1>1. NamesOK(s)' /\ SeqsOK(s)'
    BY <1>0 DEF Sound, NamesOK, Named, SeqsOK
  <1>2. ASSUME NEW e \in Missing(s)' PROVE Due(s, e)'
    <2>1. e \in Nat /\ Due(s, e)
      BY DEF Missing, Event, IsUser, Sound
    <2>2. Awaited(s, e)'
      BY <1>0, <2>1, AwaitedKept DEF Due
    <2>3. OnSlot(s, e) => OnSlot(s, e)'
      <3>1. e <= sent' /\ OnSlot(s, e) => e \in outstanding'
        BY <1>0, <2>1 DEF OnSlot
      <3> QED BY <1>0, <3>1 DEF OnSlot
    <2> QED BY <2>1, <2>2, <2>3 DEF Due, InHand
  <1> QED BY <1>1, <1>2 DEF Sound

LEMMA SessionDue ==
    ASSUME TypeOK, NEW s \in Durable, Sound(s), Keepalive \/ SendStatus \/ Disconnect
    PROVE  Sound(s)'
  <1> USE DEF dbVars, pumpVars, sinkVars, streamVars
  <1>0. /\ UNCHANGED <<wal, received, ckpt, sent, outstanding, pulled, at, seq,
                       bySeq, queue, batch, pc, deliveredSeq, ackedEventId>>
        /\ Missing(s)' = Missing(s) /\ Handled(s)' = Handled(s)
        /\ LastSeq(s)' = LastSeq(s) /\ LogStep /\ Forgets
    BY DEF Keepalive, SendStatus, Disconnect, Missing, Event, IsUser, Handled,
           LastSeq, LogStep, Forgets
  <1>1. ASSUME NEW e \in Missing(s), OnSlot(s, e)
        PROVE  e > confirmed' /\ e > flushed'
    <2>1. e \in Nat /\ sent \in Nat
      BY Kinds DEF Missing, Event
    <2>2. CASE Keepalive
      BY <1>1, <2>1, <2>2 DEF Keepalive, OnSlot
    <2>3. CASE SendStatus
      BY <1>1, <2>3 DEF SendStatus, OnSlot
    <2>4. CASE Disconnect
      BY <1>1, <2>4 DEF Disconnect, OnSlot
    <2> QED BY <2>2, <2>3, <2>4
  <1>2. deliveredSeq[s] <= LastSeq(s)
    BY DEF Sound, SeqsOK
  <1> QED BY <1>0, <1>1, <1>2, LineLeft

LEMMA PullDue ==
    ASSUME TypeOK, NEW s \in Durable, Sound(s), Pull PROVE Sound(s)'
  <1> USE DEF Pull, dbVars, streamVars, sinkVars
  <1>0. /\ pulled \in Nat /\ seq \in Nat /\ s \in Nat /\ s >= 1
        /\ DOMAIN bySeq' \subseteq 1..(seq + 1)
    BY Kinds DEF Sink
  <1>1. /\ NamesOK(s)'
        /\ \A q \in 1..seq : q \in DOMAIN bySeq'
              => q \in DOMAIN bySeq /\ bySeq'[q] = bySeq[q]
    BY NamesPull DEF Sound
  <1>2. LastSeq(s) = seq /\ LastSeq(s)' = seq /\ Handled(s)' = Handled(s)
    BY <1>0 DEF LastSeq, Handled
  <1>3. SeqsOK(s)'
    BY <1>2 DEF Sound, SeqsOK
  <1>4. ASSUME NEW e \in Missing(s)' PROVE Due(s, e)'
    <2>1. Due(s, e)
      BY DEF Missing, Event, IsUser, Sound
    <2>2. Awaited(s, e)'
      BY <1>2, <2>1, AwaitedKept DEF Due
    <2>3. \A q \in DOMAIN bySeq' : q <= seq => q \in 1..seq
      BY <1>0
    <2>4. OnSlot(s, e) => OnSlot(s, e)'
      BY <1>1, <1>2, <2>3 DEF OnSlot
    <2> QED BY <2>1, <2>2, <2>4 DEF Due, InHand
  <1> QED BY <1>1, <1>3, <1>4 DEF Sound

\* The fan-out of the event the pump is at, and its number, to sink s.
LEMMA SeqAt ==
    ASSUME TypeOK, NEW s \in Sink, at \in Sink, at' = at + 1, UNCHANGED seq
    PROVE  /\ seq \in Nat
           /\ s # at => LastSeq(s)' = LastSeq(s)
           /\ s = at => LastSeq(s) = seq - 1 /\ LastSeq(s)' = seq
  BY Kinds DEF LastSeq, Sink

\* The items of a line, and the numbers that items have.
LEMMA LineItems ==
    ASSUME TypeOK, NEW s \in Sink
    PROVE  /\ \A i \in 1..Len(batch[s]) : batch[s][i] \in Tracked
           /\ \A i \in 1..Len(queue[s]) : queue[s][i] \in Tracked
           /\ \A x \in Tracked : x.seq \in Nat /\ x.seq <= seq
  <1>1. batch[s] \in Seq(Tracked) /\ queue[s] \in Seq(Tracked) /\ seq \in Nat
    BY DEF TypeOK, SinksOK, PumpOK
  <1>2. \A x \in Tracked : x.seq \in Nat /\ x.seq <= seq
    BY <1>1 DEF Tracked
  <1> QED BY <1>1, <1>2

LEMMA FanOutSkipDue ==
    ASSUME TypeOK, NEW s \in Durable, Sound(s), FanOutSkip PROVE Sound(s)'
  <1> USE DEF FanOutSkip, dbVars, streamVars
  <1>0. /\ UNCHANGED <<wal, received, confirmed, ckpt, sent, outstanding, flushed,
                       pulled, seq, bySeq, queue, batch, pc, ackedEventId>>
        /\ at \in Sink /\ at' = at + 1 /\ LogStep /\ Forgets
    BY DEF LogStep, Forgets
  <1>1. CASE s # at
    <2>1. deliveredSeq'[s] = deliveredSeq[s] /\ deliveredSeq[s] <= LastSeq(s)
      BY <1>1 DEF TypeOK, SinksOK, Sound, SeqsOK
    <2>2. LastSeq(s)' = LastSeq(s) /\ Handled(s)' = Handled(s) /\ at # 0
      BY <1>0, <1>1, FanOutAt, SeqAt
    <2> QED BY <1>0, <2>1, <2>2, LineLeft DEF OnSlot
  <1>2. CASE s = at
    <2>1. /\ at # 0 /\ at' # 0 /\ pulled \in Event /\ pulled \in Nat
          /\ Handled(s) = pulled - 1 /\ Handled(s)' = pulled
          /\ seq \in Nat /\ LastSeq(s) = seq - 1 /\ LastSeq(s)' = seq
      BY <1>0, <1>2, FanOutAt, SeqAt
    <2>2. deliveredSeq'[s] = seq
      BY <1>2 DEF TypeOK, SinksOK
    <2>3. NamesOK(s)'
      BY <1>0, <2>1, NamesKept DEF Sound
    <2>4. SeqsOK(s)'
      BY <1>0, <2>1, <2>2, LineItems DEF SeqsOK
    <2>5. ASSUME NEW e \in Missing(s)' PROVE Due(s, e)'
      <3>1. Due(s, e) /\ e \in Nat
        BY Kinds DEF Missing, Event, IsUser, Sound
      <3>2. e > pulled
        BY <1>2, <2>1, <3>1, Kinds DEF AlreadyDelivered, Due
      <3>3. Awaited(s, e)'
        BY <1>0, <2>1, <3>1, <3>2 DEF Awaited, Due
      <3>4. OnSlot(s, e) => OnSlot(s, e)'
        <4>1. seq \in DOMAIN bySeq => bySeq[seq] = pulled
          BY <2>1 DEF Sound, NamesOK
        <4>2. \A q \in DOMAIN bySeq : q \in Nat
          BY Kinds
        <4>3. \A q \in DOMAIN bySeq : q <= seq => q <= seq - 1 \/ q = seq
          BY <2>1, <4>2
        <4> QED BY <1>0, <2>1, <3>2, <4>1, <4>3 DEF OnSlot
      <3> QED BY <1>0, <3>1, <3>3, <3>4 DEF Due, InHand
    <2> QED BY <2>3, <2>4, <2>5 DEF Sound
  <1> QED BY <1>1, <1>2

LEMMA FanOutWaitsDue ==
    ASSUME TypeOK, NEW s \in Durable, Sound(s), FanOutWaits PROVE Sound(s)'
  <1>1. /\ UNCHANGED <<wal, received, confirmed, ckpt, sent, flushed, outstanding,
                       pulled, at, seq, bySeq, queue, batch, pc, deliveredSeq,
                       ackedEventId>>
        /\ LogStep /\ Forgets
        /\ Handled(s)' = Handled(s) /\ LastSeq(s)' = LastSeq(s)
    BY DEF FanOutWaits, dbVars, streamVars, sinkVars, Handled, LastSeq, Forgets,
           LogStep
  <1>2. deliveredSeq[s] <= LastSeq(s)
    BY DEF Sound, SeqsOK
  <1> QED BY <1>1, <1>2, LineLeft DEF OnSlot

LEMMA FanOutDurableDue ==
    ASSUME TypeOK, NEW s \in Durable, Sound(s), FanOutDurable PROVE Sound(s)'
  <1> USE DEF FanOutDurable, dbVars, streamVars
  <1> DEFINE t == [seq |-> seq, event |-> pulled]
  <1>0. /\ UNCHANGED <<wal, received, confirmed, ckpt, sent, outstanding, flushed,
                       pulled, seq, bySeq, batch, pc, ackedEventId, deliveredSeq>>
        /\ at \in Sink /\ at' = at + 1 /\ LogStep /\ Forgets
    BY DEF LogStep, Forgets
  <1>1. CASE s # at
    <2>1. queue'[s] = queue[s] /\ deliveredSeq[s] <= LastSeq(s)
      BY <1>1 DEF TypeOK, SinksOK, Sound, SeqsOK
    <2>2. LastSeq(s)' = LastSeq(s) /\ Handled(s)' = Handled(s) /\ at # 0
      BY <1>0, <1>1, FanOutAt, SeqAt
    <2> QED BY <1>0, <2>1, <2>2, LineLeft DEF OnSlot
  <1>2. CASE s = at
    <2>1. /\ at # 0 /\ at' # 0 /\ pulled \in Event /\ pulled \in Nat
          /\ Handled(s) = pulled - 1 /\ Handled(s)' = pulled /\ t \in Tracked
          /\ seq \in Nat /\ LastSeq(s) = seq - 1 /\ LastSeq(s)' = seq
      BY <1>0, <1>2, FanOutAt, SeqAt, Kinds DEF Tracked
    <2>2. queue'[s] = Put(queue[s], t) /\ queue[s] \in Seq(Tracked)
      BY <1>2 DEF TypeOK, SinksOK
    <2>3. t.event = pulled /\ t.seq = seq /\ Named(t)
      BY <2>1 DEF Sound, NamesOK, Named
    <2> HIDE DEF t
    <2>4. NamesOK(s)'
      BY <1>0, <2>1, <2>2, <2>3, NamesPut DEF Sound
    <2>5. SeqsOK(s)'
      <3>1. deliveredSeq[s] \in Nat /\ deliveredSeq[s] <= seq
        BY <2>1, Kinds
      <3>2. \A i \in 1..Len(queue'[s]) : queue'[s][i] \in Tracked
        BY <2>1, <2>2, LineItems, PutItems
      <3> QED BY <1>0, <2>1, <3>1, <3>2, LineItems DEF SeqsOK
    <2>6. ASSUME NEW e, Among(queue[s], e, Len(queue[s])) \/ e = pulled
          PROVE  Among(queue'[s], e, Len(queue'[s]))
      <3> DEFINE q == queue[s]
                 z == queue'[s]
      <3>1. q \in Seq(Tracked) /\ z = Put(q, t)
        BY <2>2
      <3>2. Among(q, e, Len(q)) \/ e = pulled
        BY <2>6
      <3> HIDE DEF q, z
      <3>3. /\ Len(z) = Len(q) + 1 /\ Len(q) \in Nat
            /\ \A i \in 1..Len(q) : z[i] = q[i]
            /\ z[Len(q) + 1] = t
        BY <3>1, PutItems
      <3>4. \A i \in 1..Len(q) : i \in 1..Len(z)
        BY <3>3
      <3>5. Len(q) + 1 \in 1..Len(z)
        BY <3>3
      <3>6. Among(z, e, Len(z))
        BY <2>3, <3>2, <3>3, <3>4, <3>5 DEF Among
      <3> QED BY <3>6 DEF z
    <2>7. ASSUME NEW e \in Missing(s)' PROVE Due(s, e)'
      <3>1. Due(s, e) /\ e \in Nat
        BY <1>0, Kinds DEF Missing, Event, IsUser, Sound
      <3>2. Awaited(s, e)'
        BY <1>0, <2>1, <2>2, <2>3, <3>1, AwaitedPut DEF Due
      <3>3. InHand(s, e) \/ e = pulled => InHand(s, e)'
        BY <1>0, <2>6 DEF InHand
      <3>4. ASSUME OnSlot(s, e) PROVE InHand(s, e)' \/ OnSlot(s, e)'
        <4>1. CASE e < pulled
          <5>1. e <= Handled(s)
            BY <2>1, <3>1, <4>1
          <5> QED BY <3>1, <3>3, <5>1 DEF Due, Awaited, InHand
        <4>2. CASE e = pulled
          BY <3>3, <4>2
        <4>3. CASE e > pulled
          <5>1. seq \in DOMAIN bySeq => bySeq[seq] = pulled
            BY <2>1 DEF Sound, NamesOK
          <5>2. \A q \in DOMAIN bySeq : q \in Nat
            BY Kinds
          <5>3. \A q \in DOMAIN bySeq : q <= seq => q <= seq - 1 \/ q = seq
            BY <2>1, <5>2
          <5> QED BY <1>0, <2>1, <3>4, <4>3, <5>1, <5>3 DEF OnSlot
        <4> QED BY <2>1, <3>1, <4>1, <4>2, <4>3
      <3> QED BY <1>0, <3>1, <3>2, <3>3, <3>4 DEF Due
    <2> QED BY <2>4, <2>5, <2>7 DEF Sound
  <1> QED BY <1>1, <1>2

LEMMA FanOutEphemeralDue ==
    ASSUME TypeOK, NEW s \in Durable, Sound(s), FanOutEphemeral PROVE Sound(s)'
  <1> USE DEF FanOutEphemeral, dbVars, streamVars
  <1>1. queue'[s] = queue[s] /\ s # at /\ at \in Sink /\ deliveredSeq[s] <= LastSeq(s)
    BY DEF TypeOK, SinksOK, Sound, SeqsOK
  <1>2. LastSeq(s)' = LastSeq(s) /\ Handled(s)' = Handled(s) /\ at # 0
    BY <1>1, FanOutAt, SeqAt
  <1> QED BY <1>1, <1>2, LineLeft DEF LogStep, Forgets, OnSlot

\* maybeAck() acknowledges the least of the numbers, so none behind an event
\* that is on the slot for s.
LEMMA AckSpares ==
    ASSUME TypeOK, NEW s \in Durable, NEW ds, ds[s] \in Nat, ds[s] <= LastSeq(s),
           ds \in [Sink -> 0..seq], MaybeAck(ds), NEW e \in Event, OnSlot(s, e)
    PROVE  e > flushed' /\ (e \in outstanding => e \in outstanding')
  <1>1. PICK min \in {ds[t] : t \in Durable} :
            /\ IsMin(min, ds)
            /\ IF min <= ackedSeq
               THEN UNCHANGED <<flushed, outstanding, bySeq, ackedSeq>>
               ELSE /\ IF min \in DOMAIN bySeq
                       THEN Ack(bySeq[min])
                       ELSE UNCHANGED <<flushed, outstanding>>
                    /\ bySeq' = [q \in DOMAIN bySeq \ Forgotten(min) |-> bySeq[q]]
                    /\ ackedSeq' = min
    BY DEF MaybeAck
  <1>2. min <= LastSeq(s)
    <2>1. min \in Nat /\ min <= ds[s]
      BY <1>1, Kinds DEF IsMin
    <2>2. LastSeq(s) \in Int
      BY Kinds DEF LastSeq
    <2> QED BY <2>1, <2>2
  <1>3. CASE UNCHANGED <<flushed, outstanding>>
    BY <1>3 DEF OnSlot
  <1>4. CASE min \in DOMAIN bySeq /\ Ack(bySeq[min])
    <2> DEFINE b == bySeq[min]
    <2>1. b \in Nat /\ e \in Nat /\ flushed \in Nat /\ e > b /\ e > flushed
      BY <1>2, <1>4, Kinds DEF OnSlot
    <2>2. Ack(b)
      BY <1>4
    <2> HIDE DEF b
    <2>3. flushed' \in {flushed, b, b - 1}
      BY <2>2 DEF Ack, AckTarget, Larger
    <2>4. e > flushed'
      BY <2>1, <2>3
    <2>5. e \in outstanding => e \in outstanding'
      BY <2>1, <2>2 DEF Ack, StillOut
    <2> QED BY <2>4, <2>5
  <1> QED BY <1>1, <1>3, <1>4

LEMMA FanOutEndDue ==
    ASSUME TypeOK, NEW s \in Durable, Sound(s), FanOutEnd PROVE Sound(s)'
  <1> USE DEF FanOutEnd, dbVars, sinkVars
  <1>0. /\ UNCHANGED <<wal, received, confirmed, ckpt, sent, pulled, seq, queue,
                       batch, pc, ackedEventId, deliveredSeq>>
        /\ at' = 0 /\ LogStep /\ s \in Sink /\ ~PumpAcks(pulled)
    BY DEF LogStep, PumpAcks
  <1>1. Handled(s)' = Handled(s) /\ LastSeq(s)' = LastSeq(s)
    BY <1>0 DEF Handled, LastSeq, Sink
  <1>2. Forgets
    BY <1>0, AckForgets DEF Forgets
  <1>3. deliveredSeq[s] <= LastSeq(s) /\ deliveredSeq \in [Sink -> 0..seq]
        /\ deliveredSeq[s] \in Nat
    BY Kinds DEF Sound, SeqsOK, TypeOK, SinksOK
  <1>4. ASSUME NEW e \in Missing(s)', OnSlot(s, e)
        PROVE  e > flushed' /\ (e \in outstanding => e \in outstanding')
    <2>1. e \in Event
      BY <1>0 DEF Missing, Event, IsUser
    <2>2. CASE MaybeAck(deliveredSeq)
      BY <1>3, <1>4, <2>1, <2>2, AckSpares
    <2>3. CASE UNCHANGED <<flushed, outstanding>>
      BY <1>4, <2>3 DEF OnSlot
    <2> QED BY <1>0, <2>2, <2>3
  <1> QED BY <1>0, <1>1, <1>2, <1>3, <1>4, LineLeft DEF OnSlot

LEMMA TakeBatchDue ==
    ASSUME TypeOK, NEW s \in Durable, Sound(s), NEW k \in Sink, TakeBatch(k)
    PROVE  Sound(s)'
  <1> USE DEF dbVars, streamVars, pumpVars
  <1> DEFINE n == Smaller(Len(queue[k]), BatchSize)
  <1>0. /\ UNCHANGED <<wal, received, sent, pulled, at, seq, confirmed, ckpt,
                       ackedEventId, deliveredSeq, flushed, outstanding, bySeq>>
        /\ Handled(s)' = Handled(s) /\ LastSeq(s)' = LastSeq(s) /\ LogStep /\ Forgets
    BY DEF TakeBatch, Handled, LastSeq, LogStep, Forgets
  <1>1. queue[k] # <<>> /\ batch[k] = <<>>
    BY DEF TakeBatch, HasItems, TypeOK, SinksOK
  <1>2. /\ batch' = [batch EXCEPT ![k] = SubSeq(queue[k], 1, n)]
        /\ queue' = [queue EXCEPT ![k] = Rest(@, n)]
    BY DEF TakeBatch
  <1>3. /\ s # k => pc'[s] = pc[s]
        /\ pc'[k] # "ack"
    BY DEF TakeBatch, Enter, TypeOK, SinksOK
  <1>4. n \in 1..Len(queue[k]) /\ deliveredSeq[s] <= LastSeq(s)
    BY <1>1, TakenType DEF Sound, SeqsOK
  <1> HIDE DEF n
  <1>5. CASE s # k
    <2>1. queue'[s] = queue[s] /\ batch'[s] = batch[s]
      BY <1>2, <1>5 DEF TypeOK, SinksOK
    <2> QED BY <1>0, <1>3, <1>4, <1>5, <2>1, LineLeft DEF OnSlot
  <1>6. CASE s = k
    <2> DEFINE q == queue[s]
               b == batch'[s]
               z == queue'[s]
    <2>1. /\ q \in Seq(Tracked) /\ n \in 1..Len(q)
          /\ b = SubSeq(q, 1, n) /\ z = Rest(q, n)
      BY <1>2, <1>4, <1>6 DEF TypeOK, SinksOK
    <2>2. NamesOK(s)'
      BY <1>0, <1>4, <1>6, <2>1, NamesTake DEF Sound
    <2>3. \A i \in 1..Len(q) : q[i].seq <= LastSeq(s)
      BY DEF Sound, SeqsOK
    <2>4. ASSUME NEW e \in Missing(s)' PROVE Due(s, e) /\ Awaited(s, e)'
      <3>1. Due(s, e) /\ e \in Nat
        BY <1>0, Kinds DEF Missing, Event, IsUser, Sound
      <3> QED BY <1>0, <1>1, <1>3, <1>4, <1>6, <2>1, <3>1, AwaitedTake DEF Due
    <2>5. \A e : InHand(s, e) => Among(q, e, Len(q))
      BY <1>1, <1>6 DEF InHand, Among
    <2>6. \A e : Among(b, e, Len(b)) \/ Among(z, e, Len(z)) => InHand(s, e)'
      BY DEF InHand
    <2>7. (\A i \in 1..Len(b) : b[i].seq <= LastSeq(s))
          /\ (\A i \in 1..Len(z) : z[i].seq <= LastSeq(s)) => SeqsOK(s)'
      BY <1>0, <1>4 DEF SeqsOK
    <2> HIDE DEF q, b, z
    <2>8. /\ \A i \in 1..Len(b) : i \in 1..Len(q) /\ b[i] = q[i]
          /\ \A i \in 1..Len(z) : n + i \in 1..Len(q) /\ z[i] = q[n + i]
      BY ONLY <2>1, TakenPlaces, SMTT(30)
    <2>9. SeqsOK(s)'
      BY <2>3, <2>7, <2>8
    <2>10. ASSUME NEW e \in Missing(s)' PROVE Due(s, e)'
      <3>1. Among(q, e, Len(q)) => Among(b, e, Len(b)) \/ Among(z, e, Len(z))
        BY <2>1, TakenItems
      <3>2. InHand(s, e) => InHand(s, e)'
        BY <2>5, <2>6, <3>1
      <3>3. OnSlot(s, e) => OnSlot(s, e)'
        BY <1>0 DEF OnSlot
      <3> QED BY <1>0, <2>4, <3>2, <3>3 DEF Due
    <2> QED BY <2>2, <2>9, <2>10 DEF Sound
  <1> QED BY <1>5, <1>6

LEMMA DeliverDue ==
    ASSUME TypeOK, NEW s \in Durable, Sound(s), NEW k \in Sink, Deliver(k)
    PROVE  Sound(s)'
  <1> USE DEF dbVars, streamVars, pumpVars
  <1> DEFINE last == batch[s][Len(batch[s])]
  <1>0. /\ UNCHANGED <<wal, sent, pulled, at, seq, confirmed, ckpt, queue, batch,
                       flushed, outstanding, bySeq>>
        /\ Handled(s)' = Handled(s) /\ LastSeq(s)' = LastSeq(s) /\ LogStep /\ Forgets
    BY DEF Deliver, Handled, LastSeq, LogStep, Forgets
  <1>1. CASE s # k
    <2>1. /\ received'[s] = received[s] /\ pc'[s] = pc[s]
          /\ deliveredSeq'[s] = deliveredSeq[s] /\ ackedEventId'[s] = ackedEventId[s]
          /\ deliveredSeq[s] <= LastSeq(s)
      BY <1>1 DEF Deliver, Advance, TypeOK, DbOK, SinksOK, Sound, SeqsOK
    <2> QED BY <1>0, <2>1, LineLeft DEF OnSlot
  <1>2. CASE s = k
    <2>1. /\ received'[s] = received[s] \union Deliverable(batch[s])
          /\ deliveredSeq'[s] = last.seq /\ ackedEventId'[s] = last.event
          /\ batch[s] # <<>>
      BY <1>2 DEF Deliver, Advance, TypeOK, DbOK, SinksOK
    <2>2. last.seq <= LastSeq(s)
      BY <2>1, LastType DEF Sound, SeqsOK
    <2>3. ASSUME NEW e \in Missing(s)'
          PROVE  e > last.event /\ ~Among(batch[s], e, Len(batch[s]))
      <3>1. e \in Missing(s) /\ e \in Event /\ e \notin Deliverable(batch[s])
        BY <1>0, <2>1 DEF Missing, Event, IsUser
      <3>2. ~Among(batch[s], e, Len(batch[s]))
        BY <3>1 DEF Among, Deliverable, Missing
      <3> QED BY <2>1, <3>1, <3>2, BatchPassed DEF Sound, Due
    <2> QED BY <1>0, <2>1, <2>2, <2>3, LineLeft DEF OnSlot
  <1> QED BY <1>1, <1>2

\* A durable worker is through with batch[k].
LEMMA BatchGoesDue ==
    ASSUME TypeOK, NEW s \in Durable, Sound(s), NEW k \in Durable, LogStep,
           batch[k] # <<>>, Deliverable(batch[k]) \subseteq received[k],
           NEW ds \in [Sink -> 0..seq], MaybeAck(ds),
           \/ ds = deliveredSeq
           \/ ds = [deliveredSeq EXCEPT ![k] = batch[k][Len(batch[k])].seq],
           deliveredSeq' = ds,
           UNCHANGED <<received, confirmed, sent, pulled, at, seq, queue>>,
           s # k => UNCHANGED <<ckpt[s], ackedEventId[s], batch[s], pc[s]>>,
           ckpt'[k] = ckpt[k] \/ ckpt'[k] = ackedEventId[k],
           \/ ackedEventId'[k] = ackedEventId[k]
           \/ ackedEventId'[k] = batch[k][Len(batch[k])].event,
           batch'[k] = <<>>, pc'[k] # "ack"
    PROVE  Sound(s)'
  <1>0. Forgets /\ Handled(s)' = Handled(s) /\ LastSeq(s)' = LastSeq(s)
    BY AckForgets DEF Handled, LastSeq
  <1>1. ds[s] \in Nat /\ ds[s] <= LastSeq(s)
    <2>1. batch[k][Len(batch[k])].seq <= LastSeq(s) \/ s # k
      BY LastType DEF Sound, SeqsOK
    <2>2. deliveredSeq[s] <= LastSeq(s) /\ deliveredSeq \in [Sink -> 0..seq] /\ seq \in Nat
      BY DEF Sound, SeqsOK, TypeOK, SinksOK, PumpOK
    <2>3. ds[s] \in 0..seq
      OBVIOUS
    <2> QED BY <2>1, <2>2, <2>3
  <1>2. ASSUME NEW e \in Missing(s)', OnSlot(s, e)
        PROVE  e > confirmed' /\ e > flushed' /\ (e \in outstanding => e \in outstanding')
    <2>1. e \in Event
      BY MissingShrinks DEF Missing
    <2> QED BY <1>1, <1>2, <2>1, AckSpares DEF OnSlot
  <1>3. CASE s # k
    BY <1>0, <1>1, <1>2, <1>3, LineLeft
  <1>4. CASE s = k
    <2>1. NamesOK(s)'
      BY <1>0, <1>4, NamesKept DEF Sound
    <2>2. SeqsOK(s)'
      BY <1>0, <1>1, <1>4 DEF Sound, SeqsOK
    <2>3. ASSUME NEW e \in Missing(s)' PROVE Due(s, e)'
      <3>1. e \in Missing(s) /\ e \in Event /\ Due(s, e)
        BY MissingShrinks DEF Missing, Sound
      <3>2. ~Among(batch[s], e, Len(batch[s]))
        BY <1>4, <3>1 DEF Among, Deliverable, Missing
      <3>3. e > batch[s][Len(batch[s])].event
        BY <1>4, <3>1, <3>2, BatchPassed DEF Sound, Due
      <3>4. Awaited(s, e)'
        BY <1>0, <1>4, <3>1, <3>2, AwaitedDrop DEF Due
      <3>5. e > ckpt'[s] /\ e > ackedEventId'[s]
        BY <1>4, <3>1, <3>3 DEF Due
      <3>6. InHand(s, e) => InHand(s, e)'
        BY <1>4, <3>2 DEF InHand
      <3>7. OnSlot(s, e) => OnSlot(s, e)'
        BY <1>0, <1>2 DEF OnSlot, Forgets
      <3> QED BY <3>1, <3>4, <3>5, <3>6, <3>7 DEF Due
    <2> QED BY <2>1, <2>2, <2>3 DEF Sound
  <1> QED BY <1>3, <1>4

LEMMA SkipBatchDue ==
    ASSUME TypeOK, NEW s \in Durable, Sound(s), NEW k \in Sink, SkipBatch(k)
    PROVE  Sound(s)'
  <1>1. /\ k \in Durable /\ batch[k] # <<>> /\ Deliverable(batch[k]) = {}
        /\ MaybeAck(deliveredSeq') /\ LogStep
        /\ UNCHANGED <<received, confirmed, ckpt, sent, pulled, at, seq, queue>>
    BY DEF SkipBatch, TypeOK, SinksOK, dbVars, LogStep
  <1>2. deliveredSeq' \in [Sink -> 0..seq]
    BY AdvanceInRange DEF SkipBatch
  <1>3. /\ deliveredSeq' = [deliveredSeq EXCEPT ![k] = batch[k][Len(batch[k])].seq]
        /\ ackedEventId'[k] = batch[k][Len(batch[k])].event
        /\ batch'[k] = <<>> /\ pc'[k] # "ack"
        /\ s # k => UNCHANGED <<ckpt[s], ackedEventId[s], batch[s], pc[s]>>
    BY DEF SkipBatch, Advance, Enter, TypeOK, SinksOK, dbVars
  <1> QED BY <1>1, <1>2, <1>3, BatchGoesDue

LEMMA AckCheckpointDue ==
    ASSUME TypeOK, DueInv, NEW s \in Durable, NEW k \in Sink, AckCheckpoint(k)
    PROVE  Sound(s)'
  <1>0. Sound(s)
    BY DEF DueInv
  <1>1. /\ batch[k] # <<>> /\ pc[k] = "ack" /\ MaybeAck(deliveredSeq) /\ LogStep
        /\ UNCHANGED <<received, confirmed, sent, pulled, at, seq, queue,
                       deliveredSeq, ackedEventId>>
    BY DEF AckCheckpoint, TypeOK, SinksOK, LogStep
  <1>2. deliveredSeq \in [Sink -> 0..seq]
    BY DEF TypeOK, SinksOK
  <1>3. /\ batch'[k] = <<>> /\ pc'[k] # "ack" /\ ckpt'[k] = ackedEventId[k]
        /\ s # k => UNCHANGED <<ckpt[s], ackedEventId[s], batch[s], pc[s]>>
    BY DEF AckCheckpoint, Enter, TypeOK, SinksOK, DbOK
  <1>4. CASE k \in Durable
    <2>1. Deliverable(batch[k]) \subseteq received[k]
      <3> SUFFICES ASSUME NEW e \in Deliverable(batch[k]), e \notin received[k]
                   PROVE  FALSE
        OBVIOUS
      <3>1. e \in Missing(k) /\ Among(batch[k], e, Len(batch[k]))
        BY DeliverableType DEF Missing, Among, Deliverable
      <3> QED BY <1>1, <1>4, <3>1 DEF DueInv, Sound, Due, Awaited
    <2> QED BY <1>0, <1>1, <1>2, <1>3, <1>4, <2>1, BatchGoesDue
  <1>5. CASE k \notin Durable
    <2>1. Handled(s)' = Handled(s) /\ LastSeq(s)' = LastSeq(s) /\ Forgets
      BY <1>1, AckForgets DEF Handled, LastSeq
    <2>2. deliveredSeq[s] <= LastSeq(s) /\ deliveredSeq[s] \in Nat
      BY <1>0, Kinds DEF Sound, SeqsOK
    <2>3. ASSUME NEW e \in Missing(s)', OnSlot(s, e)
          PROVE  e > flushed' /\ (e \in outstanding => e \in outstanding')
      <3>1. e \in Event
        BY <1>1, MissingShrinks DEF Missing
      <3> QED BY <1>1, <1>2, <2>2, <2>3, <3>1, AckSpares
    <2> QED BY <1>0, <1>1, <1>3, <1>5, <2>1, <2>2, <2>3, LineLeft DEF OnSlot
  <1> QED BY <1>4, <1>5

LEMMA QuietDue ==
    ASSUME TypeOK, NEW s \in Durable, Sound(s), NEW k \in Sink,
           DeliverFails(k) \/ PauseCommits(k) \/ PauseSettles(k) \/ DeliverOnce(k)
    PROVE  Sound(s)'
  <1> USE DEF dbVars, streamVars, pumpVars, LogStep
  <1>1. /\ UNCHANGED <<confirmed, ckpt, sent, flushed, outstanding, pulled, at, seq,
                       bySeq, queue, deliveredSeq, ackedEventId>>
        /\ LogStep /\ Forgets
        /\ Handled(s)' = Handled(s) /\ LastSeq(s)' = LastSeq(s)
    BY DEF DeliverFails, PauseCommits, PauseSettles, DeliverOnce, Handled, LastSeq,
           Forgets
  <1>2. /\ batch'[s] = batch[s] /\ received'[s] = received[s]
        /\ pc'[s] = "ack" => pc[s] = "ack"
    BY DEF DeliverFails, PauseCommits, PauseSettles, DeliverOnce, TypeOK,
           SinksOK, DbOK
  <1>3. deliveredSeq[s] <= LastSeq(s)
    BY DEF Sound, SeqsOK
  <1> QED BY <1>1, <1>2, <1>3, LineLeft DEF OnSlot

LEMMA RequestsDue ==
    ASSUME TypeOK, NEW s \in Durable, Sound(s),
           NEW c \in 1..MaxCalls, CallStarts(c) \/ Request(c)
    PROVE  Sound(s)'
  <1> USE DEF dbVars, streamVars, pumpVars, sinkVars, LogStep
  <1>1. /\ UNCHANGED <<received, confirmed, ckpt, sent, flushed, outstanding,
                       pulled, at, seq, bySeq, queue, batch, deliveredSeq,
                       ackedEventId>>
        /\ LogStep /\ Forgets
        /\ Handled(s)' = Handled(s) /\ LastSeq(s)' = LastSeq(s)
    BY DEF CallStarts, Request, CallCommits, CallFails, ResumeCalls, Handled, LastSeq,
           Forgets
  <1>2. pc'[s] = "ack" => pc[s] = "ack"
    BY DEF CallStarts, Request, CallCommits, CallFails, ResumeCalls, Wake, Enter,
           TypeOK, SinksOK
  <1>3. deliveredSeq[s] <= LastSeq(s)
    BY DEF Sound, SeqsOK
  <1> QED BY <1>1, <1>2, <1>3, LineLeft DEF OnSlot

LEMMA CrashDue ==
    ASSUME TypeOK, NEW s \in Durable, Sound(s), Crash, Delivered(s, confirmed)
    PROVE  Sound(s)'
  <1>0. /\ sent' = 0 /\ pulled' = 0 /\ at' = 0 /\ flushed' = 0 /\ seq' = 0
        /\ bySeq' = [q \in {} |-> 0] /\ ackedEventId' = ckpt /\ LogStep
        /\ UNCHANGED <<received, confirmed, ckpt>>
    BY DurablesFinite DEF Crash, StartPosition, LogStep
  <1>1. /\ queue'[s] = <<>> /\ batch'[s] = <<>> /\ pc'[s] # "ack"
        /\ deliveredSeq'[s] = 0
    BY DEF Crash, PerSink, StartPC, Sink
  <1>2. NamesOK(s)' /\ SeqsOK(s)'
    BY <1>0, <1>1 DEF NamesOK, SeqsOK, LastSeq
  <1>3. ASSUME NEW e \in Missing(s)' PROVE Due(s, e)'
    <2>1. e \in Missing(s)
      BY <1>0, MissingShrinks
    <2>2. Due(s, e) /\ e \in Nat /\ e > 0
      BY <2>1 DEF Sound, Missing, Event
    <2>3. confirmed \in Nat /\ e > confirmed
      BY <2>1, <2>2, Kinds DEF Delivered, Missing
    <2>4. Awaited(s, e)'
      BY <1>0, <1>1, <2>2 DEF Awaited, Handled
    <2>5. OnSlot(s, e)'
      BY <1>0, <2>2, <2>3 DEF OnSlot
    <2> QED BY <1>0, <2>2, <2>4, <2>5 DEF Due
  <1> QED BY <1>2, <1>3 DEF Sound

LEMMA NextDue == TypeOK /\ DueInv /\ [Next]_vars /\ [DiesInTime]_vars => DueInv'
  <1> SUFFICES ASSUME TypeOK, DueInv, [Next]_vars, [DiesInTime]_vars,
                      NEW s \in Durable, Sound(s)
               PROVE  Sound(s)'
    BY DEF DueInv
  <1>1. CASE Connect \/ Receive \/ Keepalive \/ SendStatus \/ Disconnect
    BY <1>1, ConnectDue, ReceiveDue, SessionDue
  <1>2. CASE Pump
    BY <1>2, PullDue, FanOutSkipDue, FanOutWaitsDue,
       FanOutDurableDue, FanOutEphemeralDue, FanOutEndDue DEF Pump
  <1>3. ASSUME NEW k \in Sink, Worker(k) PROVE Sound(s)'
    BY <1>3, TakeBatchDue, DeliverDue, SkipBatchDue, AckCheckpointDue, QuietDue
       DEF Worker
  <1>4. ASSUME NEW c \in 1..MaxCalls, CallStarts(c) \/ Request(c) PROVE Sound(s)'
    BY <1>4, RequestsDue
  <1>5. CASE Crash
    <2>1. crashes' # crashes
      BY <1>5 DEF Crash, TypeOK, ControlOK
    <2>2. DiesInTime
      BY <2>1 DEF vars, faultVars
    <2> QED BY <1>5, <2>2, CrashDue DEF DiesInTime
  <1>6. CASE UNCHANGED vars
    <2>1. /\ UNCHANGED <<wal, received, confirmed, ckpt, sent, flushed, outstanding,
                         pulled, at, seq, bySeq, queue, batch, pc, deliveredSeq,
                         ackedEventId>>
          /\ LogStep /\ Forgets
          /\ Handled(s)' = Handled(s) /\ LastSeq(s)' = LastSeq(s)
      BY <1>6 DEF vars, dbVars, streamVars, pumpVars, sinkVars, Handled, LastSeq,
                  Forgets, LogStep
    <2>2. deliveredSeq[s] <= LastSeq(s)
      BY DEF Sound, SeqsOK
    <2> QED BY <2>1, <2>2, LineLeft DEF OnSlot
  <1> QED BY <1>1, <1>2, <1>3, <1>4, <1>5, <1>6 DEF Next

LEMMA DueInvariant == Spec /\ [][DiesInTime]_vars => [](TypeOK /\ DueInv)
  <1>1. TypeOK /\ DueInv /\ [Next]_vars /\ [DiesInTime]_vars => DueInv'
    BY NextDue
  <1> QED BY <1>1, InitType, NextType, InitDue, PTL DEF Spec

(* checkpoint.ts:52 and engine.ts:205-212, for any number of durable sinks  *)
(* and of reconnects: as long as the process dies only when the slot is     *)
(* past nothing that a durable sink misses, no checkpoint is past a user    *)
(* event that its sink has not acknowledged.                                *)
THEOREM CheckpointIsSafeUnlessDeathLoses ==
    Spec /\ [][DiesInTime]_vars => []CheckpointCoversDelivered
  <1>1. TypeOK /\ DueInv => CheckpointCoversDelivered
    <2> SUFFICES ASSUME TypeOK, DueInv, NEW s \in Durable
                 PROVE  Delivered(s, ckpt[s]) /\ Delivered(s, ackedEventId[s])
      BY DEF CheckpointCoversDelivered
    <2>1. ASSUME NEW e \in Event, IsUser(e), e \notin received[s]
          PROVE  e > ckpt[s] /\ e > ackedEventId[s]
      BY <2>1 DEF DueInv, Sound, Missing, Due
    <2>2. ckpt[s] \in Nat /\ ackedEventId[s] \in Nat
      BY Kinds DEF Sink
    <2>3. Got(wal, received[s], ckpt[s]) /\ Got(wal, received[s], ackedEventId[s])
      BY <2>1, <2>2 DEF Got, Event, IsUser
    <2> QED BY <2>3, GotIsDelivered
  <1> QED BY <1>1, DueInvariant, PTL

(* engine.ts:90 and walcast.ts:269-280, likewise: what the session or the   *)
(* slot is past and a durable sink misses is in that sink's queue or batch. *)
(* A reconnect loses nothing: a loss takes a death while such an event is   *)
(* still in hand.                                                           *)
THEOREM ReleasedIsInHand ==
    Spec /\ [][DiesInTime]_vars
    => [](\A s \in Durable : \A e \in Missing(s) :
             e <= confirmed \/ e <= flushed => InHand(s, e))
  <1>1. TypeOK /\ DueInv
        => \A s \in Durable : \A e \in Missing(s) :
              e <= confirmed \/ e <= flushed => InHand(s, e)
    <2> SUFFICES ASSUME TypeOK, DueInv, NEW s \in Durable, NEW e \in Missing(s),
                        e <= confirmed \/ e <= flushed
                 PROVE  InHand(s, e)
      OBVIOUS
    <2>1. Due(s, e) /\ e \in Nat /\ confirmed \in Nat /\ flushed \in Nat
      BY Kinds DEF DueInv, Sound, Missing
    <2> QED BY <2>1 DEF Due, OnSlot
  <1> QED BY <1>1, DueInvariant, PTL
===============================================================================
