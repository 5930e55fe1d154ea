----------------------------- MODULE WalcastProofs -----------------------------
(***************************************************************************)
(* Proofs about Walcast, for every WAL, every interleaving of transactions  *)
(* and every number of sessions: the library releases no transaction that   *)
(* the consumer has not acknowledged, as long as it does not repeat the     *)
(* acknowledgement of a raw position, and holds none back that it has.      *)
(*                                                                          *)
(* The invariant follows the stream.  Every frame on the wire stands where  *)
(* its event and tx fields say, so that a commit record or a keepalive      *)
(* covers exactly the events decoded before it (StreamInv, ServerInv); the  *)
(* pump knows which transaction it is in (PumpInv); what is decoded is      *)
(* either outstanding or acknowledged, the outstanding events are a tail,   *)
(* and each releases nothing beyond itself (OutInv).                        *)
(***************************************************************************)
EXTENDS Walcast, TLAPS

Covers(l, n) == \A x \in Event : Commit[x] < l => x <= n
CoveredBy(n, l) == \A x \in Event : x <= n => Commit[x] < l

\* Where the stream stands before frame i.
Open == IF inTransaction THEN commitLsn ELSE 0
EventBefore(i) == IF i = 1 THEN decoded ELSE wire[i - 1].event
TxBefore(i) == IF i = 1 THEN Open ELSE wire[i - 1].tx

\* A frame f that follows event e inside transaction t, or none if t = 0.
Follows(f, e, t) ==
    /\ f.tag = "begin" =>
          /\ t = 0 /\ f.event = e /\ f.tx = f.lsn /\ f.lsn # 0
          /\ Covers(f.lsn, e) /\ CoveredBy(e, f.lsn)
    /\ f.tag = "change" =>
          /\ t # 0 /\ f.event = e + 1 /\ f.tx = t
          /\ f.event \in Event
          /\ f.lsn = Lsn[f.event] /\ Commit[f.event] = t
    /\ f.tag = "commit" =>
          /\ t # 0 /\ f.event = e /\ f.tx = 0 /\ f.lsn = t + 1
          /\ Covers(f.lsn, e)
    /\ f.tag = "keepalive" =>
          /\ f.event = e /\ f.tx = t
          /\ Covers(f.lsn, e)

StreamInv ==
    \A i \in 1..Len(wire) : Follows(wire[i], EventBefore(i), TxBefore(i))

ServerInv ==
    session = "live" =>
        /\ sent = EventBefore(Len(wire) + 1)
        /\ sending = TxBefore(Len(wire) + 1)
        /\ Covers(readTo, sent)
        /\ sending = 0 => CoveredBy(sent, readTo)
        /\ sending # 0 => Covers(sending, sent) /\ CoveredBy(sent, sending + 1)

PumpInv ==
    /\ inTransaction => commitLsn # 0
    /\ inTransaction /\ lastEvent = 0 => CoveredBy(decoded, commitLsn)
    /\ lastEvent # 0 => /\ inTransaction /\ lastEvent = decoded
                        /\ Commit[lastEvent] = commitLsn

OutInv ==
    /\ DOMAIN out \subseteq 1..decoded
    /\ \A x \in 1..decoded : x \in DOMAIN out \/ x <= acked
    /\ \A e \in DOMAIN out : Lsn[e] <= out[e] /\ Covers(out[e], e)
    /\ \A e \in DOMAIN out :
          \/ inTransaction /\ Commit[e] = commitLsn
          \/ \E f \in DOMAIN out :
                f >= e /\ Commit[f] = Commit[e] /\ Commit[f] < out[f]

ReleaseInv == Covers(confirmed, acked) /\ Covers(flushed, acked)

WalcastInv ==
    /\ TypeOK /\ StreamInv /\ ServerInv /\ PumpInv /\ OutInv
    /\ OutstandingIsTail /\ ReleaseInv
-----------------------------------------------------------------------------
(* Facts about the WAL. *)

LEMMA WalFacts ==
    /\ NumEvents \in Nat /\ WalEnd \in Nat
    /\ \A e \in Event : /\ e \in Nat /\ e # 0
                        /\ Lsn[e] \in Nat /\ Commit[e] \in Nat
                        /\ 0 < Lsn[e] /\ Lsn[e] < Commit[e] /\ Commit[e] < WalEnd
                        /\ Commit[e] \in Commits
    /\ \A c \in Commits : c \in Nat /\ 0 < c /\ c < WalEnd
    /\ \A e, f \in Event : e <= f => Commit[e] <= Commit[f]
  <1>1. NumEvents \in Nat /\ WalEnd \in Nat
    BY WalAssumption
  <1>2. \A c \in Commits : c \in Nat /\ 0 < c /\ c < WalEnd
    <2>1. Commits \subseteq Position
      BY WalAssumption DEF Commits
    <2>2. \A c \in Commits : 0 < c /\ c < WalEnd
      BY WalAssumption
    <2> QED BY <2>1, <2>2 DEF Position
  <1>3. ASSUME NEW e \in Event
        PROVE  /\ e \in Nat /\ e # 0
               /\ Lsn[e] \in Nat /\ Commit[e] \in Nat
               /\ 0 < Lsn[e] /\ Lsn[e] < Commit[e] /\ Commit[e] < WalEnd
               /\ Commit[e] \in Commits
    <2>1. Commit[e] \in Commits
      BY DEF Commits
    <2>2. Lsn[e] \in Position /\ 0 < Lsn[e] /\ Lsn[e] < Commit[e]
      BY WalAssumption
    <2> QED BY <1>1, <1>2, <2>1, <2>2 DEF Event, Position
  <1>4. ASSUME NEW e \in Event, NEW f \in Event, e <= f
        PROVE  Commit[e] <= Commit[f]
    <2>1. CASE e = f
      BY <2>1, <1>3
    <2>2. CASE e < f
      BY <2>2, WalAssumption
    <2> QED BY <1>3, <1>4, <2>1, <2>2
  <1> QED BY <1>1, <1>2, <1>3, <1>4

LEMMA LargerType ==
    ASSUME NEW a \in Position, NEW b \in Position
    PROVE  Larger(a, b) \in Position /\ Larger(a, b) \in {a, b}
  BY DEF Larger

-----------------------------------------------------------------------------
(* The stream: sending appends a frame, decoding takes the first one. *)

LEMMA Appended ==
    ASSUME wire \in Seq(Frame), StreamInv, NEW f \in Frame,
           wire' = Append(wire, f), decoded' = decoded, Open' = Open,
           Follows(f, EventBefore(Len(wire) + 1), TxBefore(Len(wire) + 1))
    PROVE  /\ StreamInv'
           /\ wire' \in Seq(Frame)
           /\ EventBefore(Len(wire) + 1)' = f.event
           /\ TxBefore(Len(wire) + 1)' = f.tx
  <1>1. /\ Len(wire) \in Nat
        /\ wire' \in Seq(Frame) /\ Len(wire') = Len(wire) + 1
        /\ \A i \in 1..Len(wire) : wire'[i] = wire[i]
        /\ wire'[Len(wire) + 1] = f
    OBVIOUS
  <1>2. ASSUME NEW i \in 1..Len(wire) + 1
        PROVE  EventBefore(i)' = EventBefore(i) /\ TxBefore(i)' = TxBefore(i)
    BY <1>1 DEF EventBefore, TxBefore
  <1>3. ASSUME NEW i \in 1..Len(wire')
        PROVE  Follows(wire[i], EventBefore(i), TxBefore(i))'
    <2>1. CASE i = Len(wire) + 1
      BY <1>1, <1>2, <2>1 DEF Follows, Covers, CoveredBy
    <2>2. CASE i \in 1..Len(wire)
      <3>1. Follows(wire[i], EventBefore(i), TxBefore(i))
        BY <2>2 DEF StreamInv
      <3> QED BY <1>1, <1>2, <2>2, <3>1 DEF Follows, Covers, CoveredBy
    <2> QED BY <1>1, <2>1, <2>2
  <1>4. EventBefore(Len(wire) + 1)' = f.event /\ TxBefore(Len(wire) + 1)' = f.tx
    BY <1>1 DEF EventBefore, TxBefore
  <1> QED BY <1>1, <1>3, <1>4 DEF StreamInv

LEMMA Taken ==
    ASSUME wire \in Seq(Frame), StreamInv, wire # <<>>, wire' = Tail(wire),
           decoded' = Head(wire).event, Open' = Head(wire).tx
    PROVE  /\ StreamInv'
           /\ wire' \in Seq(Frame)
           /\ EventBefore(Len(wire) + 1)' = EventBefore(Len(wire) + 1)
           /\ TxBefore(Len(wire) + 1)' = TxBefore(Len(wire) + 1)
  <1>1. /\ Len(wire) \in Nat /\ Len(wire) # 0
        /\ wire' \in Seq(Frame) /\ Len(wire') = Len(wire) - 1
        /\ \A i \in 1..Len(wire') : wire'[i] = wire[i + 1]
        /\ Head(wire) = wire[1]
    OBVIOUS
  <1>2. ASSUME NEW i \in 1..Len(wire)
        PROVE  /\ EventBefore(i)' = EventBefore(i + 1)
               /\ TxBefore(i)' = TxBefore(i + 1)
    <2>1. CASE i = 1
      BY <1>1, <2>1 DEF EventBefore, TxBefore
    <2>2. CASE i # 1
      <3>1. wire'[i - 1] = wire[i] /\ i + 1 # 1 /\ (i + 1) - 1 = i
        BY <1>1, <2>2
      <3> QED BY <2>2, <3>1 DEF EventBefore, TxBefore
    <2> QED BY <2>1, <2>2
  <1>3. ASSUME NEW i \in 1..Len(wire')
        PROVE  Follows(wire[i], EventBefore(i), TxBefore(i))'
    <2>1. i + 1 \in 1..Len(wire) /\ i \in 1..Len(wire)
      BY <1>1
    <2>2. Follows(wire[i + 1], EventBefore(i + 1), TxBefore(i + 1))
      BY <2>1 DEF StreamInv
    <2> QED BY <1>1, <1>2, <2>1, <2>2 DEF Follows, Covers, CoveredBy
  <1>4. Len(wire) \in 1..Len(wire) /\ Len(wire') + 1 = Len(wire)
    BY <1>1
  <1>5. EventBefore(Len(wire) + 1)' = EventBefore(Len(wire) + 1)
    BY <1>1, <1>2, <1>4 DEF EventBefore
  <1>6. TxBefore(Len(wire) + 1)' = TxBefore(Len(wire) + 1)
    BY <1>1, <1>2, <1>4 DEF TxBefore
  <1> QED BY <1>1, <1>3, <1>5, <1>6 DEF StreamInv

\* The frame being decoded.
LEMMA FirstFrame ==
    ASSUME wire \in Seq(Frame), StreamInv, wire # <<>>
    PROVE  Head(wire) \in Frame /\ Follows(Head(wire), decoded, Open)
  <1>1. Head(wire) = wire[1] /\ 1 \in 1..Len(wire) /\ wire[1] \in Frame
    OBVIOUS
  <1>2. EventBefore(1) = decoded /\ TxBefore(1) = Open
    BY DEF EventBefore, TxBefore
  <1> QED BY <1>1, <1>2 DEF StreamInv

\* A commit record, or a keepalive, with nothing outstanding before it covers
\* only acknowledged events.
LEMMA NothingLeft ==
    ASSUME TypeOK, OutInv, DOMAIN out = {}, NEW l \in Position,
           Covers(l, decoded)
    PROVE  Covers(l, acked)
  <1> SUFFICES ASSUME NEW x \in Event, Commit[x] < l PROVE x <= acked
    BY DEF Covers
  <1>1. x \in 1..decoded
    BY WalFacts DEF Covers, TypeOK, Event
  <1> QED BY <1>1 DEF OutInv

LEMMA LargerCovers ==
    ASSUME NEW a \in Position, NEW b \in Position, NEW n \in 0..NumEvents,
           Covers(a, n), Covers(b, n)
    PROVE  Covers(Larger(a, b), n)
  BY LargerType DEF Covers

LEMMA CoversMore ==
    ASSUME NEW l \in Position, NEW m \in 0..NumEvents, NEW n \in 0..NumEvents,
           Covers(l, m), m <= n
    PROVE  Covers(l, n)
  BY WalFacts DEF Covers, Event

-----------------------------------------------------------------------------
(* The walsender. *)

LEMMA InitInv == Init => WalcastInv
  <1> SUFFICES ASSUME Init PROVE WalcastInv
    OBVIOUS
  <1>1. TypeOK
    <2>1. <<>> \in Seq(Frame) /\ 0 \in Position /\ 0 \in 0..NumEvents
      BY WalFacts DEF Position
    <2>2. DOMAIN out = {}
      BY DEF Init
    <2>3. 0 \in 0..MaxEnds
      BY BoundAssumption
    <2> QED BY <2>1, <2>2, <2>3 DEF Init, TypeOK
  <1>2. StreamInv /\ ServerInv /\ PumpInv
    BY DEF Init, StreamInv, ServerInv, PumpInv
  <1>3. OutInv /\ OutstandingIsTail
    BY DEF Init, OutInv, OutstandingIsTail
  <1>4. ReleaseInv
    BY WalFacts DEF Init, ReleaseInv, Covers
  <1> QED BY <1>1, <1>2, <1>3, <1>4 DEF WalcastInv

LEMMA StartSessionInv ==
    ASSUME WalcastInv, StartSession PROVE WalcastInv'
  <1> USE DEF WalcastInv
  <1>1. PICK n \in 0..NumEvents :
           /\ IsCut(n, confirmed)
           /\ sent' = n /\ decoded' = n /\ yielded' = n
    BY DEF StartSession
  <1>2. /\ session' = "live" /\ readTo' = confirmed /\ sending' = 0
        /\ wire' = <<>> /\ flushed' = 0
        /\ inTransaction' = FALSE /\ commitLsn' = 0 /\ lastEvent' = 0
        /\ out' = [e \in {} |-> 0]
        /\ UNCHANGED <<confirmed, held, acked, ends>>
    BY DEF StartSession
  <1>3. Covers(confirmed, n) /\ CoveredBy(n, confirmed)
    BY <1>1 DEF IsCut, Covers, CoveredBy
  <1>4. TypeOK'
    <2>1. <<>> \in Seq(Frame) /\ 0 \in Position /\ 0 \in 0..NumEvents
      BY WalFacts DEF Position
    <2>2. DOMAIN out' = {}
      BY <1>2
    <2> QED BY <1>1, <1>2, <2>1, <2>2 DEF TypeOK
  <1>5. StreamInv' /\ PumpInv'
    BY <1>2 DEF StreamInv, PumpInv
  <1>6. ServerInv'
    BY <1>1, <1>2, <1>3
       DEF ServerInv, EventBefore, TxBefore, Open, Covers, CoveredBy
  <1>7. OutInv' /\ OutstandingIsTail'
    <2>1. ASSUME NEW x \in 1..n PROVE x <= acked
      <3>1. x \in Event /\ Commit[x] < confirmed
        BY <1>1, <1>3, WalFacts DEF Event, CoveredBy
      <3> QED BY <3>1 DEF ReleaseInv, Covers
    <2> QED BY <1>1, <1>2, <2>1 DEF OutInv, OutstandingIsTail
  <1>8. ReleaseInv'
    BY <1>2, WalFacts DEF ReleaseInv, Covers
  <1> QED BY <1>4, <1>5, <1>6, <1>7, <1>8

\* What a frame sent now does, given that it follows the stream so far.
LEMMA SendInv ==
    ASSUME WalcastInv, NEW tag, NEW lsn, Send(tag, lsn),
           [tag |-> tag, lsn |-> lsn, event |-> sent', tx |-> sending']
               \in Frame,
           Follows([tag |-> tag, lsn |-> lsn, event |-> sent', tx |-> sending'],
                   sent, sending),
           sending' = 0 => CoveredBy(sent', readTo'),
           sending' # 0 => /\ Covers(sending', sent')
                           /\ CoveredBy(sent', sending' + 1),
           Covers(readTo', sent'),
           readTo' \in Position,
           UNCHANGED <<confirmed, session, flushed, pump, out, consumer, ends>>
    PROVE  WalcastInv'
  <1> USE DEF WalcastInv
  <1> DEFINE f == [tag |-> tag, lsn |-> lsn, event |-> sent', tx |-> sending']
  <1>1. /\ session = "live" /\ wire' = Append(wire, f)
        /\ UNCHANGED <<confirmed, session, flushed, inTransaction, commitLsn,
                       lastEvent, decoded, out, yielded, held, acked, ends>>
    BY DEF Send, pump, consumer
  <1>2. wire \in Seq(Frame)
    BY DEF TypeOK
  <1>3. sent = EventBefore(Len(wire) + 1) /\ sending = TxBefore(Len(wire) + 1)
    BY <1>1 DEF ServerInv
  <1>4. /\ StreamInv' /\ wire' \in Seq(Frame)
        /\ EventBefore(Len(wire) + 1)' = f.event
        /\ TxBefore(Len(wire) + 1)' = f.tx
    <2>1. Open' = Open
      BY <1>1 DEF Open
    <2> HIDE DEF f
    <2>2. f \in Frame /\ Follows(f, sent, sending)
      BY DEF f
    <2> QED BY <1>1, <1>2, <1>3, <2>1, <2>2, Appended
  <1>5. ServerInv'
    BY <1>1, <1>4 DEF ServerInv, Covers, CoveredBy
  <1>6. TypeOK'
    <2>1. sent' \in 0..NumEvents /\ sending' \in {0} \union Commits
      BY DEF Frame
    <2> QED BY <1>1, <1>4, <2>1 DEF TypeOK
  <1>7. PumpInv' /\ ReleaseInv'
    BY <1>1 DEF PumpInv, ReleaseInv, Covers, CoveredBy
  <1>8. OutInv' /\ OutstandingIsTail'
    BY <1>1 DEF OutInv, OutstandingIsTail, Covers
  <1> QED BY <1>4, <1>5, <1>6, <1>7, <1>8

LEMMA SendBeginInv == ASSUME WalcastInv, SendBegin PROVE WalcastInv'
  <1>1. PICK c \in Commits :
           /\ c >= readTo
           /\ \A d \in Commits : d >= readTo => c <= d
           /\ sending' = c /\ sent' = sent
           /\ Send("begin", c)
    BY DEF SendBegin
  <1>2. /\ sending = 0 /\ session = "live"
        /\ UNCHANGED <<confirmed, readTo, session, flushed, pump, out,
                       consumer, ends>>
    BY <1>1 DEF SendBegin, Send
  <1>3. /\ sent \in 0..NumEvents /\ readTo \in Position
        /\ Covers(readTo, sent) /\ CoveredBy(sent, readTo)
    BY <1>2 DEF WalcastInv, TypeOK, ServerInv
  <1>4. c \in Nat /\ c # 0 /\ c \in Position /\ readTo \in Nat
    BY <1>3, WalFacts DEF Position
  <1>5. Covers(c, sent)
    <2> SUFFICES ASSUME NEW x \in Event, Commit[x] < c PROVE x <= sent
      BY DEF Covers
    <2>1. Commit[x] \in Commits /\ Commit[x] \in Nat
      BY WalFacts
    <2>2. Commit[x] < readTo
      BY <1>1, <1>4, <2>1
    <2> QED BY <1>3, <2>2 DEF Covers
  <1>6. CoveredBy(sent, c) /\ CoveredBy(sent, c + 1)
    BY <1>1, <1>3, <1>4, WalFacts DEF CoveredBy
  <1>7. Follows([tag |-> "begin", lsn |-> c, event |-> sent', tx |-> sending'],
                sent, sending)
    BY <1>1, <1>2, <1>4, <1>5, <1>6 DEF Follows
  <1>8. [tag |-> "begin", lsn |-> c, event |-> sent', tx |-> sending'] \in Frame
    BY <1>1, <1>3, <1>4 DEF Frame
  <1>9. /\ sending' = 0 => CoveredBy(sent', readTo')
        /\ sending' # 0 => /\ Covers(sending', sent')
                           /\ CoveredBy(sent', sending' + 1)
        /\ Covers(readTo', sent')
        /\ readTo' \in Position
    BY <1>1, <1>2, <1>3, <1>4, <1>5, <1>6
  <1> QED BY <1>1, <1>2, <1>7, <1>8, <1>9, SendInv

LEMMA SendChangeInv == ASSUME WalcastInv, SendChange PROVE WalcastInv'
  <1>1. /\ sending # 0 /\ sent < NumEvents /\ Commit[sent + 1] = sending
        /\ sent' = sent + 1 /\ sending' = sending /\ readTo' = readTo
        /\ Send("change", Lsn[sent + 1])
        /\ session = "live"
        /\ UNCHANGED <<confirmed, session, flushed, pump, out, consumer, ends>>
    BY DEF SendChange, More, Send
  <1>2. /\ sent \in 0..NumEvents /\ readTo \in Position
        /\ sending \in {0} \union Commits
        /\ Covers(readTo, sent)
        /\ Covers(sending, sent) /\ CoveredBy(sent, sending + 1)
    BY <1>1 DEF WalcastInv, TypeOK, ServerInv
  <1>3. /\ sent \in Nat /\ sent + 1 \in Event /\ sending \in Commits
        /\ sending \in Nat /\ Lsn[sent + 1] \in Position
    BY <1>1, <1>2, WalFacts, WalAssumption DEF Event
  <1>4. Covers(readTo, sent + 1) /\ Covers(sending, sent + 1)
    BY <1>2, <1>3, WalFacts DEF Covers, Event
  <1>5. CoveredBy(sent + 1, sending + 1)
    <2> SUFFICES ASSUME NEW x \in Event, x <= sent + 1
                 PROVE  Commit[x] < sending + 1
      BY DEF CoveredBy
    <2>1. Commit[x] <= Commit[sent + 1]
      BY <1>3, WalFacts
    <2> QED BY <1>1, <1>3, <2>1, WalFacts
  <1> DEFINE f == [tag |-> "change", lsn |-> Lsn[sent + 1],
                   event |-> sent', tx |-> sending']
  <1>6. Follows(f, sent, sending)
    BY <1>1, <1>3 DEF Follows
  <1>7. f \in Frame
    BY <1>1, <1>3, WalFacts DEF Frame, Event
  <1>8. /\ sending' = 0 => CoveredBy(sent', readTo')
        /\ sending' # 0 => /\ Covers(sending', sent')
                           /\ CoveredBy(sent', sending' + 1)
        /\ Covers(readTo', sent')
        /\ readTo' \in Position
    BY <1>1, <1>2, <1>3, <1>4, <1>5
  <1> QED BY <1>1, <1>6, <1>7, <1>8, SendInv

LEMMA SendCommitInv == ASSUME WalcastInv, SendCommit PROVE WalcastInv'
  <1>1. /\ sending # 0 /\ ~(sent < NumEvents /\ Commit[sent + 1] = sending)
        /\ sending' = 0 /\ sent' = sent /\ readTo' = sending + 1
        /\ Send("commit", sending + 1)
        /\ session = "live"
        /\ UNCHANGED <<confirmed, session, flushed, pump, out, consumer, ends>>
    BY DEF SendCommit, More, Send
  <1>2. /\ sent \in 0..NumEvents /\ sending \in {0} \union Commits
        /\ Covers(sending, sent) /\ CoveredBy(sent, sending + 1)
    BY <1>1 DEF WalcastInv, TypeOK, ServerInv
  <1>3. /\ sent \in Nat /\ sending \in Nat /\ sending + 1 \in Position
    BY <1>1, <1>2, WalFacts DEF Position
  <1>4. Covers(sending + 1, sent)
    <2> SUFFICES ASSUME NEW x \in Event, Commit[x] < sending + 1, ~(x <= sent)
                 PROVE  FALSE
      BY DEF Covers
    <2>1. sent < NumEvents /\ sent + 1 \in Event /\ sent + 1 <= x
      BY <1>2, <1>3, WalFacts DEF Event
    <2>2. Commit[sent + 1] <= Commit[x] /\ ~(Commit[sent + 1] < sending)
      BY <1>2, <1>3, <2>1, WalFacts DEF Covers
    <2> QED BY <1>1, <1>3, <2>1, <2>2, WalFacts
  <1> DEFINE f == [tag |-> "commit", lsn |-> sending + 1,
                   event |-> sent', tx |-> sending']
  <1>5. Follows(f, sent, sending)
    BY <1>1, <1>4 DEF Follows
  <1>6. f \in Frame
    BY <1>1, <1>2, <1>3 DEF Frame
  <1>7. /\ sending' = 0 => CoveredBy(sent', readTo')
        /\ sending' # 0 => /\ Covers(sending', sent')
                           /\ CoveredBy(sent', sending' + 1)
        /\ Covers(readTo', sent')
        /\ readTo' \in Position
    BY <1>1, <1>2, <1>3, <1>4
  <1> QED BY <1>1, <1>5, <1>6, <1>7, SendInv

LEMMA SendKeepaliveInv == ASSUME WalcastInv, SendKeepalive PROVE WalcastInv'
  <1>1. /\ sending' = sending /\ sent' = sent /\ readTo' = readTo
        /\ Send("keepalive", readTo)
        /\ session = "live"
        /\ UNCHANGED <<confirmed, session, flushed, pump, out, consumer, ends>>
    BY DEF SendKeepalive, Send, server
  <1>2. /\ sent \in 0..NumEvents /\ sending \in {0} \union Commits
        /\ readTo \in Position /\ Covers(readTo, sent)
        /\ sending = 0 => CoveredBy(sent, readTo)
        /\ sending # 0 => Covers(sending, sent) /\ CoveredBy(sent, sending + 1)
    BY <1>1 DEF WalcastInv, TypeOK, ServerInv
  <1> DEFINE f == [tag |-> "keepalive", lsn |-> readTo,
                   event |-> sent', tx |-> sending']
  <1>3. Follows(f, sent, sending) /\ f \in Frame
    BY <1>1, <1>2 DEF Follows, Frame
  <1>4. /\ sending' = 0 => CoveredBy(sent', readTo')
        /\ sending' # 0 => /\ Covers(sending', sent')
                           /\ CoveredBy(sent', sending' + 1)
        /\ Covers(readTo', sent')
        /\ readTo' \in Position
    BY <1>1, <1>2
  <1> QED BY <1>1, <1>3, <1>4, SendInv

LEMMA SkipWalInv == ASSUME WalcastInv, SkipWal PROVE WalcastInv'
  <1> USE DEF WalcastInv
  <1>1. PICK w \in readTo + 1 .. WalEnd :
           /\ \A c \in Commits : c >= readTo => c >= w
           /\ readTo' = w
    BY DEF SkipWal
  <1>2. /\ session = "live" /\ sending = 0
        /\ UNCHANGED <<confirmed, sending, sent, session, wire, flushed,
                       inTransaction, commitLsn, lastEvent, decoded, out,
                       yielded, held, acked, ends>>
    BY DEF SkipWal, pump, consumer
  <1>3. readTo \in Nat /\ w \in Nat /\ w \in Position /\ readTo < w
    BY <1>1, WalFacts DEF TypeOK, Position
  <1>4. Covers(readTo, sent) /\ CoveredBy(sent, readTo)
    BY <1>2 DEF ServerInv
  <1>5. Covers(w, sent) /\ CoveredBy(sent, w)
    BY <1>1, <1>3, <1>4, WalFacts DEF Covers, CoveredBy
  <1>6. TypeOK'
    BY <1>1, <1>2, <1>3 DEF TypeOK
  <1>7. StreamInv' /\ ServerInv'
    BY <1>1, <1>2, <1>5 DEF StreamInv, ServerInv, EventBefore, TxBefore, Open,
       Follows, Covers, CoveredBy
  <1>8. PumpInv' /\ ReleaseInv'
    BY <1>2 DEF PumpInv, ReleaseInv, Covers, CoveredBy
  <1>9. OutInv' /\ OutstandingIsTail'
    BY <1>2 DEF OutInv, OutstandingIsTail, Covers
  <1> QED BY <1>6, <1>7, <1>8, <1>9

-----------------------------------------------------------------------------
(* The pump. *)

\* What a decode step does to the stream.
LEMMA DecodeStream ==
    ASSUME WalcastInv, NEW tag, NextFrame(tag),
           decoded' = Head(wire).event, Open' = Head(wire).tx,
           UNCHANGED <<server, session, consumer, ends>>
    PROVE  /\ Head(wire) \in Frame /\ Head(wire).tag = tag
           /\ Follows(Head(wire), decoded, Open)
           /\ StreamInv' /\ wire' \in Seq(Frame)
           /\ ServerInv'
  <1>1. /\ wire # <<>> /\ Head(wire).tag = tag /\ wire' = Tail(wire)
        /\ wire \in Seq(Frame) /\ StreamInv
    BY DEF NextFrame, WalcastInv, TypeOK
  <1>2. /\ StreamInv' /\ wire' \in Seq(Frame)
        /\ EventBefore(Len(wire) + 1)' = EventBefore(Len(wire) + 1)
        /\ TxBefore(Len(wire) + 1)' = TxBefore(Len(wire) + 1)
    BY <1>1, Taken
  <1>3. ServerInv'
    BY <1>2 DEF WalcastInv, ServerInv, server, Covers, CoveredBy
  <1> QED BY <1>1, <1>2, <1>3, FirstFrame

LEMMA DecodeBeginInv == ASSUME WalcastInv, DecodeBegin PROVE WalcastInv'
  <1> USE DEF WalcastInv
  <1> DEFINE f == Head(wire)
  <1>1. /\ NextFrame("begin")
        /\ commitLsn' = f.lsn /\ lastEvent' = 0 /\ inTransaction' = TRUE
        /\ UNCHANGED <<server, session, flushed, decoded, out, consumer, ends>>
    BY DEF DecodeBegin
  <1>2. f \in Frame /\ f.tag = "begin" /\ Follows(f, decoded, Open)
    BY <1>1, FirstFrame DEF NextFrame, TypeOK
  <1>3. /\ Open = 0 /\ f.event = decoded /\ f.tx = f.lsn /\ f.lsn # 0
        /\ CoveredBy(decoded, f.lsn) /\ f.lsn \in Position
    BY <1>2 DEF Follows, Frame
  <1>4. ~inTransaction
    BY <1>3 DEF Open, PumpInv
  <1>5. decoded' = f.event /\ Open' = f.tx
    BY <1>1, <1>3 DEF Open
  <1>6. StreamInv' /\ wire' \in Seq(Frame) /\ ServerInv'
    BY <1>1, <1>5, DecodeStream
  <1>7. TypeOK'
    BY <1>1, <1>3, <1>6, WalFacts DEF TypeOK, server, consumer
  <1>8. PumpInv' /\ ReleaseInv'
    BY <1>1, <1>3
       DEF PumpInv, ReleaseInv, server, consumer, Covers, CoveredBy
  <1>9. OutInv' /\ OutstandingIsTail'
    <2>1. /\ out' = out /\ decoded' = decoded /\ acked' = acked
      BY <1>1 DEF consumer
    <2> QED BY <1>4, <2>1 DEF OutInv, OutstandingIsTail, Covers
  <1> QED BY <1>6, <1>7, <1>8, <1>9

LEMMA DecodeChangeInv == ASSUME WalcastInv, DecodeChange PROVE WalcastInv'
  <1> USE DEF WalcastInv
  <1> DEFINE f == Head(wire)  e == decoded + 1
  <1>1. /\ NextFrame("change")
        /\ decoded' = f.event /\ lastEvent' = f.event
        /\ out' = [x \in DOMAIN out \union {f.event} |->
                      IF x = f.event THEN f.lsn ELSE out[x]]
        /\ UNCHANGED <<server, session, flushed, inTransaction, commitLsn,
                       consumer, ends>>
    BY DEF DecodeChange
  <1>2. f \in Frame /\ f.tag = "change" /\ Follows(f, decoded, Open)
    BY <1>1, FirstFrame DEF NextFrame, TypeOK
  <1>3. /\ Open # 0 /\ f.event = e /\ f.tx = Open /\ e \in Event
        /\ f.lsn = Lsn[e] /\ Commit[e] = Open
    BY <1>2 DEF Follows
  <1>4. inTransaction /\ Open = commitLsn
    BY <1>3 DEF Open
  <1>5. decoded' = f.event /\ Open' = f.tx
    BY <1>1, <1>3 DEF Open
  <1>6. StreamInv' /\ wire' \in Seq(Frame) /\ ServerInv'
    BY <1>1, <1>5, DecodeStream
  <1>7. /\ decoded' = e /\ lastEvent' = e /\ decoded \in Nat /\ e \in Nat
        /\ DOMAIN out' = DOMAIN out \union {e}
        /\ out'[e] = Lsn[e]
        /\ \A x \in DOMAIN out : x <= decoded /\ x # e /\ out'[x] = out[x]
        /\ UNCHANGED <<confirmed, readTo, sending, sent, session, flushed,
                       inTransaction, commitLsn, yielded, held, acked, ends>>
    <2>1. decoded \in Nat
      BY DEF TypeOK
    <2>2. \A x \in DOMAIN out : x <= decoded /\ x # e
      BY <2>1 DEF OutInv
    <2> QED BY <1>1, <1>3, <2>1, <2>2 DEF server, consumer
  <1> HIDE DEF e, f
  <1>8. TypeOK'
    <2>1. Lsn[e] \in Position /\ e \in 0..NumEvents
      BY <1>3, WalAssumption DEF Event
    <2>2. DOMAIN out' \subseteq Event /\ \A x \in DOMAIN out' : out'[x] \in Position
      BY <1>3, <1>7, <2>1 DEF TypeOK
    <2> QED BY <1>6, <1>7, <2>1, <2>2 DEF TypeOK
  <1>9. PumpInv' /\ ReleaseInv'
    BY <1>3, <1>4, <1>7 DEF PumpInv, ReleaseInv, Event, Covers
  <1>10. OutInv'
    <2>1. DOMAIN out' \subseteq 1..e
      BY <1>3, <1>7 DEF OutInv, Event, e
    <2>2. \A x \in 1..e : x \in DOMAIN out' \/ x <= acked
      BY <1>7 DEF OutInv, e
    <2>3. Covers(Lsn[e], e)
      <3> SUFFICES ASSUME NEW x \in Event, Commit[x] < Lsn[e], ~(x <= e)
                   PROVE  FALSE
        BY DEF Covers
      <3>1. Commit[e] <= Commit[x] /\ Lsn[e] < Commit[e]
        BY <1>3, WalFacts
      <3> QED BY <1>3, <3>1, WalFacts
    <2>4. \A x \in DOMAIN out' : Lsn[x] <= out'[x] /\ Covers(out'[x], x)
      BY <1>3, <1>7, <2>3, WalFacts DEF OutInv
    <2>5. ASSUME NEW x \in DOMAIN out'
          PROVE  \/ inTransaction' /\ Commit[x] = commitLsn'
                 \/ \E g \in DOMAIN out' :
                       g >= x /\ Commit[g] = Commit[x] /\ Commit[g] < out'[g]
      <3>1. CASE x = e
        BY <1>3, <1>4, <1>7, <3>1
      <3>2. CASE x \in DOMAIN out
        BY <1>7, <3>2 DEF OutInv
      <3> QED BY <1>7, <3>1, <3>2
    <2> QED BY <1>7, <2>1, <2>2, <2>4, <2>5 DEF OutInv, Covers
  <1>11. OutstandingIsTail'
    <2> SUFFICES ASSUME NEW x \in DOMAIN out', NEW g \in x..e
                 PROVE  g \in DOMAIN out'
      BY <1>7 DEF OutstandingIsTail
    <2>1. CASE g = e
      BY <1>7, <2>1
    <2>2. CASE g # e
      <3>1. x \in Nat
        BY <1>3, <1>7, WalFacts DEF TypeOK
      <3>2. x # e /\ x \in DOMAIN out /\ g \in x..decoded
        BY <1>7, <2>2, <3>1 DEF e
      <3> QED BY <1>7, <3>2 DEF OutstandingIsTail
    <2> QED BY <2>1, <2>2
  <1> QED BY <1>6, <1>8, <1>9, <1>10, <1>11

LEMMA DecodeCommitInv == ASSUME WalcastInv, DecodeCommit PROVE WalcastInv'
  <1> USE DEF WalcastInv
  <1> DEFINE f == Head(wire)
  <1>1. /\ NextFrame("commit")
        /\ out' = Upgraded(f.lsn)
        /\ flushed' = IF DOMAIN out = {} THEN Larger(flushed, f.lsn) ELSE flushed
        /\ lastEvent' = 0 /\ inTransaction' = FALSE
        /\ UNCHANGED <<server, session, commitLsn, decoded, consumer, ends>>
    BY DEF DecodeCommit
  <1>2. f \in Frame /\ f.tag = "commit" /\ Follows(f, decoded, Open)
    BY <1>1, FirstFrame DEF NextFrame, TypeOK
  <1>3. /\ Open # 0 /\ f.event = decoded /\ f.tx = 0
        /\ f.lsn = Open + 1 /\ Covers(f.lsn, decoded) /\ f.lsn \in Position
    BY <1>2 DEF Follows, Frame
  <1>4. inTransaction /\ Open = commitLsn
    BY <1>3 DEF Open
  <1>5. decoded' = f.event /\ Open' = f.tx
    BY <1>1, <1>3 DEF Open
  <1>6. StreamInv' /\ wire' \in Seq(Frame) /\ ServerInv'
    BY <1>1, <1>5, DecodeStream
  <1>7. /\ DOMAIN out' = DOMAIN out
        /\ \A x \in DOMAIN out :
              out'[x] = IF x = lastEvent THEN commitLsn + 1 ELSE out[x]
        /\ UNCHANGED <<confirmed, readTo, sending, sent, session, commitLsn,
                       decoded, yielded, held, acked, ends>>
    BY <1>1, <1>3, <1>4 DEF Upgraded, server, consumer
  <1>8. /\ decoded \in Nat /\ commitLsn \in Nat /\ commitLsn + 1 \in Position
        /\ Covers(commitLsn + 1, decoded)
        /\ DOMAIN out \subseteq Event
        /\ \A x \in DOMAIN out : out[x] \in Position /\ x <= decoded
    <2>1. decoded \in Nat /\ commitLsn \in Nat
      BY DEF TypeOK, Position
    <2>2. f.lsn = commitLsn + 1
      BY <1>3, <1>4
    <2>3. \A x \in DOMAIN out : out[x] \in Position /\ x <= decoded
      BY <2>1 DEF TypeOK, OutInv
    <2>4. DOMAIN out \subseteq Event
      BY DEF TypeOK
    <2> QED BY <1>3, <2>1, <2>2, <2>3, <2>4
  <1>9. TypeOK'
    <2>1. flushed' \in Position
      BY <1>1, <1>3, LargerType DEF TypeOK
    <2>2. \A x \in DOMAIN out' : out'[x] \in Position
      BY <1>7, <1>8
    <2>3. 0 \in 0..NumEvents /\ DOMAIN out' \subseteq Event
      BY <1>7, <1>8, WalFacts
    <2> QED BY <1>1, <1>6, <1>7, <2>1, <2>2, <2>3 DEF TypeOK
  <1>10. PumpInv'
    BY <1>1 DEF PumpInv
  <1>11. ReleaseInv'
    <2>1. CASE DOMAIN out = {}
      <3>1. Covers(f.lsn, acked) /\ Covers(flushed, acked)
        BY <1>3, <2>1, NothingLeft DEF ReleaseInv
      <3>2. flushed' = Larger(flushed, f.lsn) /\ flushed \in Position
            /\ acked \in 0..NumEvents
        BY <1>1, <2>1 DEF TypeOK
      <3>3. Covers(flushed', acked)
        BY <1>3, <3>1, <3>2, LargerCovers
      <3> QED BY <1>7, <3>3 DEF ReleaseInv, Covers
    <2>2. CASE DOMAIN out # {}
      BY <1>1, <1>7, <2>2 DEF ReleaseInv, Covers
    <2> QED BY <2>1, <2>2
  <1>12. OutInv'
    <2>1. \A x \in DOMAIN out : x = lastEvent =>
              lastEvent = decoded /\ Commit[x] = commitLsn
      BY <1>8, WalFacts DEF PumpInv
    <2>2. ASSUME NEW x \in DOMAIN out
          PROVE  Lsn[x] <= out'[x] /\ Covers(out'[x], x)
      <3>1. CASE x = lastEvent
        BY <1>7, <1>8, <2>1, <3>1, WalFacts
      <3>2. CASE x # lastEvent
        BY <1>7, <3>2 DEF OutInv
      <3> QED BY <3>1, <3>2
    <2>3. ASSUME NEW x \in DOMAIN out
          PROVE  \E g \in DOMAIN out :
                    g >= x /\ Commit[g] = Commit[x] /\ Commit[g] < out'[g]
      <3>0. x \in Event /\ x \in Nat /\ x <= decoded
        BY <1>8, WalFacts
      <3>1. CASE Commit[x] = commitLsn
        <4>1. lastEvent # 0
          BY <1>4, <1>8, <3>0, <3>1, WalFacts DEF PumpInv, CoveredBy
        <4>2. lastEvent = decoded /\ Commit[decoded] = commitLsn
          BY <4>1 DEF PumpInv
        <4>3. decoded \in DOMAIN out
          BY <1>8, <3>0 DEF OutstandingIsTail
        <4> QED BY <1>7, <1>8, <3>0, <3>1, <4>2, <4>3
      <3>2. CASE Commit[x] # commitLsn
        <4>1. PICK g \in DOMAIN out :
                 g >= x /\ Commit[g] = Commit[x] /\ Commit[g] < out[g]
          BY <3>2 DEF OutInv
        <4>2. g # lastEvent
          BY <2>1, <3>2, <4>1
        <4> QED BY <1>7, <4>1, <4>2
      <3> QED BY <3>1, <3>2
    <2> QED BY <1>7, <2>2, <2>3 DEF OutInv, Covers
  <1>13. OutstandingIsTail'
    BY <1>7 DEF OutstandingIsTail
  <1> QED BY <1>6, <1>9, <1>10, <1>11, <1>12, <1>13

LEMMA DecodeKeepaliveInv == ASSUME WalcastInv, DecodeKeepalive PROVE WalcastInv'
  <1> USE DEF WalcastInv
  <1> DEFINE f == Head(wire)
  <1>1. /\ NextFrame("keepalive")
        /\ flushed' = IF AllDone THEN Larger(flushed, f.lsn) ELSE flushed
        /\ UNCHANGED <<server, session, inTransaction, commitLsn, lastEvent,
                       decoded, out, consumer, ends>>
    BY DEF DecodeKeepalive, pump
  <1>2. f \in Frame /\ f.tag = "keepalive" /\ Follows(f, decoded, Open)
    BY <1>1, FirstFrame DEF NextFrame, TypeOK
  <1>3. /\ f.event = decoded /\ f.tx = Open
        /\ Covers(f.lsn, decoded) /\ f.lsn \in Position
    BY <1>2 DEF Follows, Frame
  <1>4. decoded' = f.event /\ Open' = f.tx
    BY <1>1, <1>3 DEF Open
  <1>5. StreamInv' /\ wire' \in Seq(Frame) /\ ServerInv'
    BY <1>1, <1>4, DecodeStream
  <1>6. flushed' \in Position
    BY <1>1, <1>3, LargerType DEF TypeOK
  <1>7. TypeOK'
    BY <1>1, <1>5, <1>6 DEF TypeOK, server, consumer
  <1>8. PumpInv'
    BY <1>1 DEF PumpInv, CoveredBy
  <1>9. ReleaseInv'
    <2>1. CASE AllDone
      <3>1. Covers(f.lsn, acked) /\ Covers(flushed, acked)
        BY <1>3, <2>1, NothingLeft DEF AllDone, ReleaseInv
      <3>2. flushed' = Larger(flushed, f.lsn) /\ flushed \in Position
            /\ acked \in 0..NumEvents
        BY <1>1, <2>1 DEF TypeOK
      <3>3. Covers(flushed', acked)
        BY <1>3, <3>1, <3>2, LargerCovers
      <3> QED BY <1>1, <3>3 DEF ReleaseInv, Covers, server, consumer
    <2>2. CASE ~AllDone
      BY <1>1, <2>2 DEF ReleaseInv, Covers, server, consumer
    <2> QED BY <2>1, <2>2
  <1>10. OutInv' /\ OutstandingIsTail'
    BY <1>1 DEF OutInv, OutstandingIsTail, Covers, consumer
  <1> QED BY <1>5, <1>7, <1>8, <1>9, <1>10

-----------------------------------------------------------------------------
(* The consumer. *)

LEMMA YieldInv == ASSUME WalcastInv, Yield PROVE WalcastInv'
  <1> USE DEF WalcastInv
  <1>1. /\ yielded < decoded /\ yielded' = yielded + 1
        /\ held' = held \union {yielded + 1}
        /\ UNCHANGED <<confirmed, readTo, sending, sent, session, wire, flushed,
                       inTransaction, commitLsn, lastEvent, decoded, out,
                       acked, ends>>
    BY DEF Yield, server, pump
  <1>2. yielded' \in 0..NumEvents /\ yielded + 1 \in Event
    BY <1>1, WalFacts DEF TypeOK, Event
  <1>3. TypeOK'
    BY <1>1, <1>2 DEF TypeOK
  <1>4. StreamInv' /\ ServerInv'
    BY <1>1 DEF StreamInv, ServerInv, EventBefore, TxBefore, Open, Follows,
       Covers, CoveredBy
  <1>5. PumpInv' /\ ReleaseInv' /\ OutInv' /\ OutstandingIsTail'
    BY <1>1 DEF PumpInv, ReleaseInv, OutInv, OutstandingIsTail, Covers, CoveredBy
  <1> QED BY <1>3, <1>4, <1>5

\* Both forms of ack remove a front part of what is outstanding, no more of it
\* than they acknowledge, and report no more than they acknowledge.
LEMMA AckInv ==
    ASSUME WalcastInv, NEW gone \in SUBSET DOMAIN out, out' = Without(gone),
           \A x \in gone : \A y \in DOMAIN out : y <= x => y \in gone,
           acked' \in 0..NumEvents, acked <= acked',
           \A x \in gone : x <= acked',
           flushed' \in Position, Covers(flushed', acked'),
           UNCHANGED <<server, session, wire, pump, yielded, held, ends>>
    PROVE  WalcastInv'
  <1> USE DEF WalcastInv
  <1>1. /\ DOMAIN out' = DOMAIN out \ gone
        /\ \A x \in DOMAIN out' : out'[x] = out[x]
        /\ UNCHANGED <<confirmed, readTo, sending, sent, session, wire,
                       inTransaction, commitLsn, lastEvent, decoded, yielded,
                       held, ends>>
    BY DEF Without, server, pump
  <1>2. TypeOK'
    BY <1>1 DEF TypeOK
  <1>3. StreamInv' /\ ServerInv'
    BY <1>1 DEF StreamInv, ServerInv, EventBefore, TxBefore, Open, Follows,
       Covers, CoveredBy
  <1>4. PumpInv'
    BY <1>1 DEF PumpInv, CoveredBy
  <1>5. ReleaseInv'
    <2>1. Covers(confirmed, acked')
      BY CoversMore DEF ReleaseInv, TypeOK
    <2> QED BY <1>1, <2>1 DEF ReleaseInv, Covers
  <1>6. OutInv'
    <2>1. \A x \in DOMAIN out : x \in Nat
      BY WalFacts DEF TypeOK
    <2>2. ASSUME NEW x \in 1..decoded
          PROVE  x \in DOMAIN out' \/ x <= acked'
      BY <1>1 DEF OutInv, TypeOK
    <2>3. ASSUME NEW x \in DOMAIN out'
          PROVE  \/ inTransaction /\ Commit[x] = commitLsn
                 \/ \E g \in DOMAIN out' :
                       g >= x /\ Commit[g] = Commit[x] /\ Commit[g] < out'[g]
      <3>1. ASSUME NEW g \in DOMAIN out, g >= x PROVE g \in DOMAIN out'
        BY <1>1, <2>1, <3>1
      <3>2. x \in DOMAIN out
        BY <1>1
      <3> QED BY <1>1, <3>1, <3>2 DEF OutInv
    <2> QED BY <1>1, <2>2, <2>3 DEF OutInv, Covers
  <1>7. OutstandingIsTail'
    <2> SUFFICES ASSUME NEW x \in DOMAIN out', NEW g \in x..decoded
                 PROVE  g \in DOMAIN out'
      BY <1>1 DEF OutstandingIsTail
    <2>1. x \in DOMAIN out /\ x \in Nat /\ x \notin gone
      BY <1>1, WalFacts DEF TypeOK
    <2>2. g \in DOMAIN out
      BY <2>1 DEF OutstandingIsTail
    <2>3. g \notin gone
      BY <2>1
    <2> QED BY <1>1, <2>2, <2>3
  <1> QED BY <1>2, <1>3, <1>4, <1>5, <1>6, <1>7

\* An ack of an event this session has not emitted removes nothing.
LEMMA AckNothing ==
    ASSUME WalcastInv, out' = out,
           acked' \in 0..NumEvents, acked <= acked',
           flushed' \in Position, Covers(flushed', acked'),
           UNCHANGED <<server, session, wire, pump, yielded, held, ends>>
    PROVE  WalcastInv'
  <1> USE DEF WalcastInv
  <1>1. UNCHANGED <<confirmed, readTo, sending, sent, session, wire, out,
                    inTransaction, commitLsn, lastEvent, decoded, yielded,
                    held, ends>>
    BY DEF server, pump
  <1>2. TypeOK'
    BY <1>1 DEF TypeOK
  <1>3. StreamInv' /\ ServerInv'
    BY <1>1 DEF StreamInv, ServerInv, EventBefore, TxBefore, Open, Follows,
       Covers, CoveredBy
  <1>4. PumpInv' /\ OutstandingIsTail'
    BY <1>1 DEF PumpInv, OutstandingIsTail, CoveredBy
  <1>5. ReleaseInv'
    <2>1. Covers(confirmed, acked')
      BY CoversMore DEF ReleaseInv, TypeOK
    <2> QED BY <1>1, <2>1 DEF ReleaseInv, Covers
  <1>6. OutInv'
    <2>1. \A x \in 1..decoded : x \in DOMAIN out \/ x <= acked'
      BY DEF OutInv, TypeOK
    <2> QED BY <1>1, <2>1 DEF OutInv, Covers
  <1> QED BY <1>2, <1>3, <1>4, <1>5, <1>6

LEMMA UpdateFlushedInv ==
    ASSUME WalcastInv, NEW l \in Position, UpdateFlushed(l),
           NEW n \in 0..NumEvents, acked <= n, Covers(l, n)
    PROVE  flushed' \in Position /\ Covers(flushed', n)
  <1>1. flushed \in Position /\ acked \in 0..NumEvents /\ Covers(flushed, acked)
    BY DEF WalcastInv, TypeOK, ReleaseInv
  <1>2. Covers(flushed, n)
    BY <1>1, CoversMore
  <1>3. Larger(flushed, l) \in Position /\ Covers(Larger(flushed, l), n)
    BY <1>1, <1>2, LargerCovers, LargerType
  <1> QED BY <1>1, <1>2, <1>3 DEF UpdateFlushed

LEMMA OwnLsnCovers ==
    ASSUME NEW e \in Event PROVE Lsn[e] \in Position /\ Covers(Lsn[e], e)
  <1>1. Lsn[e] \in Position
    BY WalAssumption
  <1> SUFFICES ASSUME NEW x \in Event, Commit[x] < Lsn[e], ~(x <= e) PROVE FALSE
    BY <1>1 DEF Covers
  <1>2. Commit[e] <= Commit[x] /\ Lsn[e] < Commit[e]
    BY WalFacts
  <1> QED BY <1>2, WalFacts

LEMMA AckedAfter ==
    ASSUME WalcastInv, NEW e \in held, acked' = Larger(acked, e)
    PROVE  /\ e \in Event /\ e \in 0..NumEvents
           /\ acked' \in 0..NumEvents /\ acked <= acked' /\ e <= acked'
  <1>1. e \in Event /\ acked \in 0..NumEvents
    BY DEF WalcastInv, TypeOK
  <1> QED BY <1>1, WalFacts DEF Larger, Event

LEMMA AckEventInv ==
    ASSUME WalcastInv, NEW e \in Event, AckEvent(e) PROVE WalcastInv'
  <1>1. /\ e \in held /\ acked' = Larger(acked, e)
        /\ UNCHANGED <<server, session, wire, pump, yielded, held, ends>>
    BY DEF AckEvent
  <1>2. /\ e \in 0..NumEvents /\ acked' \in 0..NumEvents
        /\ acked <= acked' /\ e <= acked'
    BY <1>1, AckedAfter
  <1>3. CASE e \in DOMAIN out
    <2>1. out' = Without(Swept(e)) /\ UpdateFlushed(out[e])
      BY <1>3 DEF AckEvent
    <2>2. out[e] \in Position /\ Covers(out[e], e)
      BY <1>3 DEF WalcastInv, TypeOK, OutInv
    <2>3. flushed' \in Position /\ Covers(flushed', acked')
      <3>1. Covers(out[e], acked')
        BY <1>2, <2>2, CoversMore
      <3> QED BY <1>2, <2>1, <2>2, <3>1, UpdateFlushedInv
    <2>4. \A x \in DOMAIN out : x \in Nat
      BY WalFacts DEF WalcastInv, TypeOK
    <2>5. /\ Swept(e) \in SUBSET DOMAIN out
          /\ \A x \in Swept(e) : \A y \in DOMAIN out : y <= x => y \in Swept(e)
          /\ \A x \in Swept(e) : x <= acked'
      BY <1>2, <2>4 DEF Swept
    <2> QED BY <1>1, <1>2, <2>1, <2>3, <2>5, AckInv
  <1>4. CASE e \notin DOMAIN out
    <2>1. out' = out /\ UpdateFlushed(Lsn[e])
      BY <1>4 DEF AckEvent
    <2>2. flushed' \in Position /\ Covers(flushed', acked')
      <3>1. Lsn[e] \in Position /\ Covers(Lsn[e], acked')
        BY <1>2, OwnLsnCovers, CoversMore
      <3> QED BY <1>2, <2>1, <3>1, UpdateFlushedInv
    <2> QED BY <1>1, <1>2, <2>1, <2>2, AckNothing
  <1> QED BY <1>3, <1>4

\* A first ack of a raw position clears nothing behind its event: the last
\* event of a committed transaction counts with the end of its commit record,
\* which is beyond the position, so later transactions are out of reach.
LEMMA PrefixStops ==
    ASSUME WalcastInv, NEW e \in Event, e > acked,
           \A f \in Event : f > e => Lsn[f] # Lsn[e],
           NEW x \in Prefix(Lsn[e])
    PROVE  x <= e
  <1> SUFFICES ASSUME ~(x <= e) PROVE FALSE
    OBVIOUS
  <1> USE DEF WalcastInv
  <1>1. /\ x \in DOMAIN out /\ x \in Event /\ x \in Nat /\ x <= decoded
        /\ \A y \in DOMAIN out : y <= x => out[y] <= Lsn[e]
        /\ e \in Nat /\ e # 0 /\ decoded \in Nat /\ acked \in Nat
    BY WalFacts DEF Prefix, TypeOK, OutInv
  <1>2. e \in DOMAIN out
    <2>1. e \in 1..decoded
      BY <1>1
    <2> QED BY <1>1, <2>1 DEF OutInv
  <1>3. /\ Commit[e] <= Commit[x]
        /\ Lsn[e] < Commit[e] /\ Lsn[e] \in Nat /\ Lsn[x] \in Nat
        /\ Commit[e] \in Nat /\ Commit[x] \in Nat
        /\ \A y \in DOMAIN out : out[y] \in Nat /\ Lsn[y] <= out[y]
    BY <1>1, WalFacts DEF OutInv, TypeOK, Position
  <1>4. CASE Commit[e] = Commit[x]
    <2>1. Lsn[e] <= Lsn[x] /\ Lsn[x] # Lsn[e]
      BY <1>1, <1>4, WalAssumption
    <2>2. Lsn[x] <= out[x] /\ out[x] <= Lsn[e] /\ out[x] \in Nat
      BY <1>1, <1>3
    <2> QED BY <1>3, <2>1, <2>2
  <1>5. CASE Commit[e] # Commit[x]
    <2>1. ~(inTransaction /\ Commit[e] = commitLsn)
      <3> SUFFICES ASSUME inTransaction, Commit[e] = commitLsn PROVE FALSE
        OBVIOUS
      <3>1. CASE lastEvent = 0
        BY <1>1, <1>3, <3>1 DEF PumpInv, CoveredBy
      <3>2. CASE lastEvent # 0
        <4>1. decoded = lastEvent /\ Commit[decoded] = commitLsn /\ decoded \in Event
          BY <1>1, <3>2, WalFacts DEF PumpInv, TypeOK, Event
        <4>2. Commit[x] <= Commit[decoded]
          BY <1>1, <4>1, WalFacts
        <4> QED BY <1>3, <1>5, <4>1, <4>2
      <3> QED BY <3>1, <3>2
    <2>2. PICK f \in DOMAIN out :
             f >= e /\ Commit[f] = Commit[e] /\ Commit[f] < out[f]
      BY <1>2, <2>1 DEF OutInv
    <2>3. f \in Event /\ f \in Nat
      BY WalFacts DEF TypeOK
    <2>4. f <= x
      <3> SUFFICES ASSUME x < f PROVE FALSE
        BY <1>1, <2>3
      <3>1. Commit[x] <= Commit[f]
        BY <1>1, <2>3, WalFacts
      <3> QED BY <1>3, <1>5, <2>2, <3>1
    <2> QED BY <1>1, <1>3, <2>2, <2>4
  <1> QED BY <1>4, <1>5

LEMMA AckLsnInv ==
    ASSUME WalcastInv, ~AcksAgain, NEW e \in Event, AckLsn(e)
    PROVE  WalcastInv'
  <1>1. /\ e \in held /\ e > acked /\ acked' = Larger(acked, e)
        /\ \A f \in Event : f > e => Lsn[f] # Lsn[e]
        /\ out' = Without(Prefix(Lsn[e]))
        /\ UpdateFlushed(Lsn[e])
        /\ UNCHANGED <<server, session, wire, pump, yielded, held, ends>>
    BY DEF AckLsn
  <1>2. /\ e \in 0..NumEvents /\ acked' \in 0..NumEvents
        /\ acked <= acked' /\ e <= acked'
    BY <1>1, AckedAfter
  <1>3. flushed' \in Position /\ Covers(flushed', acked')
    <2>1. Lsn[e] \in Position /\ Covers(Lsn[e], acked')
      BY <1>2, OwnLsnCovers, CoversMore
    <2> QED BY <1>1, <1>2, <2>1, UpdateFlushedInv
  <1>4. \A x \in DOMAIN out : x \in Nat
    BY WalFacts DEF WalcastInv, TypeOK
  <1>5. /\ Prefix(Lsn[e]) \in SUBSET DOMAIN out
        /\ \A x \in Prefix(Lsn[e]) :
              \A y \in DOMAIN out : y <= x => y \in Prefix(Lsn[e])
    BY <1>4 DEF Prefix
  <1>6. ASSUME NEW x \in Prefix(Lsn[e]) PROVE x <= acked'
    <2>1. x <= e
      BY <1>1, PrefixStops
    <2>2. x \in Nat /\ e \in Nat /\ acked' \in Nat
      BY <1>2, <1>4, <1>5, WalFacts
    <2> QED BY <1>2, <2>1, <2>2
  <1> QED BY <1>1, <1>2, <1>3, <1>5, <1>6, AckInv

-----------------------------------------------------------------------------
(* Feedback and the end of a session. *)

\* Reporting makes the flushed position the confirmed one.
LEMMA ReportInv ==
    ASSUME WalcastInv, Report,
           UNCHANGED <<flushed, acked>>
    PROVE  confirmed' \in Position /\ ReleaseInv'
  <1>1. /\ confirmed \in Position /\ flushed \in Position
        /\ acked \in 0..NumEvents
        /\ Covers(confirmed, acked) /\ Covers(flushed, acked)
    BY DEF WalcastInv, TypeOK, ReleaseInv
  <1>2. confirmed' \in Position /\ Covers(confirmed', acked)
    BY <1>1, LargerType, LargerCovers DEF Report
  <1> QED BY <1>1, <1>2 DEF ReleaseInv, Covers

LEMMA SendStatusInv == ASSUME WalcastInv, SendStatus PROVE WalcastInv'
  <1> USE DEF WalcastInv
  <1>1. /\ Report
        /\ UNCHANGED <<readTo, sending, sent, session, wire, flushed,
                       inTransaction, commitLsn, lastEvent, decoded, out,
                       yielded, held, acked, ends>>
    BY DEF SendStatus, pump, consumer
  <1>2. confirmed' \in Position /\ ReleaseInv'
    BY <1>1, ReportInv
  <1>3. TypeOK'
    BY <1>1, <1>2 DEF TypeOK
  <1>4. StreamInv' /\ ServerInv'
    BY <1>1 DEF StreamInv, ServerInv, EventBefore, TxBefore, Open, Follows,
       Covers, CoveredBy
  <1>5. PumpInv' /\ OutInv' /\ OutstandingIsTail'
    BY <1>1 DEF PumpInv, OutInv, OutstandingIsTail, Covers, CoveredBy
  <1> QED BY <1>2, <1>3, <1>4, <1>5

LEMMA StopInv == ASSUME WalcastInv, Stop PROVE WalcastInv'
  <1> USE DEF WalcastInv
  <1>1. /\ Report /\ session' = "stopped"
        /\ ends < MaxEnds /\ ends' = ends + 1
        /\ UNCHANGED <<readTo, sending, sent, wire, flushed,
                       inTransaction, commitLsn, lastEvent, decoded, out,
                       yielded, held, acked>>
    BY DEF Stop, EndsHere, pump, consumer
  <1>2. confirmed' \in Position /\ ReleaseInv'
    BY <1>1, ReportInv
  <1>3. TypeOK'
    BY <1>1, <1>2, BoundAssumption DEF TypeOK
  <1>4. StreamInv' /\ ServerInv'
    BY <1>1 DEF StreamInv, ServerInv, EventBefore, TxBefore, Open, Follows,
       Covers, CoveredBy
  <1>5. PumpInv' /\ OutInv' /\ OutstandingIsTail'
    BY <1>1 DEF PumpInv, OutInv, OutstandingIsTail, Covers, CoveredBy
  <1> QED BY <1>2, <1>3, <1>4, <1>5

LEMMA DisconnectInv == ASSUME WalcastInv, Disconnect PROVE WalcastInv'
  <1> USE DEF WalcastInv
  <1>1. /\ session' = "failed"
        /\ ends < MaxEnds /\ ends' = ends + 1
        /\ UNCHANGED <<confirmed, readTo, sending, sent, flushed,
                       inTransaction, commitLsn, lastEvent, decoded, out,
                       yielded, held, acked>>
    BY DEF Disconnect, EndsHere, server, pump, consumer
  <1>2. PICK n \in 0..Len(wire) : wire' = SubSeq(wire, 1, n)
    BY DEF Disconnect
  <1>3. /\ wire' \in Seq(Frame) /\ Len(wire') = n
        /\ \A i \in 1..n : wire'[i] = wire[i] /\ i \in 1..Len(wire)
    BY <1>2 DEF TypeOK
  <1>4. TypeOK'
    BY <1>1, <1>3, BoundAssumption DEF TypeOK
  <1>5. ServerInv'
    BY <1>1 DEF ServerInv
  <1>6. StreamInv'
    <2> SUFFICES ASSUME NEW i \in 1..n
                 PROVE  Follows(wire[i], EventBefore(i), TxBefore(i))'
      BY <1>3 DEF StreamInv
    <2>1. EventBefore(i)' = EventBefore(i) /\ TxBefore(i)' = TxBefore(i)
      BY <1>1, <1>3 DEF EventBefore, TxBefore, Open
    <2>2. Follows(wire[i], EventBefore(i), TxBefore(i))
      BY <1>3 DEF StreamInv
    <2> QED BY <1>3, <2>1, <2>2 DEF Follows, Covers, CoveredBy
  <1>7. PumpInv' /\ ReleaseInv' /\ OutInv' /\ OutstandingIsTail'
    BY <1>1 DEF PumpInv, ReleaseInv, OutInv, OutstandingIsTail, Covers, CoveredBy
  <1> QED BY <1>4, <1>5, <1>6, <1>7

LEMMA CrashInv == ASSUME WalcastInv, Crash PROVE WalcastInv'
  <1> USE DEF WalcastInv
  <1>1. /\ session' = "none" /\ wire' = <<>> /\ held' = {} /\ flushed' = 0
        /\ out' = [e \in {} |-> 0]
        /\ inTransaction' = FALSE /\ commitLsn' = 0 /\ lastEvent' = 0
        /\ decoded' = 0 /\ yielded' = 0
        /\ ends < MaxEnds /\ ends' = ends + 1
        /\ UNCHANGED <<confirmed, readTo, sending, sent, acked>>
    BY DEF Crash, EndsHere, server
  <1>2. TypeOK'
    <2>1. <<>> \in Seq(Frame) /\ 0 \in Position /\ 0 \in 0..NumEvents
      BY WalFacts DEF Position
    <2>2. DOMAIN out' = {}
      BY <1>1
    <2>3. ends' \in 0..MaxEnds
      BY <1>1, BoundAssumption DEF TypeOK
    <2> QED BY <1>1, <2>1, <2>2, <2>3 DEF TypeOK
  <1>3. StreamInv' /\ ServerInv' /\ PumpInv'
    BY <1>1 DEF StreamInv, ServerInv, PumpInv
  <1>4. OutInv' /\ OutstandingIsTail'
    BY <1>1 DEF OutInv, OutstandingIsTail
  <1>5. ReleaseInv'
    BY <1>1, WalFacts DEF ReleaseInv, Covers
  <1> QED BY <1>2, <1>3, <1>4, <1>5

-----------------------------------------------------------------------------
LEMMA StutterInv == ASSUME WalcastInv, UNCHANGED vars PROVE WalcastInv'
  <1> USE DEF WalcastInv, vars, server, pump, consumer
  <1>1. TypeOK'
    BY DEF TypeOK
  <1>2. StreamInv' /\ ServerInv'
    BY DEF StreamInv, ServerInv, EventBefore, TxBefore, Open, Follows,
       Covers, CoveredBy
  <1>3. PumpInv' /\ ReleaseInv' /\ OutInv' /\ OutstandingIsTail'
    BY DEF PumpInv, ReleaseInv, OutInv, OutstandingIsTail, Covers, CoveredBy
  <1> QED BY <1>1, <1>2, <1>3

LEMMA NextInv ==
    ASSUME WalcastInv, ~AcksAgain, [Next]_vars PROVE WalcastInv'
  <1>1. CASE StartSession \/ Walsender
    BY <1>1, StartSessionInv, SendBeginInv, SendChangeInv, SendCommitInv,
       SkipWalInv, SendKeepaliveInv DEF Walsender
  <1>2. CASE Decode
    BY <1>2, DecodeBeginInv, DecodeChangeInv, DecodeCommitInv,
       DecodeKeepaliveInv DEF Decode
  <1>3. CASE Consume
    BY <1>3, YieldInv, AckEventInv, AckLsnInv DEF Consume
  <1>4. CASE SendStatus \/ Stop \/ Disconnect \/ Crash
    BY <1>4, SendStatusInv, StopInv, DisconnectInv, CrashInv
  <1>5. CASE UNCHANGED vars
    BY <1>5, StutterInv
  <1> QED BY <1>1, <1>2, <1>3, <1>4, <1>5 DEF Next

LEMMA Released == ASSUME WalcastInv PROVE NothingUnackedReleased
  <1>1. /\ confirmed \in Position /\ flushed \in Position
        /\ Larger(confirmed, flushed) \in {confirmed, flushed}
    BY LargerType DEF WalcastInv, TypeOK
  <1> QED BY <1>1 DEF WalcastInv, ReleaseInv, NothingUnackedReleased, Covers

(* No loss in library mode: whatever the interleaving of transactions and    *)
(* keepalives, the order, lateness and repetition of the acks of events, and *)
(* the end of each session, the position reported to the server releases no  *)
(* event that is not acknowledged (walcast.ts, ack() and changes()).  The    *)
(* assumption excludes the repeated ack of a raw position, of which the run  *)
(* WalcastRepeatedLsn shows that it breaks this.                             *)
THEOREM NoUnackedRelease ==
    ASSUME ~AcksAgain PROVE Spec => []NothingUnackedReleased
  <1>1. Init => WalcastInv
    BY InitInv
  <1>2. WalcastInv /\ [Next]_vars => WalcastInv'
    BY NextInv
  <1>3. WalcastInv => NothingUnackedReleased
    BY Released
  <1> QED BY <1>1, <1>2, <1>3, PTL DEF Spec

(* Under the same assumption, an ack removes what is outstanding from the    *)
(* front only, and the state keeps its types.                                *)
THEOREM OutstandingStaysTail ==
    ASSUME ~AcksAgain PROVE Spec => [](TypeOK /\ OutstandingIsTail)
  <1>1. Init => WalcastInv
    BY InitInv
  <1>2. WalcastInv /\ [Next]_vars => WalcastInv'
    BY NextInv
  <1>3. WalcastInv => TypeOK /\ OutstandingIsTail
    BY DEF WalcastInv
  <1> QED BY <1>1, <1>2, <1>3, PTL DEF Spec

(* The ranges and domains of the library's state, the positions of the     *)
(* session and of the slot among them (walcast.ts, stream.ts).             *)
THEOREM WalcastTypes ==
    ASSUME ~AcksAgain PROVE Spec => []TypeOK
  BY OutstandingStaysTail, PTL
-----------------------------------------------------------------------------
(* What is drained is released. *)

LEMMA LargerBounds ==
    ASSUME NEW a \in Nat, NEW b \in Nat
    PROVE  Larger(a, b) \in Nat /\ a <= Larger(a, b) /\ b <= Larger(a, b)
  BY DEF Larger

LEMMA CoveredFurther ==
    ASSUME NEW n, NEW l \in Nat, NEW m \in Nat, CoveredBy(n, l), l <= m
    PROVE  CoveredBy(n, m)
  BY WalFacts DEF CoveredBy

\* The events up to one whose commit record is below l.
LEMMA CoveredUpTo ==
    ASSUME NEW n \in Event, NEW l \in Nat, Commit[n] < l
    PROVE  CoveredBy(n, l)
  BY WalFacts DEF CoveredBy

Drained == session = "live" /\ DOMAIN out = {} /\ ~inTransaction
Reported == Larger(confirmed, flushed)

LEMMA DrainedMeans ==
    ASSUME TypeOK
    PROVE  DrainedIsReleased <=> (Drained => CoveredBy(decoded, Reported))
  <1>1. decoded \in 0..NumEvents /\ NumEvents \in Nat
    BY WalFacts DEF TypeOK
  <1>2. 1..decoded = {x \in Event : x <= decoded}
    BY <1>1 DEF Event
  <1> QED BY <1>2 DEF DrainedIsReleased, CoveredBy, Drained, Reported

LEMMA DrainedThen ==
    ASSUME TypeOK'
    PROVE  DrainedIsReleased' <=> (Drained' => CoveredBy(decoded', Reported'))
  <1>1. decoded' \in 0..NumEvents /\ NumEvents \in Nat
    BY WalFacts DEF TypeOK
  <1>2. 1..decoded' = {x \in Event : x <= decoded'}
    BY <1>1 DEF Event
  <1> QED BY <1>2 DEF DrainedIsReleased, CoveredBy, Drained, Reported

\* Positions only grow, and nothing was drained by this step.
LEMMA StaysReleased ==
    ASSUME TypeOK, TypeOK', DrainedIsReleased,
           confirmed <= confirmed', flushed <= flushed',
           decoded' = decoded, Drained' => Drained
    PROVE  DrainedIsReleased'
  <1>1. /\ confirmed \in Nat /\ flushed \in Nat
        /\ confirmed' \in Nat /\ flushed' \in Nat
    BY DEF TypeOK, Position
  <1>2. Reported \in Nat /\ Reported' \in Nat /\ Reported <= Reported'
    BY <1>1 DEF Larger, Reported
  <1> SUFFICES ASSUME Drained' PROVE CoveredBy(decoded', Reported')
    BY DrainedThen
  <1>3. CoveredBy(decoded, Reported)
    BY DrainedMeans
  <1>4. CoveredBy(decoded, Reported')
    BY <1>2, <1>3, CoveredFurther
  <1> QED BY <1>4 DEF CoveredBy

LEMMA SessionDrained ==
    ASSUME WalcastInv, StartSession PROVE DrainedIsReleased'
  <1>1. WalcastInv'
    BY StartSessionInv
  <1>2. PICK n \in 0..NumEvents : IsCut(n, confirmed) /\ decoded' = n
    BY DEF StartSession
  <1>3. confirmed \in Nat /\ flushed' = 0 /\ confirmed' = confirmed
    BY DEF StartSession, WalcastInv, TypeOK, Position
  <1>4. CoveredBy(n, confirmed)
    BY <1>2 DEF IsCut, CoveredBy
  <1>5. Reported' = confirmed
    BY <1>3 DEF Reported, Larger
  <1> QED
    BY <1>1, <1>2, <1>4, <1>5, DrainedThen DEF WalcastInv

\* With nothing outstanding at the commit record, all of the transaction is
\* acknowledged, and the record itself is reported.
LEMMA CommitDrained ==
    ASSUME WalcastInv, DecodeCommit PROVE DrainedIsReleased'
  <1> USE DEF WalcastInv
  <1> DEFINE f == Head(wire)
  <1>1. /\ NextFrame("commit") /\ out' = Upgraded(f.lsn)
        /\ flushed' = IF DOMAIN out = {} THEN Larger(flushed, f.lsn) ELSE flushed
        /\ UNCHANGED <<server, session, decoded>>
    BY DEF DecodeCommit
  <1>2. f \in Frame /\ f.tag = "commit" /\ Follows(f, decoded, Open)
    BY <1>1, FirstFrame DEF NextFrame, TypeOK
  <1>3. inTransaction /\ f.lsn = commitLsn + 1 /\ f.lsn \in Position
    BY <1>2 DEF Follows, Frame, Open
  <1>4. WalcastInv'
    BY DecodeCommitInv
  <1> SUFFICES ASSUME Drained' PROVE CoveredBy(decoded, Reported')
    BY <1>1, <1>4, DrainedThen
  <1>5. DOMAIN out = {} /\ flushed' = Larger(flushed, f.lsn)
    BY <1>1 DEF Drained, Upgraded
  <1>6. /\ flushed \in Nat /\ f.lsn \in Nat /\ commitLsn \in Nat
        /\ confirmed' \in Nat /\ decoded \in 0..NumEvents
    BY <1>1, <1>3 DEF TypeOK, Position, server
  <1>7. CoveredBy(decoded, f.lsn)
    <2>1. CASE lastEvent = 0
      <3>1. CoveredBy(decoded, commitLsn)
        BY <1>3, <2>1 DEF PumpInv
      <3> QED BY <1>3, <1>6, <3>1, CoveredFurther
    <2>2. CASE lastEvent # 0
      <3>1. decoded \in Event /\ Commit[decoded] = commitLsn
        BY <1>6, <2>2, WalFacts DEF PumpInv, Event
      <3> QED BY <1>3, <1>6, <3>1, CoveredUpTo
    <2> QED BY <2>1, <2>2
  <1>8. flushed' \in Nat /\ f.lsn <= flushed'
    BY <1>5, <1>6, LargerBounds
  <1>9. Reported' \in Nat /\ f.lsn <= Reported'
    BY <1>6, <1>8 DEF Reported, Larger
  <1> QED BY <1>6, <1>7, <1>9, CoveredFurther

\* An ack that leaves nothing outstanding has taken the last event decoded,
\* which released the commit record of its transaction.
LEMMA AckDrained ==
    ASSUME WalcastInv, WalcastInv', DrainedIsReleased, session = "live",
           NEW gone, out' = Without(gone),
           NEW l \in Nat, flushed' = Larger(flushed, l),
           decoded \in DOMAIN out \intersect gone => out[decoded] <= l,
           UNCHANGED <<server, session, pump>>
    PROVE  DrainedIsReleased'
  <1> USE DEF WalcastInv
  <1>1. UNCHANGED <<confirmed, session, decoded, inTransaction>>
    BY DEF server, pump
  <1>2. flushed \in Nat /\ confirmed \in Nat
    BY DEF TypeOK, Position
  <1>3. flushed' \in Nat /\ flushed <= flushed' /\ l <= flushed'
    BY <1>2, LargerBounds
  <1>4. CASE DOMAIN out = {}
    BY <1>1, <1>2, <1>3, <1>4, StaysReleased DEF Drained
  <1>5. CASE DOMAIN out # {}
    <2> SUFFICES ASSUME Drained' PROVE CoveredBy(decoded, Reported')
      BY <1>1, DrainedThen
    <2>1. DOMAIN out \subseteq gone /\ ~inTransaction
      BY <1>1 DEF Drained, Without
    <2>2. PICK e \in DOMAIN out : TRUE
      BY <1>5
    <2>3. /\ decoded \in 0..NumEvents /\ NumEvents \in Nat
          /\ DOMAIN out \subseteq 1..decoded
      BY WalFacts DEF TypeOK, OutInv
    <2>4. decoded \in DOMAIN out /\ decoded \in Event
      BY <2>2, <2>3 DEF OutstandingIsTail, Event
    <2>5. PICK g \in DOMAIN out : g >= decoded /\ Commit[g] < out[g]
      BY <2>1, <2>4 DEF OutInv
    <2>6. Commit[decoded] < out[decoded] /\ out[decoded] <= l
      BY <2>1, <2>3, <2>4, <2>5
    <2>7. out[decoded] \in Nat /\ Commit[decoded] \in Nat
      BY <2>4, WalFacts DEF TypeOK, Position
    <2>8. Reported' \in Nat /\ l <= Reported'
      BY <1>1, <1>2, <1>3 DEF Reported, Larger
    <2>9. Commit[decoded] < Reported'
      BY <2>6, <2>7, <2>8
    <2> QED BY <2>4, <2>8, <2>9, CoveredUpTo
  <1> QED BY <1>4, <1>5

LEMMA AckEventDrained ==
    ASSUME WalcastInv, DrainedIsReleased, NEW e \in Event, AckEvent(e)
    PROVE  DrainedIsReleased'
  <1> USE DEF WalcastInv
  <1>1. UNCHANGED <<server, session, pump>>
    BY DEF AckEvent
  <1>2. WalcastInv'
    BY AckEventInv
  <1>3. CASE session # "live"
    BY <1>1, <1>3 DEF DrainedIsReleased
  <1>4. CASE session = "live" /\ e \in DOMAIN out
    <2>1. out' = Without(Swept(e)) /\ flushed' = Larger(flushed, out[e])
      BY <1>4 DEF AckEvent, UpdateFlushed
    <2>2. out[e] \in Nat /\ e \in 1..decoded /\ decoded \in Nat
      BY <1>4 DEF TypeOK, OutInv, Position
    <2>3. decoded \in Swept(e) => decoded = e
      BY <2>2 DEF Swept
    <2> QED BY <1>1, <1>2, <1>4, <2>1, <2>2, <2>3, AckDrained
  <1>5. CASE session = "live" /\ e \notin DOMAIN out
    <2>1. out' = out /\ flushed' = Larger(flushed, Lsn[e])
      BY <1>5 DEF AckEvent, UpdateFlushed
    <2>2. flushed \in Nat /\ Lsn[e] \in Nat /\ confirmed \in Nat
      BY WalFacts DEF TypeOK, Position
    <2>3. flushed <= flushed'
      BY <2>1, <2>2, LargerBounds
    <2> QED
      BY <1>1, <1>2, <2>1, <2>2, <2>3, StaysReleased DEF Drained, server, pump
  <1> QED BY <1>3, <1>4, <1>5

LEMMA AckLsnDrained ==
    ASSUME WalcastInv, WalcastInv', DrainedIsReleased, NEW e \in Event, AckLsn(e)
    PROVE  DrainedIsReleased'
  <1>1. UNCHANGED <<server, session, pump>> /\ out' = Without(Prefix(Lsn[e]))
    BY DEF AckLsn
  <1>2. CASE session # "live"
    BY <1>1, <1>2 DEF DrainedIsReleased
  <1>3. CASE session = "live"
    <2>1. flushed' = Larger(flushed, Lsn[e]) /\ Lsn[e] \in Nat
      BY <1>3, WalFacts DEF AckLsn, UpdateFlushed
    <2>2. decoded \in Nat
      BY DEF WalcastInv, TypeOK
    <2>3. decoded \in Prefix(Lsn[e]) => out[decoded] <= Lsn[e]
      BY <2>2 DEF Prefix
    <2> QED BY <1>1, <1>3, <2>1, <2>3, AckDrained
  <1> QED BY <1>2, <1>3

LEMMA NextDrained ==
    ASSUME WalcastInv, WalcastInv', DrainedIsReleased, [Next]_vars
    PROVE  DrainedIsReleased'
  <1> USE DEF WalcastInv
  <1>0. confirmed \in Nat /\ flushed \in Nat
    BY DEF TypeOK, Position
  <1>1. CASE StartSession
    BY <1>1, SessionDrained
  <1>2. CASE Walsender
    <2>1. UNCHANGED <<confirmed, session, flushed, decoded, inTransaction, out>>
      BY <1>2 DEF Walsender, SendBegin, SendChange, SendCommit, SkipWal,
                  SendKeepalive, server, pump
    <2> QED BY <1>0, <2>1, StaysReleased DEF Drained
  <1>3. CASE DecodeBegin
    BY <1>3 DEF DecodeBegin, DrainedIsReleased
  <1>4. CASE DecodeChange
    <2>1. Head(wire).event \in DOMAIN out'
      BY <1>4 DEF DecodeChange
    <2> QED BY <2>1 DEF DrainedIsReleased
  <1>5. CASE DecodeCommit
    BY <1>5, CommitDrained
  <1>6. CASE DecodeKeepalive
    <2>1. Head(wire) \in Frame
      BY <1>6, FirstFrame DEF DecodeKeepalive, NextFrame, TypeOK
    <2>2. Head(wire).lsn \in Nat
      BY <2>1 DEF Frame, Position
    <2>3. flushed <= flushed'
      <3>1. flushed' \in {flushed, Larger(flushed, Head(wire).lsn)}
        BY <1>6 DEF DecodeKeepalive
      <3>2. flushed <= flushed
        BY <1>0
      <3>3. flushed <= Larger(flushed, Head(wire).lsn)
        BY <1>0, <2>2, LargerBounds
      <3> QED BY <3>1, <3>2, <3>3
    <2> QED
      BY <1>0, <1>6, <2>3, StaysReleased
         DEF Drained, DecodeKeepalive, server, pump
  <1>7. CASE Consume
    <2>1. CASE Yield
      BY <1>0, <2>1, StaysReleased DEF Drained, Yield, server, pump
    <2>2. ASSUME NEW e \in Event, AckEvent(e) \/ AckLsn(e)
          PROVE  DrainedIsReleased'
      BY <2>2, AckEventDrained, AckLsnDrained
    <2> QED BY <1>7, <2>1, <2>2 DEF Consume
  <1>8. CASE SendStatus
    <2>1. confirmed <= confirmed'
      BY <1>0, <1>8, LargerBounds DEF SendStatus, Report
    <2> QED
      BY <1>0, <1>8, <2>1, StaysReleased DEF Drained, SendStatus, pump
  <1>9. CASE Stop \/ Disconnect \/ Crash
    <2>1. session' # "live"
      BY <1>9 DEF Stop, Disconnect, Crash
    <2> QED BY <2>1 DEF DrainedIsReleased
  <1>10. CASE UNCHANGED vars
    BY <1>10 DEF vars, server, pump, DrainedIsReleased
  <1> QED
    BY <1>1, <1>2, <1>3, <1>4, <1>5, <1>6, <1>7, <1>8, <1>9, <1>10
       DEF Next, Decode

(* Whatever comes last, the ack of the last event of a transaction or the    *)
(* commit record (walcast.ts, the upgrade of its entry in changes()): between *)
(* transactions, with nothing outstanding, every decoded transaction is      *)
(* released, and the slot keeps no WAL for what is done with.                *)
THEOREM DrainedAreReleased ==
    ASSUME ~AcksAgain PROVE Spec => []DrainedIsReleased
  <1>1. Init => WalcastInv /\ DrainedIsReleased
    BY InitInv DEF Init, DrainedIsReleased
  <1>2. WalcastInv /\ DrainedIsReleased /\ [Next]_vars
            => WalcastInv' /\ DrainedIsReleased'
    BY NextInv, NextDrained
  <1> QED BY <1>1, <1>2, PTL DEF Spec
===============================================================================
