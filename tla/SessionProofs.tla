----------------------------- MODULE SessionProofs -----------------------------
(***************************************************************************)
(* A replication session: that the two queues of changes() lose nothing     *)
(* and stay bounded, for every high-water mark, chunk and frame; and that   *)
(* the fields of a Walcast instance always lead to its live stream, for any *)
(* number of calls of changes(). And what its events are told apart by:     *)
(* that positions and event ids keep their order as text, in every base;    *)
(* and that its decoder reads back every frame as it was written, and no    *)
(* frame that was cut.                                                      *)
(***************************************************************************)
EXTENDS AsyncQueue, Iteration, Pgoutput, Positions, SequenceTheorems, WellFoundedInduction, TLAPS

-----------------------------------------------------------------------------
(* The operations of a queue. *)

Queue(S) == [items : Seq(S), waiting : BOOLEAN, got : Seq(S),
             ended : BOOLEAN, failed : BOOLEAN, paused : BOOLEAN]

\* Who waits has found nothing, and waits only for a queue that is open.
QueueOK(q, S) ==
    /\ q \in Queue(S) /\ Len(q.got) <= 1
    /\ q.waiting => q.items = <<>> /\ q.got = <<>> /\ ~q.ended

LEMMA Concat ==
    ASSUME NEW S, NEW s \in Seq(S), NEW t \in Seq(S)
    PROVE  /\ s \o t \in Seq(S)
           /\ Len(s \o t) = Len(s) + Len(t)
           /\ \A i \in 1..Len(s) : (s \o t)[i] = s[i]
           /\ \A i \in 1..Len(t) : (s \o t)[Len(s) + i] = t[i]
  OBVIOUS

LEMMA Parted ==
    ASSUME NEW S, NEW s \in Seq(S), NEW h \in Seq(S), NEW t \in Seq(S),
           Len(s) = Len(h) + Len(t), \A i \in 1..Len(h) : h[i] = s[i],
           \A i \in 1..Len(t) : t[i] = s[Len(h) + i]
    PROVE  h \o t = s
  <1>1. h \o t \in Seq(S) /\ Len(h \o t) = Len(s)
    BY Concat
  <1>2. \A k \in 1..Len(h) + Len(t) : (h \o t)[k] = IF k <= Len(h) THEN h[k] ELSE t[k - Len(h)]
    BY ConcatProperties
  <1>3. ASSUME NEW i \in 1..Len(s) PROVE (h \o t)[i] = s[i]
    <2>1. CASE i <= Len(h)
      BY <1>2, <2>1
    <2>2. CASE ~(i <= Len(h))
      <3>1. i - Len(h) \in 1..Len(t) /\ Len(h) + (i - Len(h)) = i
        BY <2>2
      <3>2. (h \o t)[i] = t[i - Len(h)]
        BY <1>2, <2>2
      <3> QED BY <3>1, <3>2
    <2> QED BY <2>1, <2>2
  <1> QED BY <1>1, <1>3, SeqEqual

LEMMA ConcatAppend ==
    ASSUME NEW S, NEW s \in Seq(S), NEW t \in Seq(S), NEW x \in S
    PROVE  s \o Append(t, x) = Append(s \o t, x)
  <1>1. <<x>> \in Seq(S) /\ Append(t, x) = t \o <<x>>
    BY AppendIsConcat
  <1>2. s \o t \in Seq(S)
    BY Concat
  <1>3. Append(s \o t, x) = (s \o t) \o <<x>>
    BY <1>2, AppendIsConcat
  <1> QED BY <1>1, <1>3, ConcatAssociative

\* A name for the provers, which look into \o wherever they see it.
Joined(s, t) == s \o t

\* A sequence is its head and its tail.
LEMMA HeadAndTail ==
    ASSUME NEW S, NEW s \in Seq(S), s # <<>>
    PROVE  /\ <<Head(s)>> \in Seq(S) /\ Len(<<Head(s)>>) = 1
           /\ Tail(s) \in Seq(S) /\ Len(Tail(s)) = Len(s) - 1
           /\ <<Head(s)>> \o Tail(s) = s
  <1>1. /\ Head(s) \in S /\ Tail(s) \in Seq(S) /\ Len(Tail(s)) = Len(s) - 1
        /\ \A i \in 1..Len(Tail(s)) : Tail(s)[i] = s[i + 1]
        /\ Len(s) \in Nat /\ Len(s) # 0 /\ Head(s) = s[1]
    BY HeadTailProperties
  <1>2. /\ <<Head(s)>> \in Seq(S) /\ Len(<<Head(s)>>) = 1 /\ <<Head(s)>>[1] = s[1]
    BY <1>1
  <1> DEFINE h == <<Head(s)>>
             t == Tail(s)
  <1>3. /\ h \in Seq(S) /\ t \in Seq(S) /\ Len(h) = 1 /\ Len(s) = Len(h) + Len(t)
        /\ h[1] = s[1] /\ Len(t) \in Nat
    BY <1>1, <1>2
  <1>4. \A i \in 1..Len(t) : t[i] = s[i + 1]
    BY <1>1
  <1> HIDE DEF h, t
  <1>5. ASSUME NEW i \in 1..Len(h) PROVE h[i] = s[i]
    BY <1>3
  <1>6. ASSUME NEW i \in 1..Len(t) PROVE t[i] = s[Len(h) + i]
    BY <1>3, <1>4
  <1>7. h \o t = s
    BY <1>3, <1>5, <1>6, Parted
  <1> QED BY <1>1, <1>2, <1>7 DEF h, t

\* What an open queue is after it has received something.
LEMMA PushAllOpen ==
    ASSUME NEW S, NEW q \in Queue(S), ~q.ended, NEW items \in Seq(S), items # <<>>, NEW hwm \in Nat,
           NEW r, r = PushAll(q, items, hwm),
           NEW kept, kept = IF q.waiting THEN Tail(items) ELSE items,
           NEW got, got = IF q.waiting THEN <<Head(items)>> ELSE q.got
    PROVE  /\ r.items = q.items \o kept /\ r.got = got /\ ~r.waiting
           /\ r.ended = q.ended /\ r.failed = q.failed
           /\ r.paused <=> q.paused \/ (kept # <<>> /\ Len(q.items) + Len(kept) >= hwm)
           /\ r \in Queue(S)
  <1>1. /\ r.items = q.items \o kept /\ r.got = got /\ ~r.waiting
        /\ r.ended = q.ended /\ r.failed = q.failed
        /\ r.paused <=> q.paused \/ (kept # <<>> /\ Len(q.items) + Len(kept) >= hwm)
        /\ r \in [items : {r.items}, waiting : BOOLEAN, got : {r.got}, ended : BOOLEAN,
                  failed : BOOLEAN, paused : BOOLEAN]
    BY DEF PushAll, Queue
  <1>2. kept \in Seq(S) /\ got \in Seq(S)
    BY HeadTailProperties DEF Queue
  <1>3. q.items \o kept \in Seq(S)
    <2> DEFINE old == q.items
    <2>1. old \in Seq(S)
      BY DEF Queue
    <2> HIDE DEF old
    <2>2. old \o kept \in Seq(S)
      BY <1>2, <2>1, Concat
    <2> QED BY <2>2 DEF old
  <1> QED BY <1>1, <1>2, <1>3 DEF Queue

LEMMA SameQueue ==
    ASSUME NEW S, NEW q \in Queue(S), NEW r \in Queue(S), q.items = r.items, q.waiting = r.waiting,
           q.got = r.got, q.ended = r.ended, q.failed = r.failed, q.paused = r.paused
    PROVE  q = r
  BY DEF Queue

LEMMA PushOpen ==
    ASSUME NEW S, NEW q \in Queue(S), ~q.ended, NEW x \in S, NEW hwm \in Nat,
           NEW r, r = Push(q, x, hwm)
    PROVE  /\ r \in Queue(S) /\ ~r.waiting /\ r.ended = q.ended /\ r.failed = q.failed
           /\ q.waiting => r.items = q.items /\ r.got = <<x>> /\ r.paused = q.paused
           /\ ~q.waiting => /\ r.items = Append(q.items, x) /\ r.got = q.got
                            /\ r.paused <=> q.paused \/ Len(q.items) + 1 >= hwm
  <1>1. CASE q.waiting
    <2>1. r = [q EXCEPT !.waiting = FALSE, !.got = <<x>>]
      BY <1>1 DEF Push
    <2>2. <<x>> \in Seq(S)
      OBVIOUS
    <2>3. r.items = q.items /\ r.got = <<x>> /\ r.waiting = FALSE /\ r.paused = q.paused
          /\ r.ended = q.ended /\ r.failed = q.failed
      BY <2>1 DEF Queue
    <2>4. r \in Queue(S)
      BY <2>1, <2>2 DEF Queue
    <2> QED BY <1>1, <2>3, <2>4
  <1>2. CASE ~q.waiting
    <2> DEFINE full == q.paused \/ Len(q.items) + 1 >= hwm
               more == Append(q.items, x)
    <2>1. more \in Seq(S) /\ full \in BOOLEAN
      BY AppendProperties DEF Queue
    <2>2. r = [q EXCEPT !.items = more, !.paused = full]
      BY <1>2 DEF Push
    <2>3. full <=> q.paused \/ Len(q.items) + 1 >= hwm
      OBVIOUS
    <2> HIDE DEF full, more
    <2>4. /\ r \in Queue(S) /\ r.items = more /\ r.got = q.got /\ r.paused = full
          /\ ~r.waiting /\ r.ended = q.ended /\ r.failed = q.failed
      BY <1>2, <2>1, <2>2 DEF Queue
    <2> QED BY <1>2, <2>3, <2>4 DEF more
  <1> QED BY <1>1, <1>2

LEMMA OneMore ==
    \A a, b, c \in Nat : a + (b + 1) = (a + b) + 1 /\ (a + b >= c => (a + b) + 1 >= c)
  OBVIOUS

\* PushAll is one Push after the other.
LEMMA PushAllIsPushes ==
    ASSUME NEW S, NEW q, QueueOK(q, S), NEW items \in Seq(S), NEW x \in S, NEW hwm \in Nat
    PROVE  /\ PushAll(q, <<>>, hwm) = q
           /\ PushAll(q, Append(items, x), hwm) = Push(PushAll(q, items, hwm), x, hwm)
  <1>0. /\ q \in Queue(S) /\ q.items \in Seq(S) /\ Len(q.items) \in Nat
        /\ Len(items) \in Nat /\ q.paused \in BOOLEAN
        /\ q.waiting => q.items = <<>>
    BY DEF QueueOK, Queue
  <1>1. PushAll(q, <<>>, hwm) = q
    BY DEF PushAll
  <1> DEFINE r == PushAll(q, items, hwm)
             more == Append(items, x)
             a == PushAll(q, more, hwm)
             b == Push(r, x, hwm)
  <1>2. more # <<>> /\ more \in Seq(S) /\ Len(more) = Len(items) + 1
    BY AppendProperties
  <1>3. CASE q.ended
    BY <1>1, <1>3 DEF PushAll, Push
  <1>4. CASE ~q.ended
    <2> DEFINE more2 == IF q.waiting THEN Tail(more) ELSE more
               got2 == IF q.waiting THEN <<Head(more)>> ELSE q.got
    <2>1. /\ a.items = q.items \o more2 /\ a.got = got2 /\ ~a.waiting
          /\ a.ended = q.ended /\ a.failed = q.failed /\ a \in Queue(S)
          /\ a.paused <=> q.paused \/ (more2 # <<>> /\ Len(q.items) + Len(more2) >= hwm)
      <3>1. /\ a = PushAll(q, more, hwm) /\ more2 = IF q.waiting THEN Tail(more) ELSE more
            /\ got2 = IF q.waiting THEN <<Head(more)>> ELSE q.got
        OBVIOUS
      <3> HIDE DEF a, more, more2, got2
      <3>2. more \in Seq(S) /\ more # <<>> /\ q \in Queue(S) /\ ~q.ended
        BY <1>0, <1>2, <1>4
      <3>3. a \in Queue(S)
        BY <3>1, <3>2, PushAllOpen
      <3>4. a.items = q.items \o more2 /\ a.got = got2
        BY <3>1, <3>2 DEF PushAll, Queue
      <3>5. ~a.waiting /\ a.ended = q.ended /\ a.failed = q.failed
        BY <3>1, <3>2, PushAllOpen
      <3>6. a.paused <=> q.paused \/ (more2 # <<>> /\ Len(q.items) + Len(more2) >= hwm)
        BY <3>1, <3>2 DEF PushAll, Queue
      <3> QED BY <3>3, <3>4, <3>5, <3>6
    <2>2. CASE items = <<>> /\ q.waiting
      <3>1. more2 = <<>> /\ got2 = <<x>>
        BY <2>2
      <3>2. q.items \o <<>> = q.items
        BY <1>0, ConcatEmptySeq
      <3>3. r = q
        BY <1>1, <2>2
      <3>4. /\ b \in Queue(S) /\ ~b.waiting /\ b.ended = q.ended /\ b.failed = q.failed
            /\ b.items = q.items /\ b.got = <<x>> /\ b.paused = q.paused
        <4> HIDE DEF r
        <4> QED BY <1>0, <1>4, <2>2, <3>3, PushOpen
      <3> HIDE DEF a, b, more2, got2
      <3>5. a.paused = b.paused /\ a.waiting = b.waiting
        BY <2>1, <3>1, <3>4 DEF Queue
      <3>6. a = b
        BY <2>1, <3>1, <3>2, <3>4, <3>5, SameQueue
      <3> QED BY <1>1, <3>6 DEF a, b, more, r
    <2>3. CASE ~(items = <<>> /\ q.waiting)
      <3> DEFINE kept == IF q.waiting THEN Tail(items) ELSE items
                 got == IF q.waiting THEN <<Head(items)>> ELSE q.got
                 old == q.items \o kept
      <3>1. kept \in Seq(S) /\ Len(kept) \in Nat
        BY <2>3, HeadTailProperties
      <3>2. more2 = Append(kept, x) /\ got2 = got
        BY <2>3, HeadTailAppend
      <3>3. /\ r \in Queue(S) /\ ~r.waiting /\ r.ended = q.ended /\ r.failed = q.failed
            /\ r.items = old /\ r.got = got
            /\ r.paused <=> q.paused \/ (kept # <<>> /\ Len(q.items) + Len(kept) >= hwm)
        <4>1. CASE items = <<>>
          <5>1. q.items \o <<>> = q.items
            BY <1>0, ConcatEmptySeq
          <5>2. r = q
            BY <1>1, <4>1
          <5> HIDE DEF r
          <5> QED BY <1>0, <1>4, <2>3, <4>1, <5>1, <5>2
        <4>2. CASE items # <<>>
          <5>1. /\ r = PushAll(q, items, hwm) /\ kept = IF q.waiting THEN Tail(items) ELSE items
                /\ got = IF q.waiting THEN <<Head(items)>> ELSE q.got
            OBVIOUS
          <5> HIDE DEF r, kept, got
          <5>2. items # <<>> /\ q \in Queue(S) /\ ~q.ended
            BY <1>0, <1>4, <4>2
          <5>3. r \in Queue(S)
            BY <5>1, <5>2, PushAllOpen
          <5> QED BY <5>1, <5>2, <5>3 DEF PushAll, Queue
        <4> QED BY <4>1, <4>2
      <3> HIDE DEF r, kept, got, a, more2, got2, more
      <3>9. b = Push(r, x, hwm)
        OBVIOUS
      <3> HIDE DEF b
      <3>4. /\ b \in Queue(S) /\ ~b.waiting /\ b.ended = q.ended /\ b.failed = q.failed
            /\ b.items = Append(r.items, x) /\ b.got = r.got
            /\ b.paused <=> r.paused \/ Len(r.items) + 1 >= hwm
        <4>1. r \in Queue(S) /\ ~r.ended /\ ~r.waiting
          BY <1>4, <3>3
        <4>2. /\ b \in Queue(S) /\ ~b.waiting /\ b.ended = r.ended /\ b.failed = r.failed
              /\ b.items = Append(r.items, x) /\ b.got = r.got
              /\ b.paused <=> r.paused \/ Len(r.items) + 1 >= hwm
          BY <3>9, <4>1, PushOpen
        <4> QED BY <3>3, <4>2
      <3>5. /\ old \in Seq(S) /\ Len(old) = Len(q.items) + Len(kept)
            /\ q.items \o more2 = Append(old, x)
        <4> DEFINE items0 == q.items
        <4>1. items0 \in Seq(S)
          BY <1>0
        <4> HIDE DEF items0
        <4>2. /\ items0 \o kept \in Seq(S) /\ Len(items0 \o kept) = Len(items0) + Len(kept)
              /\ items0 \o Append(kept, x) = Append(items0 \o kept, x)
          <5>1. items0 \o kept \in Seq(S) /\ Len(items0 \o kept) = Len(items0) + Len(kept)
            BY <3>1, <4>1, Concat
          <5>2. items0 \o Append(kept, x) = Append(items0 \o kept, x)
            BY <3>1, <4>1, ConcatAppend
          <5> QED BY <5>1, <5>2
        <4> QED BY <3>2, <4>2 DEF items0
      <3>6. more2 # <<>> /\ Len(more2) = Len(kept) + 1
        BY <3>1, <3>2, AppendProperties
      <3> HIDE DEF old
      <3>7. a.paused = b.paused /\ a.waiting = b.waiting
        <4>1. a.paused <=> q.paused \/ Len(q.items) + (Len(kept) + 1) >= hwm
          BY <2>1, <3>6
        <4>2. b.paused <=> q.paused \/ (kept # <<>> /\ Len(q.items) + Len(kept) >= hwm)
                           \/ (Len(q.items) + Len(kept)) + 1 >= hwm
          BY <3>3, <3>4, <3>5
        <4>3. a.paused <=> b.paused
          <5>1. CASE kept = <<>>
            BY <1>0, <3>1, <4>1, <4>2, <5>1
          <5>2. CASE kept # <<>>
            <6>1. Len(q.items) + Len(kept) >= hwm => (Len(q.items) + Len(kept)) + 1 >= hwm
              BY <1>0, <3>1, OneMore
            <6>2. Len(q.items) + (Len(kept) + 1) = (Len(q.items) + Len(kept)) + 1
              BY <1>0, <3>1, OneMore
            <6> QED BY <4>1, <4>2, <5>2, <6>1, <6>2
          <5> QED BY <5>1, <5>2
        <4> QED BY <2>1, <3>4, <4>3 DEF Queue
      <3>8. a = b
        BY <2>1, <3>2, <3>3, <3>4, <3>5, <3>7, SameQueue
      <3> QED BY <1>1, <3>8 DEF a, b, r, more
    <2> QED BY <2>2, <2>3
  <1> QED BY <1>3, <1>4

\* What pushing items leaves of an open queue.
LEMMA PushAllOK ==
    ASSUME NEW S, NEW q, QueueOK(q, S), ~q.ended, NEW items \in Seq(S), NEW hwm \in Nat,
           NEW r, r = PushAll(q, items, hwm)
    PROVE  /\ QueueOK(r, S) /\ r.ended = q.ended /\ r.failed = q.failed
           /\ r.waiting => q.waiting
           /\ ~q.waiting => r.got = q.got /\ r.items = Joined(q.items, items)
           /\ q.waiting => Joined(r.got, r.items) = items
           /\ Len(r.items) <= Len(q.items) + Len(items)
           /\ q.waiting /\ items # <<>> => Len(r.items) = Len(items) - 1
           /\ Len(q.items) <= Len(r.items)
           /\ r.paused <=> q.paused \/ (Len(r.items) > Len(q.items) /\ Len(r.items) >= hwm)
  <1>0. /\ q \in Queue(S) /\ q.items \in Seq(S) /\ Len(q.items) \in Nat
        /\ Len(items) \in Nat /\ q.got \in Seq(S) /\ Len(q.got) <= 1
        /\ q.waiting \in BOOLEAN /\ q.paused \in BOOLEAN
    BY DEF QueueOK, Queue
  <1>1. CASE items = <<>>
    <2>1. r = q /\ q.items \o items = q.items
      BY <1>0, <1>1, ConcatEmptySeq DEF PushAll
    <2>2. q.waiting => q.got \o q.items = <<>>
      BY <1>0, ConcatEmptySeq DEF QueueOK
    <2> QED BY <1>0, <1>1, <2>1, <2>2 DEF Joined
  <1>2. CASE items # <<>>
    <2> DEFINE kept == IF q.waiting THEN Tail(items) ELSE items
               got == IF q.waiting THEN <<Head(items)>> ELSE q.got
    <2>1. /\ kept \in Seq(S) /\ Len(kept) \in Nat /\ got \in Seq(S) /\ Len(got) <= 1
          /\ Len(kept) = IF q.waiting THEN Len(items) - 1 ELSE Len(items)
      BY <1>0, <1>2, HeadAndTail
    <2>2. q.waiting => got \o kept = items
      BY <1>2, HeadAndTail
    <2>3. /\ r.items = q.items \o kept /\ r.got = got /\ ~r.waiting
          /\ r.ended = q.ended /\ r.failed = q.failed
          /\ r.paused <=> q.paused \/ (kept # <<>> /\ Len(q.items) + Len(kept) >= hwm)
          /\ r \in [items : {r.items}, waiting : BOOLEAN, got : {r.got}, ended : BOOLEAN,
                    failed : BOOLEAN, paused : BOOLEAN]
      BY <1>0, <1>2 DEF PushAll, Queue
    <2> HIDE DEF kept, got
    <2>4. r.items \in Seq(S) /\ Len(r.items) = Len(q.items) + Len(kept)
      <3> DEFINE old == q.items
      <3>1. old \in Seq(S)
        BY <1>0
      <3> HIDE DEF old
      <3>2. old \o kept \in Seq(S) /\ Len(old \o kept) = Len(old) + Len(kept)
        BY <2>1, <3>1, Concat
      <3> QED BY <2>3, <3>2 DEF old
    <2>5. q.waiting => r.items = kept
      BY <1>0, <2>1, <2>3, ConcatEmptySeq DEF QueueOK
    <2>6. kept # <<>> <=> Len(kept) > 0
      BY <2>1
    <2>7. QueueOK(r, S)
      BY <2>1, <2>3, <2>4 DEF QueueOK, Queue
    <2>8. ~q.waiting => kept = items
      BY DEF kept
    <2>b. Len(kept) <= Len(items) /\ Len(kept) \in Nat
      BY <1>0, <2>1
    <2>9. /\ Len(r.items) <= Len(q.items) + Len(items) /\ Len(q.items) <= Len(r.items)
          /\ Len(r.items) > Len(q.items) <=> kept # <<>>
      <3>1. Len(r.items) > Len(q.items) <=> Len(kept) > 0
        BY <1>0, <2>4, <2>b
      <3>2. Len(r.items) <= Len(q.items) + Len(items) /\ Len(q.items) <= Len(r.items)
        BY <1>0, <2>4, <2>b
      <3> QED BY <2>6, <3>1, <3>2
    <2>a. r.paused <=> q.paused \/ (Len(r.items) > Len(q.items) /\ Len(r.items) >= hwm)
      BY <2>3, <2>4, <2>9
    <2> QED BY <1>0, <1>2, <2>1, <2>2, <2>3, <2>4, <2>5, <2>7, <2>8, <2>9, <2>a DEF got, QueueOK, Joined
  <1> QED BY <1>1, <1>2

(* A chunk that finds its reader waiting: the first frame goes to it.      *)
LEMMA PushToWaiting ==
    ASSUME NEW S, NEW q, QueueOK(q, S), ~q.ended, q.waiting, q.items = <<>>,
           NEW items \in Seq(S), items # <<>>, NEW hwm \in Nat,
           NEW r, r = PushAll(q, items, hwm)
    PROVE  /\ Len(r.items) = Len(items) - 1
           /\ r.paused <=> q.paused \/ (Len(r.items) > 0 /\ Len(r.items) >= hwm)
  <1>1. Len(r.items) = Len(items) - 1
    BY PushAllOK
  <1>2. r.paused <=> q.paused \/ (Len(r.items) > Len(q.items) /\ Len(r.items) >= hwm)
    BY PushAllOK
  <1> QED BY <1>1, <1>2

\* What asking for an item leaves.
LEMMA NextItemOK ==
    ASSUME NEW S, NEW q, QueueOK(q, S), ~q.waiting, NEW hwm \in Nat,
           NEW r, r = NextItem(q, hwm)
    PROVE  /\ QueueOK(r, S) /\ r.ended = q.ended /\ r.failed = q.failed
           /\ Joined(r.got, r.items) = q.items
           /\ q.items # <<>> => /\ ~r.waiting /\ r.got # <<>>
                                /\ Len(r.items) = Len(q.items) - 1
                                /\ r.paused <=> q.paused /\ 2 * Len(r.items) >= hwm
           /\ q.items = <<>> => /\ r.waiting <=> ~q.ended /\ r.got = <<>>
                                /\ r.items = <<>> /\ r.paused = q.paused
  <1>0. /\ q \in Queue(S) /\ q.items \in Seq(S) /\ Len(q.items) \in Nat
    BY DEF QueueOK, Queue
  <1>1. CASE q.items # <<>>
    <2>1. /\ <<Head(q.items)>> \in Seq(S) /\ Len(<<Head(q.items)>>) = 1
          /\ Tail(q.items) \in Seq(S) /\ Len(Tail(q.items)) = Len(q.items) - 1
          /\ <<Head(q.items)>> \o Tail(q.items) = q.items
      BY <1>0, <1>1, HeadAndTail
    <2>2. r = [q EXCEPT !.got = <<Head(q.items)>>, !.items = Tail(@),
                        !.paused = q.paused /\ 2 * (Len(q.items) - 1) >= hwm]
      BY <1>1 DEF NextItem
    <2>3. /\ r.items = Tail(q.items) /\ r.got = <<Head(q.items)>> /\ ~r.waiting
          /\ r.ended = q.ended /\ r.failed = q.failed
          /\ r.paused <=> q.paused /\ 2 * (Len(q.items) - 1) >= hwm
      BY <1>0, <1>1, <2>2 DEF Queue, QueueOK
    <2>4. r \in Queue(S)
      <3> DEFINE p == q.paused /\ 2 * (Len(q.items) - 1) >= hwm
      <3>1. p \in BOOLEAN /\ r = [q EXCEPT !.got = <<Head(q.items)>>, !.items = Tail(@), !.paused = p]
        BY <2>2
      <3> HIDE DEF p
      <3> QED BY <1>0, <2>1, <3>1 DEF Queue
    <2>5. r.got # <<>>
      BY <2>1, <2>3
    <2>6. QueueOK(r, S)
      BY <2>3, <2>4 DEF QueueOK
    <2>7. Len(r.items) = Len(q.items) - 1 /\ r.got \o r.items = q.items
      BY <2>1, <2>3
    <2> QED BY <1>1, <2>3, <2>5, <2>6, <2>7 DEF Joined
  <1>2. CASE q.items = <<>>
    <2>1. r = [q EXCEPT !.got = <<>>, !.waiting = ~q.ended]
      BY <1>2 DEF NextItem
    <2>2. <<>> \in Seq(S) /\ Len(<<>>) = 0 /\ <<>> \o <<>> = <<>>
      BY ConcatEmptySeq
    <2>3. r \in Queue(S)
      <3> DEFINE w == ~q.ended
      <3>1. w \in BOOLEAN /\ r = [q EXCEPT !.got = <<>>, !.waiting = w]
        BY <2>1
      <3> HIDE DEF w
      <3> QED BY <1>0, <2>2, <3>1 DEF Queue
    <2>4. /\ r.items = <<>> /\ r.got = <<>> /\ (r.waiting <=> ~q.ended)
          /\ r.ended = q.ended /\ r.failed = q.failed /\ r.paused = q.paused
      BY <1>0, <1>2, <2>1 DEF Queue
    <2>5. QueueOK(r, S)
      BY <2>3, <2>4 DEF QueueOK
    <2> QED BY <1>2, <2>2, <2>4, <2>5 DEF Joined
  <1> QED BY <1>1, <1>2

-----------------------------------------------------------------------------
(* What the two queues carry. *)

AsyncQueueShape ==
    /\ QueueOK(frames, Frame) /\ QueueOK(events, Nat)
    /\ received \in Nat /\ yielded \in Seq(Nat)
    /\ events.waiting => consumer = "waiting"
    /\ events.ended => PumpDone(frames)

\* Only the events' queue stops the socket, and what is read after it was
\* last open is at most one chunk.
Pressure ==
    /\ ~frames.paused
    /\ reading <=> ~events.paused
    /\ events.paused => 2 * Len(events.items) >= EventsHwm
    /\ ~events.paused => Len(events.items) < EventsHwm
    /\ Len(events.items) + Len(InTransit) * PerFrame <= EventsHwm - 1 + MaxChunk * PerFrame

AsyncQueueInv == AsyncQueueShape /\ NothingDropped /\ Pressure

Linked(transit, last) ==
    \A i \in 1..Len(transit) :
       transit[i].after + transit[i].count = IF i = Len(transit) THEN last ELSE transit[i + 1].after

LEMMA NumberedType ==
    ASSUME NEW n \in Nat, NEW k \in Nat
    PROVE  Numbered(n, k) \in Seq(Nat) /\ Len(Numbered(n, k)) = k
           /\ \A i \in 1..k : Numbered(n, k)[i] = n + i
  BY DEF Numbered

LEMMA NumberedAdds ==
    ASSUME NEW n \in Nat, NEW k \in Nat
    PROVE  Numbered(0, n) \o Numbered(n, k) = Numbered(0, n + k)
  <1> DEFINE h == Numbered(0, n)
             t == Numbered(n, k)
             s == Numbered(0, n + k)
  <1>0. 0 \in Nat /\ n + k \in Nat
    OBVIOUS
  <1>a. h \in Seq(Nat) /\ Len(h) = n /\ \A i \in 1..n : h[i] = 0 + i
    BY <1>0, NumberedType
  <1>b. t \in Seq(Nat) /\ Len(t) = k /\ \A i \in 1..k : t[i] = n + i
    BY NumberedType
  <1>c. s \in Seq(Nat) /\ Len(s) = n + k /\ \A i \in 1..n + k : s[i] = 0 + i
    BY <1>0, NumberedType
  <1> HIDE DEF h, t, s
  <1>1. /\ h \in Seq(Nat) /\ Len(h) = n /\ \A i \in 1..n : h[i] = 0 + i
        /\ t \in Seq(Nat) /\ Len(t) = k /\ \A i \in 1..k : t[i] = n + i
        /\ s \in Seq(Nat) /\ Len(s) = n + k /\ \A i \in 1..n + k : s[i] = 0 + i
    BY <1>a, <1>b, <1>c
  <1>2. ASSUME NEW i \in 1..Len(h) PROVE h[i] = s[i]
    BY <1>1
  <1>3. ASSUME NEW i \in 1..Len(t) PROVE t[i] = s[Len(h) + i]
    BY <1>1
  <1>4. h \o t = s
    BY <1>1, <1>2, <1>3, Parted
  <1> QED BY <1>4 DEF h, t, s

LEMMA ConcatAssoc ==
    ASSUME NEW S, NEW t \in Seq(S), NEW u \in Seq(S)
    PROVE  \A s \in Seq(S) : (s \o t) \o u = s \o (t \o u)
  BY ConcatAssociative

\* Who is in the line: what is yielded, what is in hand, what is queued.
Line(y, g, items) == (y \o g) \o items

Hand(c, q) == IF c = "waiting" THEN q.got ELSE <<>>

\* What is pushed follows what is there, in the queue or with who waited.
LEMMA PushedOn ==
    ASSUME NEW S, NEW y \in Seq(S), NEW g \in Seq(S), NEW items \in Seq(S), NEW new \in Seq(S)
    PROVE  Line(y, g, Joined(items, new)) = Joined(Line(y, g, items), new)
  <1>1. y \o g \in Seq(S)
    BY Concat
  <1>2. \A u \in Seq(S) : (u \o items) \o new = u \o (items \o new)
    BY ConcatAssoc
  <1> QED BY <1>1, <1>2 DEF Line, Joined

LEMMA PushedTo ==
    ASSUME NEW S, NEW y \in Seq(S), NEW g \in Seq(S), NEW items \in Seq(S)
    PROVE  Line(y, g, items) = Joined(Line(y, <<>>, <<>>), Joined(g, items))
  <1>1. (y \o <<>>) \o <<>> = y
    BY ConcatEmptySeq
  <1>2. (y \o g) \o items = y \o (g \o items)
    BY ConcatAssociative
  <1> QED BY <1>1, <1>2 DEF Line, Joined

LEMMA LineGrows ==
    ASSUME NEW S, NEW y \in Seq(S), NEW g \in Seq(S), NEW items \in Seq(S), NEW new \in Seq(S),
           NEW g2 \in Seq(S), NEW items2 \in Seq(S),
           \/ g2 = g /\ items2 = Joined(items, new)
           \/ g = <<>> /\ items = <<>> /\ Joined(g2, items2) = new
    PROVE  Line(y, g2, items2) = Joined(Line(y, g, items), new)
  <1>1. CASE g2 = g /\ items2 = Joined(items, new)
    <2>1. Line(y, g, Joined(items, new)) = Joined(Line(y, g, items), new)
      BY PushedOn
    <2> QED BY <1>1, <2>1
  <1>2. CASE g = <<>> /\ items = <<>> /\ Joined(g2, items2) = new
    <2>1. Line(y, g2, items2) = Joined(Line(y, <<>>, <<>>), Joined(g2, items2))
      BY PushedTo
    <2> QED BY <1>2, <2>1
  <1> QED BY <1>1, <1>2

LEMMA LineMoves ==
    ASSUME NEW S, NEW y \in Seq(S), NEW g \in Seq(S), NEW items \in Seq(S)
    PROVE  /\ Line(Joined(y, g), <<>>, items) = Line(y, g, items)
           /\ Line(y, <<>>, Joined(g, items)) = Line(y, g, items)
  <1>1. y \o g \in Seq(S) /\ g \o items \in Seq(S)
    BY Concat
  <1>2. (y \o g) \o <<>> = y \o g /\ y \o <<>> = y
    BY <1>1, ConcatEmptySeq
  <1>3. (y \o g) \o items = y \o (g \o items)
    BY ConcatAssoc
  <1> QED BY <1>2, <1>3 DEF Line, Joined

LEMMA PushFollows ==
    ASSUME NEW q, QueueOK(q, Nat), ~q.ended, NEW n \in Nat, NEW k \in Nat,
           NEW r, r = PushAll(q, Numbered(n, k), EventsHwm), NEW y \in Seq(Nat),
           NEW c, q.waiting => c = "waiting",
           Line(y, Hand(c, q), q.items) = Numbered(0, n)
    PROVE  Line(y, Hand(c, r), r.items) = Numbered(0, n + k)
  <1> DEFINE new == Numbered(n, k)
  <1>1. EventsHwm \in Nat /\ new \in Seq(Nat) /\ r = PushAll(q, new, EventsHwm)
        /\ Joined(Numbered(0, n), new) = Numbered(0, n + k)
    BY AsyncQueueAssumption, NumberedType, NumberedAdds DEF Joined
  <1> HIDE DEF new
  <1>2. /\ QueueOK(r, Nat)
        /\ ~q.waiting => r.got = q.got /\ r.items = Joined(q.items, new)
        /\ q.waiting => Joined(r.got, r.items) = new
    BY <1>1, PushAllOK
  <1>3. /\ q.got \in Seq(Nat) /\ q.items \in Seq(Nat) /\ r.got \in Seq(Nat) /\ r.items \in Seq(Nat)
        /\ <<>> \in Seq(Nat)
    BY <1>2 DEF QueueOK, Queue
  <1>4. q.waiting => q.got = <<>> /\ q.items = <<>>
    BY DEF QueueOK
  <1>5. Hand(c, q) \in Seq(Nat) /\ Hand(c, r) \in Seq(Nat)
    BY <1>3 DEF Hand
  <1>6. \/ Hand(c, r) = Hand(c, q) /\ r.items = Joined(q.items, new)
        \/ Hand(c, q) = <<>> /\ q.items = <<>> /\ Joined(Hand(c, r), r.items) = new
    BY <1>2, <1>4 DEF Hand
  <1>7. Line(y, Hand(c, r), r.items) = Joined(Line(y, Hand(c, q), q.items), new)
    <2> DEFINE g == Hand(c, q)
               items == q.items
               g2 == Hand(c, r)
               items2 == r.items
    <2>1. /\ g \in Seq(Nat) /\ items \in Seq(Nat) /\ g2 \in Seq(Nat) /\ items2 \in Seq(Nat)
          /\ new \in Seq(Nat)
      BY <1>1, <1>3, <1>5
    <2>2. \/ g2 = g /\ items2 = Joined(items, new)
          \/ g = <<>> /\ items = <<>> /\ Joined(g2, items2) = new
      BY <1>6
    <2> HIDE DEF g, items, g2, items2
    <2>3. Line(y, g2, items2) = Joined(Line(y, g, items), new)
      BY <2>1, <2>2, LineGrows
    <2> QED BY <2>3 DEF g, items, g2, items2
  <1> QED BY <1>1, <1>7

\* What is asked for, or was waited for, moves to what is yielded.
LEMMA AskFollows ==
    ASSUME NEW q, QueueOK(q, Nat), ~q.waiting, NEW r, r = NextItem(q, EventsHwm), NEW y \in Seq(Nat)
    PROVE  Line(Joined(y, r.got), <<>>, r.items) = Line(y, <<>>, q.items)
  <1>1. EventsHwm \in Nat
    BY AsyncQueueAssumption
  <1>2. QueueOK(r, Nat) /\ Joined(r.got, r.items) = q.items
    BY <1>1, NextItemOK
  <1>3. r.got \in Seq(Nat) /\ r.items \in Seq(Nat)
    BY <1>2 DEF QueueOK, Queue
  <1>4. /\ Line(Joined(y, r.got), <<>>, r.items) = Line(y, r.got, r.items)
        /\ Line(y, <<>>, Joined(r.got, r.items)) = Line(y, r.got, r.items)
    BY <1>3, LineMoves
  <1> QED BY <1>2, <1>4

LEMMA Times ==
    ASSUME NEW a \in Nat, NEW b \in Nat, NEW c \in Nat
    PROVE  /\ a * c \in Nat /\ (a + 1) * c = a * c + c
           /\ a <= b => a * c <= b * c
  OBVIOUS

IsChunk(chunk, ends, n, r) ==
    /\ ends \in [0..n -> r..MaxChanges] /\ ends[0] = r
    /\ \A i \in 1..n : ends[i] - ends[i - 1] \in 0..PerFrame
    /\ chunk = [i \in 1..n |-> [after |-> ends[i - 1], count |-> ends[i] - ends[i - 1]]]

LEMMA ChunkLinked ==
    ASSUME NEW n \in Nat \ {0}, NEW r \in Nat, NEW ends, NEW chunk, IsChunk(chunk, ends, n, r)
    PROVE  /\ chunk \in Seq(Frame) /\ Len(chunk) = n /\ chunk # <<>> /\ chunk[1].after = r
           /\ ends[n] \in Nat /\ Linked(chunk, ends[n])
  <1>0. /\ ends \in [0..n -> r..MaxChanges] /\ ends[0] = r /\ MaxChanges \in Nat
        /\ \A i \in 1..n : ends[i] - ends[i - 1] \in 0..PerFrame
        /\ chunk = [i \in 1..n |-> [after |-> ends[i - 1], count |-> ends[i] - ends[i - 1]]]
    BY AsyncQueueAssumption DEF IsChunk
  <1>1. ASSUME NEW i \in 0..n PROVE ends[i] \in Nat
    BY <1>0
  <1>2. ASSUME NEW i \in 1..n
        PROVE  i - 1 \in 0..n /\ [after |-> ends[i - 1], count |-> ends[i] - ends[i - 1]] \in Frame
    <2>1. i - 1 \in 0..n
      OBVIOUS
    <2>2. ends[i - 1] \in Nat
      BY <1>1, <2>1
    <2> QED BY <1>0, <2>1, <2>2 DEF Frame
  <1>3. chunk \in [1..n -> Frame]
    BY <1>0, <1>2
  <1>4. chunk \in Seq(Frame) /\ Len(chunk) = n
    BY <1>3
  <1>5. 1 \in 1..n /\ chunk[1].after = r /\ chunk # <<>>
    <2>1. 1 \in 1..n /\ 1 - 1 = 0
      OBVIOUS
    <2>2. chunk[1].after = ends[1 - 1]
      BY <1>0, <2>1
    <2> QED BY <1>0, <1>4, <2>1, <2>2
  <1>6. ASSUME NEW i \in 1..n
        PROVE  chunk[i].after + chunk[i].count = IF i = n THEN ends[n] ELSE chunk[i + 1].after
    <2>1. i - 1 \in 0..n /\ ends[i - 1] \in Nat /\ ends[i] \in Nat
      BY <1>1, <1>2
    <2>2. chunk[i].after + chunk[i].count = ends[i]
      <3>1. chunk[i] = [after |-> ends[i - 1], count |-> ends[i] - ends[i - 1]]
        BY <1>0
      <3>2. chunk[i].after = ends[i - 1] /\ chunk[i].count = ends[i] - ends[i - 1]
        BY <3>1
      <3> DEFINE x == ends[i - 1]
                 y == ends[i]
      <3>3. x \in Nat /\ y \in Nat /\ chunk[i].after = x /\ chunk[i].count = y - x
        BY <2>1, <3>2
      <3> HIDE DEF x, y
      <3>4. x + (y - x) = y
        BY <3>3
      <3>5. chunk[i].after + chunk[i].count = y
        BY <3>3, <3>4
      <3> QED BY <3>5 DEF y
    <2>3. CASE i # n
      <3>1. i + 1 \in 1..n /\ (i + 1) - 1 = i
        BY <2>3
      <3> QED BY <1>0, <2>2, <2>3, <3>1
    <2> QED BY <2>2, <2>3
  <1>7. ends[n] \in Nat
    BY <1>1
  <1>8. Linked(chunk, ends[n])
    BY <1>4, <1>6 DEF Linked
  <1> QED BY <1>4, <1>5, <1>7, <1>8

LEMMA AsyncQueueInitInv == AsyncQueueInit => AsyncQueueInv
  <1> SUFFICES ASSUME AsyncQueueInit PROVE AsyncQueueInv
    OBVIOUS
  <1>1. /\ frames = [items |-> <<>>, waiting |-> TRUE, got |-> <<>>, ended |-> FALSE,
                     failed |-> FALSE, paused |-> FALSE]
        /\ events = [items |-> <<>>, waiting |-> FALSE, got |-> <<>>, ended |-> FALSE,
                     failed |-> FALSE, paused |-> FALSE]
        /\ reading = TRUE /\ received = 0 /\ yielded = <<>> /\ consumer = "busy"
    BY DEF AsyncQueueInit, NewQueue
  <1>2. AsyncQueueShape
    BY <1>1 DEF AsyncQueueShape, QueueOK, Queue
  <1>3. <<>> \o <<>> = <<>> /\ Numbered(0, 0) = <<>>
    BY ConcatEmptySeq DEF Numbered
  <1>4. InTransit = <<>> /\ Len(InTransit) = 0 /\ InHand = <<>> /\ Decoded = 0
    BY <1>1, <1>3 DEF InTransit, InHand, Decoded
  <1>5. NothingDropped
    BY <1>1, <1>3, <1>4 DEF NothingDropped
  <1>6. 0 * PerFrame = 0 /\ MaxChunk * PerFrame >= 0 /\ EventsHwm >= 1 /\ EventsHwm \in Nat
        /\ MaxChunk * PerFrame \in Nat
    BY AsyncQueueAssumption
  <1>7. Pressure
    BY <1>1, <1>4, <1>6 DEF Pressure
  <1> QED BY <1>2, <1>5, <1>7 DEF AsyncQueueInv

\* The same of any two queues, for a state and the one after it.
First(transit, last) == IF transit = <<>> THEN last ELSE transit[1].after

Kept(fr, ev, last, y, c) ==
    /\ Line(y, Hand(c, ev), ev.items) = Numbered(0, First(Joined(fr.got, fr.items), last))
    /\ Linked(Joined(fr.got, fr.items), last)

LEMMA KeptIsNothingDropped ==
    /\ NothingDropped <=> Kept(frames, events, received, yielded, consumer)
    /\ NothingDropped' <=> Kept(frames', events', received', yielded', consumer')
    /\ InTransit = Joined(frames.got, frames.items)
    /\ InTransit' = Joined(frames'.got, frames'.items)
  BY DEF NothingDropped, Kept, InTransit, InHand, Decoded, Line, Hand, First, Joined, Linked

LEMMA AsyncQueueChunkInv == AsyncQueueInv /\ Chunk => AsyncQueueInv'
  <1> SUFFICES ASSUME AsyncQueueInv, Chunk PROVE AsyncQueueInv'
    OBVIOUS
  <1>0. /\ QueueOK(frames, Frame) /\ QueueOK(events, Nat) /\ received \in Nat /\ yielded \in Seq(Nat)
        /\ events.waiting => consumer = "waiting"
        /\ events.ended => PumpDone(frames)
        /\ Kept(frames, events, received, yielded, consumer)
        /\ ~frames.paused /\ (reading <=> ~events.paused) /\ Len(events.items) \in Nat
        /\ reading /\ Idle /\ events' = events /\ yielded' = yielded /\ consumer' = consumer
    BY KeptIsNothingDropped DEF AsyncQueueInv, AsyncQueueShape, Pressure, Chunk, QueueOK, Queue
  <1>1. PICK n \in 1..MaxChunk : \E ends \in [0..n -> received..MaxChanges] :
          LET chunk == [i \in 1..n |-> [after |-> ends[i - 1], count |-> ends[i] - ends[i - 1]]]
          IN /\ ends[0] = received /\ \A i \in 1..n : ends[i] - ends[i - 1] \in 0..PerFrame
             /\ received' = IF frames.ended THEN received ELSE ends[n]
             /\ frames' = PushAll(frames, chunk, FramesHwm)
             /\ reading' = Reads(frames, frames')
    BY DEF Chunk
  <1>2. PICK ends \in [0..n -> received..MaxChanges] :
          LET chunk == [i \in 1..n |-> [after |-> ends[i - 1], count |-> ends[i] - ends[i - 1]]]
          IN /\ ends[0] = received /\ \A i \in 1..n : ends[i] - ends[i - 1] \in 0..PerFrame
             /\ received' = IF frames.ended THEN received ELSE ends[n]
             /\ frames' = PushAll(frames, chunk, FramesHwm)
             /\ reading' = Reads(frames, frames')
    BY <1>1
  <1> DEFINE chunk == [i \in 1..n |-> [after |-> ends[i - 1], count |-> ends[i] - ends[i - 1]]]
  <1>3. /\ n \in Nat \ {0} /\ MaxChanges \in Nat /\ FramesHwm \in Nat /\ MaxChunk \in Nat /\ PerFrame \in Nat
        /\ n < FramesHwm /\ n <= MaxChunk
    BY AsyncQueueAssumption
  <1>4. /\ chunk \in Seq(Frame) /\ Len(chunk) = n /\ chunk # <<>> /\ chunk[1].after = received
        /\ ends[n] \in Nat /\ Linked(chunk, ends[n])
    <2>1. ends[0] = received /\ \A i \in 1..n : ends[i] - ends[i - 1] \in 0..PerFrame
      BY <1>2
    <2>2. chunk = [i \in 1..n |-> [after |-> ends[i - 1], count |-> ends[i] - ends[i - 1]]]
      OBVIOUS
    <2> HIDE DEF chunk
    <2>3. ends \in [0..n -> received..MaxChanges]
      OBVIOUS
    <2>4. IsChunk(chunk, ends, n, received)
      BY <2>1, <2>2, <2>3 DEF IsChunk
    <2> QED BY <1>0, <1>3, <2>4, ChunkLinked
  <1>5. /\ received' = IF frames.ended THEN received ELSE ends[n]
        /\ frames' = PushAll(frames, chunk, FramesHwm) /\ reading' = Reads(frames, frames')
    BY <1>2
  <1> HIDE DEF chunk
  <1>6. CASE frames.ended
    <2>1. frames' = frames /\ received' = received
      BY <1>5, <1>6 DEF PushAll
    <2>2. reading' <=> reading
      BY <1>5, <2>1 DEF Reads
    <2>3. NothingDropped'
      BY <1>0, <2>1, KeptIsNothingDropped
    <2>4. AsyncQueueShape'
      BY <1>0, <2>1 DEF AsyncQueueShape
    <2>5. Pressure'
      <3>1. InTransit' = InTransit
        BY <2>1, KeptIsNothingDropped
      <3> QED BY <1>0, <2>1, <2>2, <3>1 DEF Pressure, AsyncQueueInv
    <2> QED BY <2>3, <2>4, <2>5 DEF AsyncQueueInv
  <1>7. CASE ~frames.ended
    <2>1. frames.waiting /\ frames.items = <<>> /\ frames.got = <<>>
      BY <1>0, <1>7 DEF Idle, PumpDone, QueueOK
    <2>2a. QueueOK(frames', Frame) /\ frames'.ended = frames.ended
      BY <1>0, <1>3, <1>4, <1>5, <1>7, <2>1, PushAllOK
    <2>2b. Joined(frames'.got, frames'.items) = chunk
      BY <1>0, <1>3, <1>4, <1>5, <1>7, <2>1, PushAllOK
    <2>3. Len(frames'.items) = n - 1
      BY <1>0, <1>3, <1>4, <1>5, <1>7, <2>1, PushToWaiting
    <2>4. ~frames'.paused
      <3>1. frames'.paused <=> frames.paused \/ (Len(frames'.items) > 0 /\ Len(frames'.items) >= FramesHwm)
        BY <1>0, <1>3, <1>4, <1>5, <1>7, <2>1, PushToWaiting
      <3> QED BY <1>0, <1>3, <2>3, <3>1
    <2>5. reading' <=> reading
      BY <1>0, <1>5, <2>4 DEF Reads
    <2>6. received' = ends[n] /\ ~events.ended
      BY <1>0, <1>5, <1>7 DEF PumpDone
    <2>7. NothingDropped'
      <3>1. Joined(frames.got, frames.items) = <<>>
        BY <2>1, ConcatEmptySeq DEF Joined
      <3>2. First(chunk, ends[n]) = First(Joined(frames.got, frames.items), received)
        BY <1>4, <3>1 DEF First
      <3>3. Kept(frames', events', received', yielded', consumer')
        BY <1>0, <1>4, <2>2a, <2>2b, <2>6, <3>2 DEF Kept
      <3> QED BY <3>3, KeptIsNothingDropped
    <2>8. AsyncQueueShape'
      BY <1>0, <1>4, <2>2a, <2>2b, <2>6 DEF AsyncQueueShape
    <2>9. Pressure'
      <3>1. Len(InTransit') = n
        BY <1>4, <2>2a, <2>2b, KeptIsNothingDropped
      <3>2. n * PerFrame <= MaxChunk * PerFrame /\ n * PerFrame \in Nat /\ MaxChunk * PerFrame \in Nat
        BY <1>3, Times
      <3>3. ~events.paused /\ Len(events.items) < EventsHwm /\ EventsHwm \in Nat
        BY <1>0, AsyncQueueAssumption DEF AsyncQueueInv, Pressure
      <3>4. Len(events.items) + n * PerFrame <= EventsHwm - 1 + MaxChunk * PerFrame
        BY <1>0, <3>2, <3>3
      <3> QED BY <1>0, <2>4, <2>5, <3>1, <3>3, <3>4 DEF Pressure
    <2> QED BY <2>7, <2>8, <2>9 DEF AsyncQueueInv
  <1> QED BY <1>6, <1>7

LEMMA AsyncQueueStreamEndsInv == AsyncQueueInv /\ StreamEnds => AsyncQueueInv'
  <1> SUFFICES ASSUME AsyncQueueInv, StreamEnds PROVE AsyncQueueInv'
    OBVIOUS
  <1>0. /\ QueueOK(frames, Frame) /\ ~frames.ended /\ Kept(frames, events, received, yielded, consumer)
        /\ frames' \in {End(frames), Fail(frames)}
        /\ UNCHANGED <<events, reading, received, yielded, consumer>>
    BY KeptIsNothingDropped DEF AsyncQueueInv, AsyncQueueShape, StreamEnds
  <1>1. /\ QueueOK(frames', Frame) /\ frames'.items = frames.items /\ frames'.got = frames.got
        /\ frames'.paused = frames.paused
    BY <1>0 DEF End, Fail, QueueOK, Queue
  <1>2. NothingDropped'
    BY <1>0, <1>1, KeptIsNothingDropped DEF Kept
  <1>3. ~events.ended
    BY <1>0 DEF AsyncQueueInv, AsyncQueueShape, PumpDone
  <1>4. AsyncQueueShape'
    BY <1>0, <1>1, <1>3 DEF AsyncQueueShape, AsyncQueueInv
  <1>5. InTransit' = InTransit
    BY <1>1, KeptIsNothingDropped
  <1>6. Pressure'
    BY <1>0, <1>1, <1>5 DEF Pressure, AsyncQueueInv
  <1> QED BY <1>2, <1>4, <1>6 DEF AsyncQueueInv

\* The frame handed to the pump, and the line behind it.
OneAhead(g, items, transit) ==
    /\ Len(transit) = Len(items) + 1 /\ transit[1] = g[1]
    /\ \A i \in 1..Len(items) : transit[i + 1] = items[i]

LEMMA OneIsAhead ==
    ASSUME NEW S, NEW g \in Seq(S), NEW items \in Seq(S)
    PROVE  Len(g) = 1 => OneAhead(g, items, g \o items)
  <1>1. \A k \in 1..Len(g) + Len(items) : (g \o items)[k] = IF k <= Len(g) THEN g[k] ELSE items[k - Len(g)]
    BY ConcatProperties
  <1>2. Len(g \o items) = Len(g) + Len(items)
    BY Concat
  <1>3. ASSUME Len(g) = 1 PROVE (g \o items)[1] = g[1]
    BY <1>1, <1>3
  <1>4. ASSUME Len(g) = 1, NEW i \in 1..Len(items) PROVE (g \o items)[i + 1] = items[i]
    <2>1. i + 1 \in 1..Len(g) + Len(items) /\ ~(i + 1 <= Len(g)) /\ (i + 1) - Len(g) = i
      BY <1>4
    <2> QED BY <1>1, <2>1
  <1> QED BY <1>2, <1>3, <1>4 DEF OneAhead

LEMMA LengthOne ==
    ASSUME NEW S, NEW g \in Seq(S), Len(g) <= 1, g # <<>> PROVE Len(g) = 1
  <1>1. Len(g) \in Nat /\ Len(g) # 0
    BY EmptySeq
  <1> QED BY <1>1

LEMMA LinkMoves ==
    ASSUME NEW g \in Seq(Frame), NEW items \in Seq(Frame), Len(g) = 1, NEW last \in Nat,
           NEW transit, transit = Joined(g, items), Linked(transit, last), NEW f, f = g[1]
    PROVE  /\ f \in Frame /\ Len(transit) = Len(items) + 1
           /\ First(transit, last) = f.after
           /\ First(items, last) = f.after + f.count
           /\ Linked(items, last)
  <1>a. Len(items) \in Nat /\ 1 \in 1..Len(g)
    OBVIOUS
  <1>b. g[1] \in Frame
    BY <1>a, ElementOfSeq
  <1>1. Len(items) \in Nat /\ 1 \in 1..Len(g) /\ f \in Frame
    BY <1>a, <1>b
  <1>2. OneAhead(g, items, transit)
    BY OneIsAhead DEF Joined
  <1>3. transit \in Seq(Frame) /\ Len(transit) = Len(items) + 1
    BY <1>2, Concat DEF OneAhead, Joined
  <1>5. transit[1] = f /\ \A i \in 1..Len(items) : transit[i + 1] = items[i]
    BY <1>2 DEF OneAhead
  <1>6. First(transit, last) = f.after
    BY <1>1, <1>3, <1>5 DEF First
  <1>7. ASSUME NEW i \in 1..Len(transit)
        PROVE  transit[i].after + transit[i].count = IF i = Len(transit) THEN last ELSE transit[i + 1].after
    BY DEF Linked
  <1>8. First(items, last) = f.after + f.count
    <2>1. 1 \in 1..Len(transit)
      BY <1>1, <1>3
    <2>2. CASE items = <<>>
      BY <1>1, <1>3, <1>5, <1>7, <2>1, <2>2 DEF First
    <2>3. CASE items # <<>>
      <3>1. 1 \in 1..Len(items) /\ Len(transit) # 1
        BY <1>1, <1>3, <2>3
      <3>2. transit[1 + 1] = items[1]
        BY <1>5, <3>1
      <3> QED BY <1>5, <1>7, <2>1, <2>3, <3>1, <3>2 DEF First
    <2> QED BY <2>2, <2>3
  <1>9. ASSUME NEW i \in 1..Len(items)
        PROVE  items[i].after + items[i].count = IF i = Len(items) THEN last ELSE items[i + 1].after
    <2>1. i + 1 \in 1..Len(transit) /\ transit[i + 1] = items[i] /\ (i + 1 = Len(transit) <=> i = Len(items))
      BY <1>1, <1>3, <1>5
    <2>2. CASE i = Len(items)
      BY <1>7, <2>1, <2>2
    <2>3. CASE i # Len(items)
      <3>1. i + 1 \in 1..Len(items)
        BY <1>1, <2>3
      <3>2. transit[(i + 1) + 1] = items[i + 1]
        BY <1>5, <3>1
      <3> QED BY <1>7, <2>1, <2>3, <3>2
    <2> QED BY <2>2, <2>3
  <1>10. Linked(items, last)
    BY <1>9 DEF Linked
  <1> QED BY <1>1, <1>3, <1>6, <1>8, <1>10

LEMMA TransitMoves ==
    ASSUME NEW fr, QueueOK(fr, Frame), fr.got # <<>>, NEW last \in Nat,
           NEW transit, transit = Joined(fr.got, fr.items), Linked(transit, last)
    PROVE  /\ fr.got[1] \in Frame /\ Len(transit) = Len(fr.items) + 1
           /\ First(transit, last) = fr.got[1].after
           /\ First(fr.items, last) = fr.got[1].after + fr.got[1].count
           /\ Linked(fr.items, last)
  <1> DEFINE g == fr.got
             items == fr.items
             f == g[1]
  <1>1. g \in Seq(Frame) /\ items \in Seq(Frame) /\ Len(g) <= 1 /\ g # <<>>
    BY DEF QueueOK, Queue
  <1>2. transit = Joined(g, items) /\ f = g[1]
    OBVIOUS
  <1> HIDE DEF g, items, f
  <1>3. Len(g) = 1
    BY <1>1, LengthOne
  <1>4. /\ f \in Frame /\ Len(transit) = Len(items) + 1
        /\ First(transit, last) = f.after
        /\ First(items, last) = f.after + f.count
        /\ Linked(items, last)
    BY <1>1, <1>2, <1>3, LinkMoves
  <1> QED BY <1>4 DEF g, items, f

LEMMA TransitLength ==
    QueueOK(frames, Frame) => Len(InTransit) \in Nat /\ Len(InTransit) * PerFrame \in Nat
  <1> SUFFICES ASSUME QueueOK(frames, Frame) PROVE Len(InTransit) \in Nat /\ Len(InTransit) * PerFrame \in Nat
    OBVIOUS
  <1> DEFINE g == frames.got
             items == frames.items
  <1>1. g \in Seq(Frame) /\ items \in Seq(Frame) /\ InTransit = g \o items
    BY DEF QueueOK, Queue, InTransit
  <1> HIDE DEF g, items
  <1>2. Len(g \o items) = Len(g) + Len(items)
    BY <1>1, Concat
  <1>3. Len(InTransit) \in Nat
    BY <1>1, <1>2
  <1> QED BY <1>3, Times, AsyncQueueAssumption

LEMMA AsyncQueuePumpInv == AsyncQueueInv /\ Pump => AsyncQueueInv'
  <1> SUFFICES ASSUME AsyncQueueInv, Pump PROVE AsyncQueueInv'
    OBVIOUS
  <1>0. /\ QueueOK(frames, Frame) /\ QueueOK(events, Nat) /\ received \in Nat /\ yielded \in Seq(Nat)
        /\ events.waiting => consumer = "waiting"
        /\ Kept(frames, events, received, yielded, consumer)
        /\ ~frames.paused /\ (reading <=> ~events.paused)
        /\ received' = received /\ yielded' = yielded /\ consumer' = consumer
        /\ ~frames.waiting /\ ~events.ended /\ ~PumpDone(frames)
        /\ frames' = NextItem(frames, FramesHwm)
        /\ events' = IF frames.got = <<>> THEN events ELSE PushAll(events, EventsOf(frames.got[1]), EventsHwm)
        /\ reading' = IF events.paused = events'.paused THEN Reads(frames, frames') ELSE ~events'.paused
    BY KeptIsNothingDropped DEF AsyncQueueInv, AsyncQueueShape, Pressure, Pump
  <1>1. /\ EventsHwm \in Nat /\ EventsHwm >= 1 /\ FramesHwm \in Nat /\ PerFrame \in Nat
        /\ MaxChunk * PerFrame \in Nat
    BY AsyncQueueAssumption
  <1>2. /\ frames.got \in Seq(Frame) /\ frames.items \in Seq(Frame) /\ Len(frames.got) <= 1
        /\ Len(frames.items) \in Nat /\ Len(events.items) \in Nat
        /\ frames.paused \in BOOLEAN /\ events.paused \in BOOLEAN
    BY <1>0 DEF QueueOK, Queue
  <1>3. /\ QueueOK(frames', Frame) /\ frames'.ended = frames.ended
        /\ Joined(frames'.got, frames'.items) = frames.items
    BY <1>0, <1>1, NextItemOK
  <1>4. frames'.paused = FALSE /\ frames.paused = FALSE
    <2>a. frames'.paused \in BOOLEAN /\ frames.paused = FALSE
      BY <1>0, <1>2, <1>3 DEF QueueOK, Queue
    <2>1. CASE frames.items = <<>>
      BY <1>0, <1>1, <2>a, <2>1, NextItemOK
    <2>2. CASE frames.items # <<>>
      BY <1>0, <1>1, <2>a, <2>2, NextItemOK
    <2> QED BY <2>1, <2>2
  <1>5. InTransit = Joined(frames.got, frames.items) /\ InTransit' = frames.items
    BY <1>3, KeptIsNothingDropped
  <1>6. CASE frames.got = <<>>
    <2>1. events' = events /\ InTransit' = InTransit
      BY <1>0, <1>2, <1>5, <1>6, ConcatEmptySeq DEF Joined
    <2>2. NothingDropped'
      BY <1>0, <2>1, KeptIsNothingDropped DEF Kept
    <2>3. AsyncQueueShape'
      BY <1>0, <1>3, <2>1 DEF AsyncQueueShape
    <2>4. reading' <=> reading
      BY <1>0, <1>4, <2>1 DEF Reads
    <2>5. Pressure'
      BY <1>0, <1>4, <2>1, <2>4 DEF AsyncQueueInv, Pressure
    <2> QED BY <2>2, <2>3, <2>5 DEF AsyncQueueInv
  <1>7. CASE frames.got # <<>>
    <2> DEFINE f == frames.got[1]
    <2>1. /\ f \in Frame /\ Len(InTransit) = Len(frames.items) + 1
          /\ First(InTransit, received) = f.after
          /\ First(frames.items, received) = f.after + f.count
          /\ Linked(frames.items, received)
      BY <1>0, <1>5, <1>7, TransitMoves DEF Kept
    <2>2. f.after \in Nat /\ f.count \in Nat /\ f.count <= PerFrame
      BY <1>1, <2>1 DEF Frame
    <2>3. events' = PushAll(events, Numbered(f.after, f.count), EventsHwm)
      BY <1>0, <1>7 DEF EventsOf
    <2> HIDE DEF f
    <2> DEFINE new == Numbered(f.after, f.count)
    <2>4. new \in Seq(Nat) /\ Len(new) = f.count
      BY <2>2, NumberedType
    <2>5. /\ QueueOK(events', Nat) /\ events'.ended = events.ended
          /\ events'.waiting => events.waiting
          /\ Len(events'.items) <= Len(events.items) + f.count /\ Len(events.items) <= Len(events'.items)
          /\ events'.paused <=> \/ events.paused
                               \/ /\ Len(events'.items) > Len(events.items)
                                  /\ Len(events'.items) >= EventsHwm
      <3>1. events' = PushAll(events, new, EventsHwm)
        BY <2>3
      <3> HIDE DEF new
      <3>2. QueueOK(events', Nat) /\ events'.ended = events.ended /\ (events'.waiting => events.waiting)
        BY <1>0, <1>1, <2>4, <3>1, PushAllOK
      <3>3. Len(events'.items) <= Len(events.items) + Len(new) /\ Len(events.items) <= Len(events'.items)
        BY <1>0, <1>1, <2>4, <3>1, PushAllOK
      <3>4. events'.paused <=> \/ events.paused
                               \/ /\ Len(events'.items) > Len(events.items)
                                  /\ Len(events'.items) >= EventsHwm
        BY <1>0, <1>1, <2>4, <3>1, PushAllOK
      <3> QED BY <2>4, <3>2, <3>3, <3>4
    <2>6. NothingDropped'
      <3>1. Line(yielded, Hand(consumer, events), events.items) = Numbered(0, f.after)
        BY <1>0, <1>5, <2>1 DEF Kept
      <3>2. Line(yielded, Hand(consumer, events'), events'.items) = Numbered(0, f.after + f.count)
        BY <1>0, <2>2, <2>3, <3>1, PushFollows
      <3>3. Kept(frames', events', received', yielded', consumer')
        BY <1>0, <1>3, <2>1, <3>2 DEF Kept
      <3> QED BY <3>3, KeptIsNothingDropped
    <2>7. AsyncQueueShape'
      BY <1>0, <1>3, <2>5 DEF AsyncQueueShape
    <2>8. reading' <=> ~events'.paused
      <3>1. events'.paused \in BOOLEAN
        BY <2>5 DEF QueueOK, Queue
      <3>2. CASE events.paused = events'.paused
        BY <1>0, <1>4, <3>2 DEF Reads
      <3>3. CASE events.paused # events'.paused
        BY <1>0, <3>3
      <3> QED BY <3>2, <3>3
    <2>9. Pressure'
      <3>0. Len(events'.items) \in Nat
        BY <2>5 DEF QueueOK, Queue
      <3>1. events'.paused => 2 * Len(events'.items) >= EventsHwm
        BY <1>1, <1>2, <2>5, <3>0 DEF AsyncQueueInv, Pressure
      <3>2. ~events'.paused => Len(events'.items) < EventsHwm
        BY <1>1, <1>2, <2>5, <3>0 DEF AsyncQueueInv, Pressure
      <3>3. /\ Len(frames.items) * PerFrame \in Nat
            /\ Len(InTransit) * PerFrame = Len(frames.items) * PerFrame + PerFrame
        BY <1>1, <1>2, <2>1, Times
      <3>4. Len(events.items) + Len(InTransit) * PerFrame <= EventsHwm - 1 + MaxChunk * PerFrame
        BY DEF AsyncQueueInv, Pressure
      <3>5. Len(events'.items) + Len(frames.items) * PerFrame <= EventsHwm - 1 + MaxChunk * PerFrame
        <4> DEFINE a == Len(frames.items) * PerFrame
                   b == Len(InTransit) * PerFrame
                   m == EventsHwm - 1 + MaxChunk * PerFrame
                   old == Len(events.items)
                   now == Len(events'.items)
                   k == f.count
        <4>1. /\ a \in Nat /\ b = a + PerFrame /\ m \in Int /\ old \in Nat /\ now \in Nat
              /\ k \in Nat /\ k <= PerFrame /\ now <= old + k /\ old + b <= m /\ PerFrame \in Nat
          <5>1. a \in Nat /\ b = a + PerFrame /\ PerFrame \in Nat
            BY <1>1, <3>3
          <5>2. m \in Int
            BY <1>1
          <5>3. old \in Nat /\ now \in Nat /\ k \in Nat /\ k <= PerFrame /\ now <= old + k
            BY <1>2, <2>2, <2>5, <3>0
          <5>4. old + b <= m
            BY <3>4
          <5> QED BY <5>1, <5>2, <5>3, <5>4
        <4> HIDE DEF a, b, m, old, now, k
        <4>2. now + a <= m
          BY <4>1
        <4> QED BY <4>2 DEF a, m, now
      <3> QED BY <1>4, <1>5, <2>8, <3>1, <3>2, <3>5 DEF Pressure
    <2> QED BY <2>6, <2>7, <2>9 DEF AsyncQueueInv
  <1> QED BY <1>6, <1>7

LEMMA AsyncQueuePumpOverInv == AsyncQueueInv /\ PumpOver => AsyncQueueInv'
  <1> SUFFICES ASSUME AsyncQueueInv, PumpOver PROVE AsyncQueueInv'
    OBVIOUS
  <1>0. /\ QueueOK(events, Nat) /\ ~events.ended /\ Kept(frames, events, received, yielded, consumer)
        /\ events' \in {End(events), Fail(events)} /\ PumpDone(frames)
        /\ UNCHANGED <<frames, reading, received, yielded, consumer>>
    BY KeptIsNothingDropped DEF AsyncQueueInv, AsyncQueueShape, PumpOver
  <1>1. /\ QueueOK(events', Nat) /\ events'.items = events.items /\ events'.got = events.got
        /\ events'.paused = events.paused /\ ~events'.waiting
    BY <1>0 DEF End, Fail, QueueOK, Queue
  <1>2. NothingDropped'
    BY <1>0, <1>1, KeptIsNothingDropped DEF Kept, Hand
  <1>3. AsyncQueueShape'
    BY <1>0, <1>1 DEF AsyncQueueShape, AsyncQueueInv
  <1>4. InTransit' = InTransit
    BY <1>0, KeptIsNothingDropped
  <1>5. Pressure'
    BY <1>0, <1>1, <1>4 DEF Pressure, AsyncQueueInv
  <1> QED BY <1>2, <1>3, <1>5 DEF AsyncQueueInv

LEMMA AsyncQueueAskInv == AsyncQueueInv /\ Ask => AsyncQueueInv'
  <1> SUFFICES ASSUME AsyncQueueInv, Ask PROVE AsyncQueueInv'
    OBVIOUS
  <1>0. /\ QueueOK(events, Nat) /\ yielded \in Seq(Nat) /\ consumer = "busy" /\ ~events.waiting
        /\ Kept(frames, events, received, yielded, consumer)
        /\ events.ended => PumpDone(frames)
        /\ events' = NextItem(events, EventsHwm) /\ reading' = Reads(events, events')
        /\ events'.waiting => consumer' = "waiting"
        /\ ~events'.waiting => consumer' # "waiting"
        /\ yielded' = yielded \o events'.got
        /\ frames' = frames /\ received' = received
        /\ Len(events.items) \in Nat /\ events.paused \in BOOLEAN
        /\ EventsHwm \in Nat /\ EventsHwm >= 1 /\ (reading <=> ~events.paused)
    <2>1. /\ QueueOK(events, Nat) /\ yielded \in Seq(Nat)
          /\ Kept(frames, events, received, yielded, consumer)
          /\ events.ended => PumpDone(frames)
          /\ (events.waiting => consumer = "waiting") /\ (reading <=> ~events.paused)
      BY KeptIsNothingDropped DEF AsyncQueueInv, AsyncQueueShape, Pressure
    <2>2. Len(events.items) \in Nat /\ events.paused \in BOOLEAN
      BY <2>1 DEF QueueOK, Queue
    <2>c. consumer' = CASE events'.waiting -> "waiting" [] events'.got # <<>> -> "busy"
                        [] OTHER -> IF events'.failed THEN "thrown" ELSE "done"
      BY DEF Ask
    <2>3. events'.waiting => consumer' = "waiting"
      <3>1. CASE events'.waiting /\ events'.got # <<>>
        <4>1. events'.got = <<>>
          <5>1. events' = NextItem(events, EventsHwm) /\ ~events.waiting
            BY <2>1 DEF Ask
          <5>2. QueueOK(events', Nat)
            BY <2>1, <5>1, NextItemOK, AsyncQueueAssumption
          <5> QED BY <3>1, <5>2 DEF QueueOK
        <4> QED BY <3>1, <4>1
      <3>2. CASE events'.waiting /\ events'.got = <<>>
        BY <2>c, <3>2
      <3> QED BY <3>1, <3>2
    <2>4. ~events'.waiting => consumer' # "waiting"
      <3>2. CASE ~events'.waiting /\ events'.got # <<>>
        BY <2>c, <3>2
      <3>3. CASE ~events'.waiting /\ events'.got = <<>>
        BY <2>c, <3>3
      <3> QED BY <3>2, <3>3
    <2>5. /\ consumer = "busy" /\ yielded' = yielded \o events'.got
          /\ events' = NextItem(events, EventsHwm) /\ reading' = Reads(events, events')
          /\ frames' = frames /\ received' = received
      <3>1. consumer = "busy" /\ frames' = frames /\ received' = received
        BY DEF Ask
      <3>2. events' = NextItem(events, EventsHwm)
        BY DEF Ask
      <3>3. reading' = Reads(events, events')
        BY DEF Ask
      <3>4. yielded' = yielded \o events'.got
        BY DEF Ask
      <3> QED BY <3>1, <3>2, <3>3, <3>4
    <2> QED BY <2>1, <2>2, <2>3, <2>4, <2>5, AsyncQueueAssumption
  <1>1. QueueOK(events', Nat) /\ events'.ended = events.ended
    BY <1>0, NextItemOK
  <1>2. /\ events'.got \in Seq(Nat) /\ Len(events'.items) \in Nat /\ events'.paused \in BOOLEAN
        /\ events'.waiting => events'.got = <<>>
    BY <1>1 DEF QueueOK, Queue
  <1>3. yielded' \in Seq(Nat) /\ yielded' = Joined(yielded, events'.got)
    BY <1>0, <1>2, Concat DEF Joined
  <1>4. Hand(consumer, events) = <<>> /\ Hand(consumer', events') = <<>>
    BY <1>0, <1>2 DEF Hand
  <1>5. NothingDropped'
    <2>1. Line(Joined(yielded, events'.got), <<>>, events'.items) = Line(yielded, <<>>, events.items)
      BY <1>0, AskFollows
    <2>2. Kept(frames', events', received', yielded', consumer')
      BY <1>0, <1>3, <1>4, <2>1 DEF Kept
    <2> QED BY <2>2, KeptIsNothingDropped
  <1>6. AsyncQueueShape'
    BY <1>0, <1>1, <1>3 DEF AsyncQueueShape, AsyncQueueInv
  <1>7. Pressure'
    <2>1. reading' <=> ~events'.paused
      BY <1>0, <1>2 DEF Reads
    <2>2. /\ Len(events'.items) <= Len(events.items)
          /\ events'.paused => 2 * Len(events'.items) >= EventsHwm
          /\ ~events'.paused => Len(events'.items) < EventsHwm
      <3>1. CASE events.items = <<>>
        <4>1. events'.items = events.items /\ events'.paused = events.paused
          BY <1>0, <3>1, NextItemOK
        <4> QED BY <1>0, <4>1 DEF AsyncQueueInv, Pressure
      <3>2. CASE events.items # <<>>
        <4>1. /\ Len(events'.items) = Len(events.items) - 1
              /\ events'.paused <=> events.paused /\ 2 * Len(events'.items) >= EventsHwm
          BY <1>0, <3>2, NextItemOK
        <4>2. ~events.paused => Len(events.items) < EventsHwm
          BY DEF AsyncQueueInv, Pressure
        <4> QED BY <1>0, <1>2, <4>1, <4>2
      <3> QED BY <3>1, <3>2
    <2>3. InTransit' = InTransit
      BY <1>0, KeptIsNothingDropped
    <2>4. Len(events'.items) + Len(InTransit) * PerFrame <= EventsHwm - 1 + MaxChunk * PerFrame
      <3>1. Len(events.items) + Len(InTransit) * PerFrame <= EventsHwm - 1 + MaxChunk * PerFrame
        BY DEF AsyncQueueInv, Pressure
      <3>2. /\ Len(InTransit) * PerFrame \in Int /\ EventsHwm - 1 + MaxChunk * PerFrame \in Int
        BY AsyncQueueAssumption, TransitLength DEF AsyncQueueInv, AsyncQueueShape
      <3> QED BY <1>0, <1>2, <2>2, <3>1, <3>2
    <2> QED BY <1>0, <2>1, <2>2, <2>3, <2>4 DEF Pressure, AsyncQueueInv
  <1> QED BY <1>5, <1>6, <1>7 DEF AsyncQueueInv

LEMMA AsyncQueueAnsweredInv == AsyncQueueInv /\ Answered => AsyncQueueInv'
  <1> SUFFICES ASSUME AsyncQueueInv, Answered PROVE AsyncQueueInv'
    OBVIOUS
  <1>0. /\ QueueOK(events, Nat) /\ yielded \in Seq(Nat) /\ consumer = "waiting" /\ ~events.waiting
        /\ Kept(frames, events, received, yielded, consumer)
        /\ consumer' # "waiting" /\ yielded' = yielded \o events.got
        /\ UNCHANGED <<frames, events, reading, received>>
    BY KeptIsNothingDropped DEF AsyncQueueInv, AsyncQueueShape, Answered
  <1>1. events.got \in Seq(Nat) /\ events.items \in Seq(Nat)
    BY <1>0 DEF QueueOK, Queue
  <1>2. yielded' \in Seq(Nat) /\ yielded' = Joined(yielded, events.got)
    BY <1>0, <1>1, Concat DEF Joined
  <1>3. Hand(consumer, events) = events.got /\ Hand(consumer', events') = <<>>
    BY <1>0 DEF Hand
  <1>4. NothingDropped'
    <2>1. Line(Joined(yielded, events.got), <<>>, events.items) = Line(yielded, events.got, events.items)
      BY <1>0, <1>1, LineMoves
    <2>2. Kept(frames', events', received', yielded', consumer')
      BY <1>0, <1>2, <1>3, <2>1 DEF Kept
    <2> QED BY <2>2, KeptIsNothingDropped
  <1>5. AsyncQueueShape'
    BY <1>0, <1>2 DEF AsyncQueueShape, AsyncQueueInv
  <1>6. InTransit' = InTransit
    BY <1>0, KeptIsNothingDropped
  <1>7. Pressure'
    BY <1>0, <1>6 DEF Pressure, AsyncQueueInv
  <1> QED BY <1>4, <1>5, <1>7 DEF AsyncQueueInv

LEMMA AsyncQueueStepInv == AsyncQueueInv /\ [AsyncQueueNext]_asyncQueueVars => AsyncQueueInv'
  <1> SUFFICES ASSUME AsyncQueueInv, [AsyncQueueNext]_asyncQueueVars PROVE AsyncQueueInv'
    OBVIOUS
  <1>1. CASE UNCHANGED asyncQueueVars
    <2>1. /\ UNCHANGED <<frames, events, reading, received, yielded, consumer>>
      BY <1>1 DEF asyncQueueVars
    <2>2. NothingDropped' /\ InTransit' = InTransit
      BY <2>1, KeptIsNothingDropped DEF AsyncQueueInv
    <2> QED BY <2>1, <2>2 DEF AsyncQueueInv, AsyncQueueShape, Pressure
  <1> QED BY <1>1, AsyncQueueChunkInv, AsyncQueueStreamEndsInv, AsyncQueuePumpInv, AsyncQueuePumpOverInv,
             AsyncQueueAskInv, AsyncQueueAnsweredInv DEF AsyncQueueNext

\* What the socket has delivered is yielded or on its way, in order and
\* without a gap, whatever the marks, chunks and frames, and however the
\* session ends (AsyncQueue push, next, end, fail; changes()).
THEOREM NothingIsDropped == AsyncQueueSpec => []NothingDropped
  <1>1. AsyncQueueInv => NothingDropped
    BY DEF AsyncQueueInv
  <1> QED BY <1>1, AsyncQueueInitInv, AsyncQueueStepInv, PTL DEF AsyncQueueSpec

\* The buffer of events never holds more than one chunk above its mark, and
\* the socket is paused only while half the mark is left to work off
\* (onPause, onResume of the two queues).
THEOREM BufferIsBounded == AsyncQueueSpec => []EventsBounded
  <1>1. AsyncQueueInv => EventsBounded
    <2> SUFFICES ASSUME AsyncQueueInv PROVE EventsBounded
      OBVIOUS
    <2>1. /\ Len(events.items) + Len(InTransit) * PerFrame <= EventsHwm - 1 + MaxChunk * PerFrame
          /\ reading <=> ~events.paused
          /\ events.paused => 2 * Len(events.items) >= EventsHwm
      BY DEF AsyncQueueInv, Pressure
    <2>2. Len(events.items) \in Nat
      BY DEF AsyncQueueInv, AsyncQueueShape, QueueOK, Queue
    <2>3. Len(InTransit) * PerFrame \in Nat /\ EventsHwm - 1 + MaxChunk * PerFrame \in Int
      BY TransitLength, AsyncQueueAssumption DEF AsyncQueueInv, AsyncQueueShape
    <2> QED BY <2>1, <2>2, <2>3 DEF EventsBounded
  <1> QED BY <1>1, AsyncQueueInitInv, AsyncQueueStepInv, PTL DEF AsyncQueueSpec

-----------------------------------------------------------------------------
(* The calls of changes() and stop(). *)

(* While a stop() awaits, what is live came up meanwhile: the stream that  *)
(* was live when it was called it has stopped. This is what it may clear   *)
(* the fields of when it returns.                                          *)
StopsTheLive == Awaiting # {} => \A g \in Calls : Live(g) => g \in overtaken

IterationInv == IterationTypeOK /\ StopFindsStream /\ StopsTheLive

LEMMA IterationInitInv == IterationInit => IterationInv
  BY IterationAssumption
     DEF IterationInit, IterationInv, IterationTypeOK, StopFindsStream, StopsTheLive, Live, Where

(* A step after which no stream is live that was not live before, and that *)
(* leaves the field and the calls of stop() alone.                         *)
LEMMA NothingComesUp ==
    ASSUME IterationInv, IterationTypeOK', UNCHANGED <<current, overtaken, stops>>,
           \A g \in Calls : Live(g)' => Live(g)
    PROVE  IterationInv'
  BY DEF IterationInv, StopFindsStream, StopsTheLive, Awaiting

(* The steps of a generator, one by one. *)
LEMMA ChangesInv ==
    ASSUME IterationInv, NEW g \in Calls, Changes(g) \/ ConnectRefused(g)
    PROVE  IterationInv'
  <1>1. IterationTypeOK'
    BY DEF IterationInv, IterationTypeOK, Changes, ConnectRefused, At, Where
  <1>2. UNCHANGED <<current, overtaken, stops>>
    BY DEF Changes, ConnectRefused
  <1>3. \A h \in Calls : Live(h)' => Live(h)
    BY DEF IterationInv, IterationTypeOK, Changes, ConnectRefused, At, Live
  <1> QED BY <1>1, <1>2, <1>3, NothingComesUp

(* The server gives the slot to one client, so the new stream is the only  *)
(* live one.                                                               *)
LEMMA StreamsInv ==
    ASSUME IterationInv, NEW g \in Calls, Streams(g)
    PROVE  IterationInv'
  <1>1. \A h \in Calls : ~Live(h)
    BY DEF Streams, Holder, Live
  <1>2. IterationTypeOK'
    BY DEF IterationInv, IterationTypeOK, Streams, At, Where
  <1>3. \A h \in Calls : Live(h)' => h = g
    BY <1>1 DEF IterationInv, IterationTypeOK, Streams, At, Live
  <1>4. StopFindsStream' /\ StopsTheLive'
    BY <1>3 DEF StopFindsStream, StopsTheLive, Streams, Awaiting
  <1> QED BY <1>2, <1>4 DEF IterationInv

LEMMA LeaveInv ==
    ASSUME IterationInv, NEW g \in Calls, ConnectionLost(g) \/ Leave(g)
    PROVE  IterationInv'
  <1>1. IterationTypeOK'
    BY DEF IterationInv, IterationTypeOK, ConnectionLost, Leave, At, Where
  <1>2. UNCHANGED <<current, overtaken, stops>>
    BY DEF ConnectionLost, Leave
  <1>3. \A h \in Calls : Live(h)' => Live(h)
    BY DEF IterationInv, IterationTypeOK, ConnectionLost, Leave, At, Live
  <1> QED BY <1>1, <1>2, <1>3, NothingComesUp

(* A generator that ends clears the fields only when they are its own, or  *)
(* nobody's: a live stream of another call is current, and neither, or has *)
(* been overtaken.                                                         *)
LEMMA FinishedInv ==
    ASSUME IterationInv, NEW g \in Calls, Finished(g)
    PROVE  IterationInv'
  <1>1. IterationTypeOK'
    BY DEF IterationInv, IterationTypeOK, Finished, At, Where
  <1>2. ASSUME NEW h \in Calls, Live(h)' PROVE Live(h) /\ h # g
    BY <1>2 DEF Finished, At, Live, IterationInv, IterationTypeOK
  <1>3. StopFindsStream'
    <2> SUFFICES ASSUME NEW h \in Calls, Live(h)' PROVE current' = h \/ h \in overtaken'
      BY DEF StopFindsStream
    <2>1. h # g /\ (current = h \/ h \in overtaken)
      BY <1>2 DEF IterationInv, StopFindsStream
    <2> QED BY <2>1, IterationAssumption DEF Finished
  <1>4. StopsTheLive'
    BY <1>2 DEF IterationInv, StopsTheLive, Finished, Awaiting
  <1> QED BY <1>1, <1>3, <1>4 DEF IterationInv

(* A live stream that no stop() has overtaken is the one it finds.         *)
LEMMA StopStreamInv ==
    ASSUME IterationInv, NEW s \in Stops, StopStream(s)
    PROVE  IterationInv'
  <1>1. IterationTypeOK'
    BY DEF IterationInv, IterationTypeOK, StopStream
  <1>2. \A h \in Calls : Live(h)' => Live(h) /\ (current # 0 => h # current)
    BY DEF StopStream, Live
  <1>3. \A h \in Calls : Live(h)' => h \in overtaken
    BY <1>2, IterationAssumption DEF IterationInv, StopFindsStream
  <1> QED BY <1>1, <1>3 DEF IterationInv, StopFindsStream, StopsTheLive, StopStream

LEMMA StopReleasesInv ==
    ASSUME IterationInv, NEW s \in Stops, StopReleases(s)
    PROVE  IterationInv'
  <1>1. IterationTypeOK'
    BY DEF IterationInv, IterationTypeOK, StopReleases
  <1>2. \A h \in Calls : Live(h)' => h \in overtaken'
    BY DEF IterationInv, StopsTheLive, StopReleases, Awaiting, Live
  <1> QED BY <1>1, <1>2 DEF IterationInv, StopFindsStream, StopsTheLive

LEMMA IterationStepInv == IterationInv /\ [IterationNext]_iterationVars => IterationInv'
  <1> SUFFICES ASSUME IterationInv, [IterationNext]_iterationVars PROVE IterationInv'
    OBVIOUS
  <1>1. CASE UNCHANGED iterationVars
    BY <1>1 DEF iterationVars, IterationInv, IterationTypeOK, StopFindsStream, StopsTheLive, Live, Awaiting
  <1>2. ASSUME NEW g \in Calls,
               \/ Changes(g) \/ ConnectRefused(g) \/ Streams(g)
               \/ ConnectionLost(g) \/ Leave(g) \/ Finished(g)
        PROVE  IterationInv'
    BY <1>2, ChangesInv, StreamsInv, LeaveInv, FinishedInv
  <1>3. ASSUME NEW s \in Stops, StopStream(s) \/ StopReleases(s)
        PROVE  IterationInv'
    BY <1>3, StopStreamInv, StopReleasesInv
  <1> QED BY <1>1, <1>2, <1>3 DEF IterationNext

(* However the calls of changes() and stop() on one instance overlap, its  *)
(* field `stream` is the stream that is live, except for a stream that     *)
(* came up while a stop() awaited, which that call may have taken from the *)
(* field when it returned (walcast.ts, changes and stop).                  *)
THEOREM StreamIsFound == IterationSpec => []StopFindsStream
  <1>1. IterationInv => StopFindsStream
    BY DEF IterationInv
  <1> QED BY <1>1, IterationInitInv, IterationStepInv, PTL DEF IterationSpec

-----------------------------------------------------------------------------
(* What holds of 0 and of each number after one it holds of, holds up to n. *)
LEMMA UpTo ==
    ASSUME NEW n \in Nat, NEW T, 0 \in T, \A i \in 1..n : i - 1 \in T => i \in T
    PROVE  0..n \subseteq T
  <1> DEFINE Less == {ss \in Nat \X Nat : ss[1] < ss[2]}
             Out == (0..n) \ T
  <1>1. OpToRel(<, Nat) = Less
    BY DEF OpToRel
  <1>2. IsWellFoundedOn(Less, Nat)
    BY <1>1, NatLessThanWellFounded
  <1> SUFFICES ASSUME Out # {} PROVE FALSE
    OBVIOUS
  <1>3. Out \subseteq Nat
    OBVIOUS
  <1>4. PICK x \in Out : \A y \in Out : ~ (<<y, x>> \in Less)
    <2> HIDE DEF Less, Out
    <2> QED BY <1>2, <1>3, WFMin
  <1>5. x \in 1..n
    OBVIOUS
  <1>6. x - 1 \in 0..n /\ x - 1 \in Nat /\ x \in Nat /\ x - 1 < x
    BY <1>5
  <1>7. x - 1 \notin Out
    BY <1>4, <1>6
  <1> QED BY <1>5, <1>6, <1>7

-----------------------------------------------------------------------------
(* Division and remainder, as the provers need them. *)
LEMMA DivRange ==
    ASSUME NEW a \in Nat, NEW b \in Nat \ {0}
    PROVE  /\ a \div b \in Nat /\ a % b \in 0..(b - 1)
           /\ b * (a \div b) <= a /\ a < b * (a \div b) + b
  <1>1. a \div b \in Nat
    OBVIOUS
  <1>2. a % b \in 0..(b - 1)
    OBVIOUS
  <1>3. b * (a \div b) <= a /\ a < b * (a \div b) + b
    OBVIOUS
  <1> QED BY <1>1, <1>2, <1>3

LEMMA DivUnique ==
    ASSUME NEW b \in Nat \ {0}, NEW q \in Nat, NEW a \in Nat, b * q <= a, a < b * q + b
    PROVE  a \div b = q
  OBVIOUS

LEMMA DivMod ==
    ASSUME NEW a \in Nat, NEW b \in Nat \ {0}
    PROVE  b * (a \div b) + (a % b) = a
  OBVIOUS

LEMMA DivTwice ==
    ASSUME NEW a \in Nat, NEW b \in Nat \ {0}, NEW c \in Nat \ {0}
    PROVE  a \div (b * c) = (a \div c) \div b
  OBVIOUS

-----------------------------------------------------------------------------
(* Powers of the base, and numbers as digits. *)

\* p is the table that Power(n) computes.
IsPowers(p, n) == p = [i \in 0..n |-> IF i = 0 THEN 1 ELSE Base * p[i - 1]]

\* What a table of powers does.
Multiplies(p, n) == p[0] = 1 /\ \A i \in 1..n : p[i] = Base * p[i - 1]

LEMMA PowersStep ==
    ASSUME NEW n \in Nat, NEW p, IsPowers(p, n)
    PROVE  Multiplies(p, n)
  <1>1. 0 \in 0..n /\ \A i \in 1..n : i \in 0..n /\ i # 0
    OBVIOUS
  <1> QED BY <1>1 DEF IsPowers, Multiplies

LEMMA PowersExist ==
    ASSUME NEW n \in Nat
    PROVE  \E p : IsPowers(p, n)
  <1> DEFINE T == {i \in Nat : \E p : IsPowers(p, i)}
  <1>1. 0 \in T
    <2> DEFINE p == [i \in 0..0 |-> 1]
    <2>1. IsPowers(p, 0)
      BY DEF IsPowers
    <2> QED BY <2>1
  <1>2. ASSUME NEW i \in 1..n, i - 1 \in T PROVE i \in T
    <2>1. PICK p : IsPowers(p, i - 1)
      BY <1>2
    <2> DEFINE q == [j \in 0..i |-> IF j = i THEN Base * p[i - 1] ELSE p[j]]
    <2>2. ASSUME NEW j \in 0..i
          PROVE  q[j] = IF j = 0 THEN 1 ELSE Base * q[j - 1]
      <3>1. CASE j = i
        <4>1. i - 1 \in 0..i /\ i - 1 # i /\ i # 0
          BY <1>2
        <4> QED BY <3>1, <4>1
      <3>2. CASE j # i
        <4>1. j \in 0..(i - 1)
          BY <3>2
        <4>2. p[j] = IF j = 0 THEN 1 ELSE Base * p[j - 1]
          BY <2>1, <4>1 DEF IsPowers
        <4>3. j # 0 => j - 1 \in 0..i /\ j - 1 # i
          BY <4>1
        <4> QED BY <3>2, <4>2, <4>3
      <3> QED BY <3>1, <3>2
    <2>3. q = [j \in 0..i |-> q[j]]
      OBVIOUS
    <2> HIDE DEF q
    <2>4. IsPowers(q, i)
      BY <2>2, <2>3 DEF IsPowers
    <2> QED BY <1>2, <2>4
  <1>3. 0..n \subseteq T
    <2> HIDE DEF T
    <2> QED BY <1>1, <1>2, UpTo
  <1> QED BY <1>3

LEMMA PowersAgree ==
    ASSUME NEW n \in Nat, NEW p, NEW q, Multiplies(p, n), Multiplies(q, n)
    PROVE  p[n] = q[n]
  <1> DEFINE T == {i \in 0..n : p[i] = q[i]}
  <1>1. 0 \in T
    BY DEF Multiplies
  <1>2. ASSUME NEW i \in 1..n, i - 1 \in T PROVE i \in T
    BY <1>2 DEF Multiplies
  <1>3. 0..n \subseteq T
    <2> HIDE DEF T
    <2> QED BY <1>1, <1>2, UpTo
  <1>4. n \in 0..n
    OBVIOUS
  <1> QED BY <1>3, <1>4

LEMMA PowerIs ==
    ASSUME NEW n \in Nat
    PROVE  \E p : Multiplies(p, n) /\ Power(n) = p[n]
  <1> DEFINE g == CHOOSE p : p = [i \in 0..n |-> IF i = 0 THEN 1 ELSE Base * p[i - 1]]
  <1>1. Power(n) = g[n]
    BY Zenon DEF Power
  <1>2. PICK w : IsPowers(w, n)
    BY PowersExist
  <1>3. IsPowers(g, n)
    BY <1>2, Zenon DEF IsPowers
  <1> HIDE DEF g
  <1>4. Multiplies(g, n)
    BY <1>3, PowersStep
  <1> QED BY <1>1, <1>4

(* The powers of the base. *)
LEMMA PowerStep ==
    /\ Power(0) = 1
    /\ \A n \in Nat : Power(n + 1) = Base * Power(n)
  <1>1. Power(0) = 1
    <2>1. PICK p : Multiplies(p, 0) /\ Power(0) = p[0]
      BY PowerIs
    <2> QED BY <2>1 DEF Multiplies
  <1>2. ASSUME NEW n \in Nat PROVE Power(n + 1) = Base * Power(n)
    <2>1. PICK p : Multiplies(p, n) /\ Power(n) = p[n]
      BY PowerIs
    <2>2. PICK q : Multiplies(q, n + 1) /\ Power(n + 1) = q[n + 1]
      <3>1. n + 1 \in Nat
        OBVIOUS
      <3> QED BY <3>1, PowerIs
    <2>3. Multiplies(q, n)
      <3>1. \A i \in 1..n : i \in 1..(n + 1)
        OBVIOUS
      <3> QED BY <2>2, <3>1 DEF Multiplies
    <2>4. p[n] = q[n]
      BY <2>1, <2>3, PowersAgree
    <2>5. q[n + 1] = Base * q[n]
      <3>1. n + 1 \in 1..(n + 1) /\ (n + 1) - 1 = n
        OBVIOUS
      <3> QED BY <2>2, <3>1 DEF Multiplies
    <2> QED BY <2>1, <2>2, <2>4, <2>5
  <1> QED BY <1>1, <1>2

LEMMA PowerRange ==
    ASSUME NEW n \in Nat
    PROVE  Power(n) \in Nat \ {0} /\ n < Power(n)
  <1> DEFINE T == {i \in Nat : Power(i) \in Nat \ {0} /\ i < Power(i)}
  <1>0. Base \in Nat /\ Base > 1
    BY PositionsAssumption
  <1>1. 0 \in T
    BY PowerStep
  <1>2. ASSUME NEW i \in 1..n, i - 1 \in T PROVE i \in T
    <2>1. i - 1 \in Nat /\ (i - 1) + 1 = i /\ i \in Nat
      OBVIOUS
    <2>2. Power(i) = Base * Power(i - 1)
      BY <2>1, PowerStep
    <2> DEFINE m == Power(i - 1)
    <2>3. m \in Nat \ {0} /\ i - 1 < m
      BY <1>2
    <2> HIDE DEF m
    <2>4. Base * m \in Nat /\ Base * m >= m + m
      BY <1>0, <2>3
    <2>5. i < Base * m /\ Base * m # 0
      BY <2>1, <2>3, <2>4
    <2> QED BY <2>1, <2>2, <2>4, <2>5 DEF m
  <1>3. 0..n \subseteq T
    <2> HIDE DEF T
    <2> QED BY <1>1, <1>2, UpTo
  <1>4. n \in 0..n
    OBVIOUS
  <1> QED BY <1>3, <1>4

LEMMA PowerMonotone ==
    ASSUME NEW n \in Nat, NEW k \in Nat
    PROVE  Power(n) <= Power(n + k)
  <1> DEFINE T == {i \in Nat : Power(n) <= Power(n + i)}
  <1>0. Base \in Nat /\ Base > 1
    BY PositionsAssumption
  <1>1. 0 \in T
    <2>1. n + 0 = n /\ Power(n) \in Nat
      BY PowerRange
    <2> QED BY <2>1
  <1>2. ASSUME NEW i \in 1..k, i - 1 \in T PROVE i \in T
    <2>1. n + (i - 1) \in Nat /\ (n + (i - 1)) + 1 = n + i /\ i \in Nat
      OBVIOUS
    <2>2. Power(n + i) = Base * Power(n + (i - 1))
      BY <2>1, PowerStep
    <2> DEFINE m == Power(n + (i - 1))
               b == Power(n)
    <2>3. m \in Nat /\ b \in Nat /\ b <= m
      BY <1>2, <2>1, PowerRange
    <2> HIDE DEF m, b
    <2>4. b <= Base * m
      BY <1>0, <2>3
    <2> QED BY <2>1, <2>2, <2>4 DEF m, b
  <1>3. 0..k \subseteq T
    <2> HIDE DEF T
    <2> QED BY <1>1, <1>2, UpTo
  <1>4. k \in 0..k
    OBVIOUS
  <1> QED BY <1>3, <1>4

\* The number of digits of n.
IsWidth(w, n) ==
    /\ w \in Nat \ {0} /\ n < Power(w)
    /\ w = 1 \/ Power(w - 1) <= n

LEMMA WidthExists ==
    ASSUME NEW n \in Nat
    PROVE  \E w \in 1..n + 1 : Power(w) > n /\ (w = 1 \/ Power(w - 1) <= n)
  <1> SUFFICES ASSUME \A w \in 1..n + 1 : ~ (Power(w) > n /\ (w = 1 \/ Power(w - 1) <= n))
               PROVE  FALSE
    OBVIOUS
  <1> DEFINE T == {i \in Nat : i = 0 \/ Power(i) <= n}
  <1>1. 0 \in T
    OBVIOUS
  <1>2. ASSUME NEW i \in 1..(n + 1), i - 1 \in T PROVE i \in T
    <2>1. Power(i) \in Nat /\ (i = 1 \/ Power(i - 1) <= n)
      BY <1>2, PowerRange
    <2>2. ~ (Power(i) > n)
      BY <2>1
    <2> QED BY <2>1, <2>2
  <1>3. n + 1 \in Nat /\ n + 1 \in 0..(n + 1) /\ n + 1 # 0
    OBVIOUS
  <1>4. 0..(n + 1) \subseteq T
    <2> HIDE DEF T
    <2> QED BY <1>1, <1>2, <1>3, UpTo
  <1>5. Power(n + 1) <= n
    BY <1>3, <1>4
  <1>6. Power(n + 1) \in Nat /\ n + 1 < Power(n + 1)
    BY <1>3, PowerRange
  <1> QED BY <1>5, <1>6

(* toString(16) writes the digits of the number, and as many as it takes   *)
(* and no more.                                                            *)
LEMMA DigitsAre ==
    ASSUME NEW n \in Nat
    PROVE  \E w : /\ IsWidth(w, n)
                  /\ Digits(n) = [i \in 1..w |-> (n \div Power(w - i)) % Base]
  <1> DEFINE w == CHOOSE w \in 1..n + 1 : Power(w) > n /\ (w = 1 \/ Power(w - 1) <= n)
  <1>1. w \in 1..n + 1 /\ Power(w) > n /\ (w = 1 \/ Power(w - 1) <= n)
    BY WidthExists, Zenon
  <1>2. Digits(n) = [i \in 1..w |-> (n \div Power(w - i)) % Base]
    BY Zenon DEF Digits
  <1> HIDE DEF w
  <1>3. Power(w) \in Nat
    BY <1>1, PowerRange
  <1>4. IsWidth(w, n)
    BY <1>1, <1>3 DEF IsWidth
  <1> QED BY <1>2, <1>4

(* Reading the digits back gives the number (BigInt, Number).              *)
LEMMA ValueOfDigits ==
    ASSUME NEW n \in Nat
    PROVE  ValueOf(Digits(n)) = n
  <1>1. PICK w : IsWidth(w, n) /\ Digits(n) = [i \in 1..w |-> (n \div Power(w - i)) % Base]
    BY DigitsAre
  <1> DEFINE d == Digits(n)
             Loop(f) == [i \in 0..Len(d) |-> IF i = 0 THEN 0 ELSE Base * f[i - 1] + d[i]]
             g == CHOOSE f : f = Loop(f)
             v == [i \in 0..w |-> n \div Power(w - i)]
  <1>2. w \in Nat /\ w > 0 /\ n < Power(w) /\ Base \in Nat \ {0}
    BY <1>1, PositionsAssumption DEF IsWidth
  <1>3. ASSUME NEW i \in 0..w PROVE w - i \in Nat /\ Power(w - i) \in Nat \ {0} /\ n \div Power(w - i) \in Nat
    <2>1. w - i \in Nat
      BY <1>2
    <2>2. Power(w - i) \in Nat \ {0}
      BY <2>1, PowerRange
    <2> QED BY <2>1, <2>2, DivRange
  <1>4. Len(d) = w /\ \A i \in 1..w : d[i] = (n \div Power(w - i)) % Base
    <2>1. \A i \in 1..w : (n \div Power(w - i)) % Base \in Nat
      <3> TAKE i \in 1..w
      <3>1. n \div Power(w - i) \in Nat
        <4>1. i \in 0..w
          BY <1>2
        <4> QED BY <1>3, <4>1
      <3>2. (n \div Power(w - i)) % Base \in 0..(Base - 1)
        BY <1>2, <3>1, DivRange
      <3> QED BY <1>2, <3>2
    <2> HIDE DEF d
    <2>2. d = [i \in 1..w |-> (n \div Power(w - i)) % Base]
      BY <1>1 DEF d
    <2> QED BY <1>2, <2>1, <2>2
  <1>5. ValueOf(d) = g[Len(d)]
    BY Zenon DEF ValueOf
  <1> HIDE DEF d
  <1>6. v[0] = 0
    <2>1. w - 0 = w /\ Power(w) \in Nat \ {0}
      BY <1>2, PowerRange
    <2>2. n \div Power(w) = 0
      <3>1. Power(w) * 0 <= n /\ n < Power(w) * 0 + Power(w)
        BY <1>2, <2>1
      <3> QED BY <2>1, <3>1, DivUnique
    <2> QED BY <1>2, <2>1, <2>2
  <1>7. ASSUME NEW i \in 1..w PROVE v[i] = Base * v[i - 1] + d[i]
    <2> DEFINE k == w - i
               x == n \div Power(k)
    <2>1. k \in Nat /\ k + 1 = w - (i - 1) /\ i - 1 \in 0..w /\ i \in 0..w
      BY <1>2
    <2>2. Power(k + 1) = Base * Power(k) /\ Power(k) \in Nat \ {0}
      <3> HIDE DEF k
      <3> QED BY <2>1, PowerStep, PowerRange
    <2>3. v[i] = x /\ v[i - 1] = n \div Power(k + 1) /\ d[i] = x % Base
      BY <1>4, <2>1
    <2> HIDE DEF k
    <2>4. n \div (Base * Power(k)) = (n \div Power(k)) \div Base
      BY <1>2, <2>2, DivTwice
    <2>5. x \in Nat
      BY <2>2, DivRange
    <2> HIDE DEF x
    <2>6. Base * (x \div Base) + (x % Base) = x
      BY <1>2, <2>5, DivMod
    <2>7. v[i - 1] = x \div Base
      BY <2>2, <2>3, <2>4 DEF x
    <2> DEFINE y == x \div Base
               z == x % Base
    <2>8. v[i] = x /\ v[i - 1] = y /\ d[i] = z /\ Base * y + z = x
      <3>1. v[i] = x /\ v[i - 1] = y /\ d[i] = z
        BY <2>3, <2>7
      <3>2. Base * y + z = x
        BY ONLY <2>6, Zenon DEF y, z
      <3> QED BY <3>1, <3>2
    <2> HIDE DEF v, y, z
    <2> QED BY <2>8
  <1>8. v = Loop(v)
    <2> DEFINE u == Loop(v)
    <2>1. u[0] = 0 /\ \A i \in 1..w : u[i] = Base * v[i - 1] + d[i]
      BY <1>2, <1>4
    <2>2. u = [i \in 0..w |-> u[i]]
      BY <1>4
    <2>3. v = [i \in 0..w |-> v[i]]
      OBVIOUS
    <2> HIDE DEF u, v
    <2>4. \A i \in 0..w : u[i] = v[i]
      <3>1. \A i \in 0..w : i = 0 \/ i \in 1..w
        BY <1>2
      <3>2. \A i \in 1..w : u[i] = v[i]
        BY <1>7, <2>1
      <3> QED BY <1>6, <2>1, <3>1, <3>2
    <2>5. u = v
      BY <2>2, <2>3, <2>4
    <2> QED BY <2>5 DEF u
  <1>9. g = Loop(g)
    <2> HIDE DEF Loop
    <2> QED BY <1>8, Zenon
  <1> HIDE DEF g
  <1>10. g[0] = 0 /\ \A i \in 1..w : g[i] = Base * g[i - 1] + d[i]
    <2>1. \A i \in 0..w : g[i] = Loop(g)[i]
      <3> HIDE DEF Loop
      <3> QED BY <1>9
    <2>2. Loop(g)[0] = 0
      BY <1>2, <1>4
    <2>3. \A i \in 1..w : i \in 0..w /\ Loop(g)[i] = Base * g[i - 1] + d[i]
      BY <1>2, <1>4
    <2>4. 0 \in 0..w
      BY <1>2
    <2> HIDE DEF Loop
    <2> QED BY <2>1, <2>2, <2>3, <2>4
  <1>11. \A i \in 0..w : g[i] = v[i]
    <2> DEFINE Same == {i \in 0..w : g[i] = v[i]}
    <2> HIDE DEF v
    <2>1. 0 \in Same
      BY <1>2, <1>6, <1>10
    <2>2. ASSUME NEW i \in 1..w, i - 1 \in Same PROVE i \in Same
      <3>1. g[i] = v[i]
        BY <1>7, <1>10, <2>2
      <3> QED BY <1>2, <3>1
    <2> HIDE DEF Same
    <2>3. 0..w \subseteq Same
      BY <1>2, <2>1, <2>2, UpTo
    <2> QED BY <2>3 DEF Same
  <1>12. v[w] = n
    <2>1. w - w = 0 /\ w \in 0..w
      BY <1>2
    <2>2. n \div 1 = n
      OBVIOUS
    <2> QED BY <2>1, <2>2, PowerStep
  <1>13. g[w] = n
    BY <1>2, <1>11, <1>12
  <1> QED BY <1>4, <1>5, <1>13 DEF d

LEMMA DigitsFit ==
    ASSUME NEW n \in Nat, n < HalfSize
    PROVE  Len(Digits(n)) \in 1..HalfDigits
  <1>1. PICK w : IsWidth(w, n) /\ Digits(n) = [i \in 1..w |-> (n \div Power(w - i)) % Base]
    BY DigitsAre
  <1>2. w \in Nat /\ w > 0 /\ HalfDigits \in Nat \ {0}
    BY <1>1, PositionsAssumption DEF IsWidth
  <1>3. Len(Digits(n)) = w
    BY <1>1, <1>2
  <1>4. w <= HalfDigits
    <2> SUFFICES ASSUME ~ (w <= HalfDigits) PROVE FALSE
      OBVIOUS
    <2>1. w # 1 /\ w - 1 \in Nat /\ w - 1 - HalfDigits \in Nat /\ HalfDigits + (w - 1 - HalfDigits) = w - 1
      BY <1>2
    <2>2. Power(w - 1) <= n
      BY <1>1, <2>1 DEF IsWidth
    <2>3. Power(HalfDigits) <= Power(w - 1)
      BY <1>2, <2>1, PowerMonotone
    <2>4. Power(HalfDigits) \in Nat /\ Power(w - 1) \in Nat
      BY <1>2, <2>1, PowerRange
    <2>5. n < Power(HalfDigits)
      BY DEF HalfSize
    <2> QED BY <2>2, <2>3, <2>4, <2>5
  <1> QED BY <1>2, <1>3, <1>4

-----------------------------------------------------------------------------
(* An event id as text, and the order of two of them. *)

Events == [commit : Positions, index : Nat]

LEMMA HalvesRange ==
    /\ HalfSize \in Nat \ {0} /\ Positions \subseteq Nat
    /\ \A lsn \in Positions : lsn < HalfSize * HalfSize
  <1> DEFINE size == HalfSize
  <1>1. size \in Nat \ {0}
    BY PositionsAssumption, PowerRange DEF HalfSize
  <1>2. Positions = 0..(size * size - 1)
    BY DEF Positions
  <1> HIDE DEF size
  <1>3. size * size \in Nat
    BY <1>1
  <1>4. Positions \subseteq Nat /\ \A lsn \in Positions : lsn < size * size
    BY <1>2, <1>3
  <1> QED BY <1>1, <1>4 DEF size

LEMMA HalfOfPosition ==
    ASSUME NEW size \in Nat \ {0}, NEW lsn \in Nat, lsn < size * size
    PROVE  /\ lsn \div size \in Nat /\ lsn \div size < size
           /\ (lsn \div size) % size = lsn \div size
           /\ lsn % size \in Nat /\ lsn % size < size
  <1> DEFINE q == lsn \div size
  <1>1. q \in Nat /\ size * q <= lsn
    BY DivRange
  <1>2. q < size
    <2> HIDE DEF q
    <2> SUFFICES ASSUME ~ (q < size) PROVE FALSE
      OBVIOUS
    <2>1. size * q >= size * size
      BY <1>1
    <2> QED BY <1>1, <2>1
  <1>3. q % size = q
    <2> HIDE DEF q
    <2> QED BY <1>1, <1>2
  <1>4. lsn % size \in 0..(size - 1)
    BY DivRange
  <1> QED BY <1>1, <1>2, <1>3, <1>4

(* lsnToBigint and parseLsn read back what formatLsn wrote, and accept it. *)
LEMMA LsnSurvives ==
    ASSUME NEW lsn \in Positions
    PROVE  Valid(FormatLsn(lsn)) /\ ParseLsn(FormatLsn(lsn)) = lsn
  <1> DEFINE high == (lsn \div HalfSize) % HalfSize
             low == lsn % HalfSize
  <1>1. lsn \in Nat /\ HalfSize \in Nat \ {0} /\ lsn < HalfSize * HalfSize
    BY HalvesRange
  <1>2. /\ high = lsn \div HalfSize
        /\ high \in Nat /\ high < HalfSize /\ low \in Nat /\ low < HalfSize
    BY <1>1, HalfOfPosition
  <1>3. HalfSize * (lsn \div HalfSize) + (lsn % HalfSize) = lsn
    BY <1>1, DivMod
  <1>4. HalfSize * high + low = lsn
    BY <1>2, <1>3
  <1>5. FormatLsn(lsn).high = Digits(high) /\ FormatLsn(lsn).low = Digits(low)
    BY DEF FormatLsn
  <1> HIDE DEF high, low
  <1>6. ValueOf(Digits(high)) = high /\ ValueOf(Digits(low)) = low
    BY <1>2, ValueOfDigits
  <1>7. Len(Digits(high)) \in 1..HalfDigits /\ Len(Digits(low)) \in 1..HalfDigits
    BY <1>2, DigitsFit
  <1>8. ParseLsn(FormatLsn(lsn)) = high * HalfSize + low
    BY <1>5, <1>6 DEF ParseLsn
  <1>9. high * HalfSize + low = lsn
    BY <1>1, <1>2, <1>4
  <1> QED BY <1>5, <1>7, <1>8, <1>9 DEF Valid

(* compareEventIds: the position decides, then the index. *)
LEMMA ComparedAsNumbers ==
    ASSUME NEW a \in Events, NEW b \in Events
    PROVE  CompareEventIds(EventId(a), EventId(b)) =
               IF a.commit # b.commit THEN a.commit - b.commit ELSE a.index - b.index
  <1>1. /\ a.commit \in Positions /\ b.commit \in Positions
        /\ a.commit \in Nat /\ b.commit \in Nat /\ a.index \in Nat /\ b.index \in Nat
    BY HalvesRange DEF Events
  <1>2. /\ EventId(a).lsn = FormatLsn(a.commit) /\ EventId(b).lsn = FormatLsn(b.commit)
        /\ EventId(a).index = Digits(a.index) /\ EventId(b).index = Digits(b.index)
    BY DEF EventId
  <1>3. ParseLsn(EventId(a).lsn) = a.commit /\ ParseLsn(EventId(b).lsn) = b.commit
    BY <1>1, <1>2, LsnSurvives
  <1>4. ValueOf(EventId(a).index) = a.index /\ ValueOf(EventId(b).index) = b.index
    BY <1>1, <1>2, ValueOfDigits
  <1>5. CompareIndex(EventId(a).index, EventId(b).index) = a.index - b.index
    BY <1>4 DEF CompareIndex
  <1>6. CompareEventIds(EventId(a), EventId(b)) =
            IF a.commit - b.commit # 0 THEN a.commit - b.commit ELSE a.index - b.index
    BY <1>3, <1>5 DEF CompareEventIds
  <1> QED BY <1>1, <1>6

-----------------------------------------------------------------------------
(* The checkpoint holds an event that was delivered, and events only grow. *)

DeliveredInOrder ==
    /\ checkpoint \in Events /\ newest \in Events
    /\ \/ checkpoint.commit < newest.commit
       \/ checkpoint.commit = newest.commit /\ checkpoint.index <= newest.index

LEMMA DeliveredInit == PositionsInit => DeliveredInOrder
  <1> SUFFICES ASSUME PositionsInit PROVE DeliveredInOrder
    OBVIOUS
  <1>1. 0 \in Positions
    <2> DEFINE size == HalfSize
    <2>1. size \in Nat \ {0} /\ Positions = 0..(size * size - 1)
      BY HalvesRange DEF Positions
    <2> HIDE DEF size
    <2>2. size * size \in Nat /\ size * size > 0
      BY <2>1
    <2> QED BY <2>1, <2>2
  <1> QED BY <1>1, HalvesRange DEF PositionsInit, DeliveredInOrder, Events

LEMMA DeliveredNext == DeliveredInOrder /\ [PositionsNext]_positionsVars => DeliveredInOrder'
  <1> SUFFICES ASSUME DeliveredInOrder, [PositionsNext]_positionsVars PROVE DeliveredInOrder'
    OBVIOUS
  <1>1. /\ newest.commit \in Nat /\ newest.index \in Nat
        /\ checkpoint.commit \in Nat /\ checkpoint.index \in Nat
    BY HalvesRange DEF DeliveredInOrder, Events
  <1>2. CASE NextChange
    <2>1. newest' = [newest EXCEPT !.index = newest.index + 1] /\ checkpoint' = checkpoint
      BY <1>2 DEF NextChange
    <2>2. newest' \in Events /\ newest'.commit = newest.commit /\ newest'.index = newest.index + 1
      BY <1>1, <2>1 DEF DeliveredInOrder, Events
    <2> QED BY <1>1, <2>1, <2>2 DEF DeliveredInOrder
  <1>3. CASE NextTransaction
    <2>1. PICK commit \in Positions : commit > newest.commit /\ newest' = [commit |-> commit, index |-> 0]
      BY <1>3 DEF NextTransaction
    <2>2. newest' \in Events /\ newest'.commit = commit /\ commit \in Nat /\ checkpoint' = checkpoint
      BY <1>3, <2>1, HalvesRange DEF Events, NextTransaction
    <2> QED BY <1>1, <2>1, <2>2 DEF DeliveredInOrder
  <1>4. CASE Checkpoint
    BY <1>1, <1>4 DEF Checkpoint, DeliveredInOrder
  <1>5. CASE UNCHANGED positionsVars
    BY <1>5 DEF positionsVars, DeliveredInOrder
  <1> QED BY <1>2, <1>3, <1>4, <1>5 DEF PositionsNext

LEMMA DeliveredComparesInOrder == DeliveredInOrder => OrderedAsDelivered
  <1> SUFFICES ASSUME DeliveredInOrder PROVE OrderedAsDelivered
    OBVIOUS
  <1>1. newest \in Events /\ checkpoint \in Events
    BY DEF DeliveredInOrder
  <1>2. /\ newest.commit \in Positions
        /\ newest.commit \in Nat /\ newest.index \in Nat
        /\ checkpoint.commit \in Nat /\ checkpoint.index \in Nat
    BY <1>1, HalvesRange DEF Events
  <1> DEFINE order == CompareEventIds(EventId(newest), EventId(checkpoint))
  <1>3. order = IF newest.commit # checkpoint.commit
                THEN newest.commit - checkpoint.commit ELSE newest.index - checkpoint.index
    BY <1>1, ComparedAsNumbers
  <1>4. newest = checkpoint <=> newest.commit = checkpoint.commit /\ newest.index = checkpoint.index
    BY <1>1 DEF Events
  <1> HIDE DEF order
  <1>5. order <= 0 <=> newest = checkpoint
    BY <1>2, <1>3, <1>4 DEF DeliveredInOrder
  <1>6. Valid(FormatLsn(newest.commit)) /\ ParseLsn(FormatLsn(newest.commit)) = newest.commit
    BY <1>2, LsnSurvives
  <1> QED BY <1>5, <1>6 DEF OrderedAsDelivered, order

(* For every base, width of a half and length of a transaction: event ids  *)
(* as text compare as the events were delivered, and every position        *)
(* survives its text form (lsn.ts, compareEventIds).                       *)
THEOREM TextKeepsOrder == PositionsSpec => []OrderedAsDelivered
  <1>1. PositionsInit => DeliveredInOrder
    BY DeliveredInit
  <1>2. DeliveredInOrder /\ [PositionsNext]_positionsVars => DeliveredInOrder'
    BY DeliveredNext
  <1>3. DeliveredInOrder => OrderedAsDelivered
    BY DeliveredComparesInOrder
  <1> QED BY <1>1, <1>2, <1>3, PTL DEF PositionsSpec

-----------------------------------------------------------------------------
(* Fields of a frame, and what a buffer holds of them. *)

\* The constants of the protocol, and whatever a field can be.
Words == {"B", "C", "O", "Y", "R", "T", "I", "U", "D", "N", "K", "n", "u", "t", "f", "d",
          "schema.name", "flags", "modifier", "cascade"}
Item == Words \cup STRING \cup Nat \cup UNION {{text[i] : i \in DOMAIN text} : text \in Texts}
TextColumns == {<<"t", text>> : text \in Texts}
ColumnsSent == {<<"n">>, <<"u">>} \cup TextColumns

\* buf holds s at off, as far as buf goes.
Holds(buf, off, s) == \A j \in 1..Len(s) : off + j - 1 <= Len(buf) => buf[off + j - 1] = s[j]

LEMMA Items == Words \subseteq Item /\ STRING \subseteq Item /\ Nat \subseteq Item
  <1> DEFINE B == UNION {{text[i] : i \in DOMAIN text} : text \in Texts}
  <1>1. Item = Words \cup STRING \cup Nat \cup B
    BY DEF Item
  <1> HIDE DEF B
  <1> QED BY <1>1

LEMMA TextItems ==
    ASSUME NEW text \in Texts
    PROVE  text \in Seq(Item) /\ Len(text) \in Nat
  <1> DEFINE S == {text[i] : i \in DOMAIN text}
  <1>1. text \in Seq(S)
    BY PgoutputAssumption
  <1>2. S \subseteq Item
    BY DEF Item
  <1> HIDE DEF S
  <1> QED BY <1>1, <1>2

LEMMA HoldsBoth ==
    ASSUME NEW buf, NEW off \in Nat \ {0}, Len(buf) \in Nat,
           NEW s \in Seq(Item), NEW t \in Seq(Item), Holds(buf, off, s \o t)
    PROVE  Holds(buf, off, s) /\ Holds(buf, off + Len(s), t)
  <1>1. /\ Len(s) \in Nat /\ Len(t) \in Nat /\ Len(s \o t) = Len(s) + Len(t)
        /\ \A j \in 1..Len(s) : (s \o t)[j] = s[j]
        /\ \A j \in 1..Len(t) : (s \o t)[Len(s) + j] = t[j]
    OBVIOUS
  <1> DEFINE c == s \o t
  <1>2. /\ Len(c) = Len(s) + Len(t)
        /\ \A j \in 1..Len(s) : c[j] = s[j]
        /\ \A j \in 1..Len(t) : c[Len(s) + j] = t[j]
        /\ \A j \in 1..Len(c) : off + j - 1 <= Len(buf) => buf[off + j - 1] = c[j]
    BY <1>1 DEF Holds
  <1> HIDE DEF c
  <1>3. ASSUME NEW j \in 1..Len(s), off + j - 1 <= Len(buf) PROVE buf[off + j - 1] = s[j]
    <2>1. j \in 1..Len(c)
      BY <1>1, <1>2
    <2> QED BY <1>2, <1>3, <2>1
  <1>4. ASSUME NEW j \in 1..Len(t), (off + Len(s)) + j - 1 <= Len(buf)
        PROVE  buf[(off + Len(s)) + j - 1] = t[j]
    <2>1. Len(s) + j \in 1..Len(c) /\ off + (Len(s) + j) - 1 = (off + Len(s)) + j - 1
      BY <1>1, <1>2
    <2> QED BY <1>2, <1>4, <2>1
  <1> QED BY <1>3, <1>4 DEF Holds

LEMMA BytesHeld ==
    ASSUME NEW buf \in Seq(Item), NEW off \in Nat \ {0}, NEW s \in Seq(Item),
           Holds(buf, off, s), off + Len(s) - 1 <= Len(buf)
    PROVE  SubSeq(buf, off, off + Len(s) - 1) = s
  <1> DEFINE n == off + Len(s) - 1
             b == SubSeq(buf, off, n)
  <1>0. Len(s) \in Nat /\ Len(buf) \in Nat /\ n \in Int /\ n - off + 1 = Len(s)
    OBVIOUS
  <1>1. \A i \in off..n : buf[i] \in Item
    <2> TAKE i \in off..n
    <2>1. i \in 1..Len(buf)
      BY <1>0
    <2> QED BY <2>1
  <1>2. b \in Seq(Item) /\ Len(b) = (IF off <= n THEN n - off + 1 ELSE 0)
        /\ \A i \in 1..n - off + 1 : b[i] = buf[off + i - 1]
    <2> HIDE DEF n
    <2> QED BY <1>0, <1>1, SubSeqProperties
  <1>3. Len(b) = Len(s)
    BY <1>0, <1>2
  <1>4. ASSUME NEW i \in 1..Len(s) PROVE b[i] = s[i]
    <2>1. off + i - 1 <= Len(buf)
      BY <1>0
    <2>2. buf[off + i - 1] = s[i]
      BY <2>1 DEF Holds
    <2> QED BY <1>0, <1>2, <2>2
  <1> HIDE DEF b
  <1>5. b = s
    BY <1>2, <1>3, <1>4, SeqEqual
  <1> QED BY <1>5 DEF b

-----------------------------------------------------------------------------
(* A column of a tuple. *)

LEMMA ColumnItems ==
    ASSUME NEW c \in ColumnsSent
    PROVE  /\ FieldsOf(c) \in Seq(Item) /\ Len(FieldsOf(c)) \in Nat \ {0}
           /\ c \in {<<"n">>, <<"u">>} => FieldsOf(c) = c /\ Len(c) = 1
  <1>0. "n" \in Item /\ "u" \in Item /\ "t" \in Item /\ \A n \in Nat : n \in Item
    <2>1. "n" \in Words /\ "u" \in Words /\ "t" \in Words
      BY DEF Words
    <2> QED BY <2>1, Items
  <1>1. CASE c \in {<<"n">>, <<"u">>}
    <2>1. c[1] # "t" /\ Len(c) = 1
      BY <1>1
    <2>2. FieldsOf(c) = c
      BY <2>1 DEF FieldsOf
    <2>3. <<"n">> \in Seq(Item) /\ <<"u">> \in Seq(Item)
      BY <1>0
    <2>4. c \in Seq(Item)
      BY <1>1, <2>3, Zenon
    <2>5. FieldsOf(c) \in Seq(Item) /\ Len(FieldsOf(c)) = 1
      BY <2>1, <2>2, <2>4, Zenon
    <2>6. 1 \in Nat \ {0}
      OBVIOUS
    <2>7. Len(FieldsOf(c)) \in Nat \ {0}
      BY <2>5, <2>6, Zenon
    <2> QED BY <2>1, <2>2, <2>5, <2>7, Zenon
  <1>2. CASE c \in TextColumns
    <2>1. PICK text \in Texts : c = <<"t", text>>
      BY <1>2 DEF TextColumns
    <2>2. FieldsOf(c) = <<"t", Len(text)>> \o text /\ c \notin {<<"n">>, <<"u">>}
      BY <2>1 DEF FieldsOf
    <2>3. <<"t", Len(text)>> \in Seq(Item) /\ text \in Seq(Item)
      BY <1>0, TextItems
    <2>4. \A a, b \in Seq(Item) : a \o b \in Seq(Item) /\ Len(a \o b) = Len(a) + Len(b)
      OBVIOUS
    <2>5. Len(FieldsOf(c)) = 2 + Len(text) /\ FieldsOf(c) \in Seq(Item)
      BY <2>2, <2>3, <2>4
    <2> QED BY <2>2, <2>5, TextItems
  <1> QED BY <1>1, <1>2 DEF ColumnsSent

\* What reading a column at off makes of it.
Reading(got, buf, off, c, type) ==
    IF off + Len(FieldsOf(c)) <= Len(buf) + 1
    THEN got = [off |-> off + Len(FieldsOf(c)), value |-> Meant(c, type)]
    ELSE got = [off |-> 0]

(* tuple() reads a column as it was written, and throws on a cut one.      *)
LEMMA ColumnRead ==
    ASSUME NEW buf \in Seq(Item), NEW off \in Nat \ {0}, NEW c \in ColumnsSent, NEW type,
           Holds(buf, off, FieldsOf(c))
    PROVE  Reading(Column(buf, off, type), buf, off, c, type)
  <1>0. Len(buf) \in Nat
    OBVIOUS
  <1>1. CASE ~ (off <= Len(buf))
    <2>1. Column(buf, off, type) = [off |-> 0]
      BY <1>0, <1>1 DEF Column, Has
    <2>2. ~ (off + Len(FieldsOf(c)) <= Len(buf) + 1)
      BY <1>0, <1>1, ColumnItems
    <2> QED BY <2>1, <2>2 DEF Reading
  <1>2. CASE off <= Len(buf) /\ c \in {<<"n">>, <<"u">>}
    <2>1. FieldsOf(c) = c /\ Len(c) = 1
      BY <1>2, ColumnItems
    <2>2. buf[off] = c[1]
      <3>1. 1 \in 1..Len(c) /\ off + 1 - 1 = off
        BY <2>1
      <3> QED BY <1>2, <2>1, <3>1 DEF Holds
    <2>3. c = <<"n">> => Column(buf, off, type) = [off |-> off + 1, value |-> Null]
      BY <1>0, <1>2, <2>2 DEF Column, Has
    <2>4. c = <<"u">> => Column(buf, off, type) = [off |-> off + 1, value |-> Toast]
      BY <1>0, <1>2, <2>2 DEF Column, Has
    <2>5. (c = <<"n">> => Meant(c, type) = Null) /\ (c = <<"u">> => Meant(c, type) = Toast)
      BY DEF Meant
    <2>6. off + 1 <= Len(buf) + 1
      BY <1>0, <1>2
    <2> QED BY <1>2, <2>1, <2>3, <2>4, <2>5, <2>6 DEF Reading
  <1>3. CASE off <= Len(buf) /\ c \in TextColumns
    <2>1. PICK text \in Texts : c = <<"t", text>>
      BY <1>3 DEF TextColumns
    <2>2. FieldsOf(c) = <<"t", Len(text)>> \o text
      BY <2>1 DEF FieldsOf
    <2> DEFINE head == <<"t", Len(text)>>
    <2>3. text \in Seq(Item) /\ Len(text) \in Nat /\ head \in Seq(Item) /\ Len(head) = 2
      <3>1. "t" \in Item /\ \A n \in Nat : n \in Item
        <4>1. "t" \in Words
          BY DEF Words
        <4> QED BY <4>1, Items
      <3> QED BY <3>1, TextItems
    <2>4. head[1] = "t" /\ head[2] = Len(text)
      OBVIOUS
    <2> HIDE DEF head
    <2>5. Holds(buf, off, head) /\ Holds(buf, off + 2, text)
      BY <1>0, <2>2, <2>3, HoldsBoth DEF head
    <2>6. buf[off] = "t" /\ (off + 1 <= Len(buf) => buf[off + 1] = Len(text))
      <3>1. 1 \in 1..Len(head) /\ 2 \in 1..Len(head) /\ off + 1 - 1 = off /\ off + 2 - 1 = off + 1
        BY <2>3
      <3> QED BY <1>3, <2>4, <2>5, <3>1 DEF Holds
    <2>7. Len(FieldsOf(c)) = 2 + Len(text)
      <3>1. \A a, b \in Seq(Item) : Len(a \o b) = Len(a) + Len(b)
        OBVIOUS
      <3> QED BY <2>2, <2>3, <3>1 DEF head
    <2>8. Meant(c, type) = Convert(text, type)
      BY <2>1 DEF Meant
    <2> DEFINE whole == off + 1 <= Len(buf) /\ off + 2 + Len(text) - 1 <= Len(buf)
    <2>9. whole <=> off + Len(FieldsOf(c)) <= Len(buf) + 1
      BY <1>0, <2>3, <2>7
    <2>10. CASE whole
      <3>1. Has(buf, off) /\ Has(buf, off + 1) /\ HasBytes(buf, off + 2, buf[off + 1]) /\ buf[off + 1] = Len(text)
        BY <1>0, <1>3, <2>6, <2>10 DEF Has, HasBytes
      <3>2. SubSeq(buf, off + 2, off + 2 + Len(text) - 1) = text
        BY <2>3, <2>5, <2>10, BytesHeld
      <3>3. Bytes(buf, off + 2, buf[off + 1]) = text
        BY <2>10, <3>1, <3>2 DEF Bytes
      <3>4. Column(buf, off, type) = [off |-> off + 2 + Len(text), value |-> Convert(text, type)]
        BY <2>6, <3>1, <3>3 DEF Column
      <3>5. off + 2 + Len(text) = off + Len(FieldsOf(c))
        BY <2>3, <2>7
      <3> QED BY <2>8, <2>9, <2>10, <3>4, <3>5 DEF Reading
    <2>11. CASE ~whole
      <3>1. ~ (Has(buf, off + 1) /\ HasBytes(buf, off + 2, buf[off + 1]))
        <4>1. CASE ~ (off + 1 <= Len(buf))
          BY <1>0, <4>1 DEF Has
        <4>2. CASE off + 1 <= Len(buf)
          BY <1>0, <2>6, <2>11, <4>2 DEF HasBytes
        <4> QED BY <4>1, <4>2
      <3>2. Column(buf, off, type) = [off |-> 0]
        BY <2>6, <3>1 DEF Column
      <3> QED BY <2>9, <2>11, <3>2 DEF Reading
    <2> QED BY <2>10, <2>11
  <1> QED BY <1>1, <1>2, <1>3 DEF ColumnsSent

-----------------------------------------------------------------------------
(* TupleData: what the server sends of a row. *)

\* g[i] is the tuple up to its i-th column.
Layout(g, row) ==
    /\ g[0] = <<Len(row)>>
    /\ \A i \in 1..Len(row) : g[i] = g[i - 1] \o FieldsOf(row[i])
    /\ \A i \in 0..Len(row) : g[i] \in Seq(Item)

\* the table that TupleData computes, up to n.
IsData(g, row, n) == g = [i \in 0..n |-> IF i = 0 THEN <<Len(row)>> ELSE g[i - 1] \o FieldsOf(row[i])]

LEMMA DataExists ==
    ASSUME NEW row, NEW n \in Nat
    PROVE  \E g : IsData(g, row, n)
  <1> DEFINE T == {i \in Nat : \E g : IsData(g, row, i)}
  <1>1. 0 \in T
    <2> DEFINE p == [i \in 0..0 |-> <<Len(row)>>]
    <2>1. IsData(p, row, 0)
      BY DEF IsData
    <2> QED BY <2>1
  <1>2. ASSUME NEW i \in 1..n, i - 1 \in T PROVE i \in T
    <2>1. PICK p : IsData(p, row, i - 1)
      BY <1>2
    <2> DEFINE Step(f, j) == f[j - 1] \o FieldsOf(row[j])
               q == [j \in 0..i |-> IF j = i THEN Step(p, i) ELSE p[j]]
    <2>2. ASSUME NEW j \in 0..i
          PROVE  q[j] = IF j = 0 THEN <<Len(row)>> ELSE Step(q, j)
      <3>1. CASE j = i
        <4>1. i - 1 \in 0..i /\ i - 1 # i /\ i # 0
          BY <1>2
        <4>2. q[i - 1] = p[i - 1] /\ q[j] = Step(p, i)
          <5> HIDE DEF Step
          <5> QED BY <3>1, <4>1
        <4> HIDE DEF q
        <4>3. Step(q, j) = Step(p, i)
          BY <3>1, <4>2, Zenon
        <4> HIDE DEF Step
        <4> QED BY <3>1, <4>1, <4>2, <4>3
      <3>2. CASE j # i
        <4>1. j \in 0..(i - 1)
          BY <3>2
        <4>2. p[j] = IF j = 0 THEN <<Len(row)>> ELSE Step(p, j)
          BY <2>1, <4>1, Zenon DEF IsData
        <4>3. j # 0 => j - 1 \in 0..i /\ j - 1 # i
          BY <4>1
        <4>4. q[j] = p[j] /\ (j # 0 => q[j - 1] = p[j - 1])
          <5> HIDE DEF Step
          <5> QED BY <3>2, <4>3
        <4> HIDE DEF q
        <4>5. j # 0 => Step(q, j) = Step(p, j)
          BY <4>4, Zenon
        <4> HIDE DEF Step
        <4> QED BY <4>2, <4>4, <4>5
      <3> QED BY <3>1, <3>2
    <2>3. q = [j \in 0..i |-> q[j]]
      <3> HIDE DEF Step
      <3> QED OBVIOUS
    <2> HIDE DEF q
    <2>4. q = [j \in 0..i |-> IF j = 0 THEN <<Len(row)>> ELSE Step(q, j)]
      <3> HIDE DEF Step
      <3> QED BY <2>2, <2>3
    <2>5. IsData(q, row, i)
      BY <2>4, Zenon DEF IsData
    <2> QED BY <1>2, <2>5
  <1>3. 0..n \subseteq T
    <2> HIDE DEF T
    <2> QED BY <1>1, <1>2, UpTo
  <1> QED BY <1>3

LEMMA TupleLayout ==
    ASSUME NEW row \in Seq(ColumnsSent)
    PROVE  \E g : Layout(g, row) /\ TupleData(row) = g[Len(row)]
  <1> DEFINE n == Len(row)
             g == CHOOSE f : f = [i \in 0..n |-> IF i = 0 THEN <<Len(row)>> ELSE f[i - 1] \o FieldsOf(row[i])]
  <1>1. TupleData(row) = g[Len(row)]
    BY Zenon DEF TupleData
  <1>2. n \in Nat
    OBVIOUS
  <1>3. PICK w : IsData(w, row, n)
    BY <1>2, DataExists
  <1>4. IsData(g, row, n)
    BY <1>3, Zenon DEF IsData
  <1> HIDE DEF g
  <1>5. g[0] = <<Len(row)>> /\ \A i \in 1..n : g[i] = g[i - 1] \o FieldsOf(row[i])
    <2> DEFINE Step(i) == g[i - 1] \o FieldsOf(row[i])
    <2>1. \A i \in 0..n : g[i] = IF i = 0 THEN <<Len(row)>> ELSE Step(i)
      BY <1>4, Zenon DEF IsData
    <2>2. 0 \in 0..n /\ \A i \in 1..n : i \in 0..n /\ i # 0
      BY <1>2
    <2> HIDE DEF Step
    <2>3. g[0] = <<Len(row)>> /\ \A i \in 1..n : g[i] = Step(i)
      BY <2>1, <2>2
    <2> QED BY <2>3, Zenon DEF Step
  <1>6. \A i \in 0..n : g[i] \in Seq(Item)
    <2> DEFINE T == {i \in 0..n : g[i] \in Seq(Item)}
    <2>1. 0 \in T
      <3>1. n \in Item
        BY <1>2, Items
      <3>2. <<n>> \in Seq(Item)
        BY <3>1
      <3>3. 0 \in 0..n
        BY <1>2
      <3> QED BY <1>5, <3>2, <3>3, Zenon
    <2>2. ASSUME NEW i \in 1..n, i - 1 \in T PROVE i \in T
      <3>1. row[i] \in ColumnsSent
        BY <2>2
      <3>2. FieldsOf(row[i]) \in Seq(Item) /\ g[i - 1] \in Seq(Item)
        BY <2>2, <3>1, ColumnItems
      <3>3. g[i] = g[i - 1] \o FieldsOf(row[i])
        BY <1>5
      <3>4. \A a, b \in Seq(Item) : a \o b \in Seq(Item)
        OBVIOUS
      <3>5. g[i] \in Seq(Item)
        BY <3>2, <3>3, <3>4, Zenon
      <3>6. i \in 0..n
        BY <1>2
      <3> QED BY <3>5, <3>6
    <2> HIDE DEF T
    <2>3. 0..n \subseteq T
      BY <1>2, <2>1, <2>2, UpTo
    <2> QED BY <2>3 DEF T
  <1> QED BY <1>1, <1>5, <1>6, Zenon DEF Layout

\* Where the columns stand.
LEMMA LayoutLengths ==
    ASSUME NEW row \in Seq(ColumnsSent), NEW g, Layout(g, row)
    PROVE  /\ Len(g[0]) = 1
           /\ \A i \in 1..Len(row) :
                /\ Len(g[i]) = Len(g[i - 1]) + Len(FieldsOf(row[i]))
                /\ Len(FieldsOf(row[i])) \in Nat \ {0} /\ FieldsOf(row[i]) \in Seq(Item)
           /\ \A i \in 0..Len(row) : Len(g[i]) \in Nat
  <1>1. Len(g[0]) = 1
    BY DEF Layout
  <1>2. ASSUME NEW i \in 1..Len(row)
        PROVE  /\ Len(g[i]) = Len(g[i - 1]) + Len(FieldsOf(row[i]))
               /\ Len(FieldsOf(row[i])) \in Nat \ {0} /\ FieldsOf(row[i]) \in Seq(Item)
    <2>1. row[i] \in ColumnsSent /\ i - 1 \in 0..Len(row)
      OBVIOUS
    <2>2. FieldsOf(row[i]) \in Seq(Item) /\ Len(FieldsOf(row[i])) \in Nat \ {0}
      BY <2>1, ColumnItems
    <2>3. g[i] = g[i - 1] \o FieldsOf(row[i]) /\ g[i - 1] \in Seq(Item)
      BY <2>1 DEF Layout
    <2>4. \A a, b \in Seq(Item) : Len(a \o b) = Len(a) + Len(b)
      OBVIOUS
    <2>5. Len(g[i]) = Len(g[i - 1]) + Len(FieldsOf(row[i]))
      BY <2>2, <2>3, <2>4, Zenon
    <2> QED BY <2>2, <2>5, Zenon
  <1>3. \A i \in 0..Len(row) : Len(g[i]) \in Nat
    <2>1. \A s \in Seq(Item) : Len(s) \in Nat
      OBVIOUS
    <2> QED BY <2>1, Zenon DEF Layout
  <1> QED BY <1>1, <1>2, <1>3, Zenon

LEMMA LayoutHeld ==
    ASSUME NEW row \in Seq(ColumnsSent), NEW g, Layout(g, row),
           NEW buf, Len(buf) \in Nat, NEW off \in Nat \ {0}, Holds(buf, off, TupleData(row)),
           TupleData(row) = g[Len(row)]
    PROVE  /\ off <= Len(buf) => buf[off] = Len(row)
           /\ \A i \in 1..Len(row) : Holds(buf, off + Len(g[i - 1]), FieldsOf(row[i]))
  <1> DEFINE n == Len(row)
             T == {k \in 0..n : Holds(buf, off, g[n - k])}
  <1>0. n \in Nat
    OBVIOUS
  <1>1. 0 \in T
    <2>1. n - 0 = n /\ 0 \in 0..n
      BY <1>0
    <2> QED BY <2>1
  <1>2. ASSUME NEW k \in 1..n, k - 1 \in T PROVE k \in T
    <2> DEFINE i == n - (k - 1)
    <2>1. i \in 1..n /\ i - 1 = n - k /\ i - 1 \in 0..n
      BY <1>0
    <2>2. Holds(buf, off, g[i])
      BY <1>2
    <2> HIDE DEF i
    <2>3. g[i] = g[i - 1] \o FieldsOf(row[i]) /\ g[i - 1] \in Seq(Item) /\ FieldsOf(row[i]) \in Seq(Item)
      BY <2>1, LayoutLengths DEF Layout
    <2>4. Holds(buf, off, g[i - 1])
      BY <2>2, <2>3, HoldsBoth
    <2> QED BY <1>2, <1>0, <2>1, <2>4
  <1>3. 0..n \subseteq T
    <2> HIDE DEF T
    <2> QED BY <1>0, <1>1, <1>2, UpTo
  <1>4. ASSUME NEW i \in 0..n PROVE Holds(buf, off, g[i])
    <2>1. n - i \in 0..n /\ n - (n - i) = i
      BY <1>0
    <2>2. Holds(buf, off, g[n - (n - i)])
      BY <1>3, <2>1
    <2> QED BY <2>1, <2>2
  <1>5. ASSUME off <= Len(buf) PROVE buf[off] = Len(row)
    <2>1. Holds(buf, off, g[0]) /\ g[0] = <<Len(row)>>
      BY <1>0, <1>4 DEF Layout
    <2>2. 1 \in 1..Len(<<Len(row)>>) /\ off + 1 - 1 = off /\ <<Len(row)>>[1] = Len(row)
      OBVIOUS
    <2> QED BY <1>5, <2>1, <2>2 DEF Holds
  <1>6. ASSUME NEW i \in 1..n PROVE Holds(buf, off + Len(g[i - 1]), FieldsOf(row[i]))
    <2>1. i \in 0..n /\ i - 1 \in 0..n
      BY <1>0
    <2>2. Holds(buf, off, g[i])
      BY <1>4, <2>1
    <2>3. g[i] = g[i - 1] \o FieldsOf(row[i]) /\ g[i - 1] \in Seq(Item) /\ FieldsOf(row[i]) \in Seq(Item)
      BY <2>1, LayoutLengths DEF Layout
    <2> QED BY <2>2, <2>3, HoldsBoth
  <1> QED BY <1>5, <1>6

-----------------------------------------------------------------------------
(* The row that tuple() fills in, column by column. *)

RowUpTo(shape, row, n) ==
    [name \in {shape[i].name : i \in 1..n} |->
        LET i == CHOOSE i \in 1..n : shape[i].name = name IN Meant(row[i], shape[i].type)]

IsShape(shape) ==
    /\ shape \in Seq([name : STRING, type : STRING]) /\ Len(shape) > 0
    /\ \A i, j \in DOMAIN shape : shape[i].name = shape[j].name => i = j

LEMMA RowIsEmpty == \A shape, row : RowUpTo(shape, row, 0) = <<>>
  <1> TAKE shape, row
  <1> DEFINE V(name) == LET i == CHOOSE i \in 1..0 : shape[i].name = name IN Meant(row[i], shape[i].type)
             r == [name \in {} |-> V(name)]
  <1>1. {shape[i].name : i \in 1..0} = {}
    OBVIOUS
  <1>2. RowUpTo(shape, row, 0) = r
    BY <1>1, Zenon DEF RowUpTo
  <1> HIDE DEF V
  <1>3. r = <<>>
    OBVIOUS
  <1> QED BY <1>2, <1>3

\* The value of a column, whichever of the columns so named is chosen.
LEMMA RowValue ==
    ASSUME NEW shape, IsShape(shape), NEW row, NEW n \in 0..Len(shape), NEW i \in 1..n
    PROVE  /\ shape[i].name \in DOMAIN RowUpTo(shape, row, n)
           /\ RowUpTo(shape, row, n)[shape[i].name] = Meant(row[i], shape[i].type)
  <1> DEFINE name == shape[i].name
             k == CHOOSE j \in 1..n : shape[j].name = name
  <1>1. name \in {shape[j].name : j \in 1..n}
    OBVIOUS
  <1>2. RowUpTo(shape, row, n)[name] = Meant(row[k], shape[k].type)
    BY <1>1, Zenon DEF RowUpTo
  <1>3. k \in 1..n /\ shape[k].name = shape[i].name
    BY Zenon
  <1> HIDE DEF k
  <1>4. k \in DOMAIN shape /\ i \in DOMAIN shape
    BY <1>3 DEF IsShape
  <1>5. k = i
    BY <1>3, <1>4, Zenon DEF IsShape
  <1>6. DOMAIN RowUpTo(shape, row, n) = {shape[j].name : j \in 1..n}
    BY Zenon DEF RowUpTo
  <1> QED BY <1>1, <1>2, <1>5, <1>6, Zenon

LEMMA RowGrows ==
    ASSUME NEW shape, IsShape(shape), NEW row, NEW n \in 1..Len(shape)
    PROVE  SetKey(RowUpTo(shape, row, n - 1), shape[n].name, Meant(row[n], shape[n].type)) = RowUpTo(shape, row, n)
  <1> DEFINE b == RowUpTo(shape, row, n - 1)
             a == RowUpTo(shape, row, n)
             Names(m) == {shape[i].name : i \in 1..m}
             value == Meant(row[n], shape[n].type)
             p == SetKey(b, shape[n].name, value)
  <1>0. Len(shape) \in Nat /\ n - 1 \in 0..Len(shape) /\ n \in 0..Len(shape)
    BY DEF IsShape
  <1>1. DOMAIN b = Names(n - 1) /\ DOMAIN a = Names(n)
    BY Zenon DEF RowUpTo
  <1>2. Names(n) = Names(n - 1) \cup {shape[n].name}
    <2>1. \A i : i \in 1..n <=> i \in 1..(n - 1) \/ i = n
      BY <1>0
    <2> QED BY <2>1
  <1>3. p = [k \in DOMAIN b \cup {shape[n].name} |-> IF k = shape[n].name THEN value ELSE b[k]]
    BY Zenon DEF SetKey
  <1>4. a = [k \in Names(n) |-> a[k]]
    <2> DEFINE V(name) == LET i == CHOOSE i \in 1..n : shape[i].name = name IN Meant(row[i], shape[i].type)
               f == [k \in Names(n) |-> V(k)]
    <2>1. a = f
      BY Zenon DEF RowUpTo
    <2> HIDE DEF V, a, Names
    <2>2. f = [k \in Names(n) |-> f[k]]
      OBVIOUS
    <2> QED BY <2>1, <2>2
  <1>5. ASSUME NEW k \in Names(n)
        PROVE  a[k] = IF k = shape[n].name THEN value ELSE b[k]
    <2>1. PICK i \in 1..n : k = shape[i].name
      OBVIOUS
    <2>2. a[k] = Meant(row[i], shape[i].type)
      BY <1>0, <2>1, RowValue
    <2>3. CASE i = n
      <3> HIDE DEF a, b
      <3> QED BY <2>1, <2>2, <2>3
    <2>4. CASE i # n
      <3>1. i \in 1..(n - 1) /\ i \in DOMAIN shape /\ n \in DOMAIN shape
        BY <1>0, <2>4 DEF IsShape
      <3>2. b[k] = Meant(row[i], shape[i].type)
        BY <1>0, <2>1, <3>1, RowValue
      <3>3. k # shape[n].name
        BY <2>1, <2>4, <3>1, Zenon DEF IsShape
      <3> HIDE DEF a, b
      <3> QED BY <2>2, <3>2, <3>3
    <2> QED BY <2>3, <2>4
  <1> HIDE DEF a, b, p, value, Names
  <1>6. p = a
    BY <1>1, <1>2, <1>3, <1>4, <1>5
  <1> QED BY <1>6 DEF p, a, b, value

\* What reading a tuple at off makes of it.
Takes(got, buf, off, shape, row) ==
    IF off + Len(TupleData(row)) <= Len(buf) + 1
    THEN got = [off |-> off + Len(TupleData(row)), row |-> RowUpTo(shape, row, Len(row))]
    ELSE got.off = 0

\* The tuple as read up to its i-th column.
StepOf(before, col, name) ==
    IF before.off = 0 \/ col.off = 0 THEN [off |-> 0]
    ELSE [off |-> col.off, row |-> SetKey(before.row, name, col.value)]

ReadUpTo(buf, off, shape, row, g, i) ==
    IF off + Len(g[i]) <= Len(buf) + 1
    THEN [off |-> off + Len(g[i]), row |-> RowUpTo(shape, row, i)]
    ELSE [off |-> 0]

LEMMA ReadStep ==
    ASSUME NEW buf \in Seq(Item), NEW off \in Nat \ {0}, NEW shape, IsShape(shape),
           NEW row \in Seq(ColumnsSent), Len(row) = Len(shape), NEW g, Layout(g, row),
           Holds(buf, off, TupleData(row)), TupleData(row) = g[Len(row)], NEW i \in 1..Len(row)
    PROVE  LET before == ReadUpTo(buf, off, shape, row, g, i - 1)
           IN ReadUpTo(buf, off, shape, row, g, i)
                  = StepOf(before, Column(buf, before.off, shape[i].type), shape[i].name)
  <1> DEFINE before == ReadUpTo(buf, off, shape, row, g, i - 1)
             after == ReadUpTo(buf, off, shape, row, g, i)
             col == Column(buf, before.off, shape[i].type)
             at == off + Len(g[i - 1])
             size == Len(FieldsOf(row[i]))
  <1>0. /\ Len(buf) \in Nat /\ i - 1 \in 0..Len(row) /\ i \in 0..Len(row) /\ i \in 1..Len(shape)
        /\ Len(g[i - 1]) \in Nat /\ size \in Nat \ {0} /\ Len(g[i]) = Len(g[i - 1]) + size
    <2>1. Len(buf) \in Nat /\ i - 1 \in 0..Len(row) /\ i \in 0..Len(row) /\ i \in 1..Len(shape)
      OBVIOUS
    <2> QED BY <2>1, LayoutLengths
  <1>9. at \in Nat \ {0} /\ at + size \in Nat /\ size > 0 /\ off + Len(g[i]) = at + size
    <2> DEFINE x == Len(g[i - 1])
               y == Len(g[i])
    <2>1. x \in Nat /\ size \in Nat \ {0} /\ y = x + size
      BY <1>0
    <2> HIDE DEF x, y, size
    <2>2. off + x \in Nat \ {0} /\ (off + x) + size \in Nat /\ size > 0 /\ off + y = (off + x) + size
      BY <2>1
    <2> QED BY <2>2 DEF x, y
  <1>1. CASE ~ (at <= Len(buf) + 1)
    <2>1. before = [off |-> 0]
      BY <1>1 DEF ReadUpTo
    <2>2. after = [off |-> 0]
      <3>1. ~ (off + Len(g[i]) <= Len(buf) + 1)
        <4> HIDE DEF at, size
        <4> QED BY <1>0, <1>9, <1>1
      <3> QED BY <3>1 DEF ReadUpTo
    <2> HIDE DEF before, after, col
    <2>3. StepOf(before, col, shape[i].name) = [off |-> 0]
      BY <2>1 DEF StepOf
    <2> QED BY <2>2, <2>3 DEF before, after, col
  <1>2. CASE at <= Len(buf) + 1
    <2>1. before = [off |-> at, row |-> RowUpTo(shape, row, i - 1)]
      BY <1>2 DEF ReadUpTo
    <2>2. before.off = at /\ at \in Nat \ {0} /\ before.row = RowUpTo(shape, row, i - 1)
      BY <1>0, <2>1
    <2>3. row[i] \in ColumnsSent /\ Holds(buf, at, FieldsOf(row[i]))
      BY <1>0, LayoutHeld
    <2>4. Reading(col, buf, at, row[i], shape[i].type)
      <3> HIDE DEF at, before
      <3> QED BY <2>2, <2>3, ColumnRead
    <2>5. CASE at + size <= Len(buf) + 1
      <3>1. col = [off |-> at + size, value |-> Meant(row[i], shape[i].type)]
        BY <2>4, <2>5 DEF Reading
      <3>2. at + size # 0 /\ at # 0 /\ at + size = off + Len(g[i])
        <4> HIDE DEF at, size
        <4> QED BY <1>9
      <3>3. SetKey(RowUpTo(shape, row, i - 1), shape[i].name, Meant(row[i], shape[i].type)) = RowUpTo(shape, row, i)
        BY <1>0, RowGrows
      <3>4. after = [off |-> at + size, row |-> RowUpTo(shape, row, i)]
        <4>1. off + Len(g[i]) <= Len(buf) + 1
          BY <2>5, <3>2
        <4> HIDE DEF at
        <4> QED BY <3>2, <4>1 DEF ReadUpTo
      <3> HIDE DEF before, after, col, at, size
      <3>5. StepOf(before, col, shape[i].name)
                = [off |-> at + size,
                   row |-> SetKey(RowUpTo(shape, row, i - 1), shape[i].name, Meant(row[i], shape[i].type))]
        BY <2>2, <3>1, <3>2 DEF StepOf
      <3> QED BY <3>3, <3>4, <3>5 DEF before, after, col
    <2>6. CASE ~ (at + size <= Len(buf) + 1)
      <3>1. col = [off |-> 0]
        BY <2>4, <2>6 DEF Reading
      <3>2. after = [off |-> 0]
        <4>1. ~ (off + Len(g[i]) <= Len(buf) + 1)
          <5> HIDE DEF at, size
          <5> QED BY <1>9, <2>6
        <4> QED BY <4>1 DEF ReadUpTo
      <3> HIDE DEF before, after, col
      <3>3. StepOf(before, col, shape[i].name) = [off |-> 0]
        BY <3>1 DEF StepOf
      <3> QED BY <3>2, <3>3 DEF before, after, col
    <2> QED BY <2>5, <2>6
  <1> QED BY <1>1, <1>2

(* tuple() reads a row as it was written, and throws on a cut one.         *)
LEMMA TupleRead ==
    ASSUME NEW buf \in Seq(Item), NEW off \in Nat \ {0}, NEW shape, IsShape(shape),
           NEW row \in Seq(ColumnsSent), Len(row) = Len(shape), Holds(buf, off, TupleData(row))
    PROVE  Takes(Tuple(buf, off, shape), buf, off, shape, row)
  <1> DEFINE count == IF Has(buf, off) THEN buf[off] ELSE 0
             Known(i) == i \in DOMAIN shape
             FirstTuple == [off |-> IF Has(buf, off) THEN off + 1 ELSE 0, row |-> <<>>]
             Col(f, i) == Column(buf, f[i - 1].off, IF Known(i) THEN shape[i].type ELSE "string")
             Name(i) == IF Known(i) THEN shape[i].name ELSE ToString(i)
             Next1(f, i) == IF f[i - 1].off = 0 \/ Col(f, i).off = 0 THEN [off |-> 0]
                            ELSE [off |-> Col(f, i).off, row |-> SetKey(f[i - 1].row, Name(i), Col(f, i).value)]
             Loop(f) == [i \in 0..count |-> IF i = 0 THEN FirstTuple ELSE Next1(f, i)]
             read == CHOOSE f : f = Loop(f)
  <1>0. Len(buf) \in Nat /\ Len(row) \in Nat
    OBVIOUS
  <1>1. Tuple(buf, off, shape) = read[count]
    BY Zenon DEF Tuple
  <1> HIDE DEF Col, Name
  <1>2. PICK g : Layout(g, row) /\ TupleData(row) = g[Len(row)]
    BY TupleLayout
  <1>3. /\ Len(g[0]) = 1 /\ Len(TupleData(row)) \in Nat /\ Len(TupleData(row)) >= 1
        /\ \A i \in 0..Len(row) : Len(g[i]) \in Nat
    <2>1. /\ Len(g[0]) = 1 /\ \A i \in 0..Len(row) : Len(g[i]) \in Nat
          /\ \A i \in 1..Len(row) : Len(g[i]) = Len(g[i - 1]) + Len(FieldsOf(row[i]))
                                    /\ Len(FieldsOf(row[i])) \in Nat \ {0}
      BY <1>2, LayoutLengths
    <2>2. Len(row) \in 0..Len(row) /\ (Len(row) # 0 => Len(row) \in 1..Len(row) /\ Len(row) - 1 \in 0..Len(row))
      BY <1>0
    <2> DEFINE n == Len(row)
    <2>3. Len(g[n]) \in Nat /\ Len(g[n]) >= 1
      <3>1. CASE n = 0
        <4>1. Len(g[0]) = 1
          BY <2>1
        <4> HIDE DEF n
        <4> QED BY <3>1, <4>1
      <3>2. CASE n # 0
        <4> DEFINE x == Len(g[n - 1])
                   y == Len(FieldsOf(row[n]))
        <4>1. Len(g[n]) = x + y /\ x \in Nat /\ y \in Nat \ {0}
          BY <2>1, <2>2, <3>2
        <4> HIDE DEF x, y
        <4> QED BY <4>1
      <3> QED BY <3>1, <3>2
    <2> QED BY <1>2, <2>1, <2>3
  <1>4. CASE ~ (off <= Len(buf))
    <2>1. count = 0 /\ FirstTuple.off = 0
      BY <1>0, <1>4 DEF Has
    <2> DEFINE v == [i \in 0..0 |-> FirstTuple]
    <2>2. v = Loop(v)
      <3> HIDE DEF FirstTuple, Next1, count
      <3> QED BY <2>1
    <2>3. read = Loop(read)
      <3> HIDE DEF Loop, v
      <3> QED BY <2>2, Zenon
    <2> HIDE DEF read
    <2>4. read[0] = FirstTuple
      <3>1. 0 \in 0..count
        BY <2>1
      <3>2. Loop(read)[0] = FirstTuple
        <4> HIDE DEF FirstTuple, Next1, count
        <4> QED BY <3>1
      <3> HIDE DEF Loop
      <3> QED BY <2>3, <3>2
    <2>5. Tuple(buf, off, shape).off = 0
      <3> HIDE DEF FirstTuple, count
      <3> QED BY <1>1, <2>1, <2>4
    <2>6. ~ (off + Len(TupleData(row)) <= Len(buf) + 1)
      BY <1>0, <1>3, <1>4
    <2> QED BY <2>5, <2>6 DEF Takes
  <1>5. CASE off <= Len(buf)
    <2> DEFINE n == Len(row)
               R(i) == ReadUpTo(buf, off, shape, row, g, i)
               v == [i \in 0..n |-> R(i)]
    <2>1. Has(buf, off) /\ buf[off] = n
      BY <1>0, <1>2, <1>5, LayoutHeld DEF Has
    <2>2. count = n
      BY <2>1
    <2>3. FirstTuple = R(0)
      <3>1. RowUpTo(shape, row, 0) = <<>>
        BY RowIsEmpty
      <3>2. off + Len(g[0]) <= Len(buf) + 1
        BY <1>0, <1>3, <1>5
      <3> QED BY <1>3, <2>1, <3>1, <3>2 DEF ReadUpTo
    <2>4. ASSUME NEW i \in 1..n PROVE R(i) = Next1(v, i)
      <3> DEFINE before == ReadUpTo(buf, off, shape, row, g, i - 1)
      <3>1. R(i) = StepOf(before, Column(buf, before.off, shape[i].type), shape[i].name)
        BY <1>2, ReadStep
      <3>2. i - 1 \in 0..n /\ Known(i)
        BY <1>0 DEF IsShape
      <3>3. v[i - 1] = before
        <4> HIDE DEF R
        <4>1. v[i - 1] = R(i - 1)
          BY <3>2
        <4> QED BY <4>1 DEF R
      <3> HIDE DEF before, v
      <3>4. Col(v, i) = Column(buf, before.off, shape[i].type) /\ Name(i) = shape[i].name
        BY <3>2, <3>3 DEF Col, Name
      <3>5. Next1(v, i) = StepOf(before, Col(v, i), Name(i))
        BY <3>3, Zenon DEF StepOf
      <3> QED BY <3>1, <3>4, <3>5, Zenon
    <2>5. v = Loop(v)
      <3> HIDE DEF R, FirstTuple, Next1, count
      <3>1. \A i \in 0..n : i = 0 \/ i \in 1..n
        BY <1>0
      <3>2. \A i \in 0..n : R(i) = IF i = 0 THEN FirstTuple ELSE Next1(v, i)
        <4> HIDE DEF v
        <4> QED BY <2>3, <2>4, <3>1
      <3>3. v = [i \in 0..n |-> IF i = 0 THEN FirstTuple ELSE Next1(v, i)]
        <4> DEFINE u == v
        <4>1. v = [i \in 0..n |-> IF i = 0 THEN FirstTuple ELSE Next1(u, i)]
          <5> HIDE DEF u
          <5>1. \A i \in 0..n : R(i) = IF i = 0 THEN FirstTuple ELSE Next1(u, i)
            BY <3>2 DEF u
          <5> QED BY <5>1
        <4> QED BY <4>1
      <3> QED BY <2>2, <3>3, Zenon
    <2>6. read = Loop(read)
      <3> HIDE DEF Loop, v
      <3> QED BY <2>5, Zenon
    <2> HIDE DEF read
    <2>7. read[0] = R(0) /\ \A i \in 1..n : read[i] = Next1(read, i)
      <3> HIDE DEF FirstTuple, Next1, R
      <3>1. \A i \in 0..n : Loop(read)[i] = IF i = 0 THEN FirstTuple ELSE Next1(read, i)
        <4> HIDE DEF count
        <4> QED BY <2>2
      <3> HIDE DEF Loop
      <3>2. \A i \in 0..n : read[i] = IF i = 0 THEN FirstTuple ELSE Next1(read, i)
        BY <2>6, <3>1
      <3>3. 0 \in 0..n /\ \A i \in 1..n : i \in 0..n /\ i # 0
        BY <1>0
      <3> QED BY <2>3, <3>2, <3>3
    <2>8. \A i \in 0..n : read[i] = v[i]
      <3> DEFINE T == {i \in 0..n : read[i] = v[i]}
      <3>0. v[0] = R(0) /\ 0 \in 0..n
        <4> HIDE DEF R
        <4> QED BY <1>0
      <3>1. 0 \in T
        BY <2>7, <3>0
      <3>2. ASSUME NEW i \in 1..n, i - 1 \in T PROVE i \in T
        <4>1. read[i - 1] = v[i - 1] /\ i \in 0..n
          BY <3>2
        <4> HIDE DEF v
        <4>2. Col(read, i) = Col(v, i)
          BY <4>1, Zenon DEF Col
        <4>3. Next1(read, i) = Next1(v, i)
          BY <4>1, <4>2, Zenon
        <4>4. v[i] = R(i)
          <5> HIDE DEF R
          <5> QED BY <4>1 DEF v
        <4>5. read[i] = v[i]
          <5> HIDE DEF Next1, R
          <5> QED BY <2>4, <2>7, <4>3, <4>4
        <4> QED BY <4>1, <4>5
      <3> HIDE DEF T
      <3>3. 0..n \subseteq T
        BY <1>0, <3>1, <3>2, UpTo
      <3> QED BY <3>3 DEF T
    <2>9. Tuple(buf, off, shape) = R(n)
      <3> HIDE DEF R
      <3>1. n \in 0..n /\ v[n] = R(n)
        BY <1>0
      <3> HIDE DEF v, count
      <3> QED BY <1>1, <2>2, <2>8, <3>1
    <2> QED BY <1>2, <2>9 DEF Takes, ReadUpTo
  <1> QED BY <1>4, <1>5

-----------------------------------------------------------------------------
(* Messages: each read as far as the buffer goes. *)

LEMMA FieldCounts ==
    /\ DOMAIN Fields = {"B", "C", "O", "Y"}
    /\ \A tag \in DOMAIN Fields : Fields[tag] \in 3..5
  <1>1. DOMAIN Fields = {"B", "C", "O", "Y"}
    BY DEF Fields
  <1>2. Fields["B"] = 4 /\ Fields["C"] = 5 /\ Fields["O"] = 3 /\ Fields["Y"] = 4
    BY DEF Fields
  <1> QED BY <1>1, <1>2

(* decode() switches on the tag of a message.                              *)
LEMMA DecodeByTag ==
    ASSUME NEW buf, NEW cache
    PROVE  /\ ~Has(buf, 1) => Decode(buf, cache) = Thrown
           /\ Has(buf, 1) =>
                /\ buf[1] \in {"B", "C", "O", "Y"} => Decode(buf, cache) = DecodeFixed(buf)
                /\ buf[1] = "R" => Decode(buf, cache) = DecodeRelation(buf)
                /\ buf[1] = "T" =>
                     Decode(buf, cache) = IF Has(buf, 2) THEN DecodeTruncate(buf, cache) ELSE Thrown
                /\ buf[1] = "I" =>
                     Decode(buf, cache) = IF Seen(cache, buf) THEN DecodeInsert(buf, Relation(cache, buf[2]))
                                          ELSE Thrown
                /\ buf[1] = "U" =>
                     Decode(buf, cache) = IF Seen(cache, buf) THEN DecodeUpdate(buf, Relation(cache, buf[2]))
                                          ELSE Thrown
                /\ buf[1] = "D" =>
                     Decode(buf, cache) = IF Seen(cache, buf) THEN DecodeDelete(buf, Relation(cache, buf[2]))
                                          ELSE Thrown
  <1>1. CASE ~Has(buf, 1)
    BY <1>1 DEF Decode
  <1>2. CASE Has(buf, 1)
    <2>1. buf[1] \in {"B", "C", "O", "Y"} => Decode(buf, cache) = DecodeFixed(buf)
      BY <1>2, FieldCounts DEF Decode
    <2>2. buf[1] = "R" => Decode(buf, cache) = DecodeRelation(buf)
      BY <1>2, FieldCounts DEF Decode
    <2>3. buf[1] = "T" => Decode(buf, cache) = IF Has(buf, 2) THEN DecodeTruncate(buf, cache) ELSE Thrown
      BY <1>2, FieldCounts DEF Decode
    <2>4. buf[1] = "I" =>
             Decode(buf, cache) = IF Seen(cache, buf) THEN DecodeInsert(buf, Relation(cache, buf[2])) ELSE Thrown
      BY <1>2, FieldCounts DEF Decode
    <2>5. buf[1] = "U" =>
             Decode(buf, cache) = IF Seen(cache, buf) THEN DecodeUpdate(buf, Relation(cache, buf[2])) ELSE Thrown
      BY <1>2, FieldCounts DEF Decode
    <2>6. buf[1] = "D" =>
             Decode(buf, cache) = IF Seen(cache, buf) THEN DecodeDelete(buf, Relation(cache, buf[2])) ELSE Thrown
      BY <1>2, FieldCounts DEF Decode
    <2> QED BY <1>2, <2>1, <2>2, <2>3, <2>4, <2>5, <2>6
  <1> QED BY <1>1, <1>2

\* buf is frame, or frame cut short.
Cut(buf, frame) ==
    /\ buf \in Seq(Item) /\ frame \in Seq(Item)
    /\ Len(buf) <= Len(frame) /\ Holds(buf, 1, frame)

\* What is to come of it: the message of the whole frame, an error for less.
Comes(got, buf, frame, means) == IF Len(buf) = Len(frame) THEN got = means ELSE got = Thrown

Rel(t, shape) == [tag |-> "relation", id |-> t, columns |-> shape]
InCache(cache, t, shape) == t \in DOMAIN cache /\ cache[t] = Rel(t, shape)

IsRow(row, shape) == row \in Seq(ColumnsSent) /\ Len(row) = Len(shape)
WholeRow(shape, row) == RowUpTo(shape, row, Len(row))

LEMMA TupleItems ==
    ASSUME NEW row \in Seq(ColumnsSent)
    PROVE  TupleData(row) \in Seq(Item) /\ Len(TupleData(row)) \in Nat /\ Len(TupleData(row)) >= 1
  <1>1. PICK g : Layout(g, row) /\ TupleData(row) = g[Len(row)]
    BY TupleLayout
  <1> DEFINE n == Len(row)
  <1>2. n \in Nat
    OBVIOUS
  <1>3. /\ Len(g[0]) = 1 /\ \A i \in 0..n : Len(g[i]) \in Nat
        /\ \A i \in 1..n : Len(g[i]) = Len(g[i - 1]) + Len(FieldsOf(row[i]))
                           /\ Len(FieldsOf(row[i])) \in Nat \ {0}
    BY <1>1, LayoutLengths
  <1>4. g[n] \in Seq(Item)
    BY <1>1, <1>2 DEF Layout
  <1> HIDE DEF n
  <1>5. Len(g[n]) \in Nat /\ Len(g[n]) >= 1
    <2>1. CASE n = 0
      <3>1. Len(g[0]) = 1
        BY <1>3
      <3> QED BY <2>1, <3>1
    <2>2. CASE n # 0
      <3>1. n \in 0..n /\ n - 1 \in 0..n /\ n \in 1..n
        BY <1>2, <2>2
      <3> DEFINE x == Len(g[n - 1])
                 y == Len(FieldsOf(row[n]))
      <3>2. Len(g[n]) = x + y /\ x \in Nat /\ y \in Nat \ {0}
        BY <1>3, <3>1
      <3> HIDE DEF x, y
      <3> QED BY <3>2
    <2> QED BY <2>1, <2>2
  <1> QED BY <1>1, <1>4, <1>5 DEF n

LEMMA WordHeld ==
    ASSUME NEW buf, NEW off \in Nat \ {0}, Len(buf) \in Nat, NEW a, Holds(buf, off, <<a>>), off <= Len(buf)
    PROVE  buf[off] = a
  <1>1. Len(<<a>>) = 1 /\ 1 \in 1..1 /\ off + 1 - 1 = off
    OBVIOUS
  <1> QED BY <1>1 DEF Holds

LEMMA PairHeld ==
    ASSUME NEW buf, NEW off \in Nat \ {0}, Len(buf) \in Nat, NEW a, NEW b, Holds(buf, off, <<a, b>>)
    PROVE  (off <= Len(buf) => buf[off] = a) /\ (off + 1 <= Len(buf) => buf[off + 1] = b)
  <1>1. Len(<<a, b>>) = 2 /\ 1 \in 1..2 /\ 2 \in 1..2 /\ off + 1 - 1 = off /\ off + 2 - 1 = off + 1
    OBVIOUS
  <1> QED BY <1>1 DEF Holds

LEMMA TripleHeld ==
    ASSUME NEW buf, NEW off \in Nat \ {0}, Len(buf) \in Nat, NEW a, NEW b, NEW c, Holds(buf, off, <<a, b, c>>)
    PROVE  /\ off <= Len(buf) => buf[off] = a
           /\ off + 1 <= Len(buf) => buf[off + 1] = b
           /\ off + 2 <= Len(buf) => buf[off + 2] = c
  <1>1. /\ Len(<<a, b, c>>) = 3 /\ 1 \in 1..3 /\ 2 \in 1..3 /\ 3 \in 1..3
        /\ off + 1 - 1 = off /\ off + 2 - 1 = off + 1 /\ off + 3 - 1 = off + 2
    OBVIOUS
  <1> QED BY <1>1 DEF Holds

\* A tuple with its kind before it.
LEMMA KindTupleRead ==
    ASSUME NEW buf \in Seq(Item), NEW off \in Nat \ {0}, NEW shape, IsShape(shape), NEW row, IsRow(row, shape),
           NEW kinds, off <= Len(buf) => buf[off] \in kinds, Holds(buf, off + 1, TupleData(row))
    PROVE  LET end == off + 1 + Len(TupleData(row))
               got == KindTuple(buf, off, kinds, shape)
           IN IF end <= Len(buf) + 1 THEN got.off = end /\ got.row = WholeRow(shape, row) ELSE got.off = 0
  <1> DEFINE end == off + 1 + Len(TupleData(row))
             got == KindTuple(buf, off, kinds, shape)
             tuple == Tuple(buf, off + 1, shape)
  <1>0. Len(buf) \in Nat /\ Len(TupleData(row)) \in Nat /\ off + 1 \in Nat \ {0}
    BY TupleItems DEF IsRow
  <1>1. Takes(tuple, buf, off + 1, shape, row)
    BY <1>0, TupleRead DEF IsRow
  <1>2. CASE ~ (off <= Len(buf))
    <2>1. got = [off |-> 0]
      BY <1>0, <1>2 DEF KindTuple, Has
    <2>2. ~ (end <= Len(buf) + 1)
      BY <1>0, <1>2
    <2> HIDE DEF got, end
    <2>3. got.off = 0
      BY <2>1
    <2> QED BY <2>2, <2>3 DEF got, end
  <1>3. CASE off <= Len(buf)
    <2>1. got = tuple
      BY <1>0, <1>3 DEF KindTuple, Has
    <2>2. IF end <= Len(buf) + 1 THEN tuple = [off |-> end, row |-> WholeRow(shape, row)] ELSE tuple.off = 0
      BY <1>1 DEF Takes, WholeRow
    <2> HIDE DEF got, end, tuple
    <2>3. IF end <= Len(buf) + 1 THEN got.off = end /\ got.row = WholeRow(shape, row) ELSE got.off = 0
      BY <2>1, <2>2
    <2> QED BY <2>3 DEF got, end, tuple
  <1> QED BY <1>2, <1>3

\* What is read of the tag, the id and the one tuple of a frame.
OneTuple(buf, frame, got, tag, t, row) ==
    /\ Len(buf) \in Nat
    /\ 1 <= Len(buf) => buf[1] = tag
    /\ 2 <= Len(buf) => buf[2] = t
    /\ Len(buf) = Len(frame) => 2 <= Len(buf) /\ got.off # 0 /\ got.row = row
    /\ Len(buf) # Len(frame) => got.off = 0

\* A frame of one tuple: insert and delete.
LEMMA TupleFrame ==
    ASSUME NEW tag \in Words, NEW t \in Nat, NEW kind \in Words, NEW shape, IsShape(shape),
           NEW row, IsRow(row, shape), NEW kinds, kind \in kinds,
           NEW buf, Cut(buf, <<tag, t, kind>> \o TupleData(row))
    PROVE  OneTuple(buf, <<tag, t, kind>> \o TupleData(row), KindTuple(buf, 3, kinds, shape),
                    tag, t, WholeRow(shape, row))
  <1> DEFINE head == <<tag, t, kind>>
             frame == head \o TupleData(row)
             got == KindTuple(buf, 3, kinds, shape)
  <1>0. /\ buf \in Seq(Item) /\ Len(buf) \in Nat /\ TupleData(row) \in Seq(Item)
        /\ Len(TupleData(row)) \in Nat /\ Len(TupleData(row)) >= 1
    BY TupleItems DEF Cut, IsRow
  <1>1. head \in Seq(Item) /\ Len(head) = 3
    <2>1. tag \in Item /\ kind \in Item /\ t \in Item
      BY Items
    <2> QED BY <2>1
  <1>2. Len(frame) = 3 + Len(TupleData(row)) /\ Len(buf) <= Len(frame)
    <2>1. \A a, b \in Seq(Item) : Len(a \o b) = Len(a) + Len(b)
      OBVIOUS
    <2> HIDE DEF head
    <2>2. Len(frame) = Len(head) + Len(TupleData(row))
      BY <1>0, <1>1, <2>1
    <2> QED BY <1>1, <2>2 DEF Cut, head
  <1>3. Holds(buf, 1, head) /\ Holds(buf, 4, TupleData(row))
    <2>1. Holds(buf, 1, frame) /\ 1 \in Nat \ {0}
      BY DEF Cut
    <2> HIDE DEF head
    <2>2. Holds(buf, 1, head) /\ Holds(buf, 1 + Len(head), TupleData(row))
      BY <1>0, <1>1, <2>1, HoldsBoth
    <2> QED BY <1>1, <2>2
  <1>4. /\ 1 <= Len(buf) => buf[1] = tag
        /\ 2 <= Len(buf) => buf[2] = t
        /\ 3 <= Len(buf) => buf[3] = kind
    <2>1. Holds(buf, 1, <<tag, t, kind>>)
      BY <1>3
    <2>2. /\ 1 <= Len(buf) => buf[1] = tag
          /\ 1 + 1 <= Len(buf) => buf[1 + 1] = t
          /\ 1 + 2 <= Len(buf) => buf[1 + 2] = kind
      BY <1>0, <2>1, 1 \in Nat \ {0}, TripleHeld
    <2> QED BY <2>2
  <1>5. LET end == 3 + 1 + Len(TupleData(row))
        IN IF end <= Len(buf) + 1 THEN got.off = end /\ got.row = WholeRow(shape, row) ELSE got.off = 0
    <2>1. 3 <= Len(buf) => buf[3] \in kinds
      BY <1>4
    <2>2. 3 \in Nat \ {0} /\ 3 + 1 = 4
      OBVIOUS
    <2> QED BY <1>0, <1>3, <2>1, <2>2, KindTupleRead
  <1> HIDE DEF head, got
  <1>6. Len(buf) = Len(frame) => 2 <= Len(buf) /\ got.off # 0 /\ got.row = WholeRow(shape, row)
    <2> HIDE DEF frame
    <2> QED BY <1>0, <1>2, <1>5
  <1>7. Len(buf) # Len(frame) => got.off = 0
    <2> HIDE DEF frame
    <2> QED BY <1>0, <1>2, <1>5
  <1>8. OneTuple(buf, frame, got, tag, t, WholeRow(shape, row))
    <2> HIDE DEF frame
    <2> QED BY <1>0, <1>4, <1>6, <1>7 DEF OneTuple
  <1> QED BY <1>8 DEF head, got

\* A change finds its relation once its id can be read.
LEMMA SeenWhole ==
    ASSUME NEW buf, Len(buf) \in Nat, NEW t, NEW shape, NEW cache, InCache(cache, t, shape),
           2 <= Len(buf) => buf[2] = t
    PROVE  /\ Seen(cache, buf) <=> 2 <= Len(buf)
           /\ 2 <= Len(buf) => Relation(cache, buf[2]) = Rel(t, shape) /\ Relation(cache, buf[2]).columns = shape
           /\ Has(buf, 1) <=> 1 <= Len(buf)
  <1>1. Seen(cache, buf) <=> 2 <= Len(buf)
    BY DEF Seen, Has, InCache
  <1>2. 2 <= Len(buf) => Relation(cache, buf[2]) = Rel(t, shape)
    BY DEF Relation, InCache
  <1>3. Rel(t, shape).columns = shape
    BY DEF Rel
  <1>4. Has(buf, 1) <=> 1 <= Len(buf)
    BY DEF Has
  <1> QED BY <1>1, <1>2, <1>3, <1>4

LEMMA InsertRead ==
    ASSUME NEW t \in Nat, NEW shape, IsShape(shape), NEW row, IsRow(row, shape),
           NEW cache, InCache(cache, t, shape),
           NEW buf, Cut(buf, <<"I", t, "N">> \o TupleData(row))
    PROVE  Comes(Decode(buf, cache), buf, <<"I", t, "N">> \o TupleData(row),
                 [tag |-> "insert", relation |-> Rel(t, shape), new |-> WholeRow(shape, row)])
  <1> DEFINE frame == <<"I", t, "N">> \o TupleData(row)
             new == KindTuple(buf, 3, {"N"}, shape)
  <1>1. /\ Len(buf) \in Nat
        /\ 1 <= Len(buf) => buf[1] = "I"
        /\ 2 <= Len(buf) => buf[2] = t
        /\ Len(buf) = Len(frame) => 2 <= Len(buf) /\ new.off # 0 /\ new.row = WholeRow(shape, row)
        /\ Len(buf) # Len(frame) => new.off = 0
    <2>1. "I" \in Words /\ "N" \in Words /\ "N" \in {"N"}
      BY DEF Words
    <2>2. OneTuple(buf, frame, new, "I", t, WholeRow(shape, row))
      BY <2>1, TupleFrame
    <2> HIDE DEF frame, new
    <2> QED BY <2>2 DEF OneTuple
  <1>2. /\ Seen(cache, buf) <=> 2 <= Len(buf)
        /\ 2 <= Len(buf) => Relation(cache, buf[2]) = Rel(t, shape) /\ Relation(cache, buf[2]).columns = shape
        /\ Has(buf, 1) <=> 1 <= Len(buf)
    BY <1>1, SeenWhole
  <1>3. 2 <= Len(buf) => DecodeInsert(buf, Relation(cache, buf[2]))
            = IF new.off = 0 THEN Thrown ELSE [tag |-> "insert", relation |-> Rel(t, shape), new |-> new.row]
    BY <1>2 DEF DecodeInsert
  <1> HIDE DEF frame, new
  <1>4. Decode(buf, cache) = IF 2 <= Len(buf) THEN DecodeInsert(buf, Relation(cache, buf[2])) ELSE Thrown
    BY <1>1, <1>2, DecodeByTag
  <1> DEFINE got == Decode(buf, cache)
             means == [tag |-> "insert", relation |-> Rel(t, shape), new |-> WholeRow(shape, row)]
  <1>5. IF Len(buf) = Len(frame) THEN got = means ELSE got = Thrown
    BY <1>1, <1>3, <1>4
  <1> QED BY <1>5 DEF Comes, frame

LEMMA DeleteRead ==
    ASSUME NEW t \in Nat, NEW shape, IsShape(shape), NEW row, IsRow(row, shape),
           NEW cache, InCache(cache, t, shape),
           NEW kind \in {"K", "O"}, NEW buf, Cut(buf, <<"D", t, kind>> \o TupleData(row))
    PROVE  Comes(Decode(buf, cache), buf, <<"D", t, kind>> \o TupleData(row),
                 [tag |-> "delete", relation |-> Rel(t, shape), old |-> WholeRow(shape, row)])
  <1> DEFINE frame == <<"D", t, kind>> \o TupleData(row)
             old == KindTuple(buf, 3, {"K", "O"}, shape)
  <1>1. /\ Len(buf) \in Nat
        /\ 1 <= Len(buf) => buf[1] = "D"
        /\ 2 <= Len(buf) => buf[2] = t
        /\ Len(buf) = Len(frame) => 2 <= Len(buf) /\ old.off # 0 /\ old.row = WholeRow(shape, row)
        /\ Len(buf) # Len(frame) => old.off = 0
    <2>1. "D" \in Words /\ kind \in Words
      BY DEF Words
    <2>2. OneTuple(buf, frame, old, "D", t, WholeRow(shape, row))
      BY <2>1, TupleFrame
    <2> HIDE DEF frame, old
    <2> QED BY <2>2 DEF OneTuple
  <1>2. /\ Seen(cache, buf) <=> 2 <= Len(buf)
        /\ 2 <= Len(buf) => Relation(cache, buf[2]) = Rel(t, shape) /\ Relation(cache, buf[2]).columns = shape
        /\ Has(buf, 1) <=> 1 <= Len(buf)
    BY <1>1, SeenWhole
  <1>3. 2 <= Len(buf) => DecodeDelete(buf, Relation(cache, buf[2]))
            = IF old.off = 0 THEN Thrown ELSE [tag |-> "delete", relation |-> Rel(t, shape), old |-> old.row]
    BY <1>2 DEF DecodeDelete
  <1> HIDE DEF frame, old
  <1>4. Decode(buf, cache) = IF 2 <= Len(buf) THEN DecodeDelete(buf, Relation(cache, buf[2])) ELSE Thrown
    BY <1>1, <1>2, DecodeByTag
  <1> DEFINE got == Decode(buf, cache)
             means == [tag |-> "delete", relation |-> Rel(t, shape), old |-> WholeRow(shape, row)]
  <1>5. IF Len(buf) = Len(frame) THEN got = means ELSE got = Thrown
    BY <1>1, <1>3, <1>4
  <1> QED BY <1>5 DEF Comes, frame

LEMMA ConcatItems ==
    \A a, b \in Seq(Item) : a \o b \in Seq(Item) /\ Len(a \o b) = Len(a) + Len(b) /\ Len(a) \in Nat
  OBVIOUS

LEMMA FourParts ==
    ASSUME NEW a \in Seq(Item), NEW b \in Seq(Item), NEW c \in Seq(Item), NEW d \in Seq(Item),
           NEW buf, Cut(buf, a \o b \o c \o d)
    PROVE  /\ Len(a \o b \o c \o d) = Len(a) + Len(b) + Len(c) + Len(d)
           /\ Len(buf) <= Len(a) + Len(b) + Len(c) + Len(d)
           /\ Holds(buf, 1, a) /\ Holds(buf, 1 + Len(a), b)
           /\ Holds(buf, 1 + Len(a) + Len(b), c) /\ Holds(buf, 1 + Len(a) + Len(b) + Len(c), d)
  <1> DEFINE ab == a \o b
             abc == ab \o c
             frame == abc \o d
  <1>1. Holds(buf, 1, frame) /\ Len(buf) \in Nat /\ Len(buf) <= Len(frame)
    BY DEF Cut
  <1>2. /\ ab \in Seq(Item) /\ Len(ab) = Len(a) + Len(b)
        /\ Len(a) \in Nat /\ Len(b) \in Nat /\ Len(c) \in Nat /\ Len(d) \in Nat
    BY ConcatItems
  <1> HIDE DEF ab
  <1>3. abc \in Seq(Item) /\ Len(abc) = Len(ab) + Len(c)
    BY <1>2, ConcatItems
  <1> HIDE DEF abc
  <1>4. Len(frame) = Len(abc) + Len(d)
    BY <1>3, ConcatItems
  <1>5. Holds(buf, 1, abc) /\ Holds(buf, 1 + Len(abc), d)
    BY <1>1, <1>3, 1 \in Nat \ {0}, HoldsBoth
  <1>6. Holds(buf, 1, ab) /\ Holds(buf, 1 + Len(ab), c)
    BY <1>1, <1>2, <1>5, 1 \in Nat \ {0}, HoldsBoth DEF abc
  <1>7. Holds(buf, 1, a) /\ Holds(buf, 1 + Len(a), b)
    BY <1>1, <1>6, 1 \in Nat \ {0}, HoldsBoth DEF ab
  <1> HIDE DEF frame
  <1>8. /\ Len(frame) = Len(a) + Len(b) + Len(c) + Len(d)
        /\ Len(buf) <= Len(a) + Len(b) + Len(c) + Len(d)
        /\ 1 + Len(ab) = 1 + Len(a) + Len(b) /\ 1 + Len(abc) = 1 + Len(a) + Len(b) + Len(c)
    BY <1>1, <1>2, <1>3, <1>4
  <1>9. Holds(buf, 1 + Len(a) + Len(b), c) /\ Holds(buf, 1 + Len(a) + Len(b) + Len(c), d)
    BY <1>5, <1>6, <1>8, Zenon
  <1>10. Len(a \o b \o c \o d) = Len(frame)
    BY DEF frame, abc, ab
  <1> QED BY <1>7, <1>8, <1>9, <1>10

\* What is read of an update.
UpdateMeans(t, shape, old, new) ==
    [tag |-> "update", relation |-> Rel(t, shape), old |-> old, new |-> new]

LEMMA UpdateReadWithOld ==
    ASSUME NEW t \in Nat, NEW shape, IsShape(shape), NEW old, IsRow(old, shape), NEW new, IsRow(new, shape),
           NEW cache, InCache(cache, t, shape), NEW kind \in {"K", "O"},
           NEW buf, Cut(buf, <<"U", t>> \o (<<kind>> \o TupleData(old)) \o <<"N">> \o TupleData(new))
    PROVE  Comes(Decode(buf, cache), buf, <<"U", t>> \o (<<kind>> \o TupleData(old)) \o <<"N">> \o TupleData(new),
                 UpdateMeans(t, shape, WholeRow(shape, old), WholeRow(shape, new)))
  <1> DEFINE head == <<"U", t>>
             mid == <<kind>> \o TupleData(old)
             n == <<"N">>
             frame == head \o mid \o n \o TupleData(new)
             size == Len(TupleData(old))
             rest == Len(TupleData(new))
  <1>0. buf \in Seq(Item) /\ Len(buf) \in Nat
    BY DEF Cut
  <1>1. /\ TupleData(old) \in Seq(Item) /\ size \in Nat /\ size >= 1
        /\ TupleData(new) \in Seq(Item) /\ rest \in Nat /\ rest >= 1
    BY TupleItems DEF IsRow
  <1>2. /\ head \in Seq(Item) /\ Len(head) = 2 /\ n \in Seq(Item) /\ Len(n) = 1
        /\ <<kind>> \in Seq(Item) /\ Len(<<kind>>) = 1
    <2>1. "U" \in Item /\ t \in Item /\ "N" \in Item /\ kind \in Item
      <3>1. "U" \in Words /\ "N" \in Words /\ kind \in Words
        BY DEF Words
      <3> QED BY <3>1, Items
    <2> QED BY <2>1
  <1>3. mid \in Seq(Item) /\ Len(mid) = 1 + size
    <2> DEFINE k == <<kind>>
    <2> HIDE DEF k
    <2>1. k \o TupleData(old) \in Seq(Item) /\ Len(k \o TupleData(old)) = Len(k) + size
      BY <1>1, <1>2, ConcatItems DEF k
    <2> QED BY <1>2, <2>1 DEF k
  <1>4. /\ Len(frame) = 4 + size + rest /\ Len(buf) <= 4 + size + rest
        /\ Holds(buf, 1, head) /\ Holds(buf, 3, mid) /\ Holds(buf, 4 + size, n)
        /\ Holds(buf, 5 + size, TupleData(new))
    <2>0. Cut(buf, frame)
      OBVIOUS
    <2> HIDE DEF head, mid, n
    <2>1. /\ Len(frame) = Len(head) + Len(mid) + Len(n) + rest
          /\ Len(buf) <= Len(head) + Len(mid) + Len(n) + rest
          /\ Holds(buf, 1, head) /\ Holds(buf, 1 + Len(head), mid)
          /\ Holds(buf, 1 + Len(head) + Len(mid), n)
          /\ Holds(buf, 1 + Len(head) + Len(mid) + Len(n), TupleData(new))
      BY <1>1, <1>2, <1>3, <2>0, FourParts
    <2> HIDE DEF frame, size, rest
    <2>2. /\ Len(head) + Len(mid) + Len(n) + rest = 4 + size + rest /\ 1 + Len(head) = 3
          /\ 1 + Len(head) + Len(mid) = 4 + size /\ 1 + Len(head) + Len(mid) + Len(n) = 5 + size
      BY <1>1, <1>2, <1>3
    <2> QED BY <2>1, <2>2
  <1>5. Holds(buf, 3, <<kind>>) /\ Holds(buf, 4, TupleData(old))
    <2> DEFINE k == <<kind>>
    <2>1. Holds(buf, 3, k \o TupleData(old)) /\ 3 \in Nat \ {0} /\ k \in Seq(Item) /\ Len(k) = 1
      BY <1>2, <1>4
    <2> HIDE DEF k
    <2>2. Holds(buf, 3, k) /\ Holds(buf, 3 + Len(k), TupleData(old))
      BY <1>0, <1>1, <2>1, HoldsBoth
    <2> QED BY <2>1, <2>2 DEF k
  <1>6. /\ 1 <= Len(buf) => buf[1] = "U"
        /\ 2 <= Len(buf) => buf[2] = t
        /\ 3 <= Len(buf) => buf[3] = kind
        /\ 4 + size <= Len(buf) => buf[4 + size] = "N"
    <2>1. (1 <= Len(buf) => buf[1] = "U") /\ (1 + 1 <= Len(buf) => buf[1 + 1] = t)
      BY <1>0, <1>4, 1 \in Nat \ {0}, PairHeld
    <2>2. 3 <= Len(buf) => buf[3] = kind
      BY <1>0, <1>5, 3 \in Nat \ {0}, WordHeld
    <2>3. 4 + size <= Len(buf) => buf[4 + size] = "N"
      <3>1. 4 + size \in Nat \ {0}
        BY <1>1
      <3> HIDE DEF size
      <3> QED BY <1>0, <1>4, <3>1, WordHeld
    <2> QED BY <2>1, <2>2, <2>3
  <1> DEFINE first == KindTuple(buf, 3, {"K", "O"}, shape)
             second == KindTuple(buf, 4 + size, {"N"}, shape)
             means == UpdateMeans(t, shape, WholeRow(shape, old), WholeRow(shape, new))
  <1>7. IF 4 + size <= Len(buf) + 1 THEN first.off = 4 + size /\ first.row = WholeRow(shape, old)
        ELSE first.off = 0
    <2>1. 3 <= Len(buf) => buf[3] \in {"K", "O"}
      BY <1>6
    <2>2. LET end == 3 + 1 + Len(TupleData(old))
          IN IF end <= Len(buf) + 1 THEN first.off = end /\ first.row = WholeRow(shape, old) ELSE first.off = 0
      BY <1>0, <1>5, <2>1, 3 \in Nat \ {0}, 3 + 1 = 4, KindTupleRead
    <2> HIDE DEF first
    <2> QED BY <1>1, <2>2
  <1>8. IF 5 + size + rest <= Len(buf) + 1 THEN second.off # 0 /\ second.row = WholeRow(shape, new)
        ELSE second.off = 0
    <2> HIDE DEF size
    <2>1. 4 + size <= Len(buf) => buf[4 + size] \in {"N"}
      BY <1>6
    <2>2. 4 + size \in Nat \ {0} /\ 4 + size + 1 = 5 + size
      BY <1>1
    <2>3. LET end == 4 + size + 1 + Len(TupleData(new))
          IN IF end <= Len(buf) + 1 THEN second.off = end /\ second.row = WholeRow(shape, new) ELSE second.off = 0
      BY <1>0, <1>4, <2>1, <2>2, KindTupleRead
    <2> HIDE DEF second
    <2>4. 4 + size + 1 + rest = 5 + size + rest /\ 5 + size + rest # 0
      BY <1>1
    <2> QED BY <2>3, <2>4
  <1>9. /\ Seen(cache, buf) <=> 2 <= Len(buf)
        /\ 2 <= Len(buf) => Relation(cache, buf[2]) = Rel(t, shape) /\ Relation(cache, buf[2]).columns = shape
        /\ Has(buf, 1) <=> 1 <= Len(buf)
    BY <1>0, <1>6, SeenWhole
  <1> DEFINE hasOld == Has(buf, 3) /\ buf[3] \in {"K", "O"}
             third == KindTuple(buf, IF hasOld THEN first.off ELSE 3, {"N"}, shape)
             got == Decode(buf, cache)
  <1>10. 2 <= Len(buf) => DecodeUpdate(buf, Relation(cache, buf[2]))
            = IF (hasOld /\ first.off = 0) \/ third.off = 0 THEN Thrown
              ELSE UpdateMeans(t, shape, IF hasOld THEN first.row ELSE <<>>, third.row)
    BY <1>9 DEF DecodeUpdate, UpdateMeans
  <1>11. hasOld <=> 3 <= Len(buf)
    BY <1>0, <1>6 DEF Has
  <1>12. ~hasOld => third.off = 0
    <2>1. ~hasOld => third = [off |-> 0]
      BY <1>0, <1>11 DEF KindTuple, Has
    <2> HIDE DEF third, hasOld
    <2> QED BY <2>1
  <1>13. hasOld /\ first.off # 0 => third = second
    <2>1. hasOld /\ first.off # 0 => first.off = 4 + size
      <3> HIDE DEF first, hasOld, size
      <3> QED BY <1>7
    <2> HIDE DEF first, hasOld, size
    <2> QED BY <2>1
  <1>14. got = IF 2 <= Len(buf) THEN DecodeUpdate(buf, Relation(cache, buf[2])) ELSE Thrown
    <2> HIDE DEF hasOld
    <2> QED BY <1>0, <1>6, <1>9, DecodeByTag
  <1> HIDE DEF first, second, third, hasOld, got
  <1>15. Len(buf) = Len(frame) => got = means
    <2> HIDE DEF frame, size, rest, means
    <2> SUFFICES ASSUME Len(buf) = Len(frame) PROVE got = means
      OBVIOUS
    <2>1. Len(buf) = 4 + size + rest /\ 2 <= Len(buf) /\ 3 <= Len(buf)
          /\ 4 + size <= Len(buf) + 1 /\ 5 + size + rest <= Len(buf) + 1 /\ 4 + size # 0
      BY <1>0, <1>1, <1>4
    <2>2. first.off # 0 /\ first.row = WholeRow(shape, old) /\ second.off # 0 /\ second.row = WholeRow(shape, new)
      BY <1>7, <1>8, <2>1
    <2> QED BY <1>10, <1>11, <1>13, <1>14, <2>1, <2>2 DEF means
  <1>16. Len(buf) # Len(frame) => got = Thrown
    <2> HIDE DEF frame, size, rest
    <2> SUFFICES ASSUME Len(buf) # Len(frame) PROVE got = Thrown
      OBVIOUS
    <2>1. ~ (5 + size + rest <= Len(buf) + 1)
      BY <1>0, <1>1, <1>4
    <2>2. second.off = 0
      BY <1>8, <2>1
    <2> QED BY <1>10, <1>12, <1>13, <1>14, <2>2
  <1> HIDE DEF means, frame
  <1> QED BY <1>15, <1>16 DEF Comes, means, frame, got

LEMMA UpdateReadWithoutOld ==
    ASSUME NEW t \in Nat, NEW shape, IsShape(shape), NEW new, IsRow(new, shape),
           NEW cache, InCache(cache, t, shape),
           NEW buf, Cut(buf, <<"U", t>> \o <<>> \o <<"N">> \o TupleData(new))
    PROVE  Comes(Decode(buf, cache), buf, <<"U", t>> \o <<>> \o <<"N">> \o TupleData(new),
                 UpdateMeans(t, shape, <<>>, WholeRow(shape, new)))
  <1> DEFINE head == <<"U", t>>
             mid == <<>>
             n == <<"N">>
             frame == head \o mid \o n \o TupleData(new)
             rest == Len(TupleData(new))
  <1>0. buf \in Seq(Item) /\ Len(buf) \in Nat
    BY DEF Cut
  <1>1. TupleData(new) \in Seq(Item) /\ rest \in Nat /\ rest >= 1
    BY TupleItems DEF IsRow
  <1>2. /\ head \in Seq(Item) /\ Len(head) = 2 /\ n \in Seq(Item) /\ Len(n) = 1
        /\ mid \in Seq(Item) /\ Len(mid) = 0
    <2>1. "U" \in Item /\ t \in Item /\ "N" \in Item
      <3>1. "U" \in Words /\ "N" \in Words
        BY DEF Words
      <3> QED BY <3>1, Items
    <2> QED BY <2>1
  <1>4. /\ Len(frame) = 3 + rest /\ Len(buf) <= 3 + rest
        /\ Holds(buf, 1, head) /\ Holds(buf, 3, n) /\ Holds(buf, 4, TupleData(new))
    <2>0. Cut(buf, frame)
      OBVIOUS
    <2> HIDE DEF head, mid, n
    <2>1. /\ Len(frame) = Len(head) + Len(mid) + Len(n) + rest
          /\ Len(buf) <= Len(head) + Len(mid) + Len(n) + rest
          /\ Holds(buf, 1, head) /\ Holds(buf, 1 + Len(head), mid)
          /\ Holds(buf, 1 + Len(head) + Len(mid), n)
          /\ Holds(buf, 1 + Len(head) + Len(mid) + Len(n), TupleData(new))
      BY <1>1, <1>2, <2>0, FourParts
    <2> HIDE DEF frame, rest
    <2>2. /\ Len(head) + Len(mid) + Len(n) + rest = 3 + rest
          /\ 1 + Len(head) + Len(mid) = 3 /\ 1 + Len(head) + Len(mid) + Len(n) = 4
      BY <1>1, <1>2
    <2> QED BY <2>1, <2>2
  <1>6. /\ 1 <= Len(buf) => buf[1] = "U"
        /\ 2 <= Len(buf) => buf[2] = t
        /\ 3 <= Len(buf) => buf[3] = "N"
    <2>1. (1 <= Len(buf) => buf[1] = "U") /\ (1 + 1 <= Len(buf) => buf[1 + 1] = t)
      BY <1>0, <1>4, 1 \in Nat \ {0}, PairHeld
    <2>2. 3 <= Len(buf) => buf[3] = "N"
      BY <1>0, <1>4, 3 \in Nat \ {0}, WordHeld
    <2> QED BY <2>1, <2>2
  <1> DEFINE first == KindTuple(buf, 3, {"K", "O"}, shape)
             second == KindTuple(buf, 3, {"N"}, shape)
             means == UpdateMeans(t, shape, <<>>, WholeRow(shape, new))
  <1>8. IF 4 + rest <= Len(buf) + 1 THEN second.off # 0 /\ second.row = WholeRow(shape, new)
        ELSE second.off = 0
    <2>1. 3 <= Len(buf) => buf[3] \in {"N"}
      BY <1>6
    <2>3. LET end == 3 + 1 + Len(TupleData(new))
          IN IF end <= Len(buf) + 1 THEN second.off = end /\ second.row = WholeRow(shape, new) ELSE second.off = 0
      BY <1>0, <1>4, <2>1, 3 \in Nat \ {0}, 3 + 1 = 4, KindTupleRead
    <2> HIDE DEF second
    <2>4. 3 + 1 + rest = 4 + rest /\ 4 + rest # 0
      BY <1>1
    <2> QED BY <2>3, <2>4
  <1>9. /\ Seen(cache, buf) <=> 2 <= Len(buf)
        /\ 2 <= Len(buf) => Relation(cache, buf[2]) = Rel(t, shape) /\ Relation(cache, buf[2]).columns = shape
        /\ Has(buf, 1) <=> 1 <= Len(buf)
    BY <1>0, <1>6, SeenWhole
  <1> DEFINE hasOld == Has(buf, 3) /\ buf[3] \in {"K", "O"}
             third == KindTuple(buf, IF hasOld THEN first.off ELSE 3, {"N"}, shape)
             got == Decode(buf, cache)
  <1>10. 2 <= Len(buf) => DecodeUpdate(buf, Relation(cache, buf[2]))
            = IF (hasOld /\ first.off = 0) \/ third.off = 0 THEN Thrown
              ELSE UpdateMeans(t, shape, IF hasOld THEN first.row ELSE <<>>, third.row)
    BY <1>9 DEF DecodeUpdate, UpdateMeans
  <1>11. ~hasOld
    BY <1>0, <1>6 DEF Has
  <1>13. third = second
    <2> HIDE DEF first, hasOld
    <2> QED BY <1>11
  <1>14. got = IF 2 <= Len(buf) THEN DecodeUpdate(buf, Relation(cache, buf[2])) ELSE Thrown
    <2> HIDE DEF hasOld
    <2> QED BY <1>0, <1>6, <1>9, DecodeByTag
  <1> HIDE DEF first, second, third, hasOld, got
  <1>15. Len(buf) = Len(frame) => got = means
    <2> HIDE DEF frame, rest, means
    <2> SUFFICES ASSUME Len(buf) = Len(frame) PROVE got = means
      OBVIOUS
    <2>1. 2 <= Len(buf) /\ 4 + rest <= Len(buf) + 1
      BY <1>0, <1>1, <1>4
    <2>2. second.off # 0 /\ second.row = WholeRow(shape, new)
      BY <1>8, <2>1
    <2> QED BY <1>10, <1>11, <1>13, <1>14, <2>1, <2>2 DEF means
  <1>16. Len(buf) # Len(frame) => got = Thrown
    <2> HIDE DEF frame, rest
    <2> SUFFICES ASSUME Len(buf) # Len(frame) PROVE got = Thrown
      OBVIOUS
    <2>1. ~ (4 + rest <= Len(buf) + 1)
      BY <1>0, <1>1, <1>4
    <2>2. second.off = 0
      BY <1>8, <2>1
    <2> QED BY <1>10, <1>13, <1>14, <2>2
  <1> HIDE DEF means, frame
  <1> QED BY <1>15, <1>16 DEF Comes, means, frame, got

\* Begin, Commit, Origin and Type.
BoundaryFrame(tag) == <<tag>> \o [i \in 1..Fields[tag] - 1 |-> i]
BoundaryMeans(tag) == [tag |-> tag, fields |-> [i \in 1..Fields[tag] - 1 |-> i]]

LEMMA BoundaryItems ==
    ASSUME NEW tag \in DOMAIN Fields
    PROVE  LET fields == [i \in 1..Fields[tag] - 1 |-> i]
           IN /\ <<tag>> \in Seq(Item) /\ Len(<<tag>>) = 1
              /\ fields \in Seq(Item) /\ Len(fields) = Fields[tag] - 1
              /\ BoundaryFrame(tag) \in Seq(Item) /\ Len(BoundaryFrame(tag)) = Fields[tag]
  <1> DEFINE m == Fields[tag] - 1
             fields == [i \in 1..m |-> i]
             word == <<tag>>
  <1>1. m \in Nat /\ 1 + m = Fields[tag]
    BY FieldCounts
  <1>2. tag \in Item
    BY FieldCounts, Items DEF Words
  <1>3. word \in Seq(Item) /\ Len(word) = 1
    BY <1>2
  <1> HIDE DEF m
  <1>4. fields \in Seq(Item) /\ Len(fields) = m
    <2>1. \A i \in 1..m : i \in Item
      BY <1>1, Items
    <2> QED BY <1>1, <2>1
  <1> HIDE DEF fields, word
  <1>5. word \o fields \in Seq(Item) /\ Len(word \o fields) = 1 + m
    BY <1>3, <1>4, ConcatItems
  <1>6. BoundaryFrame(tag) = word \o fields
    BY DEF BoundaryFrame, word, fields, m
  <1> QED BY <1>1, <1>3, <1>4, <1>5, <1>6 DEF word, fields, m

LEMMA BoundaryRead ==
    ASSUME NEW tag \in DOMAIN Fields, NEW cache, NEW buf, Cut(buf, BoundaryFrame(tag))
    PROVE  Comes(Decode(buf, cache), buf, BoundaryFrame(tag), BoundaryMeans(tag))
  <1> DEFINE fields == [i \in 1..Fields[tag] - 1 |-> i]
             word == <<tag>>
             k == Fields[tag]
  <1>0. buf \in Seq(Item) /\ Len(buf) \in Nat /\ k \in 3..5
    BY FieldCounts DEF Cut
  <1>1. /\ word \in Seq(Item) /\ Len(word) = 1 /\ fields \in Seq(Item) /\ Len(fields) = k - 1
        /\ Len(BoundaryFrame(tag)) = k
    BY BoundaryItems
  <1>2. Holds(buf, 1, word) /\ Holds(buf, 2, fields) /\ Len(buf) <= k
    <2>1. Holds(buf, 1, word \o fields) /\ Len(buf) <= k
      BY <1>1 DEF Cut, BoundaryFrame
    <2> HIDE DEF word, fields
    <2>2. Holds(buf, 1, word) /\ Holds(buf, 1 + Len(word), fields)
      BY <1>0, <1>1, <2>1, 1 \in Nat \ {0}, HoldsBoth
    <2> QED BY <1>1, <2>1, <2>2
  <1>3. 1 <= Len(buf) => buf[1] = tag
    BY <1>0, <1>2, 1 \in Nat \ {0}, WordHeld
  <1>4. Has(buf, 1) <=> 1 <= Len(buf)
    BY <1>0 DEF Has
  <1>5. Decode(buf, cache) = IF 1 <= Len(buf) THEN DecodeFixed(buf) ELSE Thrown
    BY <1>3, <1>4, FieldCounts, DecodeByTag
  <1>6. CASE Len(buf) = k
    <2>1. DecodeFixed(buf) = [tag |-> tag, fields |-> SubSeq(buf, 2, k)]
      <3>1. buf[1] = tag /\ Len(buf) = Fields[tag] /\ ~ (Len(buf) < Fields[tag])
        BY <1>0, <1>3, <1>6
      <3> QED BY <3>1 DEF DecodeFixed
    <2>2. SubSeq(buf, 2, 2 + Len(fields) - 1) = fields
      <3>1. 2 + Len(fields) - 1 <= Len(buf)
        <4> HIDE DEF fields
        <4> QED BY <1>0, <1>1, <1>6
      <3> HIDE DEF fields
      <3> QED BY <1>0, <1>1, <1>2, <3>1, 2 \in Nat \ {0}, BytesHeld
    <2>3. 2 + Len(fields) - 1 = k
      <3> HIDE DEF fields
      <3> QED BY <1>0, <1>1
    <2> HIDE DEF fields, k
    <2>4. Decode(buf, cache) = [tag |-> tag, fields |-> fields]
      BY <1>0, <1>5, <1>6, <2>1, <2>2, <2>3
    <2> QED BY <1>1, <1>6, <2>4 DEF Comes, BoundaryMeans, fields
  <1>7. CASE Len(buf) # k
    <2>1. Len(buf) < k
      BY <1>0, <1>2, <1>7
    <2>2. 1 <= Len(buf) => DecodeFixed(buf) = Thrown
      BY <1>3, <2>1 DEF DecodeFixed
    <2>3. Decode(buf, cache) = Thrown
      BY <1>5, <2>2
    <2> QED BY <1>1, <1>7, <2>3 DEF Comes
  <1> QED BY <1>6, <1>7

\* TRUNCATE of two tables.
LEMMA TruncateRead ==
    ASSUME NEW A, A \subseteq Nat, NEW ids \in [1..2 -> A], NEW S,
           NEW cache, \A t \in A : InCache(cache, t, S[t]),
           NEW buf, Cut(buf, <<"T", 2, "cascade">> \o ids)
    PROVE  Comes(Decode(buf, cache), buf, <<"T", 2, "cascade">> \o ids,
                 [tag |-> "truncate", options |-> "cascade",
                  relations |-> [i \in 1..2 |-> Rel(ids[i], S[ids[i]])]])
  <1> DEFINE head == <<"T", 2, "cascade">>
             frame == head \o ids
             means == [tag |-> "truncate", options |-> "cascade",
                       relations |-> [i \in 1..2 |-> Rel(ids[i], S[ids[i]])]]
             got == Decode(buf, cache)
  <1>0. buf \in Seq(Item) /\ Len(buf) \in Nat
    BY DEF Cut
  <1>1. head \in Seq(Item) /\ Len(head) = 3
    <2>1. "T" \in Item /\ 2 \in Item /\ "cascade" \in Item
      <3>1. "T" \in Words /\ "cascade" \in Words
        BY DEF Words
      <3> QED BY <3>1, Items
    <2> QED BY <2>1
  <1>2. ids \in Seq(Item) /\ Len(ids) = 2 /\ DOMAIN ids = 1..2
    <2>1. \A i \in 1..2 : ids[i] \in Item
      BY Items
    <2>2. ids \in [1..2 -> Item] /\ 2 \in Nat
      BY <2>1
    <2> QED BY <2>2
  <1>3. Len(frame) = 5 /\ Len(buf) <= 5 /\ Holds(buf, 1, head) /\ Holds(buf, 4, ids)
    <2>0. Cut(buf, frame)
      OBVIOUS
    <2> HIDE DEF head
    <2>1. Len(frame) = Len(head) + Len(ids)
      BY <1>1, <1>2, ConcatItems
    <2>2. Holds(buf, 1, frame) /\ Len(buf) <= Len(frame)
      BY <2>0 DEF Cut
    <2>3. Holds(buf, 1, head) /\ Holds(buf, 1 + Len(head), ids)
      BY <1>0, <1>1, <1>2, <2>2, 1 \in Nat \ {0}, HoldsBoth
    <2> HIDE DEF frame
    <2> QED BY <1>1, <1>2, <2>1, <2>2, <2>3
  <1>4. /\ 1 <= Len(buf) => buf[1] = "T"
        /\ 2 <= Len(buf) => buf[2] = 2
        /\ 3 <= Len(buf) => buf[3] = "cascade"
    <2>1. Holds(buf, 1, <<"T", 2, "cascade">>)
      BY <1>3
    <2>2. /\ 1 <= Len(buf) => buf[1] = "T"
          /\ 1 + 1 <= Len(buf) => buf[1 + 1] = 2
          /\ 1 + 2 <= Len(buf) => buf[1 + 2] = "cascade"
      BY <1>0, <2>1, 1 \in Nat \ {0}, TripleHeld
    <2> QED BY <2>2
  <1>5. \A k \in 1..5 : Has(buf, k) <=> k <= Len(buf)
    BY <1>0 DEF Has
  <1>6. got = IF 2 <= Len(buf) THEN DecodeTruncate(buf, cache) ELSE Thrown
    <2>1. CASE ~ (1 <= Len(buf))
      <3>1. ~Has(buf, 1)
        BY <1>5, <2>1
      <3> QED BY <1>0, <2>1, <3>1, DecodeByTag
    <2>2. CASE 1 <= Len(buf)
      <3>1. Has(buf, 1) /\ buf[1] = "T" /\ (Has(buf, 2) <=> 2 <= Len(buf))
        BY <1>4, <1>5, <2>2
      <3> QED BY <3>1, DecodeByTag
    <2> QED BY <2>1, <2>2
  <1> HIDE DEF frame, got, means, head
  <1>7. CASE Len(buf) = 5
    <2>1. SubSeq(buf, 4, 4 + Len(ids) - 1) = ids
      <3>1. 4 + Len(ids) - 1 <= Len(buf)
        BY <1>2, <1>7
      <3> QED BY <1>0, <1>2, <1>3, <3>1, 4 \in Nat \ {0}, BytesHeld
    <2>2. buf[2] = 2 /\ buf[3] = "cascade" /\ 3 + buf[2] = 5 /\ SubSeq(buf, 4, 5) = ids
      BY <1>2, <1>4, <1>7, <2>1
    <2>3. \A i \in 1..2 : ids[i] \in DOMAIN cache /\ Relation(cache, ids[i]) = Rel(ids[i], S[ids[i]])
      BY DEF InCache, Relation
    <2>4. Has(buf, 3) /\ Has(buf, 3 + buf[2])
      BY <1>5, <1>7, <2>2
    <2>5. DecodeTruncate(buf, cache) = [tag |-> "truncate", options |-> "cascade",
                                        relations |-> [i \in 1..2 |-> Relation(cache, ids[i])]]
      BY <1>2, <2>2, <2>3, <2>4 DEF DecodeTruncate
    <2>6. [i \in 1..2 |-> Relation(cache, ids[i])] = [i \in 1..2 |-> Rel(ids[i], S[ids[i]])]
      BY <2>3
    <2>7. got = means
      BY <1>6, <1>7, <2>5, <2>6 DEF means
    <2> QED BY <1>3, <1>7, <2>7 DEF Comes, got, frame, head, means
  <1>8. CASE Len(buf) # 5
    <2>1. 2 <= Len(buf) => ~Has(buf, 3) \/ ~Has(buf, 3 + buf[2])
      <3>1. ~Has(buf, 5)
        <4>1. ~ (5 <= Len(buf)) /\ 5 \in 1..5
          <5>1. Len(buf) <= 5
            BY <1>3, Zenon
          <5> DEFINE m == Len(buf)
          <5>2. m \in Nat /\ m # 5 /\ m <= 5
            BY ONLY <1>0, <1>8, <5>1, Zenon
          <5> HIDE DEF m
          <5>3. ~ (5 <= m)
            BY <5>2
          <5> QED BY <5>3 DEF m
        <4> QED BY <1>5, <4>1
      <3> QED BY <1>4, <3>1
    <2>2. 2 <= Len(buf) => DecodeTruncate(buf, cache) = Thrown
      BY <2>1 DEF DecodeTruncate
    <2>3. got = Thrown
      BY <1>6, <2>2
    <2> QED BY <1>3, <1>8, <2>3 DEF Comes, got, frame, head
  <1> QED BY <1>7, <1>8

\* The columns of a table.
LEMMA ColumnOf ==
    ASSUME NEW shape, IsShape(shape)
    PROVE  \A i \in 1..Len(shape) : shape[i] \in [name : STRING, type : STRING]
  <1> DEFINE C == [name : STRING, type : STRING]
  <1>1. shape \in Seq(C)
    BY DEF IsShape
  <1> HIDE DEF C
  <1>2. \A i \in 1..Len(shape) : shape[i] \in C
    BY <1>1
  <1> QED BY <1>2 DEF C

ColumnFields(shape) ==
    [k \in 1..4 * Len(shape) |->
        LET col == shape[(k + 3) \div 4] IN <<"flags", col.name, col.type, "modifier">>[((k - 1) % 4) + 1]]
ShapeHead(t, identity, n) == <<"R", t, "schema.name", identity, n>>

LEMMA ShapeItems ==
    ASSUME NEW t \in Nat, NEW identity \in {"f", "d"}, NEW shape, IsShape(shape)
    PROVE  LET head == ShapeHead(t, identity, Len(shape))
           IN /\ head \in Seq(Item) /\ Len(head) = 5
              /\ ColumnFields(shape) \in Seq(Item) /\ Len(ColumnFields(shape)) = 4 * Len(shape)
              /\ head \o ColumnFields(shape) \in Seq(Item)
              /\ Len(head \o ColumnFields(shape)) = 5 + 4 * Len(shape)
  <1> DEFINE n == Len(shape)
             head == ShapeHead(t, identity, n)
             cols == ColumnFields(shape)
             size == 4 * n
             Word(k) == LET col == shape[(k + 3) \div 4]
                        IN <<"flags", col.name, col.type, "modifier">>[((k - 1) % 4) + 1]
  <1>1. n \in Nat /\ size \in Nat
    BY DEF IsShape
  <1>2. "R" \in Item /\ "schema.name" \in Item /\ "flags" \in Item /\ "modifier" \in Item /\ identity \in Item
        /\ t \in Item /\ n \in Item
    <2>1. "R" \in Words /\ "schema.name" \in Words /\ "flags" \in Words
          /\ "modifier" \in Words /\ identity \in Words
      BY DEF Words
    <2> QED BY <1>1, <2>1, Items
  <1>3. head \in Seq(Item) /\ Len(head) = 5
    <2> HIDE DEF n
    <2> QED BY <1>2 DEF ShapeHead
  <1>4. ASSUME NEW k \in 1..size PROVE Word(k) \in Item
    <2> DEFINE i == (k + 3) \div 4
               j == ((k - 1) % 4) + 1
               col == shape[i]
    <2>1. i \in 1..n /\ j \in 1..4
      <3> HIDE DEF n
      <3> QED BY <1>1
    <2>2. col.name \in Item /\ col.type \in Item
      <3>1. shape \in Seq([name : STRING, type : STRING])
        BY DEF IsShape
      <3>2. shape[i] \in [name : STRING, type : STRING]
        <4>1. \A m \in 1..Len(shape) : shape[m] \in [name : STRING, type : STRING]
          BY ColumnOf
        <4> HIDE DEF i
        <4> QED BY <2>1, <4>1
      <3> HIDE DEF i
      <3> QED BY <3>2, Items
    <2> DEFINE four == <<"flags", col.name, col.type, "modifier">>
    <2>3. four[1] \in Item /\ four[2] \in Item /\ four[3] \in Item /\ four[4] \in Item
      <3> HIDE DEF col
      <3> QED BY <1>2, <2>2
    <2>4. four[j] \in Item
      <3> HIDE DEF four, j
      <3>1. j = 1 \/ j = 2 \/ j = 3 \/ j = 4
        BY <2>1
      <3> QED BY <2>3, <3>1
    <2> QED BY <2>4
  <1>5. cols = [k \in 1..size |-> Word(k)]
    BY DEF ColumnFields
  <1> HIDE DEF Word, size, cols, head
  <1>6. cols \in Seq(Item) /\ Len(cols) = size
    <2>1. cols \in [1..size -> Item]
      BY <1>4, <1>5
    <2> QED BY <1>1, <2>1
  <1>7. head \o cols \in Seq(Item) /\ Len(head \o cols) = 5 + size
    BY <1>3, <1>6, ConcatItems
  <1> QED BY <1>3, <1>6, <1>7 DEF head, cols, size

LEMMA ShapeRead ==
    ASSUME NEW t \in Nat, NEW identity \in {"f", "d"}, NEW shape, IsShape(shape), NEW cache,
           NEW buf, Cut(buf, ShapeHead(t, identity, Len(shape)) \o ColumnFields(shape))
    PROVE  Comes(Decode(buf, cache), buf, ShapeHead(t, identity, Len(shape)) \o ColumnFields(shape),
                 Rel(t, shape))
  <1> DEFINE n == Len(shape)
             size == 4 * n
             head == ShapeHead(t, identity, n)
             cols == ColumnFields(shape)
             frame == head \o cols
             got == Decode(buf, cache)
  <1>0. buf \in Seq(Item) /\ Len(buf) \in Nat /\ n \in Nat /\ size \in Nat
    BY DEF Cut, IsShape
  <1>1. /\ head \in Seq(Item) /\ Len(head) = 5 /\ cols \in Seq(Item) /\ Len(cols) = size
        /\ Len(frame) = 5 + size
    BY ShapeItems
  <1>2. Holds(buf, 1, head) /\ Holds(buf, 6, cols) /\ Len(buf) <= 5 + size
    <2>1. Holds(buf, 1, frame) /\ Len(buf) <= Len(frame)
      BY DEF Cut
    <2> HIDE DEF head, cols
    <2>2. Holds(buf, 1, head) /\ Holds(buf, 1 + Len(head), cols)
      BY <1>0, <1>1, <2>1, 1 \in Nat \ {0}, HoldsBoth
    <2> HIDE DEF frame, size
    <2> QED BY <1>1, <2>1, <2>2
  <1>3. /\ 1 <= Len(buf) => buf[1] = "R"
        /\ 2 <= Len(buf) => buf[2] = t
        /\ 5 <= Len(buf) => buf[5] = n
    <2> HIDE DEF n
    <2>1. head[1] = "R" /\ head[2] = t /\ head[5] = n
      BY DEF ShapeHead
    <2> HIDE DEF head
    <2>2. /\ 1 \in 1..Len(head) /\ 2 \in 1..Len(head) /\ 5 \in 1..Len(head)
          /\ 1 + 1 - 1 = 1 /\ 1 + 2 - 1 = 2 /\ 1 + 5 - 1 = 5
      BY <1>1
    <2> QED BY <1>2, <2>1, <2>2 DEF Holds
  <1>4. \A k \in 1..5 : Has(buf, k) <=> k <= Len(buf)
    BY <1>0 DEF Has
  <1>5. got = IF 1 <= Len(buf) THEN DecodeRelation(buf) ELSE Thrown
    <2>1. (1 <= Len(buf) => Has(buf, 1) /\ buf[1] = "R") /\ (~ (1 <= Len(buf)) => ~Has(buf, 1))
      BY <1>3, <1>4
    <2> QED BY <2>1, DecodeByTag
  <1> HIDE DEF got, frame
  <1>6. CASE Len(buf) = 5 + size
    <2>1. Has(buf, 5) /\ buf[5] = n /\ buf[2] = t /\ ~ (Len(buf) < 5 + size) /\ 1 <= Len(buf)
      BY <1>0, <1>3, <1>4, <1>6
    <2>2. DecodeRelation(buf) = [tag |-> "relation", id |-> t,
              columns |-> [i \in 1..n |-> [name |-> buf[4 * i + 3], type |-> buf[4 * i + 4]]]]
      <3> HIDE DEF n
      <3> QED BY <2>1 DEF DecodeRelation
    <2>3. ASSUME NEW i \in 1..n PROVE [name |-> buf[4 * i + 3], type |-> buf[4 * i + 4]] = shape[i]
      <3> DEFINE a == 4 * i - 2
                 b == 4 * i - 1
      <3>1. /\ a \in 1..size /\ b \in 1..size /\ 6 + a - 1 = 4 * i + 3 /\ 6 + b - 1 = 4 * i + 4
            /\ 6 + a - 1 <= Len(buf) /\ 6 + b - 1 <= Len(buf)
            /\ (a + 3) \div 4 = i /\ (b + 3) \div 4 = i /\ ((a - 1) % 4) + 1 = 2 /\ ((b - 1) % 4) + 1 = 3
        <4> HIDE DEF n
        <4> QED BY <1>0, <1>6
      <3> HIDE DEF a, b
      <3>2. buf[4 * i + 3] = cols[a] /\ buf[4 * i + 4] = cols[b]
        <4> HIDE DEF cols, size
        <4> QED BY <1>1, <1>2, <3>1 DEF Holds
      <3>3. cols[a] = shape[i].name /\ cols[b] = shape[i].type
        <4> DEFINE p(k) == (k + 3) \div 4
                   q(k) == ((k - 1) % 4) + 1
        <4>1. \A k \in 1..size : cols[k] = <<"flags", shape[p(k)].name, shape[p(k)].type, "modifier">>[q(k)]
          BY Zenon DEF ColumnFields
        <4>2. p(a) = i /\ p(b) = i /\ q(a) = 2 /\ q(b) = 3 /\ a \in 1..size /\ b \in 1..size
          BY <3>1
        <4> HIDE DEF cols, p, q, size
        <4>3. /\ cols[a] = <<"flags", shape[i].name, shape[i].type, "modifier">>[2]
              /\ cols[b] = <<"flags", shape[i].name, shape[i].type, "modifier">>[3]
          BY <4>1, <4>2
        <4> QED BY <4>3
      <3>4. shape[i] \in [name : STRING, type : STRING]
        BY ColumnOf
      <3>5. shape[i] = [name |-> shape[i].name, type |-> shape[i].type]
        BY <3>4
      <3> HIDE DEF cols
      <3> QED BY <3>2, <3>3, <3>5
    <2>4. [i \in 1..n |-> [name |-> buf[4 * i + 3], type |-> buf[4 * i + 4]]] = shape
      <3>1. shape = [i \in 1..n |-> shape[i]]
        BY DEF IsShape
      <3>2. [i \in 1..n |-> [name |-> buf[4 * i + 3], type |-> buf[4 * i + 4]]] = [i \in 1..n |-> shape[i]]
        <4> HIDE DEF n
        <4> QED BY <2>3
      <3> QED BY <3>1, <3>2
    <2>5. got = Rel(t, shape)
      BY <1>5, <2>1, <2>2, <2>4 DEF Rel
    <2>6. Len(buf) = Len(frame)
      BY <1>1, <1>6
    <2> QED BY <2>5, <2>6 DEF Comes, got, frame
  <1>7. CASE Len(buf) # 5 + size
    <2>1. Len(buf) < 5 + size
      <3> HIDE DEF size
      <3> QED BY <1>0, <1>2, <1>7
    <2>2. DecodeRelation(buf) = Thrown
      <3>1. CASE ~Has(buf, 5)
        BY <3>1 DEF DecodeRelation
      <3>2. CASE Has(buf, 5)
        <4>1. buf[5] = n
          BY <1>3, <1>4, <3>2
        <4> HIDE DEF n
        <4> QED BY <2>1, <3>2, <4>1 DEF DecodeRelation
      <3> QED BY <3>1, <3>2
    <2>3. got = Thrown
      BY <1>5, <2>2
    <2>4. Len(buf) # Len(frame)
      BY <1>1, <1>7
    <2> QED BY <2>3, <2>4 DEF Comes, got, frame
  <1> QED BY <1>6, <1>7

-----------------------------------------------------------------------------
(* Frames, whole and cut. *)

\* A frame that decodes to what it means, and to an error when cut short.
Good(m, cache) ==
    /\ m.frame \in Seq(Item)
    /\ \A n \in 0..Len(m.frame) :
           Decode(SubSeq(m.frame, 1, n), cache) = IF n = Len(m.frame) THEN m.means ELSE Thrown

LEMMA CutOfFrame ==
    ASSUME NEW frame \in Seq(Item), NEW n \in 0..Len(frame)
    PROVE  Cut(SubSeq(frame, 1, n), frame) /\ Len(SubSeq(frame, 1, n)) = n
  <1> DEFINE b == SubSeq(frame, 1, n)
  <1>0. Len(frame) \in Nat /\ n \in Int /\ n - 1 + 1 = n /\ (1 <= n \/ n = 0) /\ 1 \in Int
    OBVIOUS
  <1>1. \A i \in 1..n : frame[i] \in Item
    OBVIOUS
  <1>2. /\ b \in Seq(Item) /\ Len(b) = (IF 1 <= n THEN n - 1 + 1 ELSE 0)
        /\ \A i \in 1..n - 1 + 1 : b[i] = frame[1 + i - 1]
    BY <1>0, <1>1, SubSeqProperties
  <1> HIDE DEF b
  <1>3. Len(b) = n
    BY <1>0, <1>2
  <1>4. Holds(b, 1, frame)
    <2> SUFFICES ASSUME NEW j \in 1..Len(frame), 1 + j - 1 <= Len(b) PROVE b[1 + j - 1] = frame[j]
      BY DEF Holds
    <2>1. j \in 1..n - 1 + 1 /\ 1 + j - 1 = j
      BY <1>0, <1>3
    <2> QED BY <1>2, <2>1
  <1> QED BY <1>0, <1>2, <1>3, <1>4 DEF Cut, b

LEMMA GoodFrame ==
    ASSUME NEW m, NEW cache, m.frame \in Seq(Item),
           \A buf : Cut(buf, m.frame) => Comes(Decode(buf, cache), buf, m.frame, m.means)
    PROVE  Good(m, cache)
  <1> SUFFICES ASSUME NEW n \in 0..Len(m.frame)
               PROVE  Decode(SubSeq(m.frame, 1, n), cache) = IF n = Len(m.frame) THEN m.means ELSE Thrown
    BY DEF Good
  <1> DEFINE b == SubSeq(m.frame, 1, n)
  <1>1. Cut(b, m.frame) /\ Len(b) = n
    BY CutOfFrame
  <1>2. Comes(Decode(b, cache), b, m.frame, m.means)
    BY <1>1
  <1> QED BY <1>1, <1>2 DEF Comes

LEMMA GoodWhole ==
    ASSUME NEW m, NEW cache, Good(m, cache)
    PROVE  /\ Decode(m.frame, cache) = m.means
           /\ \A n \in 0..Len(m.frame) - 1 : Decode(SubSeq(m.frame, 1, n), cache) = Thrown
  <1>1. m.frame \in Seq(Item) /\ Len(m.frame) \in Nat
    BY DEF Good
  <1>2. SubSeq(m.frame, 1, Len(m.frame)) = m.frame
    BY <1>1, SubSeqFull
  <1>3. Decode(m.frame, cache) = m.means
    <2>1. Len(m.frame) \in 0..Len(m.frame)
      BY <1>1
    <2>2. Decode(SubSeq(m.frame, 1, Len(m.frame)), cache) = m.means
      BY <2>1 DEF Good
    <2> QED BY <1>2, <2>2
  <1>4. ASSUME NEW n \in 0..Len(m.frame) - 1 PROVE Decode(SubSeq(m.frame, 1, n), cache) = Thrown
    <2>1. n \in 0..Len(m.frame) /\ n # Len(m.frame)
      BY <1>1
    <2> QED BY <2>1 DEF Good
  <1> QED BY <1>3, <1>4

-----------------------------------------------------------------------------
(* The decoder and its server. *)

\* The cache has the present shape of every table announced.
Knows(cache, known, shapeOf) == \A t \in known : InCache(cache, t, shapeOf[t])

\* Each frame on its way is good for the cache the decoder will have when it
\* comes to it, and after the last one that cache is up to date.
WireOK ==
    \/ wire = <<>> /\ Knows(relations, announced, shapes)
    \/ \E m : wire = <<m>> /\ Good(m, relations) /\ Knows(Cached(relations, m.means), announced, shapes)
    \/ \E a, b : /\ wire = <<a, b>> /\ Good(a, relations) /\ Good(b, Cached(relations, a.means))
                 /\ Knows(Cached(Cached(relations, a.means), b.means), announced, shapes)

\* Every table has a shape, and its row, if it has one, is of that shape.
TablesOK ==
    /\ shapes \in [Tables -> Shapes] /\ DOMAIN rows = Tables /\ announced \subseteq Tables
    /\ \A t \in Tables : rows[t] = <<>> \/ rows[t] \in Rows(t)

PgoutputInv == TablesOK /\ WireOK

LEMMA TableShape ==
    ASSUME TablesOK, NEW t \in Tables
    PROVE  /\ t \in Nat /\ IsShape(shapes[t]) /\ Len(shapes[t]) \in Nat \ {0}
           /\ DOMAIN shapes[t] = 1..Len(shapes[t])
  <1>1. t \in Nat /\ shapes[t] \in Shapes
    BY PgoutputAssumption DEF TablesOK
  <1>2. IsShape(shapes[t])
    BY <1>1, PgoutputAssumption DEF IsShape
  <1> DEFINE C == [name : STRING, type : STRING]
             s == shapes[t]
  <1>3. s \in Seq(C) /\ Len(s) > 0
    BY <1>2 DEF IsShape
  <1> HIDE DEF C, s
  <1>4. Len(s) \in Nat \ {0} /\ DOMAIN s = 1..Len(s)
    BY <1>3
  <1> QED BY <1>1, <1>2, <1>4 DEF s

LEMMA ValuesAreSent == Values \subseteq ColumnsSent
  BY DEF Values, ColumnsSent, TextColumns

LEMMA IsRowOf ==
    ASSUME TablesOK, NEW t \in Tables, NEW row \in [DOMAIN shapes[t] -> ColumnsSent]
    PROVE  IsRow(row, shapes[t]) /\ DOMAIN row = 1..Len(shapes[t]) /\ DOMAIN row = 1..Len(row)
  <1> DEFINE n == Len(shapes[t])
  <1>1. n \in Nat /\ DOMAIN shapes[t] = 1..n
    BY TableShape
  <1> HIDE DEF n
  <1>2. row \in Seq(ColumnsSent) /\ Len(row) = n /\ DOMAIN row = 1..n
    BY <1>1
  <1> QED BY <1>2 DEF IsRow, n

RowOver(shape, row, D) ==
    [name \in {shape[i].name : i \in D} |->
        LET i == CHOOSE i \in D : shape[i].name = name IN Meant(row[i], shape[i].type)]

LEMMA RowIsWhole ==
    ASSUME NEW t, NEW row, DOMAIN row = 1..Len(row)
    PROVE  Row(t, row) = WholeRow(shapes[t], row)
  <1>1. Row(t, row) = RowOver(shapes[t], row, DOMAIN row)
    BY Zenon DEF Row, RowOver
  <1>2. WholeRow(shapes[t], row) = RowOver(shapes[t], row, 1..Len(row))
    BY Zenon DEF WholeRow, RowUpTo, RowOver
  <1> QED BY <1>1, <1>2, Zenon

LEMMA PairJoined ==
    ASSUME NEW a, NEW b
    PROVE  <<a>> \o <<b>> = <<a, b>>
  <1> DEFINE S == {a, b}
             s == <<a>>
             t == <<b>>
  <1>1. s \in Seq(S) /\ t \in Seq(S) /\ Len(s) = 1 /\ Len(t) = 1 /\ s[1] = a /\ t[1] = b
    OBVIOUS
  <1>2. <<a, b>> \in Seq(S) /\ Len(<<a, b>>) = 2
    OBVIOUS
  <1> HIDE DEF s, t, S
  <1>3. /\ s \o t \in Seq(S) /\ Len(s \o t) = Len(s) + Len(t)
        /\ \A i \in 1..Len(s) + Len(t) : (s \o t)[i] = IF i <= Len(s) THEN s[i] ELSE t[i - Len(s)]
    BY <1>1, ConcatProperties
  <1> DEFINE u == s \o t
  <1>4. u \in Seq(S) /\ Len(u) = 2 /\ u[1] = a /\ u[2] = b
    BY <1>1, <1>3
  <1> HIDE DEF u
  <1>5. u = <<a, b>>
    BY <1>2, <1>4, SeqEqual
  <1> QED BY <1>5 DEF u, s, t

LEMMA SendKeeps ==
    ASSUME TablesOK, WireOK, NEW t \in Tables, NEW frame, NEW means, SendChange(t, frame, means),
           means.tag # "relation",
           \A cache : InCache(cache, t, shapes[t]) => Good([frame |-> frame, means |-> means], cache)
    PROVE  WireOK' /\ announced' \subseteq Tables /\ shapes' = shapes
  <1> DEFINE c == [frame |-> frame, means |-> means]
             a == [frame |-> RelationFrame(t), means |-> Shape(t)]
  <1>1. /\ wire = <<>> /\ wire' = Announcement(t) \o <<c>> /\ announced' = announced \cup {t}
        /\ shapes' = shapes /\ relations' = relations
    BY DEF SendChange
  <1>2. Knows(relations, announced, shapes)
    BY <1>1 DEF WireOK
  <1>3. c.means = means /\ c.frame = frame
    OBVIOUS
  <1>4. \A cache : Cached(cache, c.means) = cache
    BY <1>3 DEF Cached
  <1>5. \A cache : InCache(cache, t, shapes[t]) => Good(c, cache)
    OBVIOUS
  <1>6. \A cache : Knows(cache, announced, shapes) /\ InCache(cache, t, shapes[t])
                      => Knows(cache, announced', shapes)
    <2> TAKE cache
    <2> QED BY <1>1 DEF Knows, InCache
  <1>7. CASE t \in announced
    <2>1. wire' = <<c>>
      <3>1. Announcement(t) = <<>>
        BY <1>7 DEF Announcement
      <3> HIDE DEF c
      <3>2. <<>> \o <<c>> = <<c>>
        OBVIOUS
      <3> QED BY <1>1, <3>1, <3>2
    <2>2. InCache(relations, t, shapes[t])
      BY <1>2, <1>7 DEF Knows
    <2>3. Good(c, relations) /\ Knows(relations, announced', shapes)
      BY <1>2, <1>5, <1>6, <2>2
    <2> HIDE DEF c
    <2>4. Good(c, relations') /\ Knows(Cached(relations', c.means), announced', shapes')
      BY <1>1, <1>4, <2>3
    <2>5. WireOK'
      BY <2>1, <2>4 DEF WireOK
    <2> QED BY <1>1, <2>5 DEF TablesOK
  <1>8. CASE t \notin announced
    <2>1. wire' = <<a, c>>
      <3>1. Announcement(t) = <<a>>
        BY <1>8 DEF Announcement
      <3> HIDE DEF a, c
      <3>2. <<a>> \o <<c>> = <<a, c>>
        BY PairJoined
      <3> QED BY <1>1, <3>1, <3>2
    <2> DEFINE cache == Cached(relations, a.means)
    <2>2. a.means = Rel(t, shapes[t]) /\ Rel(t, shapes[t]).tag = "relation" /\ Rel(t, shapes[t]).id = t
      BY DEF Shape, Rel
    <2>3. cache = SetKey(relations, t, Rel(t, shapes[t]))
      <3> HIDE DEF a
      <3> QED BY <2>2 DEF Cached
    <2>4. InCache(cache, t, shapes[t])
      <3> HIDE DEF cache
      <3> QED BY <2>3 DEF InCache, SetKey
    <2>5. Knows(cache, announced, shapes)
      <3> SUFFICES ASSUME NEW u \in announced PROVE InCache(cache, u, shapes[u])
        BY DEF Knows
      <3>1. u # t /\ InCache(relations, u, shapes[u])
        BY <1>2, <1>8 DEF Knows
      <3> HIDE DEF cache
      <3> QED BY <2>3, <3>1 DEF InCache, SetKey
    <2>6. Good(a, relations)
      <3> DEFINE identity == IF t \in Full THEN "f" ELSE "d"
      <3>1. t \in Nat /\ IsShape(shapes[t]) /\ identity \in {"f", "d"}
        BY TableShape
      <3>2. a.frame = ShapeHead(t, identity, Len(shapes[t])) \o ColumnFields(shapes[t])
        BY DEF RelationFrame, ShapeHead, ColumnFields
      <3> HIDE DEF identity, a
      <3>3. a.frame \in Seq(Item)
        BY <3>1, <3>2, ShapeItems
      <3>4. \A buf : Cut(buf, a.frame) => Comes(Decode(buf, relations), buf, a.frame, a.means)
        BY <2>2, <3>1, <3>2, ShapeRead
      <3> QED BY <3>3, <3>4, GoodFrame
    <2>7. Good(c, cache) /\ Knows(cache, announced', shapes)
      <3> HIDE DEF c, cache
      <3> QED BY <1>5, <1>6, <2>4, <2>5
    <2> HIDE DEF a, c
    <2>8. Knows(Cached(cache, c.means), announced', shapes)
      <3>1. Cached(cache, c.means) = cache
        BY <1>4, Zenon
      <3> HIDE DEF cache
      <3> QED BY <2>7, <3>1
    <2>9. /\ Good(a, relations') /\ Good(c, Cached(relations', a.means))
          /\ Knows(Cached(Cached(relations', a.means), c.means), announced', shapes')
      BY <1>1, <2>6, <2>7, <2>8
    <2>10. WireOK'
      BY <2>1, <2>9 DEF WireOK
    <2> QED BY <1>1, <2>10 DEF TablesOK
  <1> QED BY <1>7, <1>8

LEMMA ChangeItems ==
    ASSUME NEW a \in Words, NEW t \in Nat, NEW k \in Words
    PROVE  /\ <<a, t, k>> \in Seq(Item) /\ <<a, t>> \in Seq(Item) /\ <<k>> \in Seq(Item)
  <1>1. a \in Item /\ t \in Item /\ k \in Item
    BY Items
  <1> QED BY <1>1

\* The row of a table that has one.
LEMMA RowOfTable ==
    ASSUME TablesOK, NEW t \in Tables, rows[t] # <<>>
    PROVE  /\ rows[t] \in [DOMAIN shapes[t] -> ColumnsSent]
           /\ OldRow(t) \in [DOMAIN shapes[t] -> ColumnsSent]
  <1>1. rows[t] \in [DOMAIN shapes[t] -> Values]
    BY DEF TablesOK, Rows
  <1>2. rows[t] \in [DOMAIN shapes[t] -> ColumnsSent]
    BY <1>1, ValuesAreSent
  <1>3. CASE t \in Full
    BY <1>2, <1>3 DEF OldRow
  <1>4. CASE t \notin Full
    <2>1. OldRow(t) = [i \in DOMAIN rows[t] |-> IF i = 1 THEN rows[t][1] ELSE <<"n">>]
      BY <1>4 DEF OldRow
    <2>2. <<"n">> \in ColumnsSent /\ DOMAIN rows[t] = DOMAIN shapes[t]
      BY <1>2 DEF ColumnsSent
    <2>3. \A i \in DOMAIN rows[t] : (IF i = 1 THEN rows[t][1] ELSE <<"n">>) \in ColumnsSent
      BY <1>2, <2>2
    <2> HIDE DEF ColumnsSent
    <2> QED BY <1>2, <2>1, <2>2, <2>3
  <1> QED BY <1>2, <1>3, <1>4

LEMMA InsertKeeps ==
    ASSUME PgoutputInv, NEW t \in Tables, Insert(t)
    PROVE  PgoutputInv'
  <1>1. TablesOK /\ WireOK
    BY DEF PgoutputInv
  <1> DEFINE frame(new) == <<"I", t, "N">> \o TupleData(new)
             means(new) == [tag |-> "insert", relation |-> Shape(t), new |-> Row(t, new)]
  <1>2. PICK new \in Rows(t) : rows' = [rows EXCEPT ![t] = new] /\ SendChange(t, frame(new), means(new))
    BY Zenon DEF Insert
  <1>3. new \in [DOMAIN shapes[t] -> ColumnsSent]
    BY <1>2, ValuesAreSent DEF Rows
  <1>4. /\ t \in Nat /\ IsShape(shapes[t]) /\ IsRow(new, shapes[t])
        /\ Row(t, new) = WholeRow(shapes[t], new) /\ Shape(t) = Rel(t, shapes[t])
    BY <1>1, <1>3, TableShape, IsRowOf, RowIsWhole DEF Shape, Rel
  <1> DEFINE f == frame(new)
             m == means(new)
             c == [frame |-> f, means |-> m]
  <1>5. f \in Seq(Item)
    <2>1. "I" \in Words /\ "N" \in Words
      BY DEF Words
    <2>2. <<"I", t, "N">> \in Seq(Item)
      BY <1>4, <2>1, ChangeItems
    <2>3. TupleData(new) \in Seq(Item)
      BY <1>4, TupleItems DEF IsRow
    <2> QED BY <2>2, <2>3, ConcatItems
  <1>6. ASSUME NEW cache, InCache(cache, t, shapes[t]) PROVE Good(c, cache)
    <2>1. c.frame = f /\ c.means = m
      OBVIOUS
    <2>2. m = [tag |-> "insert", relation |-> Rel(t, shapes[t]), new |-> WholeRow(shapes[t], new)]
      BY <1>4
    <2>3. ASSUME NEW buf, Cut(buf, f) PROVE Comes(Decode(buf, cache), buf, f, m)
      <3> HIDE DEF m
      <3> QED BY <1>4, <1>6, <2>2, <2>3, InsertRead
    <2> HIDE DEF c, f, m
    <2> QED BY <1>5, <2>1, <2>3, GoodFrame
  <1>7. m.tag # "relation" /\ SendChange(t, f, m)
    BY <1>2
  <1> HIDE DEF f, m
  <1>8. WireOK' /\ announced' \subseteq Tables /\ shapes' = shapes
    BY <1>1, <1>6, <1>7, SendKeeps
  <1>9. TablesOK'
    BY <1>1, <1>2, <1>8 DEF TablesOK, Rows
  <1> QED BY <1>8, <1>9 DEF PgoutputInv

LEMMA DeleteKeeps ==
    ASSUME PgoutputInv, NEW t \in Tables, Delete(t)
    PROVE  PgoutputInv'
  <1>1. TablesOK /\ WireOK
    BY DEF PgoutputInv
  <1> DEFINE old == OldRow(t)
             kind == OldKind(t)
             f == <<"D", t, kind>> \o TupleData(old)
             m == [tag |-> "delete", relation |-> Shape(t), old |-> Row(t, old)]
             c == [frame |-> f, means |-> m]
  <1>2. rows[t] # <<>> /\ rows' = [rows EXCEPT ![t] = <<>>] /\ SendChange(t, f, m)
    BY Zenon DEF Delete
  <1>3. old \in [DOMAIN shapes[t] -> ColumnsSent]
    BY <1>1, <1>2, RowOfTable
  <1>4. kind \in {"K", "O"} /\ "D" \in Words /\ kind \in Words
    BY DEF OldKind, Words
  <1> HIDE DEF old, kind
  <1>5. /\ t \in Nat /\ IsShape(shapes[t]) /\ IsRow(old, shapes[t])
        /\ Row(t, old) = WholeRow(shapes[t], old) /\ Shape(t) = Rel(t, shapes[t])
    BY <1>1, <1>3, TableShape, IsRowOf, RowIsWhole DEF Shape, Rel
  <1>6. f \in Seq(Item)
    <2>1. <<"D", t, kind>> \in Seq(Item)
      BY <1>4, <1>5, ChangeItems
    <2>2. TupleData(old) \in Seq(Item)
      BY <1>5, TupleItems DEF IsRow
    <2> QED BY <2>1, <2>2, ConcatItems
  <1>7. ASSUME NEW cache, InCache(cache, t, shapes[t]) PROVE Good(c, cache)
    <2>1. c.frame = f /\ c.means = m
      OBVIOUS
    <2>2. m = [tag |-> "delete", relation |-> Rel(t, shapes[t]), old |-> WholeRow(shapes[t], old)]
      BY <1>5
    <2>3. ASSUME NEW buf, Cut(buf, f) PROVE Comes(Decode(buf, cache), buf, f, m)
      <3> HIDE DEF m
      <3> QED BY <1>4, <1>5, <1>7, <2>2, <2>3, DeleteRead
    <2> HIDE DEF c, f, m
    <2> QED BY <1>6, <2>1, <2>3, GoodFrame
  <1>8. m.tag # "relation"
    OBVIOUS
  <1> HIDE DEF f, m
  <1>9. WireOK' /\ announced' \subseteq Tables /\ shapes' = shapes
    BY <1>1, <1>2, <1>7, <1>8, SendKeeps
  <1>10. TablesOK'
    BY <1>1, <1>2, <1>9 DEF TablesOK, Rows
  <1> QED BY <1>9, <1>10 DEF PgoutputInv

LEMMA UpdateKeeps ==
    ASSUME PgoutputInv, NEW t \in Tables, Update(t)
    PROVE  PgoutputInv'
  <1>1. TablesOK /\ WireOK
    BY DEF PgoutputInv
  <1> DEFINE Sent(new, toasted) == [i \in DOMAIN new |-> IF i \in toasted THEN <<"u">> ELSE new[i]]
             HasOld(new) == t \in Full \/ new[1] # rows[t][1]
             old == OldRow(t)
             kind == OldKind(t)
             UpdateFrame(sent, hasOld) == <<"U", t>> \o (IF hasOld THEN <<kind>> \o TupleData(old) ELSE <<>>)
                                        \o <<"N">> \o TupleData(sent)
             Means(sent, hasOld) == [tag |-> "update", relation |-> Shape(t),
                                     old |-> IF hasOld THEN Row(t, old) ELSE <<>>, new |-> Row(t, sent)]
  <1>2. PICK new \in Rows(t), toasted \in SUBSET DOMAIN shapes[t] :
            /\ rows' = [rows EXCEPT ![t] = new]
            /\ SendChange(t, UpdateFrame(Sent(new, toasted), HasOld(new)), Means(Sent(new, toasted), HasOld(new)))
    BY Zenon DEF Update
  <1>3. rows[t] # <<>>
    BY DEF Update
  <1> DEFINE sent == Sent(new, toasted)
             hasOld == HasOld(new)
             f == UpdateFrame(sent, hasOld)
             m == Means(sent, hasOld)
             c == [frame |-> f, means |-> m]
  <1>4. SendChange(t, f, m)
    BY <1>2
  <1>5. old \in [DOMAIN shapes[t] -> ColumnsSent]
    BY <1>1, <1>3, RowOfTable
  <1>6. sent \in [DOMAIN shapes[t] -> ColumnsSent]
    <2>1. new \in [DOMAIN shapes[t] -> ColumnsSent]
      BY <1>2, ValuesAreSent DEF Rows
    <2>2. <<"u">> \in ColumnsSent
      BY DEF ColumnsSent
    <2> HIDE DEF ColumnsSent
    <2> QED BY <2>1, <2>2
  <1>7. kind \in {"K", "O"} /\ "U" \in Words /\ "N" \in Words /\ kind \in Words
    BY DEF OldKind, Words
  <1>8. m.tag # "relation"
    OBVIOUS
  <1> HIDE DEF old, kind, sent, hasOld
  <1>9. /\ t \in Nat /\ IsShape(shapes[t]) /\ IsRow(old, shapes[t]) /\ IsRow(sent, shapes[t])
        /\ Row(t, old) = WholeRow(shapes[t], old) /\ Row(t, sent) = WholeRow(shapes[t], sent)
        /\ Shape(t) = Rel(t, shapes[t])
    BY <1>1, <1>5, <1>6, TableShape, IsRowOf, RowIsWhole DEF Shape, Rel
  <1>10. /\ <<"U", t>> \in Seq(Item) /\ <<"N">> \in Seq(Item) /\ <<kind>> \in Seq(Item)
         /\ TupleData(old) \in Seq(Item) /\ TupleData(sent) \in Seq(Item)
    <2>1. <<"U", t>> \in Seq(Item) /\ <<"N">> \in Seq(Item) /\ <<kind>> \in Seq(Item)
      BY <1>7, <1>9, ChangeItems
    <2>2. TupleData(old) \in Seq(Item) /\ TupleData(sent) \in Seq(Item)
      BY <1>9, TupleItems DEF IsRow
    <2> QED BY <2>1, <2>2
  <1>11. CASE hasOld
    <2> DEFINE w == <<"U", t>> \o (<<kind>> \o TupleData(old)) \o <<"N">> \o TupleData(sent)
    <2>1. f = w
      BY <1>11
    <2>2. m = UpdateMeans(t, shapes[t], WholeRow(shapes[t], old), WholeRow(shapes[t], sent))
      BY <1>9, <1>11 DEF UpdateMeans
    <2>3. w \in Seq(Item)
      <3> DEFINE u == <<"U", t>>
                 k == <<kind>>
                 n == <<"N">>
      <3>1. u \in Seq(Item) /\ k \in Seq(Item) /\ n \in Seq(Item)
        BY <1>10
      <3> HIDE DEF u, k, n
      <3>2. u \o (k \o TupleData(old)) \o n \o TupleData(sent) \in Seq(Item)
        <4>1. k \o TupleData(old) \in Seq(Item)
          BY <1>10, <3>1, ConcatItems
        <4>2. u \o (k \o TupleData(old)) \in Seq(Item)
          BY <3>1, <4>1, ConcatItems
        <4>3. u \o (k \o TupleData(old)) \o n \in Seq(Item)
          BY <3>1, <4>2, ConcatItems
        <4> QED BY <1>10, <4>3, ConcatItems
      <3> QED BY <3>2 DEF u, k, n
    <2>4. ASSUME NEW cache, InCache(cache, t, shapes[t]) PROVE Good(c, cache)
      <3>1. c.frame = f /\ c.means = m
        OBVIOUS
      <3>2. ASSUME NEW buf, Cut(buf, w) PROVE Comes(Decode(buf, cache), buf, w, m)
        <4> HIDE DEF m
        <4> QED BY <1>7, <1>9, <2>2, <2>4, <3>2, UpdateReadWithOld
      <3> HIDE DEF c, f, m, w
      <3> QED BY <2>1, <2>3, <3>1, <3>2, GoodFrame
    <2> HIDE DEF f, m
    <2>5. WireOK' /\ announced' \subseteq Tables /\ shapes' = shapes
      BY <1>1, <1>4, <1>8, <2>4, SendKeeps
    <2>6. TablesOK'
      BY <1>1, <1>2, <2>5 DEF TablesOK, Rows
    <2> QED BY <2>5, <2>6 DEF PgoutputInv
  <1>12. CASE ~hasOld
    <2> DEFINE w == <<"U", t>> \o <<>> \o <<"N">> \o TupleData(sent)
    <2>1. f = w
      BY <1>12
    <2>2. m = UpdateMeans(t, shapes[t], <<>>, WholeRow(shapes[t], sent))
      BY <1>9, <1>12 DEF UpdateMeans
    <2>3. w \in Seq(Item)
      <3> DEFINE u == <<"U", t>>
                 e == <<>>
                 n == <<"N">>
      <3>1. u \in Seq(Item) /\ e \in Seq(Item) /\ n \in Seq(Item)
        BY <1>10
      <3> HIDE DEF u, e, n
      <3>2. u \o e \o n \o TupleData(sent) \in Seq(Item)
        <4>1. u \o e \in Seq(Item)
          BY <3>1, ConcatItems
        <4>2. u \o e \o n \in Seq(Item)
          BY <3>1, <4>1, ConcatItems
        <4> QED BY <1>10, <4>2, ConcatItems
      <3> QED BY <3>2 DEF u, e, n
    <2>4. ASSUME NEW cache, InCache(cache, t, shapes[t]) PROVE Good(c, cache)
      <3>1. c.frame = f /\ c.means = m
        OBVIOUS
      <3>2. ASSUME NEW buf, Cut(buf, w) PROVE Comes(Decode(buf, cache), buf, w, m)
        <4> HIDE DEF m
        <4> QED BY <1>9, <2>2, <2>4, <3>2, UpdateReadWithoutOld
      <3> HIDE DEF c, f, m, w
      <3> QED BY <2>1, <2>3, <3>1, <3>2, GoodFrame
    <2> HIDE DEF f, m
    <2>5. WireOK' /\ announced' \subseteq Tables /\ shapes' = shapes
      BY <1>1, <1>4, <1>8, <2>4, SendKeeps
    <2>6. TablesOK'
      BY <1>1, <1>2, <2>5 DEF TablesOK, Rows
    <2> QED BY <2>5, <2>6 DEF PgoutputInv
  <1> QED BY <1>11, <1>12

LEMMA AlterKeeps ==
    ASSUME PgoutputInv, NEW t \in Tables, Alter(t)
    PROVE  PgoutputInv'
  <1>1. TablesOK /\ WireOK
    BY DEF PgoutputInv
  <1>2. PICK shape \in Shapes :
            /\ shapes' = [shapes EXCEPT ![t] = shape]
            /\ rows' = [rows EXCEPT ![t] = IF rows[t] = <<>> THEN <<>> ELSE [i \in DOMAIN shape |-> <<"n">>]]
    BY DEF Alter
  <1>3. announced' = announced \ {t} /\ relations' = relations /\ wire' = wire
    BY DEF Alter
  <1>4. shapes' \in [Tables -> Shapes] /\ shapes'[t] = shape /\ \A u \in Tables \ {t} : shapes'[u] = shapes[u]
    BY <1>1, <1>2 DEF TablesOK
  <1>5. DOMAIN rows' = Tables /\ announced' \subseteq Tables
    BY <1>1, <1>2, <1>3 DEF TablesOK
  <1>6. ASSUME NEW u \in Tables PROVE rows'[u] = <<>> \/ rows'[u] \in Rows(u)'
    <2>1. CASE u = t
      <3>1. <<"n">> \in Values
        BY DEF Values
      <3> DEFINE nulls == [i \in DOMAIN shape |-> <<"n">>]
      <3>2. nulls \in [DOMAIN shape -> Values]
        <4> HIDE DEF Values
        <4> QED BY <3>1
      <3> HIDE DEF nulls
      <3>3. rows'[u] = <<>> \/ rows'[u] = nulls
        BY <1>1, <1>2, <2>1 DEF TablesOK, nulls
      <3>4. Rows(u)' = [DOMAIN shape -> Values]
        BY <1>4, <2>1 DEF Rows, Values
      <3> QED BY <3>2, <3>3, <3>4
    <2>2. CASE u # t
      <3>1. rows'[u] = rows[u] /\ shapes'[u] = shapes[u]
        BY <1>1, <1>2, <1>4, <2>2 DEF TablesOK
      <3>2. Rows(u)' = Rows(u)
        BY <3>1 DEF Rows
      <3> QED BY <1>1, <3>1, <3>2 DEF TablesOK
    <2> QED BY <2>1, <2>2
  <1>7. TablesOK'
    BY <1>4, <1>5, <1>6 DEF TablesOK
  <1>8. \A cache : Knows(cache, announced, shapes) => Knows(cache, announced', shapes')
    <2> TAKE cache
    <2>1. \A u \in announced' : u \in announced /\ shapes'[u] = shapes[u]
      BY <1>1, <1>3, <1>4 DEF TablesOK
    <2> QED BY <2>1 DEF Knows
  <1>9. WireOK'
    BY <1>1, <1>3, <1>8 DEF WireOK
  <1> QED BY <1>7, <1>9 DEF PgoutputInv

LEMMA PairItems ==
    ASSUME NEW A, A \subseteq Nat, NEW ids \in [1..2 -> A]
    PROVE  ids \in Seq(Item)
  <1>1. \A i \in 1..2 : ids[i] \in Item
    BY Items
  <1>2. ids \in [1..2 -> Item] /\ 2 \in Nat
    BY <1>1
  <1>3. Seq(Item) = UNION {[1..n -> Item] : n \in Nat}
    BY SeqDef
  <1> QED BY <1>2, <1>3

LEMMA NothingOnWire ==
    ASSUME wire' = <<>>, Knows(relations', announced', shapes')
    PROVE  WireOK'
  BY DEF WireOK

LEMMA OneOnWire ==
    ASSUME NEW c, wire' = <<c>>, Good(c, relations'), Knows(Cached(relations', c.means), announced', shapes')
    PROVE  WireOK'
  BY DEF WireOK

LEMMA TruncateKeeps ==
    ASSUME PgoutputInv, Truncate
    PROVE  PgoutputInv'
  <1>1. TablesOK /\ WireOK
    BY DEF PgoutputInv
  <1> DEFINE ids == CHOOSE s \in [1..2 -> announced] : TRUE
             f == <<"T", 2, "cascade">> \o ids
             m == [tag |-> "truncate", options |-> "cascade", relations |-> [i \in 1..2 |-> Shape(ids[i])]]
             c == [frame |-> f, means |-> m]
  <1>2. /\ wire = <<>> /\ announced # {} /\ wire' = <<c>>
        /\ rows' = [t \in Tables |-> IF t \in announced THEN <<>> ELSE rows[t]]
        /\ shapes' = shapes /\ announced' = announced /\ relations' = relations
    BY Zenon DEF Truncate
  <1>3. ids \in [1..2 -> announced]
    <2>1. \E s : s \in [1..2 -> announced]
      <3>1. PICK t : t \in announced
        BY <1>2
      <3>2. [i \in 1..2 |-> t] \in [1..2 -> announced]
        BY <3>1
      <3> QED BY <3>2
    <2> QED BY <2>1
  <1> HIDE DEF ids
  <1>4. Knows(relations, announced, shapes) /\ announced \subseteq Nat
    <2>1. Knows(relations, announced, shapes)
      BY <1>1, <1>2 DEF WireOK
    <2> QED BY <1>1, <2>1, PgoutputAssumption DEF TablesOK
  <1>5. f \in Seq(Item)
    <2> DEFINE h == <<"T", 2, "cascade">>
    <2>1. h \in Seq(Item)
      <3>1. "T" \in Words /\ "cascade" \in Words /\ 2 \in Nat
        BY DEF Words
      <3> QED BY <3>1, ChangeItems
    <2>2. ids \in Seq(Item)
      BY <1>3, <1>4, PairItems
    <2> HIDE DEF h
    <2>3. h \o ids \in Seq(Item)
      BY <2>1, <2>2, ConcatItems
    <2> QED BY <2>3 DEF h
  <1>6. Good(c, relations)
    <2>1. c.frame = f /\ c.means = m
      OBVIOUS
    <2>2. m = [tag |-> "truncate", options |-> "cascade",
             relations |-> [i \in 1..2 |-> Rel(ids[i], shapes[ids[i]])]]
      BY DEF Shape, Rel
    <2>3. \A t \in announced : InCache(relations, t, shapes[t])
      BY <1>4 DEF Knows
    <2>4. ASSUME NEW buf, Cut(buf, f) PROVE Comes(Decode(buf, relations), buf, f, m)
      <3> HIDE DEF m
      <3> QED BY <1>3, <1>4, <2>2, <2>3, <2>4, TruncateRead
    <2> HIDE DEF c, f, m
    <2> QED BY <1>5, <2>1, <2>4, GoodFrame
  <1>7. Cached(relations, c.means) = relations
    BY DEF Cached
  <1> HIDE DEF c
  <1>8. Good(c, relations') /\ Knows(Cached(relations', c.means), announced', shapes')
    BY <1>2, <1>4, <1>6, <1>7
  <1>9. WireOK'
    BY <1>2, <1>8 DEF WireOK
  <1>10. TablesOK'
    BY <1>1, <1>2 DEF TablesOK, Rows
  <1> QED BY <1>9, <1>10 DEF PgoutputInv

LEMMA BoundaryKeeps ==
    ASSUME PgoutputInv, Boundary
    PROVE  PgoutputInv'
  <1>1. TablesOK /\ WireOK
    BY DEF PgoutputInv
  <1>2. PICK tag \in DOMAIN Fields : wire' = <<[frame |-> BoundaryFrame(tag), means |-> BoundaryMeans(tag)]>>
    BY Zenon DEF Boundary, BoundaryFrame, BoundaryMeans
  <1> DEFINE c == [frame |-> BoundaryFrame(tag), means |-> BoundaryMeans(tag)]
  <1>3. wire = <<>> /\ shapes' = shapes /\ rows' = rows /\ announced' = announced /\ relations' = relations
    BY DEF Boundary
  <1>4. Knows(relations, announced, shapes)
    BY <1>1, <1>3 DEF WireOK
  <1>5. Good(c, relations)
    <2>1. c.frame = BoundaryFrame(tag) /\ c.means = BoundaryMeans(tag)
      OBVIOUS
    <2>2. BoundaryFrame(tag) \in Seq(Item)
      BY BoundaryItems
    <2>3. \A buf : Cut(buf, BoundaryFrame(tag)) =>
              Comes(Decode(buf, relations), buf, BoundaryFrame(tag), BoundaryMeans(tag))
      BY BoundaryRead
    <2> HIDE DEF c
    <2> QED BY <2>1, <2>2, <2>3, GoodFrame
  <1>6. Cached(relations, c.means) = relations
    <2>1. BoundaryMeans(tag).tag # "relation"
      BY FieldCounts DEF BoundaryMeans
    <2> QED BY <2>1 DEF Cached
  <1>7. wire' = <<c>>
    BY <1>2
  <1> HIDE DEF c
  <1>8. Good(c, relations') /\ Knows(Cached(relations', c.means), announced', shapes')
    BY <1>3, <1>4, <1>5, <1>6
  <1>9. WireOK'
    BY <1>7, <1>8 DEF WireOK
  <1>10. TablesOK'
    BY <1>1, <1>3 DEF TablesOK, Rows
  <1> QED BY <1>9, <1>10 DEF PgoutputInv

LEMMA DecodeKeeps ==
    ASSUME PgoutputInv, DecodeFrame
    PROVE  PgoutputInv'
  <1>1. TablesOK /\ WireOK
    BY DEF PgoutputInv
  <1>2. /\ wire # <<>> /\ relations' = Cached(relations, Decode(Head(wire).frame, relations))
        /\ wire' = Tail(wire) /\ shapes' = shapes /\ rows' = rows /\ announced' = announced
    BY DEF DecodeFrame
  <1>3. ASSUME \E m : wire = <<m>> /\ Good(m, relations) /\ Knows(Cached(relations, m.means), announced, shapes)
        PROVE  WireOK'
    <2>1. PICK m : wire = <<m>> /\ Good(m, relations) /\ Knows(Cached(relations, m.means), announced, shapes)
      BY <1>3
    <2>2. Head(wire) = m /\ wire' = <<>>
      BY <1>2, <2>1
    <2>3. relations' = Cached(relations, m.means)
      BY <1>2, <2>1, <2>2, GoodWhole
    <2>4. wire' = <<>> /\ Knows(relations', announced', shapes')
      BY <1>2, <2>1, <2>2, <2>3
    <2> QED BY <2>4, NothingOnWire
  <1>4. ASSUME \E a, b : /\ wire = <<a, b>> /\ Good(a, relations) /\ Good(b, Cached(relations, a.means))
                         /\ Knows(Cached(Cached(relations, a.means), b.means), announced, shapes)
        PROVE  WireOK'
    <2>1. PICK a, b : /\ wire = <<a, b>> /\ Good(a, relations) /\ Good(b, Cached(relations, a.means))
                      /\ Knows(Cached(Cached(relations, a.means), b.means), announced, shapes)
      BY <1>4
    <2>2. Head(wire) = a /\ wire' = <<b>>
      BY <1>2, <2>1
    <2>3. relations' = Cached(relations, a.means)
      BY <1>2, <2>1, <2>2, GoodWhole
    <2>4. wire' = <<b>> /\ Good(b, relations') /\ Knows(Cached(relations', b.means), announced', shapes')
      BY <1>2, <2>1, <2>2, <2>3
    <2> QED BY <2>4, OneOnWire
  <1>5. WireOK'
    <2>1. \/ wire = <<>>
          \/ \E m : wire = <<m>> /\ Good(m, relations) /\ Knows(Cached(relations, m.means), announced, shapes)
          \/ \E a, b : /\ wire = <<a, b>> /\ Good(a, relations) /\ Good(b, Cached(relations, a.means))
                       /\ Knows(Cached(Cached(relations, a.means), b.means), announced, shapes)
      BY <1>1 DEF WireOK
    <2>2. wire # <<>>
      BY <1>2
    <2> QED BY <2>1, <2>2, <1>3, <1>4
  <1>6. TablesOK'
    BY <1>1, <1>2 DEF TablesOK, Rows
  <1> QED BY <1>5, <1>6 DEF PgoutputInv

LEMMA PgoutputStarts == PgoutputInit => PgoutputInv
  <1> SUFFICES ASSUME PgoutputInit PROVE PgoutputInv
    OBVIOUS
  <1>1. TablesOK
    BY DEF PgoutputInit, TablesOK
  <1>2. WireOK
    BY DEF PgoutputInit, WireOK, Knows
  <1> QED BY <1>1, <1>2 DEF PgoutputInv

LEMMA PgoutputSteps == PgoutputInv /\ [PgoutputNext]_pgoutputVars => PgoutputInv'
  <1> SUFFICES ASSUME PgoutputInv, [PgoutputNext]_pgoutputVars PROVE PgoutputInv'
    OBVIOUS
  <1>1. CASE \E t \in Tables : Insert(t) \/ Update(t) \/ Delete(t) \/ Alter(t)
    BY <1>1, InsertKeeps, UpdateKeeps, DeleteKeeps, AlterKeeps
  <1>2. CASE Truncate
    BY <1>2, TruncateKeeps
  <1>3. CASE Boundary
    BY <1>3, BoundaryKeeps
  <1>4. CASE DecodeFrame
    BY <1>4, DecodeKeeps
  <1>5. CASE NewSession
    <2>1. relations' = <<>> /\ wire' = <<>> /\ announced' = {} /\ shapes' = shapes /\ rows' = rows
      BY <1>5 DEF NewSession
    <2>2. WireOK'
      BY <2>1 DEF WireOK, Knows
    <2>3. TablesOK'
      BY <2>1 DEF PgoutputInv, TablesOK, Rows
    <2> QED BY <2>2, <2>3 DEF PgoutputInv
  <1>6. CASE UNCHANGED pgoutputVars
    BY <1>6 DEF pgoutputVars, PgoutputInv, TablesOK, WireOK, Rows
  <1> QED BY <1>1, <1>2, <1>3, <1>4, <1>5, <1>6 DEF PgoutputNext

LEMMA WireDecodes == PgoutputInv => RowsAsWritten /\ PrefixRejected
  <1> SUFFICES ASSUME PgoutputInv, wire # <<>>
               PROVE  /\ Decode(Head(wire).frame, relations) = Head(wire).means
                      /\ \A n \in 0..Len(Head(wire).frame) - 1 :
                             Decode(SubSeq(Head(wire).frame, 1, n), relations) = Thrown
    BY DEF RowsAsWritten, PrefixRejected
  <1>1. Good(Head(wire), relations)
    <2>1. CASE \E m : wire = <<m>> /\ Good(m, relations)
      BY <2>1
    <2>2. CASE \E a, b : wire = <<a, b>> /\ Good(a, relations)
      BY <2>2
    <2> QED BY <2>1, <2>2 DEF PgoutputInv, WireOK
  <1> QED BY <1>1, GoodWhole

(* For any tables, shapes and rows, whatever is altered and however often  *)
(* the session is replaced: the decoder makes of every frame what was      *)
(* written (decode, tuple, convert).                                       *)
THEOREM DecodesAsWritten == PgoutputSpec => []RowsAsWritten
  <1>1. PgoutputInit => PgoutputInv
    BY PgoutputStarts
  <1>2. PgoutputInv /\ [PgoutputNext]_pgoutputVars => PgoutputInv'
    BY PgoutputSteps
  <1>3. PgoutputInv => RowsAsWritten
    BY WireDecodes
  <1> QED BY <1>1, <1>2, <1>3, PTL DEF PgoutputSpec

(* In the same executions a frame cut short at any field is an error and   *)
(* never half a row (Reader).                                              *)
THEOREM CutIsRejected == PgoutputSpec => []PrefixRejected
  <1>1. PgoutputInit => PgoutputInv
    BY PgoutputStarts
  <1>2. PgoutputInv /\ [PgoutputNext]_pgoutputVars => PgoutputInv'
    BY PgoutputSteps
  <1>3. PgoutputInv => PrefixRejected
    BY WireDecodes
  <1> QED BY <1>1, <1>2, <1>3, PTL DEF PgoutputSpec
================================================================================
