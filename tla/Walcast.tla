-------------------------------- MODULE Walcast --------------------------------
(***************************************************************************)
(* The library (walcast.ts over replication/stream.ts): a consumer iterates *)
(* over changes() and calls ack(); the walsender streams the transactions   *)
(* whose commit record is not below the confirmed position of the slot, in  *)
(* commit order, and the library decides which position to report.          *)
(*                                                                          *)
(* WAL positions matter here.  Transactions interleave in the WAL but are   *)
(* streamed at their commit, so an event delivered later may sit at a       *)
(* LOWER position than the commit of an earlier one: event e is the e-th of *)
(* the stream, Lsn[e] its position and Commit[e] that of its commit record, *)
(* which ends at Commit[e] + 1.                                             *)
(*                                                                          *)
(* SinkEngine sees this module as its actions Connect, Receive, Keepalive   *)
(* and SendStatus and its operator Ack.                                     *)
(***************************************************************************)
EXTENDS Naturals, Sequences, FiniteSets

CONSTANTS
    NumEvents,     \* published changes of the WAL, in the order of the stream
    Lsn,           \* the position of each
    Commit,        \* the position of the commit record of its transaction
    EmptyCommits,  \* commits of transactions that change no published table
    WalEnd,        \* the end of the WAL; what is between is other tables'
    AcksAgain,     \* may the consumer repeat the ack of a raw position?
    MaxInFlight,   \* bound: frames sent and not decoded
    MaxEnds        \* bound: sessions that end

Event == 1..NumEvents
Position == 0..WalEnd
Commits == {Commit[e] : e \in Event} \union EmptyCommits

ASSUME WalAssumption ==
    /\ NumEvents \in Nat
    /\ WalEnd \in Nat
    /\ Lsn \in [Event -> Position]
    /\ Commit \in [Event -> Position]
    /\ EmptyCommits \subseteq Position
    /\ \A e \in Event : 0 < Lsn[e] /\ Lsn[e] < Commit[e]
    /\ \A e, f \in Event : e < f => Commit[e] <= Commit[f]
    /\ \A e, f \in Event : e < f /\ Commit[e] = Commit[f] => Lsn[e] <= Lsn[f]
    /\ AcksAgain \in BOOLEAN
    /\ \A c \in Commits : 0 < c /\ c < WalEnd
    /\ EmptyCommits \intersect {Commit[e] : e \in Event} = {}

ASSUME BoundAssumption == MaxInFlight \in Nat \ {0} /\ MaxEnds \in Nat

VARIABLES
    \* PostgreSQL
    confirmed,   \* confirmed_flush_lsn of the slot
    readTo,      \* how far this session's walsender has read
    sending,     \* commit of the transaction it is sending, 0 for none
    sent,        \* the last event it sent
    \* the session
    session,     \* is changes() iterating, and over a live connection?
    wire,        \* frames sent and not yet decoded, in order
    flushed,     \* ReplicationStream.flushed
    \* the pump of changes()
    inTransaction, commitLsn, lastEvent,
    decoded,     \* the last event decoded
    out,         \* Walcast.outstanding: event |-> ackLsn
    \* the consumer
    yielded,     \* the last event the iteration yielded
    held,        \* events it was yielded in this process, and may acknowledge
    acked,       \* every event up to this one has been acknowledged
    ends

server   == <<confirmed, readTo, sending, sent>>
pump     == <<inTransaction, commitLsn, lastEvent, decoded>>
consumer == <<yielded, held, acked>>
vars == <<server, session, wire, flushed, pump, out, consumer, ends>>

Larger(a, b) == IF a < b THEN b ELSE a

(* As in SinkEngine, the operators named M... are mistakes this code could   *)
(* contain and the run must detect.                                          *)

\* Frames of the stream.  event is the change sent, or the one sent last
\* before a begin, a commit or a keepalive; tx is the transaction the stream
\* is in after the frame.
Frame == [tag : {"begin", "change", "commit", "keepalive"},
          lsn : Position, event : 0..NumEvents, tx : {0} \union Commits]

-----------------------------------------------------------------------------
(* The walsender, an external program. *)

\* n counts the events of the transactions that commit below l.
IsCut(n, l) == \A e \in Event : e <= n <=> Commit[e] < l

\* changes(): START_REPLICATION at 0/0, which the server takes for the
\* confirmed position of the slot.  What was outstanding is forgotten.
StartSession ==
    /\ \/ session = "none"
       \/ session = "stopped" /\ wire = <<>>
       \/ session = "failed" /\ wire = <<>> /\ yielded = decoded
    /\ \E n \in 0..NumEvents :
          /\ IsCut(n, confirmed)
          /\ sent' = n /\ decoded' = n /\ yielded' = n
    /\ session' = "live"
    /\ readTo' = confirmed
    /\ sending' = 0
    /\ wire' = <<>>
    /\ flushed' = 0
    /\ inTransaction' = FALSE /\ commitLsn' = 0 /\ lastEvent' = 0
    /\ out' = [e \in {} |-> 0]
    /\ UNCHANGED <<confirmed, held, acked, ends>>

Send(tag, lsn) ==
    /\ session = "live"
    /\ Len(wire) < MaxInFlight
    /\ wire' = Append(wire, [tag |-> tag, lsn |-> lsn,
                             event |-> sent', tx |-> sending'])

SendBegin ==
    /\ sending = 0
    /\ \E c \in Commits :
          /\ c >= readTo
          /\ \A d \in Commits : d >= readTo => c <= d
          /\ sending' = c /\ sent' = sent
          /\ Send("begin", c)
    /\ UNCHANGED <<confirmed, readTo, session, flushed, pump, out,
                   consumer, ends>>

More == sent < NumEvents /\ Commit[sent + 1] = sending

SendChange ==
    /\ sending # 0 /\ More
    /\ sent' = sent + 1 /\ sending' = sending
    /\ Send("change", Lsn[sent + 1])
    /\ UNCHANGED <<confirmed, readTo, session, flushed, pump, out, consumer,
                   ends>>

SendCommit ==
    /\ sending # 0 /\ ~More
    /\ sending' = 0 /\ sent' = sent
    /\ Send("commit", sending + 1)
    /\ readTo' = sending + 1
    /\ UNCHANGED <<confirmed, session, flushed, pump, out, consumer, ends>>

\* It reads over WAL without a commit it would have to stream.
SkipWal ==
    /\ session = "live" /\ sending = 0
    /\ \E w \in readTo + 1 .. WalEnd :
          /\ \A c \in Commits : c >= readTo => c >= w
          /\ readTo' = w
    /\ UNCHANGED <<confirmed, sending, sent, session, wire, flushed, pump, out,
                   consumer, ends>>

\* Every now and then, in the middle of a transaction too; one at a time.
SendKeepalive ==
    /\ \A i \in 1..Len(wire) : wire[i].tag # "keepalive"
    /\ UNCHANGED <<server, session, flushed, pump, out, consumer, ends>>
    /\ Send("keepalive", readTo)

-----------------------------------------------------------------------------
(* The pump of changes(), one frame at a time in wire order. *)

\* A session that was stopped or lost still hands over what it received.
NextFrame(tag) ==
    /\ session # "none"
    /\ wire # <<>> /\ Head(wire).tag = tag
    /\ wire' = Tail(wire)

DecodeBegin ==
    /\ NextFrame("begin")
    /\ commitLsn' = Head(wire).lsn
    /\ lastEvent' = 0
    /\ inTransaction' = TRUE
    /\ UNCHANGED <<server, session, flushed, decoded, out, consumer, ends>>

\* emit()
DecodeChange ==
    /\ NextFrame("change")
    /\ LET e == Head(wire).event IN
          /\ decoded' = e
          /\ lastEvent' = e
          /\ out' = [x \in DOMAIN out \union {e} |->
                        IF x = e THEN Head(wire).lsn ELSE out[x]]
    /\ UNCHANGED <<server, session, flushed, inTransaction, commitLsn,
                   consumer, ends>>

MUpgraded(l) == out
MUpgradeSets(l) ==
    [x \in DOMAIN out \union {lastEvent} |-> IF x = lastEvent THEN l ELSE out[x]]

\* The last event of the transaction, if it is not acked yet, now releases
\* the whole transaction.
Upgraded(l) ==
    [x \in DOMAIN out |-> IF x = lastEvent THEN l ELSE out[x]]

DecodeCommit ==
    /\ NextFrame("commit")
    /\ LET endLsn == Head(wire).lsn IN
          /\ out' = Upgraded(endLsn)
          /\ flushed' = IF DOMAIN out = {} THEN Larger(flushed, endLsn)
                        ELSE flushed
    /\ lastEvent' = 0
    /\ inTransaction' = FALSE
    /\ UNCHANGED <<server, session, commitLsn, decoded, consumer, ends>>

\* Everything before the keepalive is decoded; is it also acked?
AllDone == DOMAIN out = {} /\ ~inTransaction /\ yielded = decoded

DecodeKeepalive ==
    /\ NextFrame("keepalive")
    /\ flushed' = IF AllDone THEN Larger(flushed, Head(wire).lsn) ELSE flushed
    /\ UNCHANGED <<server, session, pump, out, consumer, ends>>

-----------------------------------------------------------------------------
(* The consumer. *)

Yield ==
    /\ session # "none"
    /\ yielded < decoded
    /\ yielded' = yielded + 1
    /\ held' = held \union {yielded + 1}
    /\ UNCHANGED <<server, session, wire, flushed, pump, out, acked, ends>>

\* this.stream?.updateFlushed(): stop() has set the stream to null.
UpdateFlushed(l) ==
    flushed' = IF session \in {"live", "failed"} THEN Larger(flushed, l)
               ELSE flushed

(* Sweeping by position, and a loop that stops before the event itself. *)
MSwept(e) == {x \in DOMAIN out : x = e \/ out[x] <= out[e]}
MSweptBelow(e) == {x \in DOMAIN out : x < e}

\* What ack(e) removes: in delivery order, everything up to e.
Swept(e) == {x \in DOMAIN out : x <= e}

Without(gone) == [x \in DOMAIN out \ gone |-> out[x]]

\* ack(event), also twice, and also for an event of an earlier session.
AckEvent(e) ==
    /\ e \in held
    /\ IF e \in DOMAIN out
       THEN /\ out' = Without(Swept(e))
            /\ UpdateFlushed(out[e])
       ELSE /\ out' = out
            /\ UpdateFlushed(Lsn[e])
    /\ acked' = Larger(acked, e)
    /\ UNCHANGED <<server, session, wire, pump, yielded, held, ends>>

MPrefix(l) == {x \in DOMAIN out : out[x] <= l}

\* What ack(lsn) removes: the outstanding events before the first beyond l.
Prefix(l) ==
    {x \in DOMAIN out : \A y \in DOMAIN out : y <= x => out[y] <= l}

\* ack(event.lsn): the raw position of an event.  Several changes may share
\* one (a TRUNCATE of several tables): acking the position acks all of them,
\* so the consumer does it when it has them all.  It may do it again, say
\* from a timer that acknowledges the last position it has stored.
AckLsn(e) ==
    /\ e \in held
    /\ e > acked \/ AcksAgain
    /\ \A f \in Event : f > e => Lsn[f] # Lsn[e]
    /\ out' = Without(Prefix(Lsn[e]))
    /\ UpdateFlushed(Lsn[e])
    /\ acked' = Larger(acked, e)
    /\ UNCHANGED <<server, session, wire, pump, yielded, held, ends>>

-----------------------------------------------------------------------------
(* Feedback and the end of a session. *)

Report == confirmed' = Larger(confirmed, flushed)

\* sendStatus(): on the timer and when a keepalive asks for a reply.
SendStatus ==
    /\ session = "live"
    /\ confirmed < flushed
    /\ Report
    /\ UNCHANGED <<readTo, sending, sent, session, wire, flushed, pump, out,
                   consumer, ends>>

EndsHere == session = "live" /\ ends < MaxEnds /\ ends' = ends + 1

\* stop(), or leaving the loop: reports a last time, then disconnects.
Stop ==
    /\ EndsHere
    /\ Report
    /\ session' = "stopped"
    /\ UNCHANGED <<readTo, sending, sent, wire, flushed, pump, out, consumer>>

\* The connection is lost, with the frames that had not arrived.
Disconnect ==
    /\ EndsHere
    /\ session' = "failed"
    /\ \E n \in 0..Len(wire) : wire' = SubSeq(wire, 1, n)
    /\ UNCHANGED <<server, flushed, pump, out, consumer>>

\* The process dies; the slot and what the consumer has stored remain.
Crash ==
    /\ EndsHere
    /\ session' = "none"
    /\ wire' = <<>>
    /\ held' = {}
    /\ flushed' = 0
    /\ out' = [e \in {} |-> 0]
    /\ inTransaction' = FALSE /\ commitLsn' = 0 /\ lastEvent' = 0
    /\ decoded' = 0 /\ yielded' = 0
    /\ UNCHANGED <<server, acked>>

-----------------------------------------------------------------------------
Init ==
    /\ confirmed = 0 /\ readTo = 0 /\ sending = 0 /\ sent = 0
    /\ session = "none"
    /\ wire = <<>>
    /\ flushed = 0
    /\ inTransaction = FALSE /\ commitLsn = 0 /\ lastEvent = 0 /\ decoded = 0
    /\ out = [e \in {} |-> 0]
    /\ yielded = 0 /\ held = {} /\ acked = 0
    /\ ends = 0

Walsender == SendBegin \/ SendChange \/ SendCommit \/ SkipWal \/ SendKeepalive
Decode == DecodeBegin \/ DecodeChange \/ DecodeCommit \/ DecodeKeepalive
Consume == Yield \/ (\E e \in Event : AckEvent(e) \/ AckLsn(e))

Next ==
    \/ StartSession \/ Walsender \/ Decode \/ Consume
    \/ SendStatus \/ Stop \/ Disconnect \/ Crash

Spec == Init /\ [][Next]_vars

\* The consumer acknowledges what it is given, the server streams what there
\* is, the timers run, and a consumer whose iteration ended starts another.
\* Raw acknowledgements are never assumed.
Fairness ==
    /\ WF_vars(StartSession)
    /\ WF_vars(SendBegin) /\ WF_vars(SendChange) /\ WF_vars(SendCommit)
    /\ WF_vars(SkipWal) /\ WF_vars(SendKeepalive)
    /\ WF_vars(Decode)
    /\ WF_vars(Yield)
    /\ WF_vars(yielded \in DOMAIN out /\ AckEvent(yielded))
    /\ WF_vars(SendStatus)

FairSpec == Spec /\ Fairness

-----------------------------------------------------------------------------
TypeOK ==
    /\ confirmed \in Position /\ readTo \in Position /\ flushed \in Position
    /\ sending \in {0} \union Commits
    /\ sent \in 0..NumEvents /\ decoded \in 0..NumEvents
    /\ yielded \in 0..NumEvents /\ lastEvent \in 0..NumEvents
    /\ acked \in 0..NumEvents
    /\ session \in {"none", "live", "failed", "stopped"}
    /\ wire \in Seq(Frame)
    /\ inTransaction \in BOOLEAN
    /\ commitLsn \in Position
    /\ DOMAIN out \subseteq Event
    /\ \A e \in DOMAIN out : out[e] \in Position
    /\ held \subseteq Event
    /\ ends \in 0..MaxEnds

\* The position reported to the server, and the one that will be reported
\* next, release no event the consumer has not acknowledged: a transaction is
\* never streamed again once its commit record is below the confirmed position.
NothingUnackedReleased ==
    \A e \in Event :
        Commit[e] < Larger(confirmed, flushed) => e <= acked

\* pgoutput redelivers by commit position: whatever a consumer acknowledges,
\* what is outstanding is the tail of what was decoded, and nothing in the
\* middle of it is dropped as a side effect of an acknowledgement.
OutstandingIsTail ==
    \A e \in DOMAIN out : \A f \in e..decoded : f \in DOMAIN out

\* Acking the last event of a transaction releases all of it, the commit record
\* included, whether the ack or the commit record comes first: between
\* transactions, with nothing outstanding, no decoded event is held back.
DrainedIsReleased ==
    session = "live" /\ DOMAIN out = {} /\ ~inTransaction
        => \A e \in 1..decoded : Commit[e] < Larger(confirmed, flushed)

\* A consumer that acknowledges what it is given, in however many sessions,
\* lets the server recycle the WAL to its end, other tables' included.
SlotReachesEnd == <>[](confirmed = WalEnd)
===============================================================================
