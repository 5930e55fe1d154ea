----------------------------- MODULE AsyncQueue -----------------------------
(***************************************************************************)
(* The way of a change from the replication socket to the consumer: two    *)
(* AsyncQueues, of raw frames and of decoded events, that pause and resume *)
(* the same socket, with the decoding pump between them.                   *)
(*   packages/walcast/src/queue.ts, walcast.ts (changes),                  *)
(*   replication/stream.ts (onCopyData, pause, resume, stop)               *)
(*                                                                         *)
(* JavaScript runs every microtask before the next socket read: a chunk of *)
(* frames is read when the pump has decoded the one before it and waits.   *)
(***************************************************************************)
EXTENDS Naturals, Sequences

CONSTANTS
    FramesHwm,   \* the frame queue's highWaterMark: never set by changes(), so its default
    EventsHwm,   \* the highWaterMark option
    MaxChunk,    \* frames in one read of the socket
    PerFrame,    \* events in one frame: a TRUNCATE has one for each table
    MaxChanges   \* bound: events of the session

(* A read of the socket holds far fewer than 10 000 frames. *)
ASSUME AsyncQueueAssumption ==
    /\ EventsHwm \in Nat \ {0} /\ MaxChunk \in Nat \ {0} /\ PerFrame \in Nat \ {0} /\ MaxChanges \in Nat
    /\ FramesHwm \in Nat /\ FramesHwm > MaxChunk

VARIABLES
    frames,     \* the stream's queue of frames
    events,     \* the queue changes() yields from
    reading,    \* whether the socket is read
    received,   \* events the socket has delivered before the frame queue ended
    yielded,    \* events the consumer has been given
    consumer    \* "busy", "waiting", or how its iteration ended: "done", "thrown"

asyncQueueVars == <<frames, events, reading, received, yielded, consumer>>

(* An event is its number in the session; a frame holds the next count.     *)
Frame == [after : Nat, count : 0..PerFrame]
Numbered(n, k) == [i \in 1..k |-> n + i]
EventsOf(f) == Numbered(f.after, f.count)

(* waiting: a next() is pending; got: what resolved it, or the last next(). *)
NewQueue == [items |-> <<>>, waiting |-> FALSE, got |-> <<>>, ended |-> FALSE, failed |-> FALSE, paused |-> FALSE]

-----------------------------------------------------------------------------
(* push, end, fail and next of a queue q *)

Push(q, item, hwm) ==
    IF q.ended THEN q
    ELSE IF q.waiting THEN [q EXCEPT !.waiting = FALSE, !.got = <<item>>]
    ELSE [q EXCEPT !.items = Append(@, item), !.paused = q.paused \/ Len(q.items) + 1 >= hwm]

(* One push after the other: the first goes to whoever waits, the rest are *)
(* kept, and the last of them finds the queue at its longest.              *)
PushAll(q, items, hwm) ==
    LET kept == IF q.waiting THEN Tail(items) ELSE items
    IN IF q.ended \/ items = <<>> THEN q
       ELSE [q EXCEPT !.waiting = FALSE, !.got = IF q.waiting THEN <<Head(items)>> ELSE @, !.items = @ \o kept,
                      !.paused = @ \/ (kept # <<>> /\ Len(q.items) + Len(kept) >= hwm)]

End(q) == [q EXCEPT !.ended = TRUE, !.waiting = FALSE]
MFail(q) == IF q.ended THEN q ELSE [q EXCEPT !.ended = TRUE, !.failed = TRUE, !.waiting = FALSE, !.items = <<>>]

Fail(q) == IF q.ended THEN q ELSE [q EXCEPT !.ended = TRUE, !.failed = TRUE, !.waiting = FALSE]

MNextItem(q, hwm) ==
    IF q.items # <<>>
    THEN [q EXCEPT !.got = <<Head(q.items)>>, !.items = Tail(@),
                   !.paused = q.paused /\ Len(q.items) > 0]
    ELSE [q EXCEPT !.got = <<>>, !.waiting = ~q.ended]

(* Items first, whatever has happened since; then the failure or the end. *)
NextItem(q, hwm) ==
    IF q.items # <<>>
    THEN [q EXCEPT !.got = <<Head(q.items)>>, !.items = Tail(@),
                   !.paused = q.paused /\ 2 * (Len(q.items) - 1) >= hwm]
    ELSE [q EXCEPT !.got = <<>>, !.waiting = ~q.ended]

(* onPause and onResume: the transitions of either queue set the socket.   *)
Reads(before, after) == IF before.paused = after.paused THEN reading ELSE ~after.paused

-----------------------------------------------------------------------------
(* The pump is idle: it waits for a frame, or its loop is over. *)
PumpDone(q) == q.ended /\ q.items = <<>> /\ q.got = <<>>
Idle == frames.waiting \/ PumpDone(frames)

(* One read: onCopyData for each frame of the chunk. *)
Chunk ==
    /\ reading /\ Idle
    /\ \E n \in 1..MaxChunk : \E ends \in [0..n -> received..MaxChanges] :
        LET chunk == [i \in 1..n |-> [after |-> ends[i - 1], count |-> ends[i] - ends[i - 1]]]
            after == PushAll(frames, chunk, FramesHwm)
        IN /\ ends[0] = received /\ \A i \in 1..n : ends[i] - ends[i - 1] \in 0..PerFrame
           /\ received' = IF frames.ended THEN received ELSE ends[n]
           /\ frames' = after
           /\ reading' = Reads(frames, after)
    /\ UNCHANGED <<events, yielded, consumer>>

(* The socket errs or ends, or the stream is stopped. *)
StreamEnds ==
    /\ ~frames.ended
    /\ frames' \in {End(frames), Fail(frames)}
    /\ UNCHANGED <<events, reading, received, yielded, consumer>>

(* for await (const frame of mine.messages): the frame that was handed     *)
(* over is decoded and its events pushed, then the next one is asked for.  *)
Pump ==
    /\ ~frames.waiting /\ ~PumpDone(frames)
    /\ LET decoded == IF frames.got = <<>> THEN events ELSE PushAll(events, EventsOf(frames.got[1]), EventsHwm)
           asked == NextItem(frames, FramesHwm)
       IN /\ events' = decoded /\ frames' = asked
          /\ reading' = IF events.paused = decoded.paused THEN Reads(frames, asked) ELSE ~decoded.paused
    /\ UNCHANGED <<received, yielded, consumer>>

(* .then(() => events.end(), (err) => events.fail(err)) *)
PumpOver ==
    /\ PumpDone(frames) /\ ~events.ended
    /\ events' = IF frames.failed THEN Fail(events) ELSE End(events)
    /\ UNCHANGED <<frames, reading, received, yielded, consumer>>

(* yield* events: the consumer asks when it has handled the event before. *)
Ask ==
    /\ consumer = "busy"
    /\ LET asked == NextItem(events, EventsHwm) IN
        /\ events' = asked
        /\ reading' = Reads(events, asked)
        /\ consumer' = CASE asked.waiting -> "waiting" [] asked.got # <<>> -> "busy"
                         [] OTHER -> IF asked.failed THEN "thrown" ELSE "done"
        /\ yielded' = yielded \o asked.got
    /\ UNCHANGED <<frames, received>>

(* A pending next() is resolved by a push, the end or the failure. *)
Answered ==
    /\ consumer = "waiting" /\ ~events.waiting
    /\ consumer' = IF events.got # <<>> THEN "busy" ELSE IF events.failed THEN "thrown" ELSE "done"
    /\ yielded' = yielded \o events.got
    /\ UNCHANGED <<frames, events, reading, received>>

AsyncQueueInit ==
    /\ frames = [NewQueue EXCEPT !.waiting = TRUE] /\ events = NewQueue
    /\ reading = TRUE /\ received = 0 /\ yielded = <<>> /\ consumer = "busy"

AsyncQueueNext == Chunk \/ StreamEnds \/ Pump \/ PumpOver \/ Ask \/ Answered

AsyncQueueSpec == AsyncQueueInit /\ [][AsyncQueueNext]_asyncQueueVars

-----------------------------------------------------------------------------
InHand == IF consumer = "waiting" THEN events.got ELSE <<>>

(* The frames that are not decoded, the one handed to the pump first.      *)
InTransit == frames.got \o frames.items
Decoded == IF InTransit = <<>> THEN received ELSE InTransit[1].after

(* Every event the socket delivered is yielded, or still on its way, in    *)
(* order and without a gap, however the session ends (AsyncQueue push,     *)
(* next, end, fail).                                                       *)
NothingDropped ==
    /\ yielded \o InHand \o events.items = Numbered(0, Decoded)
    /\ \A i \in 1..Len(InTransit) :
          LET f == InTransit[i]
          IN f.after + f.count = IF i = Len(InTransit) THEN received ELSE InTransit[i + 1].after

(* The buffer of events is bounded, and what bounds it never stops the     *)
(* session: beyond the mark only the rest of the chunk that crossed it is  *)
(* added, and the socket is paused only while the consumer has half the    *)
(* mark to work off (onPause, onResume of the two queues on one socket).   *)
EventsBounded ==
    /\ Len(events.items) <= EventsHwm - 1 + MaxChunk * PerFrame
    /\ ~reading => 2 * Len(events.items) >= EventsHwm
=============================================================================
