------------------------------ MODULE SseSink -------------------------------
(***************************************************************************)
(* The live tail: the SSE sink's clients, each with its filter of tables,  *)
(* that connect, lose their connection unnoticed and connect again, the    *)
(* dashboard's inspector among them, and the sink's close.                 *)
(*   packages/sink-sse/src/index.ts, apps/ui/src/pages/Live.tsx            *)
(*                                                                         *)
(* deliver() has no await: a batch is written to all clients at once.      *)
(***************************************************************************)
EXTENDS Naturals, Sequences, SequencesExt

CONSTANTS
    Viewers,       \* clients
    TailTables,    \* tables, and the elements of a filter
    MaxTail,       \* bound: events delivered to the sink
    MaxViews,      \* bound: connections
    Kept           \* events the inspector keeps on screen: 200

ASSUME SseAssumption == {MaxTail, MaxViews, Kept} \subseteq Nat

VARIABLES
    tail,       \* events the engine has delivered to the sink
    clients,    \* Set<Client>: viewer -> filter, for those registered
    broken,     \* registered clients whose connection is gone, 'close' not yet fired
    since,      \* viewer -> length of tail when it connected
    screen,     \* viewer -> events shown, newest first
    views,      \* the bound consumed
    sinkClosed

sseVars == <<tail, clients, broken, since, screen, views, sinkClosed>>

(* `?tables=a,b`: the tables in it, or {} for no filter. *)
Filters == SUBSET TailTables
Passes(filter, event) == filter = {} \/ event \in filter
Passing(filter, events) ==
    LET pass[i \in 0..Len(events)] ==
            IF i = 0 THEN <<>>
            ELSE IF Passes(filter, events[i]) THEN Append(pass[i - 1], events[i]) ELSE pass[i - 1]
    IN  pass[Len(events)]

-----------------------------------------------------------------------------
(* The route's handler, for a new EventSource, one with another filter, or *)
(* its automatic reconnect: what is on screen stays.                       *)
ViewerConnects(v) ==
    /\ v \notin DOMAIN clients /\ views < MaxViews /\ views' = views + 1
    /\ \E filter \in Filters :
        clients' = [w \in DOMAIN clients \cup {v} |-> IF w = v THEN filter ELSE clients[w]]
    /\ since' = [since EXCEPT ![v] = Len(tail)]
    /\ UNCHANGED <<tail, broken, screen, sinkClosed>>

MShown(v, batch) ==   \* `return` instead of `continue`: the rest of the batch is lost
    IF \A i \in DOMAIN batch : Passes(clients[v], batch[i]) THEN batch ELSE <<>>

(* deliver(): every event to every client it passes; a dead socket is      *)
(* skipped and fails nothing.                                              *)
Shown(v, batch) == Passing(clients[v], batch)
Onto(events, old) == SubSeq(Reverse(events) \o old, 1,
                            IF Len(events) + Len(old) < Kept THEN Len(events) + Len(old) ELSE Kept)
Tell ==
    /\ ~sinkClosed
    /\ \E n \in 1..2 : \E batch \in [1..n -> TailTables] :
        /\ Len(tail) + n <= MaxTail
        /\ tail' = tail \o batch
        /\ screen' = [v \in Viewers |->
                        IF v \in DOMAIN clients \ broken THEN Onto(Shown(v, batch), screen[v]) ELSE screen[v]]
    /\ UNCHANGED <<clients, broken, since, views, sinkClosed>>

Breaks(v) ==
    /\ v \in DOMAIN clients \ broken
    /\ broken' = broken \cup {v}
    /\ UNCHANGED <<tail, clients, since, screen, views, sinkClosed>>

(* req.on('close') *)
Gone(v) ==
    /\ v \in broken
    /\ clients' = [w \in DOMAIN clients \ {v} |-> clients[w]]
    /\ broken' = broken \ {v}
    /\ UNCHANGED <<tail, since, screen, views, sinkClosed>>

(* close(): every stream is ended and the set cleared. *)
CloseSse ==
    /\ ~sinkClosed /\ sinkClosed' = TRUE
    /\ clients' = <<>> /\ broken' = {}
    /\ UNCHANGED <<tail, since, screen, views>>

SseInit ==
    /\ tail = <<>> /\ clients = <<>> /\ broken = {} /\ views = 0 /\ sinkClosed = FALSE
    /\ since = [v \in Viewers |-> 0] /\ screen = [v \in Viewers |-> <<>>]

SseNext ==
    \/ \E v \in Viewers : ViewerConnects(v) \/ Breaks(v) \/ Gone(v)
    \/ Tell \/ CloseSse

SseSpec == SseInit /\ [][SseNext]_sseVars

-----------------------------------------------------------------------------
(* While its connection lasts a viewer sees every event of its tables, in  *)
(* order and up to the newest Kept, whatever the filters and the failures  *)
(* of the others; what it missed is what came while it was away (deliver,  *)
(* Live).                                                                  *)
TailHasNoGap ==
    \A v \in DOMAIN clients \ broken :
        LET owed == Onto(Passing(clients[v], SubSeq(tail, since[v] + 1, Len(tail))), <<>>)
        IN Len(owed) <= Len(screen[v]) /\ SubSeq(screen[v], 1, Len(owed)) = owed
=============================================================================
