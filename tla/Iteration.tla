----------------------------- MODULE Iteration ------------------------------
(***************************************************************************)
(* The calls of changes() and stop() on one Walcast instance: generators   *)
(* that connect, stream, are abandoned at a yield and finish late, and the *)
(* two fields, stream and iterating, that say which of them is the current *)
(* one.                                                                    *)
(*   packages/walcast/src/walcast.ts (changes, stop),                      *)
(*   replication/stream.ts (start, stop)                                   *)
(*                                                                         *)
(* Calls overlap in every way the code allows: stop() while a generator is *)
(* connecting and there is no stream to stop yet, several stop() at once,  *)
(* and changes() while a stop() still awaits the stream it found.          *)
(***************************************************************************)
EXTENDS Naturals

CONSTANTS
    Calls,       \* the calls of changes(), 1..n, none of which is 0
    Stops        \* the calls of stop()

ASSUME IterationAssumption == 0 \notin Calls

VARIABLES
    generator,   \* where each call is
    stopped,     \* calls whose ReplicationStream was stopped, or has ended
    current,     \* Walcast.stream: a call, or 0 for null
    iterating,   \* Walcast.iterating
    stops,       \* where each stop() is
    overtaken    \* history: calls that came to stream while a stop() awaited

iterationVars == <<generator, stopped, current, iterating, stops, overtaken>>

Where == {"new", "connecting", "streaming", "finishing", "done", "thrown"}
At(g, where) == generator' = [generator EXCEPT ![g] = where]

(* The server's side: a slot streams to one client. *)
Holder == {g \in Calls : generator[g] \in {"streaming", "finishing"} /\ g \notin stopped}

Awaiting == {s \in Stops : stops[s] = "awaiting"}

-----------------------------------------------------------------------------
(* The first next() of a generator runs changes() up to the connection. *)
Changes(g) ==
    /\ generator[g] = "new"
    /\ IF iterating THEN At(g, "thrown") /\ UNCHANGED iterating
                    ELSE At(g, "connecting") /\ iterating' = TRUE
    /\ UNCHANGED <<stopped, current, overtaken, stops>>

ConnectRefused(g) ==
    /\ generator[g] = "connecting"
    /\ At(g, "thrown") /\ iterating' = FALSE
    /\ UNCHANGED <<stopped, current, overtaken, stops>>

Streams(g) ==
    /\ generator[g] = "connecting" /\ Holder = {}
    /\ At(g, "streaming") /\ current' = g
    /\ overtaken' = IF Awaiting = {} THEN overtaken ELSE overtaken \cup {g}
    /\ UNCHANGED <<stopped, iterating, stops>>

(* The connection is lost; the consumer, at a yield, does not know yet. *)
ConnectionLost(g) ==
    /\ generator[g] = "streaming" /\ g \notin stopped
    /\ stopped' = stopped \cup {g}
    /\ UNCHANGED <<generator, current, iterating, overtaken, stops>>

(* The consumer breaks, its signal aborts, or it comes back to a stream    *)
(* that was stopped or has ended: finally stops the stream and awaits it.  *)
Leave(g) ==
    /\ generator[g] = "streaming"
    /\ At(g, "finishing") /\ stopped' = stopped \cup {g}
    /\ UNCHANGED <<current, iterating, overtaken, stops>>

MFinished(g) ==
    /\ generator[g] = "finishing"
    /\ At(g, "done")
    /\ current' = 0 /\ iterating' = FALSE
    /\ UNCHANGED <<stopped, overtaken, stops>>

(* Another iteration may have replaced this one after stop(). *)
Finished(g) ==
    /\ generator[g] = "finishing"
    /\ At(g, "done")
    /\ IF current \in {g, 0} THEN current' = 0 /\ iterating' = FALSE
                             ELSE UNCHANGED <<current, iterating>>
    /\ UNCHANGED <<stopped, overtaken, stops>>

(* stop(): await this.stream?.stop(), where there may be no stream. *)
StopStream(s) ==
    /\ stops[s] = "new"
    /\ stops' = [stops EXCEPT ![s] = "awaiting"]
    /\ stopped' = stopped \cup ({current} \ {0})
    /\ UNCHANGED <<generator, current, iterating, overtaken>>

(* Then it releases the instance, whatever has become of it meanwhile. *)
StopReleases(s) ==
    /\ stops[s] = "awaiting"
    /\ stops' = [stops EXCEPT ![s] = "returned"]
    /\ current' = 0 /\ iterating' = FALSE
    /\ UNCHANGED <<generator, stopped, overtaken>>

IterationInit ==
    /\ generator = [g \in Calls |-> "new"] /\ stopped = {}
    /\ current = 0 /\ iterating = FALSE
    /\ stops = [s \in Stops |-> "new"] /\ overtaken = {}

IterationNext ==
    \/ \E g \in Calls : \/ Changes(g) \/ ConnectRefused(g) \/ Streams(g)
                       \/ ConnectionLost(g) \/ Leave(g) \/ Finished(g)
    \/ \E s \in Stops : StopStream(s) \/ StopReleases(s)

IterationSpec == IterationInit /\ [][IterationNext]_iterationVars

-----------------------------------------------------------------------------
IterationTypeOK ==
    /\ generator \in [Calls -> Where]
    /\ stopped \subseteq Calls /\ overtaken \subseteq Calls
    /\ current \in Calls \cup {0}
    /\ iterating \in BOOLEAN
    /\ stops \in [Stops -> {"new", "awaiting", "returned"}]

Live(g) == generator[g] = "streaming" /\ g \notin stopped

(* stop() and ack() find the stream that is live: no late end of an older  *)
(* iteration takes it away (the condition in the finally of changes). Only *)
(* a stop() does that was called before the stream came up and returns     *)
(* after it.                                                               *)
StopFindsStream == \A g \in Calls : Live(g) => current = g \/ g \in overtaken
=============================================================================
