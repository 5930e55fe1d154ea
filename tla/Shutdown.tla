------------------------------ MODULE Shutdown ------------------------------
(***************************************************************************)
(* The life of the engine's tasks: the pump with its replication session,  *)
(* one worker per sink behind a BoundedQueue, the operator's pause and     *)
(* resume, reconnection, and the shutdown of the daemon, which must get    *)
(* every task out of whatever it is waiting for.                           *)
(*   packages/walcast/src/engine/engine.ts, engine/bounded-queue.ts,       *)
(*   walcast.ts (stop), replication/stream.ts (begin, stop),               *)
(*   daemon/serve.ts, daemon/server.ts (close)                             *)
(*                                                                         *)
(* What is delivered and acknowledged is SinkEngine's subject: here a      *)
(* queue is its length, and a batch is deliverable or only skip markers.   *)
(***************************************************************************)
EXTENDS Naturals, FiniteSets, FiniteSetsExt

CONSTANTS
    Sinks,                 \* 1..n, in the order of the configuration
    DurableSinks,
    Depth,                 \* queueDepth
    MaxAttempts,
    WalSenders,            \* max_wal_senders of the server, less those in use elsewhere
    MaxEvents,             \* bound: events of all sessions
    MaxEnds,               \* bound: sessions the server ends
    MaxRefusals,           \* bound: refused START_REPLICATIONs
    MaxCalls,              \* bound: operator calls
    StopsWhileConnecting   \* whether the signal may come while a session is being opened

ASSUME ShutdownAssumption ==
    /\ Sinks \subseteq Nat /\ IsFiniteSet(Sinks)
    /\ DurableSinks \subseteq Sinks
    /\ Depth \in Nat \ {0} /\ MaxAttempts \in Nat \ {0}
    /\ {WalSenders, MaxEvents, MaxEnds, MaxRefusals, MaxCalls} \subseteq Nat
    /\ StopsWhileConnecting \in BOOLEAN

VARIABLES
    stopPc,     \* where serve.stop() and engine.stop() are; "serving" before the signal
    aborted,    \* the engine's abort signal
    session,    \* the replication session of the pump
    leaked,     \* clients whose START_REPLICATION was refused: connected, ended by nobody
    buffered,   \* decoded events the pump has not pulled
    pump,       \* where pump() is
    targets,    \* the sinks the pump still has to put the current event into
    len,        \* length of each sink's queue
    closed,     \* queues that are closed
    worker,     \* where each sink's worker is
    attempt,    \* deliveries of the current batch that failed
    status,     \* "running" or "paused"
    resuming,   \* sinks with a resume() that is writing the status
    sinksOpen,  \* sinks whose close() has not returned
    poolOpen,   \* the checkpoint store's connections
    used        \* the bounds consumed: events, ends, refusals, calls

shutdownVars == <<stopPc, aborted, session, leaked, buffered, pump, targets, len, closed,
                  worker, attempt, status, resuming, sinksOpen, poolOpen, used>>
pumpVars == <<session, leaked, buffered, pump, targets>>
stopVars == <<stopPc, aborted, sinksOpen, poolOpen>>
sinkVars == <<len, closed, worker, attempt, status, resuming>>

(* The three places where a worker awaits waitForResume(). *)
ForResume == {"topWait", "holdWait", "retryWait"}
Woken(at) == CASE at = "topWait" -> "top" [] at = "holdWait" -> "hold" [] at = "retryWait" -> "resumed"
              [] OTHER -> at

ShutdownTypeOK ==
    /\ stopPc \in {"serving", "stream", "draining", "sinks", "server", "stopped"}
    /\ session \in {"none", "connecting", "starting", "live", "ended"}
    /\ pump \in {"connecting", "pulling", "putting", "putWait", "sleeping", "done"}
    /\ {aborted, poolOpen} \subseteq BOOLEAN
    /\ targets \subseteq Sinks /\ closed \subseteq Sinks /\ sinksOpen \subseteq Sinks
    /\ resuming \subseteq DurableSinks
    /\ len \in [Sinks -> 0..Depth]
    /\ worker \in [Sinks -> {"top", "taking", "takeWait", "linger", "hold", "deliver", "delivering",
                             "backoff", "acking", "pausing", "resumed", "done"} \cup ForResume]
    /\ attempt \in [Sinks -> 0..MaxAttempts]
    /\ status \in [Sinks -> {"running", "paused"}]
    /\ leaked \in 0..MaxRefusals /\ buffered \in 0..MaxEvents
    /\ used \in [events : 0..MaxEvents, ends : 0..MaxEnds, refusals : 0..MaxRefusals, calls : 0..MaxCalls]

(* start() has registered and initialised every sink. *)
ShutdownInit ==
    /\ stopPc = "serving" /\ aborted = FALSE
    /\ session = "connecting" /\ pump = "connecting" /\ targets = {}
    /\ leaked = 0 /\ buffered = 0
    /\ len = [s \in Sinks |-> 0] /\ closed = {}
    /\ worker = [s \in Sinks |-> IF s \in DurableSinks THEN "top" ELSE "taking"]
    /\ attempt = [s \in Sinks |-> 0]
    /\ status \in {f \in [Sinks -> {"running", "paused"}] : \A s \in Sinks \ DurableSinks : f[s] = "running"}
    /\ resuming = {} /\ sinksOpen = Sinks /\ poolOpen = TRUE
    /\ used = [events |-> 0, ends |-> 0, refusals |-> 0, calls |-> 0]

Use(what) == used' = [used EXCEPT ![what] = @ + 1]

-----------------------------------------------------------------------------
(* The replication session: ReplicationStream.begin, and the server's side. *)

MPumpAgain == "done"

(* What pump() does when its session is over: the loop ends on a stopped   *)
(* engine, and tries again after a sleep on any other.                     *)
PumpAgain == IF aborted THEN "done" ELSE "sleeping"

Connect ==
    /\ session = "connecting" /\ leaked < WalSenders
    /\ session' = "starting"
    /\ UNCHANGED <<stopVars, sinkVars, leaked, buffered, pump, targets, used>>

(* connect() rejects: nothing is left open. *)
ConnectFails ==
    /\ session = "connecting"
    /\ \/ leaked >= WalSenders /\ UNCHANGED used
       \/ used.ends < MaxEnds /\ Use("ends")
    /\ session' = "none" /\ pump' = PumpAgain
    /\ UNCHANGED <<stopVars, sinkVars, leaked, buffered, targets>>

(* The slot is still held by a predecessor: begin() rejects, and its       *)
(* connected client is dropped without an end().                           *)
Refused ==
    /\ session = "starting" /\ used.refusals < MaxRefusals
    /\ Use("refusals")
    /\ leaked' = leaked + 1
    /\ session' = "none" /\ pump' = PumpAgain
    /\ UNCHANGED <<stopVars, sinkVars, buffered, targets>>

(* changes() goes on with the stream; a signal that is already aborted     *)
(* never calls the listener it adds here.                                  *)
Started ==
    /\ session = "starting"
    /\ session' = "live" /\ pump' = "pulling"
    /\ UNCHANGED <<stopVars, sinkVars, leaked, buffered, targets, used>>

Arrive ==
    /\ session = "live" /\ used.events < MaxEvents
    /\ Use("events")
    /\ buffered' = buffered + 1
    /\ UNCHANGED <<stopVars, sinkVars, session, leaked, pump, targets>>

ServerEnds ==
    /\ session = "live" /\ used.ends < MaxEnds
    /\ Use("ends")
    /\ session' = "ended"
    /\ UNCHANGED <<stopVars, sinkVars, leaked, buffered, pump, targets>>

-----------------------------------------------------------------------------
(* pump() and pumpOnce() *)

(* The event goes to every sink but the durable ones whose checkpoint is   *)
(* ahead; one of the checkpoint table itself goes to the durable ones only.*)
Fanouts == {DurableSinks} \cup {Sinks \ ahead : ahead \in SUBSET DurableSinks}

Pull ==
    /\ pump = "pulling" /\ buffered > 0
    /\ buffered' = buffered - 1
    /\ targets' \in Fanouts
    /\ pump' = "putting"
    /\ UNCHANGED <<stopVars, sinkVars, session, leaked, used>>

(* put() and takeBatch() wake the first waiting taker and every waiting    *)
(* putter; each checks its condition again.                                *)
WakeTaker(s) == IF worker[s] = "takeWait" THEN [worker EXCEPT ![s] = "taking"] ELSE worker
MWakePump(s) == IF pump = "putWait" /\ s = Min(targets) /\ len[s] > 1 THEN "putting" ELSE pump

WakePump(s) == IF pump = "putWait" /\ s = Min(targets) THEN "putting" ELSE pump

Put ==
    /\ pump = "putting" /\ targets # {}
    /\ LET s == Min(targets) IN
       IF len[s] < Depth \/ s \in closed \/ s \notin DurableSinks
       THEN LET taken == s \notin closed /\ len[s] < Depth IN   \* else a no-op, or a drop
            /\ len' = IF taken THEN [len EXCEPT ![s] = @ + 1] ELSE len
            /\ worker' = IF taken THEN WakeTaker(s) ELSE worker
            /\ targets' = targets \ {s} /\ UNCHANGED pump
       ELSE /\ pump' = "putWait" /\ UNCHANGED <<len, worker, targets>>
    /\ UNCHANGED <<stopVars, session, leaked, buffered, closed, attempt, status, resuming, used>>

PutAll ==
    /\ pump = "putting" /\ targets = {}
    /\ pump' = "pulling"
    /\ UNCHANGED <<stopVars, sinkVars, session, leaked, buffered, targets, used>>

(* The events of an ended session are drained first. The finally blocks    *)
(* stop the stream, and close the queues if the engine is stopping.        *)
SessionOver ==
    /\ pump = "pulling" /\ session = "ended" /\ buffered = 0
    /\ session' = "none" /\ pump' = PumpAgain
    /\ closed' = IF aborted THEN Sinks ELSE closed
    /\ worker' = IF aborted THEN [s \in Sinks |-> WakeTaker(s)[s]] ELSE worker
    /\ UNCHANGED <<stopVars, leaked, buffered, targets, len, attempt, status, resuming, used>>

Awake ==
    /\ pump = "sleeping"
    /\ IF aborted THEN pump' = "done" /\ UNCHANGED session
                  ELSE pump' = "connecting" /\ session' = "connecting"
    /\ UNCHANGED <<stopVars, sinkVars, leaked, buffered, targets, used>>

-----------------------------------------------------------------------------
(* durableWorker() and ephemeralWorker() *)

Goto(s, at) == worker' = [worker EXCEPT ![s] = at]
WorkerOnly == UNCHANGED <<stopVars, pumpVars, len, closed, status, resuming, used>>

MWaitForResume(at) == at

(* waitForResume() does not wait once the signal has fired: its listener   *)
(* would come too late, and so does stop()'s sweep.                        *)
WaitForResume(at) == IF aborted THEN Woken(at) ELSE at

(* while (paused()) { if (aborted) return; await waitForResume() } *)
PausedLoop(s, wait, next) ==
    /\ Goto(s, IF status[s] = "running" THEN next ELSE IF aborted THEN "done" ELSE WaitForResume(wait))
    /\ UNCHANGED attempt /\ WorkerOnly
Top(s) == worker[s] = "top" /\ PausedLoop(s, "topWait", "taking")
(* A batch of skip markers only is not delivered and writes no checkpoint. *)
Hold(s) == worker[s] = "hold" /\ \E next \in {"deliver", "top"} : PausedLoop(s, "holdWait", next)

Take(s) ==
    /\ worker[s] = "taking"
    /\ Goto(s, IF len[s] > 0 THEN "linger" ELSE IF s \in closed THEN "done" ELSE "takeWait")
    /\ UNCHANGED attempt /\ WorkerOnly

(* splice() after the linger; the ephemeral worker delivers at once. *)
Splice(s) ==
    /\ worker[s] = "linger"
    /\ \E n \in 1..len[s] :
        /\ len' = [len EXCEPT ![s] = @ - n]
        /\ pump' = WakePump(s)
    /\ Goto(s, IF s \in DurableSinks THEN "hold" ELSE "delivering")
    /\ attempt' = [attempt EXCEPT ![s] = 0]
    /\ UNCHANGED <<stopVars, session, leaked, buffered, targets, closed, status, resuming, used>>

Deliver(s) ==
    /\ worker[s] = "deliver"
    /\ Goto(s, IF aborted THEN "done" ELSE "delivering")
    /\ UNCHANGED attempt /\ WorkerOnly

Delivered(s) ==
    /\ worker[s] = "delivering"
    /\ Goto(s, IF s \in DurableSinks THEN "acking" ELSE "taking")
    /\ UNCHANGED attempt /\ WorkerOnly

DeliveryFails(s) ==
    /\ worker[s] = "delivering"
    /\ UNCHANGED <<stopVars, pumpVars, len, closed, resuming, used>>
    /\ IF s \notin DurableSinks THEN Goto(s, "taking") /\ UNCHANGED <<attempt, status>>
       ELSE /\ attempt' = [attempt EXCEPT ![s] = @ + 1]
            /\ IF attempt[s] + 1 >= MaxAttempts
               THEN Goto(s, "pausing") /\ status' = [status EXCEPT ![s] = "paused"]
               ELSE Goto(s, "backoff") /\ UNCHANGED status

BackedOff(s) == worker[s] = "backoff" /\ Goto(s, "deliver") /\ UNCHANGED attempt /\ WorkerOnly
Acked(s) == worker[s] = "acking" /\ Goto(s, "top") /\ UNCHANGED attempt /\ WorkerOnly
Paused(s) == worker[s] = "pausing" /\ Goto(s, WaitForResume("retryWait")) /\ UNCHANGED attempt /\ WorkerOnly

Resumed(s) ==
    /\ worker[s] = "resumed"
    /\ Goto(s, IF aborted THEN "done" ELSE "deliver")
    /\ attempt' = [attempt EXCEPT ![s] = IF aborted THEN @ ELSE 0]
    /\ WorkerOnly

-----------------------------------------------------------------------------
(* The operator's calls: the daemon's server answers until the very end;   *)
(* once the pool has ended the status still changes and the write rejects. *)

OperatorPauses(s) ==
    /\ stopPc # "stopped" /\ used.calls < MaxCalls /\ Use("calls")
    /\ status' = [status EXCEPT ![s] = "paused"]
    /\ UNCHANGED <<stopVars, pumpVars, len, closed, worker, attempt, resuming>>

OperatorResumes(s) ==
    /\ stopPc # "stopped" /\ used.calls < MaxCalls /\ Use("calls")
    /\ status' = [status EXCEPT ![s] = "running"]
    /\ resuming' = IF poolOpen THEN resuming \cup {s} ELSE resuming
    /\ UNCHANGED <<stopVars, pumpVars, len, closed, worker, attempt>>

ResumeReturns(s) ==
    /\ s \in resuming /\ resuming' = resuming \ {s}
    /\ Goto(s, Woken(worker[s]))
    /\ UNCHANGED <<stopVars, pumpVars, len, closed, attempt, status, used>>

-----------------------------------------------------------------------------
(* serve.stop() and engine.stop(). The first signal starts it. *)

(* abort(): every waitForResume() listener resolves, and the listener of   *)
(* changes() stops its stream. A stream still being opened has none yet.   *)
Signal ==
    /\ stopPc = "serving"
    /\ StopsWhileConnecting \/ session \notin {"connecting", "starting"}
    /\ stopPc' = "stream" /\ aborted' = TRUE
    /\ worker' = [s \in Sinks |-> Woken(worker[s])]
    /\ session' = IF session = "live" THEN "ended" ELSE session
    /\ UNCHANGED <<leaked, buffered, pump, targets, len, closed, attempt, status, resuming,
                   sinksOpen, poolOpen, used>>

MStopCloses ==
    /\ stopPc = "stream" /\ stopPc' = "draining"
    /\ closed' = Sinks
    /\ worker' = [s \in Sinks |-> Woken(WakeTaker(s)[s])]
    /\ UNCHANGED <<aborted, session, leaked, buffered, pump, targets, len, attempt, status, resuming,
                   sinksOpen, poolOpen, used>>

(* walcast.stop() returns; then every queue is closed and its waiters woken. *)
StopCloses ==
    /\ stopPc = "stream" /\ stopPc' = "draining"
    /\ closed' = Sinks
    /\ worker' = [s \in Sinks |-> Woken(WakeTaker(s)[s])]
    /\ pump' = IF pump = "putWait" THEN "putting" ELSE pump
    /\ UNCHANGED <<aborted, session, leaked, buffered, targets, len, attempt, status, resuming,
                   sinksOpen, poolOpen, used>>

MDrained == pump = "done"

(* Promise.allSettled([pumpDone, ...workers]) *)
Drained == pump = "done" /\ \A s \in Sinks : worker[s] = "done"

StopDrained ==
    /\ stopPc = "draining" /\ Drained
    /\ stopPc' = "sinks"
    /\ UNCHANGED <<aborted, sinksOpen, poolOpen, pumpVars, sinkVars, used>>

StopSink ==
    /\ stopPc = "sinks" /\ sinksOpen # {}
    /\ sinksOpen' = sinksOpen \ {Min(sinksOpen)}
    /\ UNCHANGED <<stopPc, aborted, poolOpen, pumpVars, sinkVars, used>>

StopPool ==
    /\ stopPc = "sinks" /\ sinksOpen = {}
    /\ stopPc' = "server" /\ poolOpen' = FALSE
    /\ UNCHANGED <<aborted, sinksOpen, pumpVars, sinkVars, used>>

(* server.close() ends every connection, SSE streams included. *)
StopServer ==
    /\ stopPc = "server" /\ resuming = {}
    /\ stopPc' = "stopped"
    /\ UNCHANGED <<aborted, sinksOpen, poolOpen, pumpVars, sinkVars, used>>

-----------------------------------------------------------------------------
PumpStep == Pull \/ Put \/ PutAll \/ SessionOver \/ Awake
WorkerStep(s) ==
    \/ Top(s) \/ Take(s) \/ Splice(s) \/ Hold(s) \/ Deliver(s) \/ Delivered(s) \/ DeliveryFails(s)
    \/ BackedOff(s) \/ Acked(s) \/ Paused(s) \/ Resumed(s)
StopStep == StopCloses \/ StopDrained \/ StopSink \/ StopPool \/ StopServer

ShutdownNext ==
    \/ Connect \/ ConnectFails \/ Refused \/ Started \/ Arrive \/ ServerEnds
    \/ PumpStep
    \/ \E s \in Sinks : WorkerStep(s)
    \/ \E s \in DurableSinks : OperatorPauses(s) \/ OperatorResumes(s) \/ ResumeReturns(s)
    \/ Signal
    \/ StopStep

ShutdownSpec == ShutdownInit /\ [][ShutdownNext]_shutdownVars

(* Tasks go on, timers fire, deliveries and database calls settle and a    *)
(* connection attempt is answered. Neither a signal, nor an operator, nor  *)
(* an event, nor the end of a session is owed.                             *)
ShutdownFairSpec ==
    /\ ShutdownSpec
    /\ WF_shutdownVars(Connect \/ ConnectFails \/ Refused \/ Started)
    /\ WF_shutdownVars(PumpStep)
    /\ \A s \in Sinks : WF_shutdownVars(WorkerStep(s))
    /\ \A s \in DurableSinks : WF_shutdownVars(ResumeReturns(s))
    /\ WF_shutdownVars(StopStep)

-----------------------------------------------------------------------------
(* No task uses what stop() has closed: a sink is closed, and the pool     *)
(* ended, only after every delivery and every checkpoint write is over.    *)
NoUseAfterClose ==
    \A s \in Sinks : /\ worker[s] = "delivering" => s \in sinksOpen
                     /\ worker[s] \in {"acking", "pausing"} => poolOpen

(* A wake-up is never lost: whoever waits on a queue waits for something   *)
(* that is still not there (BoundedQueue put, takeBatch, close).           *)
NoLostWakeup ==
    /\ pump = "putWait" => LET s == Min(targets) IN len[s] = Depth /\ s \notin closed
    /\ \A s \in Sinks : worker[s] = "takeWait" => len[s] = 0 /\ s \notin closed

(* A worker that waits for an operator is on an engine that is not         *)
(* stopping: every other wait of that kind is over when stop() begins      *)
(* (waitForResume's guard, the abort listener).                            *)
NobodyWaitsAborted == aborted => \A s \in Sinks : worker[s] \notin ForResume

(* Every shutdown completes: the pump and the workers leave whatever they  *)
(* are doing, the sinks, the pool and the server are closed (engine.stop,  *)
(* serve.stop).                                                            *)
StopReturns == aborted ~> stopPc = "stopped"

(* A session the server ended is replaced by a live one, unless the engine *)
(* is stopped or a paused sink holds the pump back (pump).                 *)
Reconnects ==
    session = "ended" ~> \/ session = "live" \/ aborted
                         \/ \E s \in DurableSinks : worker[s] \in ForResume
=============================================================================
