---------------------------- MODULE MCComponents -----------------------------
(***************************************************************************)
(* One run for the components that share no state in the model: each       *)
(* behaviour is one of component `part`, whose module this is an instance  *)
(* of, while the variables of the others keep their first values.          *)
(***************************************************************************)
EXTENDS Shutdown, AsyncQueue, Iteration, Pgoutput, Positions, Setup, Control, SseSink, PushSink, MCTypegen

VARIABLE part

(* Two tables, one with two shapes to alter between, one with any key.     *)
Col(name, type) == [name |-> name, type |-> type]
ShapesOf == {<<Col("id", "int")>>, <<Col("v", "json"), Col("id", "text")>>}
TextsOf == {<<"x">>}

(* The harness' three batches of one event. *)
Cuts == <<1, 2, 3>>

Parts == {"shutdown", "queue", "iteration", "pgoutput", "positions", "setup", "control", "sse", "push", "typegen"}


Init ==
    /\ part \in Parts
    /\ ShutdownInit /\ AsyncQueueInit /\ IterationInit /\ PgoutputInit /\ PositionsInit
    /\ SetupInit /\ ControlInit /\ SseInit /\ PushInit /\ TypegenInit
    /\ part # "shutdown" => \A s \in Sinks : status[s] = "running"
    /\ part # "pgoutput" => \A t \in Tables : shapes[t] = CHOOSE shape \in ShapesOf : TRUE
    /\ part # "control" => sinkStatus = "running"
    /\ part # "push" => transport = "webhook" /\ driver = "engine" /\ secretsMatch

OfPart(p, next) == part = p /\ next
IsPart(p, next) == OfPart(p, next) /\ UNCHANGED part

Next ==
    \/ /\ IsPart("shutdown", ShutdownNext)
       /\ UNCHANGED <<asyncQueueVars, iterationVars, pgoutputVars, positionsVars, setupVars, controlVars,
                      sseVars, pushVars, schema>>
    \/ /\ IsPart("queue", AsyncQueueNext)
       /\ UNCHANGED <<shutdownVars, iterationVars, pgoutputVars, positionsVars, setupVars, controlVars,
                      sseVars, pushVars, schema>>
    \/ /\ IsPart("iteration", IterationNext)
       /\ UNCHANGED <<shutdownVars, asyncQueueVars, pgoutputVars, positionsVars, setupVars, controlVars,
                      sseVars, pushVars, schema>>
    \/ /\ IsPart("pgoutput", PgoutputNext)
       /\ UNCHANGED <<shutdownVars, asyncQueueVars, iterationVars, positionsVars, setupVars, controlVars,
                      sseVars, pushVars, schema>>
    \/ /\ IsPart("positions", PositionsNext)
       /\ UNCHANGED <<shutdownVars, asyncQueueVars, iterationVars, pgoutputVars, setupVars, controlVars,
                      sseVars, pushVars, schema>>
    \/ /\ IsPart("setup", SetupNext)
       /\ UNCHANGED <<shutdownVars, asyncQueueVars, iterationVars, pgoutputVars, positionsVars, controlVars,
                      sseVars, pushVars, schema>>
    \/ /\ IsPart("control", ControlNext)
       /\ UNCHANGED <<shutdownVars, asyncQueueVars, iterationVars, pgoutputVars, positionsVars, setupVars,
                      sseVars, pushVars, schema>>
    \/ /\ IsPart("sse", SseNext)
       /\ UNCHANGED <<shutdownVars, asyncQueueVars, iterationVars, pgoutputVars, positionsVars, setupVars,
                      controlVars, pushVars, schema>>
    \/ /\ IsPart("push", PushNext)
       /\ UNCHANGED <<shutdownVars, asyncQueueVars, iterationVars, pgoutputVars, positionsVars, setupVars,
                      controlVars, sseVars, schema>>
    \/ /\ IsPart("typegen", TypegenNext)
       /\ UNCHANGED <<shutdownVars, asyncQueueVars, iterationVars, pgoutputVars, positionsVars, setupVars,
                      controlVars, sseVars, pushVars>>

vars == <<part, shutdownVars, asyncQueueVars, iterationVars, pgoutputVars, positionsVars, setupVars, controlVars,
          sseVars, pushVars, schema>>

Spec == Init /\ [][Next]_vars

(* The fairness of ShutdownFairSpec, SetupFairSpec and ControlFairSpec.    *)
FairSpec ==
    /\ Spec
    /\ WF_shutdownVars(OfPart("shutdown", Connect \/ ConnectFails \/ Refused \/ Started))
    /\ WF_shutdownVars(OfPart("shutdown", PumpStep))
    /\ \A s \in Sinks : WF_shutdownVars(OfPart("shutdown", WorkerStep(s)))
    /\ \A s \in DurableSinks : WF_shutdownVars(OfPart("shutdown", ResumeReturns(s)))
    /\ WF_shutdownVars(OfPart("shutdown", StopStep))
    /\ \A p \in Processes :
        WF_setupVars(OfPart("setup", SetupStep(p) \/ DropCheck(p) \/ DropSlot(p) \/ DropPublication(p)))
    /\ \A p \in Daemons : WF_setupVars(OfPart("setup", RunSetup(p)))
    /\ \A r \in Requests : WF_controlVars(OfPart("control", Serve(r) \/ PollAnswered(r) \/ PostAnswered(r)))
    /\ WF_controlVars(OfPart("control", Poll)) /\ WF_controlVars(OfPart("control", EnterToken))
===============================================================================
