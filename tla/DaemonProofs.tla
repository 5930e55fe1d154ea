----------------------------- MODULE DaemonProofs ----------------------------
(***************************************************************************)
(* The two ends of a daemon's life.                                        *)
(* - Setup: that the slot never stands without its publication, for any    *)
(*   number of daemons, tools and deaths, unless a teardown and a setup    *)
(*   overlap.                                                              *)
(* - Shutdown: what the shutdown of the engine never does, for any number  *)
(*   of sinks, any depth of their queues, and a signal at any moment: use  *)
(*   what is closed, lose a wake-up, or leave a worker waiting for an      *)
(*   operator.                                                             *)
(***************************************************************************)
EXTENDS Setup, Shutdown, WellFoundedInduction, TLAPS

Places == Setting \cup Dropping \cup {"off", "loading", "plugins", "starting", "serving"}

(* Who is past the publication in ensureSetup() may rely on it, and who is *)
(* past the slot in teardown() has seen it gone: both until somebody of    *)
(* the other kind begins, which nobody does meanwhile.                     *)
PlacesInv ==
    /\ at \in [Processes -> Places]
    /\ publication \in BOOLEAN /\ slot \in BOOLEAN
    /\ \A p, q \in Processes : ~(at[p] \in Setting /\ at[q] \in Dropping)
    /\ \A p \in Processes : at[p] \in {"slot", "createSlot"} => publication
    /\ \A p \in Processes : at[p] = "dropPublication" => ~slot

SetupInv == PlacesInv /\ SlotHasPublication

LEMMA SetupInitInv == SetupInit => SetupInv
  BY DEF SetupInit, SetupInv, PlacesInv, SlotHasPublication, Places, Setting, Dropping

LEMMA RunSetupInv ==
    ASSUME ~Overlaps, SetupInv, NEW p \in Processes, RunSetup(p) \/ LoadConfig(p) \/ LoadSinks(p)
    PROVE  SetupInv'
  BY DEF SetupInv, PlacesInv, SlotHasPublication, Places, Setting, Dropping, RunSetup, LoadConfig,
         LoadSinks, Goes, Exits, Quiet, Minded

LEMMA RunTeardownInv ==
    ASSUME ~Overlaps, SetupInv, NEW p \in Processes, RunTeardown(p)
    PROVE  SetupInv'
  BY DEF SetupInv, PlacesInv, SlotHasPublication, Places, Setting, Dropping, RunTeardown, Goes,
         Quiet, Minded

LEMMA PublicationInv ==
    ASSUME SetupInv, NEW p \in Processes, WalLevel(p) \/ CheckPublication(p) \/ CreatePublication(p)
    PROVE  SetupInv'
  <1>1. CASE WalLevel(p)
    BY <1>1 DEF SetupInv, PlacesInv, SlotHasPublication, Places, Setting, Dropping, WalLevel, Goes
  <1>2. CASE CheckPublication(p)
    BY <1>2 DEF SetupInv, PlacesInv, SlotHasPublication, Places, Setting, Dropping, CheckPublication, Goes
  <1>3. CASE CreatePublication(p)
    BY <1>3 DEF SetupInv, PlacesInv, SlotHasPublication, Places, Setting, Dropping, CreatePublication,
                Goes, Exits
  <1> QED BY <1>1, <1>2, <1>3

(* The slot is created behind the publication, and no teardown is between  *)
(* its two steps then.                                                     *)
LEMMA SlotInv ==
    ASSUME SetupInv, NEW p \in Processes, CheckSlot(p) \/ CreateSlot(p)
    PROVE  SetupInv'
  BY DEF SetupInv, PlacesInv, SlotHasPublication, Places, Setting, Dropping, CheckSlot, CreateSlot,
         Goes, Exits, Ready

LEMMA ServingInv ==
    ASSUME SetupInv, NEW p \in Processes, EngineStarts(p) \/ StartReplication(p) \/ Dies(p)
    PROVE  SetupInv'
  BY DEF SetupInv, PlacesInv, SlotHasPublication, Places, Setting, Dropping, EngineStarts,
         StartReplication, Dies, Goes, Exits

LEMMA DroppingInv ==
    ASSUME SetupInv, NEW p \in Processes, DropCheck(p) \/ DropSlot(p) \/ DropPublication(p)
    PROVE  SetupInv'
  <1>1. CASE DropCheck(p)
    BY <1>1 DEF SetupInv, PlacesInv, SlotHasPublication, Places, Setting, Dropping, DropCheck, Goes
  <1>2. CASE DropSlot(p)
    BY <1>2 DEF SetupInv, PlacesInv, SlotHasPublication, Places, Setting, Dropping, DropSlot, Goes, Exits
  <1>3. CASE DropPublication(p)
    BY <1>3 DEF SetupInv, PlacesInv, SlotHasPublication, Places, Setting, Dropping, DropPublication,
                Goes, Exits
  <1> QED BY <1>1, <1>2, <1>3

LEMMA SetupStepInv == ~Overlaps /\ SetupInv /\ [SetupNext]_setupVars => SetupInv'
  <1> SUFFICES ASSUME ~Overlaps, SetupInv, [SetupNext]_setupVars PROVE SetupInv'
    OBVIOUS
  <1>1. CASE UNCHANGED setupVars
    BY <1>1 DEF setupVars, SetupInv, PlacesInv, SlotHasPublication
  <1>2. CASE SetupNext
    BY <1>2, RunSetupInv, RunTeardownInv, PublicationInv, SlotInv, ServingInv, DroppingInv
       DEF SetupNext, SetupStep
  <1> QED BY <1>1, <1>2

(* A slot always has its publication, whichever processes set up, tear     *)
(* down and die half way (setup.ts, the order of its queries), provided    *)
(* that no teardown overlaps a setup, which setup.ts does not see to.      *)
THEOREM SlotDecodes == ~Overlaps => (SetupSpec => []SlotHasPublication)
  <1> SUFFICES ASSUME ~Overlaps PROVE SetupSpec => []SlotHasPublication
    OBVIOUS
  <1>1. SetupInv => SlotHasPublication
    BY DEF SetupInv
  <1>2. SetupInv /\ [SetupNext]_setupVars => SetupInv'
    BY SetupStepInv
  <1> QED BY <1>1, <1>2, SetupInitInv, PTL DEF SetupSpec

-----------------------------------------------------------------------------
(* Shutdown *)

(* stop() goes from task to task in one order: what it closes last is open *)
(* until every worker has returned.                                        *)
Running == {"serving", "stream", "draining"}
OpenInv ==
    /\ stopPc \in Running => sinksOpen = Sinks /\ poolOpen
    /\ stopPc \notin Running => \A s \in Sinks : worker[s] = "done"

WorkerPlaces == {"top", "taking", "takeWait", "linger", "hold", "deliver", "delivering", "backoff", "acking",
                 "pausing", "resumed", "done"} \cup ForResume

PutInv == pump = "putWait" => targets # {}

(* A batch that may be delivered has attempts left. *)
Attempting == {"hold", "holdWait", "deliver", "delivering", "backoff"}
AttemptInv == \A s \in Sinks : worker[s] \in Attempting => attempt[s] < MaxAttempts

(* What has been counted bounds what is left of it. *)
CountInv == leaked <= used.refusals /\ buffered <= used.events

ShutdownInv ==
    /\ ShutdownTypeOK
    /\ OpenInv
    /\ PutInv
    /\ AttemptInv
    /\ CountInv
    /\ NoLostWakeup
    /\ NobodyWaitsAborted

(* The sink whose turn it is, the least of those that are left, is a sink. *)
LEMMA MinIsMember ==
    ASSUME NEW S, S \subseteq Nat, S # {}
    PROVE  Min(S) \in S
  <1> DEFINE Less == {ss \in Nat \X Nat : ss[1] < ss[2]}
  <1>1. OpToRel(<, Nat) = Less
    BY DEF OpToRel
  <1>2. IsWellFoundedOn(Less, Nat)
    BY <1>1, NatLessThanWellFounded
  <1>3. PICK x \in S : \A y \in S : ~ (<<y, x>> \in Less)
    <2> HIDE DEF Less
    <2> QED BY <1>2, WFMin
  <1>4. \A y \in S : x =< y
    <2> TAKE y \in S
    <2>1. <<y, x>> \in Nat \X Nat
      OBVIOUS
    <2>2. ~ (y < x)
      BY <1>3, <2>1
    <2> QED BY <2>2
  <1> QED BY <1>4 DEF Min

LEMMA TurnIsSink ==
    ASSUME targets \subseteq Sinks, targets # {}
    PROVE  Min(targets) \in targets /\ Min(targets) \in Sinks
  BY MinIsMember, ShutdownAssumption

LEMMA ShutdownInitInv == ShutdownInit => ShutdownInv
  <1> SUFFICES ASSUME ShutdownInit PROVE ShutdownInv
    OBVIOUS
  <1>1. /\ used \in [events : 0..MaxEvents, ends : 0..MaxEnds, refusals : 0..MaxRefusals, calls : 0..MaxCalls]
        /\ leaked \in 0..MaxRefusals /\ buffered \in 0..MaxEvents
        /\ len \in [Sinks -> 0..Depth] /\ attempt \in [Sinks -> 0..MaxAttempts]
    BY ShutdownAssumption DEF ShutdownInit
  <1>2. /\ status \in [Sinks -> {"running", "paused"}]
        /\ \A s \in Sinks : worker[s] \in {"top", "taking"}
    BY DEF ShutdownInit
  <1>3. ShutdownTypeOK
    BY <1>1, <1>2 DEF ShutdownInit, ShutdownTypeOK, ForResume
  <1>4. AttemptInv
    BY <1>2 DEF AttemptInv, Attempting
  <1> QED BY <1>2, <1>3, <1>4 DEF ShutdownInit, ShutdownInv, OpenInv, PutInv, CountInv, NoLostWakeup,
                                NobodyWaitsAborted, Running, ForResume

-----------------------------------------------------------------------------
(* The session.                                                            *)

(* Nothing a session does, but its end as the pump sees it, touches a      *)
(* queue, a worker or the shutdown.                                        *)
LEMMA SessionInv ==
    ASSUME ShutdownInv, Connect \/ ConnectFails \/ Refused \/ Started \/ Arrive \/ ServerEnds
    PROVE  ShutdownInv'
  <1>1. UNCHANGED <<stopVars, sinkVars, targets>> /\ (pump' = pump \/ pump' \in {"sleeping", "done", "pulling"})
    BY DEF Connect, ConnectFails, Refused, Started, Arrive, ServerEnds, PumpAgain
  <1>2. session' \in {"none", "connecting", "starting", "live", "ended"}
    BY DEF Connect, ConnectFails, Refused, Started, Arrive, ServerEnds, ShutdownInv, ShutdownTypeOK
  <1>3. /\ used' \in [events : 0..MaxEvents, ends : 0..MaxEnds, refusals : 0..MaxRefusals, calls : 0..MaxCalls]
        /\ leaked' \in 0..MaxRefusals /\ buffered' \in 0..MaxEvents
        /\ leaked' <= used'.refusals /\ buffered' <= used'.events
    <2>1. CASE UNCHANGED <<used, leaked, buffered>>
      BY <2>1 DEF ShutdownInv, ShutdownTypeOK, CountInv
    <2>2. CASE Refused
      BY <2>2, ShutdownAssumption DEF Refused, Use, ShutdownInv, ShutdownTypeOK, CountInv
    <2>3. CASE Arrive
      BY <2>3, ShutdownAssumption DEF Arrive, Use, ShutdownInv, ShutdownTypeOK, CountInv
    <2>4. CASE used.ends < MaxEnds /\ Use("ends") /\ UNCHANGED <<leaked, buffered>>
      BY <2>4, ShutdownAssumption DEF Use, ShutdownInv, ShutdownTypeOK, CountInv
    <2> QED BY <2>1, <2>2, <2>3, <2>4 DEF Connect, ConnectFails, Started, ServerEnds
  <1> QED BY <1>1, <1>2, <1>3 DEF ShutdownInv, ShutdownTypeOK, OpenInv, PutInv, AttemptInv, CountInv, NoLostWakeup,
                                  NobodyWaitsAborted, stopVars, sinkVars

-----------------------------------------------------------------------------
(* The pump.                                                               *)

LEMMA PullInv ==
    ASSUME ShutdownInv, Pull
    PROVE  ShutdownInv'
  <1>1. targets' \subseteq Sinks
    BY ShutdownAssumption DEF Pull, Fanouts
  <1>2. buffered' \in 0..MaxEvents /\ buffered' <= used.events
    BY ShutdownAssumption DEF Pull, ShutdownInv, ShutdownTypeOK, CountInv
  <1> QED BY <1>1, <1>2 DEF Pull, ShutdownInv, ShutdownTypeOK, OpenInv, PutInv, AttemptInv, CountInv, NoLostWakeup,
                            NobodyWaitsAborted, stopVars, sinkVars

LEMMA QueueLength ==
    ASSUME len \in [Sinks -> 0..Depth], NEW s \in Sinks
    PROVE  /\ len[s] < Depth => [len EXCEPT ![s] = @ + 1] \in [Sinks -> 0..Depth]
           /\ ~(len[s] < Depth) => len[s] = Depth
  <1>1. Depth \in Nat /\ len[s] \in 0..Depth
    BY ShutdownAssumption
  <1>2. len[s] < Depth => len[s] + 1 \in 0..Depth
    BY <1>1
  <1> QED BY <1>1, <1>2

(* A put of a queue with room wakes its taker; a full one of a durable sink *)
(* makes the pump wait for that very queue.                                *)
LEMMA PutStepInv ==
    ASSUME ShutdownInv, Put
    PROVE  ShutdownInv'
  <1> DEFINE s == Min(targets)
             taken == s \notin closed /\ len[s] < Depth
  <1>1. s \in targets /\ s \in Sinks
    BY TurnIsSink DEF Put, ShutdownInv, ShutdownTypeOK
  <1>0. UNCHANGED <<stopVars, session, leaked, buffered, closed, attempt, status, resuming, used>>
    BY DEF Put
  <1>2. CASE taken
    <2>1. /\ len' = [len EXCEPT ![s] = @ + 1] /\ worker' = WakeTaker(s)
          /\ targets' = targets \ {s} /\ pump' = pump /\ pump = "putting"
      BY <1>2 DEF Put
    <2>2. len' \in [Sinks -> 0..Depth]
      BY <1>1, <1>2, <2>1, QueueLength DEF ShutdownInv, ShutdownTypeOK
    <2>6. worker' \in [Sinks -> WorkerPlaces]
      BY <2>1 DEF ShutdownInv, ShutdownTypeOK, WorkerPlaces, WakeTaker
    <2>3. ShutdownTypeOK'
      BY <1>0, <2>1, <2>2, <2>6 DEF ShutdownInv, ShutdownTypeOK, WorkerPlaces, stopVars
    <2>7. AttemptInv'
      BY <1>0, <2>1 DEF ShutdownInv, ShutdownTypeOK, AttemptInv, Attempting, WakeTaker
    <2>4. OpenInv' /\ PutInv' /\ CountInv' /\ NobodyWaitsAborted'
      BY <1>0, <1>1, <2>1
         DEF ShutdownInv, ShutdownTypeOK, OpenInv, PutInv, CountInv, NobodyWaitsAborted, WakeTaker, stopVars,
             ForResume
    <2>5. NoLostWakeup'
      BY <1>0, <1>1, <2>1 DEF ShutdownInv, ShutdownTypeOK, NoLostWakeup, WakeTaker, stopVars
    <2> QED BY <2>3, <2>4, <2>5, <2>7 DEF ShutdownInv
  <1>3. CASE ~taken /\ (s \in closed \/ s \notin DurableSinks)
    <2>1. len' = len /\ worker' = worker /\ targets' = targets \ {s} /\ pump' = pump /\ pump = "putting"
      BY <1>3 DEF Put
    <2> QED BY <1>0, <2>1 DEF ShutdownInv, ShutdownTypeOK, OpenInv, PutInv, AttemptInv, CountInv, NoLostWakeup,
                              NobodyWaitsAborted, stopVars
  <1>4. CASE ~taken /\ s \notin closed /\ s \in DurableSinks
    <2>1. len' = len /\ worker' = worker /\ targets' = targets /\ pump' = "putWait" /\ targets # {}
      BY <1>4 DEF Put
    <2>2. len[s] = Depth
      BY <1>1, <1>4, QueueLength DEF ShutdownInv, ShutdownTypeOK
    <2>3. ShutdownTypeOK'
      BY <1>0, <2>1 DEF ShutdownInv, ShutdownTypeOK, stopVars
    <2>4. NoLostWakeup'
      BY <1>0, <1>4, <2>1, <2>2 DEF ShutdownInv, NoLostWakeup
    <2> QED BY <1>0, <2>1, <2>3, <2>4 DEF ShutdownInv, OpenInv, PutInv, AttemptInv, CountInv,
                                         NobodyWaitsAborted, stopVars
  <1> QED BY <1>2, <1>3, <1>4

LEMMA PutAllInv ==
    ASSUME ShutdownInv, PutAll \/ Awake
    PROVE  ShutdownInv'
  BY DEF PutAll, Awake, ShutdownInv, ShutdownTypeOK, OpenInv, PutInv, AttemptInv, CountInv, NoLostWakeup,
         NobodyWaitsAborted, stopVars, sinkVars

(* The queues are closed with their takers woken. *)
LEMMA SessionOverInv ==
    ASSUME ShutdownInv, SessionOver
    PROVE  ShutdownInv'
  <1>0. UNCHANGED <<stopVars, leaked, buffered, targets, len, attempt, status, resuming, used>>
    BY DEF SessionOver
  <1>1. session' = "none" /\ pump' \in {"done", "sleeping"}
    BY DEF SessionOver, PumpAgain
  <1>2. closed' \subseteq Sinks
    BY DEF SessionOver, ShutdownInv, ShutdownTypeOK
  <1>3. /\ worker' \in [Sinks -> WorkerPlaces]
        /\ \A s \in Sinks : worker'[s] = worker[s] \/ (worker[s] = "takeWait" /\ worker'[s] = "taking")
        /\ \A s \in Sinks : worker'[s] = "takeWait" => closed' = closed
    BY DEF SessionOver, WakeTaker, WorkerPlaces, ShutdownInv, ShutdownTypeOK
  <1>4. ShutdownTypeOK'
    BY <1>0, <1>1, <1>2, <1>3 DEF WorkerPlaces, ShutdownInv, ShutdownTypeOK, stopVars
  <1>5. AttemptInv'
    BY <1>0, <1>3 DEF ShutdownInv, AttemptInv, Attempting
  <1> QED BY <1>0, <1>1, <1>3, <1>4, <1>5 DEF ShutdownInv, OpenInv, PutInv, CountInv, NoLostWakeup,
                                        NobodyWaitsAborted, stopVars, ForResume

-----------------------------------------------------------------------------
(* The workers.                                                            *)

(* A worker may go wherever its guards allow: not to a place where it      *)
(* waits for an operator while the engine stops, not to a queue with       *)
(* something in it, and nowhere from the end.                              *)
LEMMA GotoInv ==
    ASSUME ShutdownInv, NEW s \in Sinks, NEW place \in WorkerPlaces,
           Goto(s, place), worker[s] # "done",
           aborted => place \notin ForResume,
           place = "takeWait" => len[s] = 0 /\ s \notin closed,
           attempt' \in [Sinks -> 0..MaxAttempts],
           place \in Attempting => attempt'[s] < MaxAttempts,
           \A t \in Sinks \ {s} : attempt'[t] = attempt[t],
           status' \in [Sinks -> {"running", "paused"}],
           UNCHANGED <<stopVars, pumpVars, len, closed, resuming, used>>
    PROVE  ShutdownInv'
  <1>1. worker' \in [Sinks -> WorkerPlaces]
    BY DEF ShutdownInv, ShutdownTypeOK, WorkerPlaces, Goto
  <1>2. ShutdownTypeOK'
    BY <1>1 DEF ShutdownInv, ShutdownTypeOK, WorkerPlaces, stopVars, pumpVars
  <1>3. OpenInv' /\ PutInv' /\ AttemptInv' /\ CountInv' /\ NobodyWaitsAborted'
    BY DEF ShutdownInv, ShutdownTypeOK, OpenInv, PutInv, AttemptInv, CountInv, NobodyWaitsAborted, Goto,
           stopVars, pumpVars
  <1>4. NoLostWakeup'
    BY DEF ShutdownInv, ShutdownTypeOK, NoLostWakeup, Goto, stopVars, pumpVars
  <1> QED BY <1>2, <1>3, <1>4 DEF ShutdownInv

LEMMA PausedLoopInv ==
    ASSUME ShutdownInv, NEW s \in Sinks, worker[s] # "done",
           NEW wait \in ForResume, NEW next \in {"taking", "deliver", "top"},
           wait = "holdWait" \/ next = "deliver" => attempt[s] < MaxAttempts,
           PausedLoop(s, wait, next)
    PROVE  ShutdownInv'
  <1> DEFINE place == IF status[s] = "running" THEN next ELSE IF aborted THEN "done" ELSE WaitForResume(wait)
  <1>1. /\ place \in WorkerPlaces /\ (aborted => place \notin ForResume) /\ place # "takeWait"
        /\ place \in Attempting => attempt[s] < MaxAttempts
    BY DEF WorkerPlaces, ForResume, WaitForResume, Attempting
  <1>2. Goto(s, place) /\ UNCHANGED <<attempt, status>>
        /\ UNCHANGED <<stopVars, pumpVars, len, closed, resuming, used>>
    BY DEF PausedLoop, WorkerOnly
  <1>3. attempt' \in [Sinks -> 0..MaxAttempts] /\ status' \in [Sinks -> {"running", "paused"}]
    BY <1>2 DEF ShutdownInv, ShutdownTypeOK
  <1> HIDE DEF place
  <1> QED BY <1>1, <1>2, <1>3, GotoInv

LEMMA WaitersInv ==
    ASSUME ShutdownInv, NEW s \in Sinks, Top(s) \/ Hold(s)
    PROVE  ShutdownInv'
  <1>1. CASE Top(s)
    BY <1>1, PausedLoopInv DEF Top, ForResume
  <1>2. CASE Hold(s)
    BY <1>2, PausedLoopInv DEF Hold, ForResume, ShutdownInv, AttemptInv, Attempting
  <1> QED BY <1>1, <1>2

LEMMA TakeInv ==
    ASSUME ShutdownInv, NEW s \in Sinks, Take(s)
    PROVE  ShutdownInv'
  <1> DEFINE place == IF len[s] > 0 THEN "linger" ELSE IF s \in closed THEN "done" ELSE "takeWait"
  <1>1. len[s] \in Nat
    BY ShutdownAssumption DEF ShutdownInv, ShutdownTypeOK
  <1>2. /\ place \in WorkerPlaces /\ place \notin ForResume
        /\ place = "takeWait" => len[s] = 0 /\ s \notin closed
        /\ place \notin Attempting
    BY <1>1 DEF WorkerPlaces, ForResume, Attempting
  <1>3. Goto(s, place) /\ worker[s] # "done" /\ UNCHANGED <<attempt, status>>
        /\ UNCHANGED <<stopVars, pumpVars, len, closed, resuming, used>>
    BY DEF Take, WorkerOnly
  <1>4. attempt' \in [Sinks -> 0..MaxAttempts] /\ status' \in [Sinks -> {"running", "paused"}]
    BY <1>3 DEF ShutdownInv, ShutdownTypeOK
  <1> HIDE DEF place
  <1> QED BY <1>2, <1>3, <1>4, GotoInv

(* The steps of a worker that is awake and has a batch. *)
LEMMA BatchInv ==
    ASSUME ShutdownInv, NEW s \in Sinks,
           Deliver(s) \/ Delivered(s) \/ BackedOff(s) \/ Acked(s) \/ Paused(s)
    PROVE  ShutdownInv'
  <1>1. PICK place \in WorkerPlaces : /\ Goto(s, place) /\ (aborted => place \notin ForResume) /\ place # "takeWait"
                                      /\ place \in Attempting => worker[s] \in Attempting
    BY DEF Deliver, Delivered, BackedOff, Acked, Paused, WorkerPlaces, ForResume, WaitForResume, Woken, Attempting
  <1>2. worker[s] # "done" /\ UNCHANGED <<stopVars, pumpVars, len, closed, status, resuming, used, attempt>>
    BY DEF Deliver, Delivered, BackedOff, Acked, Paused, WorkerOnly
  <1>3. attempt' \in [Sinks -> 0..MaxAttempts] /\ status' \in [Sinks -> {"running", "paused"}]
    BY <1>2 DEF ShutdownInv, ShutdownTypeOK
  <1>4. attempt' = attempt
    BY <1>2
  <1>5. place \in Attempting => attempt[s] < MaxAttempts
    BY <1>1 DEF ShutdownInv, AttemptInv
  <1>6. (place \in Attempting => attempt'[s] < MaxAttempts) /\ (\A t \in Sinks \ {s} : attempt'[t] = attempt[t])
    BY <1>4, <1>5
  <1> QED BY <1>1, <1>2, <1>3, <1>6, GotoInv

LEMMA ResumedInv ==
    ASSUME ShutdownInv, NEW s \in Sinks, Resumed(s)
    PROVE  ShutdownInv'
  <1>1. /\ worker[s] = "resumed"
        /\ UNCHANGED <<stopVars, pumpVars, len, closed, status, resuming, used>>
    BY DEF Resumed, WorkerOnly
  <1>2. status' \in [Sinks -> {"running", "paused"}]
    BY <1>1 DEF ShutdownInv, ShutdownTypeOK
  <1>3. CASE aborted
    <2>1. Goto(s, "done") /\ attempt' = [attempt EXCEPT ![s] = @]
      BY <1>3 DEF Resumed
    <2>2. attempt' = attempt /\ attempt' \in [Sinks -> 0..MaxAttempts]
      BY <2>1 DEF ShutdownInv, ShutdownTypeOK
    <2> QED BY <1>1, <1>2, <2>1, <2>2, GotoInv DEF WorkerPlaces, ForResume, Attempting
  <1>4. CASE ~aborted
    <2>1. Goto(s, "deliver") /\ attempt' = [attempt EXCEPT ![s] = 0]
      BY <1>4 DEF Resumed
    <2>2. /\ attempt' \in [Sinks -> 0..MaxAttempts] /\ attempt'[s] < MaxAttempts
          /\ \A t \in Sinks \ {s} : attempt'[t] = attempt[t]
      BY <2>1, ShutdownAssumption DEF ShutdownInv, ShutdownTypeOK
    <2> QED BY <1>1, <1>2, <2>1, <2>2, GotoInv DEF WorkerPlaces, ForResume, Attempting
  <1> QED BY <1>3, <1>4

(* A failed delivery is retried, or pauses the sink with its last attempt. *)
LEMMA DeliveryFailsInv ==
    ASSUME ShutdownInv, NEW s \in Sinks, DeliveryFails(s)
    PROVE  ShutdownInv'
  <1>0. worker[s] = "delivering" /\ UNCHANGED <<stopVars, pumpVars, len, closed, resuming, used>>
    BY DEF DeliveryFails
  <1>1. CASE s \notin DurableSinks
    <2>1. Goto(s, "taking") /\ UNCHANGED <<attempt, status>>
      BY <1>1 DEF DeliveryFails
    <2> QED BY <1>0, <2>1, GotoInv DEF ShutdownInv, ShutdownTypeOK, WorkerPlaces, ForResume, Attempting
  <1>2. CASE s \in DurableSinks
    <2>1. attempt' = [attempt EXCEPT ![s] = @ + 1]
      BY <1>2 DEF DeliveryFails
    <2>2. attempt[s] \in 0..MaxAttempts /\ attempt[s] < MaxAttempts /\ MaxAttempts \in Nat
      BY <1>0, ShutdownAssumption DEF ShutdownInv, ShutdownTypeOK, AttemptInv, Attempting
    <2>3. attempt[s] + 1 \in 0..MaxAttempts
      BY <2>2
    <2>4. attempt' \in [Sinks -> 0..MaxAttempts] /\ (\A t \in Sinks \ {s} : attempt'[t] = attempt[t])
          /\ attempt'[s] = attempt[s] + 1
      BY <2>1, <2>3 DEF ShutdownInv, ShutdownTypeOK
    <2>5. CASE attempt[s] + 1 >= MaxAttempts
      <3>1. Goto(s, "pausing") /\ status' = [status EXCEPT ![s] = "paused"]
        BY <1>2, <2>5 DEF DeliveryFails
      <3>2. status' \in [Sinks -> {"running", "paused"}]
        BY <3>1 DEF ShutdownInv, ShutdownTypeOK
      <3> QED BY <1>0, <2>4, <3>1, <3>2, GotoInv DEF WorkerPlaces, ForResume, Attempting
    <2>6. CASE ~(attempt[s] + 1 >= MaxAttempts)
      <3>1. Goto(s, "backoff") /\ UNCHANGED status
        BY <1>2, <2>6 DEF DeliveryFails
      <3>2. attempt'[s] < MaxAttempts
        BY <2>2, <2>4, <2>6
      <3>3. status' \in [Sinks -> {"running", "paused"}]
        BY <3>1 DEF ShutdownInv, ShutdownTypeOK
      <3> QED BY <1>0, <2>4, <3>1, <3>2, <3>3, GotoInv DEF WorkerPlaces, ForResume, Attempting
    <2> QED BY <2>5, <2>6
  <1> QED BY <1>1, <1>2

(* A batch that is taken wakes the pump if it waits for this queue. *)
LEMMA SpliceInv ==
    ASSUME ShutdownInv, NEW s \in Sinks, Splice(s)
    PROVE  ShutdownInv'
  <1>0. /\ worker[s] = "linger"
        /\ UNCHANGED <<stopVars, session, leaked, buffered, targets, closed, status, resuming, used>>
        /\ pump' = WakePump(s) /\ attempt' = [attempt EXCEPT ![s] = 0]
    BY DEF Splice
  <1>1. PICK n \in 1..len[s] : len' = [len EXCEPT ![s] = @ - n]
    BY DEF Splice
  <1>2. len' \in [Sinks -> 0..Depth] /\ \A t \in Sinks \ {s} : len'[t] = len[t]
    <2>1. len[s] \in 0..Depth /\ Depth \in Nat
      BY ShutdownAssumption DEF ShutdownInv, ShutdownTypeOK
    <2>2. len[s] - n \in 0..Depth
      BY <2>1
    <2> QED BY <1>1, <2>2 DEF ShutdownInv, ShutdownTypeOK
  <1>3. PICK place \in {"hold", "delivering"} : worker' = [worker EXCEPT ![s] = place]
    BY DEF Splice, Goto
  <1>4. worker' \in [Sinks -> WorkerPlaces] /\ \A t \in Sinks \ {s} : worker'[t] = worker[t]
    BY <1>3 DEF ShutdownInv, ShutdownTypeOK, WorkerPlaces
  <1>5. attempt' \in [Sinks -> 0..MaxAttempts] /\ AttemptInv'
    BY <1>0, <1>4, ShutdownAssumption DEF ShutdownInv, ShutdownTypeOK, AttemptInv
  <1>6. ShutdownTypeOK'
    BY <1>0, <1>2, <1>4, <1>5 DEF ShutdownInv, ShutdownTypeOK, WorkerPlaces, WakePump, stopVars
  <1>7. NoLostWakeup'
    <2>1. ASSUME pump' = "putWait"
          PROVE  len'[Min(targets)] = Depth /\ Min(targets) \notin closed
      <3>1. pump = "putWait" /\ Min(targets) # s
        BY <1>0, <2>1 DEF WakePump
      <3>2. Min(targets) \in Sinks
        BY <3>1, TurnIsSink DEF ShutdownInv, ShutdownTypeOK, PutInv
      <3> QED BY <1>2, <3>1, <3>2 DEF ShutdownInv, NoLostWakeup
    <2>2. \A t \in Sinks : worker'[t] = "takeWait" => t # s
      BY <1>3 DEF ShutdownInv, ShutdownTypeOK
    <2> QED BY <1>0, <1>2, <1>4, <2>1, <2>2 DEF ShutdownInv, NoLostWakeup
  <1>8. OpenInv' /\ NobodyWaitsAborted'
    BY <1>0, <1>3, <1>4 DEF ShutdownInv, ShutdownTypeOK, OpenInv, NobodyWaitsAborted, ForResume, stopVars
  <1>9. PutInv' /\ CountInv'
    BY <1>0 DEF ShutdownInv, PutInv, CountInv, WakePump
  <1> QED BY <1>5, <1>6, <1>7, <1>8, <1>9 DEF ShutdownInv

-----------------------------------------------------------------------------
(* The operator.                                                           *)

LEMMA OperatorInv ==
    ASSUME ShutdownInv, NEW s \in DurableSinks, OperatorPauses(s) \/ OperatorResumes(s)
    PROVE  ShutdownInv'
  <1>0. s \in Sinks
    BY ShutdownAssumption
  <1>1. /\ used.calls < MaxCalls /\ used' = [used EXCEPT !["calls"] = @ + 1]
        /\ UNCHANGED <<stopVars, pumpVars, len, closed, worker, attempt>>
        /\ resuming' \subseteq resuming \cup {s}
    BY DEF OperatorPauses, OperatorResumes, Use
  <1>2. status' \in [Sinks -> {"running", "paused"}]
    BY DEF OperatorPauses, OperatorResumes, ShutdownInv, ShutdownTypeOK
  <1>3. /\ used' \in [events : 0..MaxEvents, ends : 0..MaxEnds, refusals : 0..MaxRefusals, calls : 0..MaxCalls]
        /\ used'.events = used.events /\ used'.refusals = used.refusals
    BY <1>1, ShutdownAssumption DEF ShutdownInv, ShutdownTypeOK
  <1>4. ShutdownTypeOK'
    BY <1>1, <1>2, <1>3 DEF ShutdownInv, ShutdownTypeOK, stopVars, pumpVars
  <1> QED BY <1>1, <1>3, <1>4 DEF ShutdownInv, OpenInv, PutInv, AttemptInv, CountInv, NoLostWakeup,
                                  NobodyWaitsAborted, stopVars, pumpVars

LEMMA ResumeReturnsInv ==
    ASSUME ShutdownInv, NEW s \in DurableSinks, ResumeReturns(s)
    PROVE  ShutdownInv'
  <1>0. s \in Sinks
    BY ShutdownAssumption
  <1>1. /\ worker' = [worker EXCEPT ![s] = Woken(worker[s])] /\ resuming' \subseteq resuming
        /\ UNCHANGED <<stopVars, pumpVars, len, closed, attempt, status, used>>
    BY DEF ResumeReturns, Goto
  <1>2. worker' \in [Sinks -> WorkerPlaces]
    BY <1>0, <1>1 DEF ShutdownInv, ShutdownTypeOK, WorkerPlaces, Woken, ForResume
  <1>3. ShutdownTypeOK'
    BY <1>1, <1>2 DEF ShutdownInv, ShutdownTypeOK, WorkerPlaces, stopVars, pumpVars
  <1>4. OpenInv' /\ NoLostWakeup' /\ NobodyWaitsAborted'
    BY <1>0, <1>1 DEF ShutdownInv, ShutdownTypeOK, OpenInv, NoLostWakeup, NobodyWaitsAborted, Woken, ForResume,
                      stopVars, pumpVars
  <1>5. AttemptInv'
    BY <1>0, <1>1 DEF ShutdownInv, ShutdownTypeOK, AttemptInv, Attempting, Woken, ForResume
  <1> QED BY <1>1, <1>3, <1>4, <1>5 DEF ShutdownInv, PutInv, CountInv, pumpVars

-----------------------------------------------------------------------------
(* The shutdown.                                                           *)

LEMMA SignalInv ==
    ASSUME ShutdownInv, Signal
    PROVE  ShutdownInv'
  <1>1. /\ stopPc = "serving" /\ stopPc' = "stream" /\ aborted' = TRUE
        /\ worker' = [s \in Sinks |-> Woken(worker[s])]
        /\ session' \in {"ended", session}
        /\ UNCHANGED <<leaked, buffered, pump, targets, len, closed, attempt, status, resuming,
                       sinksOpen, poolOpen, used>>
    BY DEF Signal
  <1>2. /\ worker' \in [Sinks -> WorkerPlaces]
        /\ \A s \in Sinks : worker'[s] \notin ForResume
    BY <1>1 DEF ShutdownInv, ShutdownTypeOK, WorkerPlaces, Woken, ForResume
  <1>3. ShutdownTypeOK'
    BY <1>1, <1>2 DEF ShutdownInv, ShutdownTypeOK, WorkerPlaces
  <1>4. AttemptInv' /\ NoLostWakeup'
    BY <1>1 DEF ShutdownInv, ShutdownTypeOK, AttemptInv, Attempting, NoLostWakeup, Woken, ForResume
  <1> QED BY <1>1, <1>2, <1>3, <1>4 DEF ShutdownInv, OpenInv, PutInv, CountInv, NobodyWaitsAborted, Running

LEMMA StopClosesInv ==
    ASSUME ShutdownInv, StopCloses
    PROVE  ShutdownInv'
  <1>1. /\ stopPc = "stream" /\ stopPc' = "draining" /\ closed' = Sinks
        /\ worker' = [s \in Sinks |-> Woken(WakeTaker(s)[s])]
        /\ pump' = IF pump = "putWait" THEN "putting" ELSE pump
        /\ UNCHANGED <<aborted, session, leaked, buffered, targets, len, attempt, status, resuming,
                       sinksOpen, poolOpen, used>>
    BY DEF StopCloses
  <1>2. \A s \in Sinks : WakeTaker(s)[s] = IF worker[s] = "takeWait" THEN "taking" ELSE worker[s]
    BY DEF WakeTaker, ShutdownInv, ShutdownTypeOK
  <1>3. /\ worker' \in [Sinks -> WorkerPlaces]
        /\ \A s \in Sinks : worker'[s] \notin ForResume \cup {"takeWait"}
    BY <1>1, <1>2 DEF ShutdownInv, ShutdownTypeOK, WorkerPlaces, Woken, ForResume
  <1>4. pump' # "putWait"
    BY <1>1
  <1>5. ShutdownTypeOK'
    BY <1>1, <1>3 DEF ShutdownInv, ShutdownTypeOK, WorkerPlaces
  <1>6. AttemptInv'
    BY <1>1, <1>2 DEF ShutdownInv, ShutdownTypeOK, AttemptInv, Attempting, Woken, ForResume
  <1> QED BY <1>1, <1>3, <1>4, <1>5, <1>6
          DEF ShutdownInv, OpenInv, PutInv, CountInv, NobodyWaitsAborted, NoLostWakeup, Running

(* The sinks and the pool are closed only with every worker returned. *)
LEMMA StopStepInv ==
    ASSUME ShutdownInv, StopDrained \/ StopSink \/ StopPool \/ StopServer
    PROVE  ShutdownInv'
  <1>1. /\ stopPc' \in {"sinks", "server", "stopped"} /\ sinksOpen' \subseteq sinksOpen
        /\ poolOpen' \in {FALSE, poolOpen}
        /\ UNCHANGED <<aborted, pumpVars, sinkVars, used>>
    BY DEF StopDrained, StopSink, StopPool, StopServer
  <1>2. \A s \in Sinks : worker[s] = "done"
    BY DEF StopDrained, StopSink, StopPool, StopServer, Drained, ShutdownInv, OpenInv, Running
  <1>3. ShutdownTypeOK'
    BY <1>1 DEF ShutdownInv, ShutdownTypeOK, pumpVars, sinkVars
  <1> QED BY <1>1, <1>2, <1>3
          DEF ShutdownInv, OpenInv, PutInv, AttemptInv, CountInv, NobodyWaitsAborted, NoLostWakeup, Running,
              Attempting, ForResume, pumpVars, sinkVars

LEMMA ShutdownStepInv == ShutdownInv /\ [ShutdownNext]_shutdownVars => ShutdownInv'
  <1> SUFFICES ASSUME ShutdownInv, [ShutdownNext]_shutdownVars PROVE ShutdownInv'
    OBVIOUS
  <1>1. CASE UNCHANGED shutdownVars
    BY <1>1 DEF shutdownVars, ShutdownInv, ShutdownTypeOK, OpenInv, PutInv, AttemptInv, CountInv, NoLostWakeup,
                NobodyWaitsAborted
  <1>2. CASE Connect \/ ConnectFails \/ Refused \/ Started \/ Arrive \/ ServerEnds
    BY <1>2, SessionInv
  <1>3. CASE PumpStep
    BY <1>3, PullInv, PutStepInv, PutAllInv, SessionOverInv DEF PumpStep
  <1>4. ASSUME NEW s \in Sinks, WorkerStep(s) PROVE ShutdownInv'
    BY <1>4, WaitersInv, TakeInv, SpliceInv, BatchInv, ResumedInv, DeliveryFailsInv DEF WorkerStep
  <1>5. ASSUME NEW s \in DurableSinks, OperatorPauses(s) \/ OperatorResumes(s) \/ ResumeReturns(s)
        PROVE  ShutdownInv'
    BY <1>5, OperatorInv, ResumeReturnsInv
  <1>6. CASE StopStep
    BY <1>6, StopClosesInv, StopStepInv DEF StopStep
  <1> QED BY <1>1, <1>2, <1>3, <1>4, <1>5, <1>6, SignalInv DEF ShutdownNext

LEMMA AlwaysShutdownInv == ShutdownSpec => []ShutdownInv
  BY ShutdownInitInv, ShutdownStepInv, PTL DEF ShutdownSpec

-----------------------------------------------------------------------------
(* Lengths, attempts and places stay in their ranges: no queue grows past  *)
(* its depth and no batch is tried more often than it may be (engine.ts,   *)
(* bounded-queue.ts).                                                      *)
THEOREM ShutdownTypes == ShutdownSpec => []ShutdownTypeOK
  <1>1. ShutdownInv => ShutdownTypeOK
    BY DEF ShutdownInv
  <1> QED BY <1>1, AlwaysShutdownInv, PTL

(* Nothing is delivered to a sink that stop() has closed, and nothing is   *)
(* written over a pool it has ended (engine.ts, stop).                     *)
THEOREM ClosedIsUnused == ShutdownSpec => []NoUseAfterClose
  <1>1. ShutdownInv => NoUseAfterClose
    BY DEF ShutdownInv, OpenInv, NoUseAfterClose
  <1> QED BY <1>1, AlwaysShutdownInv, PTL

(* Neither the pump nor a worker sleeps on a queue that could serve it, or *)
(* that is closed (bounded-queue.ts).                                      *)
THEOREM WaitersWait == ShutdownSpec => []NoLostWakeup
  <1>1. ShutdownInv => NoLostWakeup
    BY DEF ShutdownInv
  <1> QED BY <1>1, AlwaysShutdownInv, PTL

(* Once the engine is told to stop no worker waits for an operator         *)
(* (engine.ts, waitForResume).                                             *)
THEOREM AbortWakes == ShutdownSpec => []NobodyWaitsAborted
  <1>1. ShutdownInv => NobodyWaitsAborted
    BY DEF ShutdownInv
  <1> QED BY <1>1, AlwaysShutdownInv, PTL
==============================================================================
