------------------------------- MODULE Setup --------------------------------
(***************************************************************************)
(* Publication and slot: created by every daemon that starts and by        *)
(* `walcast setup`, each with check-then-create queries that interleave    *)
(* with those of the others, dropped by `walcast teardown`, and any of     *)
(* these processes may die between two queries.                            *)
(*   packages/walcast/src/setup.ts, cli.ts (main), daemon/serve.ts,        *)
(*   daemon/config.ts                                                      *)
(*                                                                         *)
(* The processes agree on the names. That no teardown is run while a setup *)
(* is under way, nor a setup during a teardown, is the operator's part:    *)
(* nothing in the code keeps them apart (Overlaps).                        *)
(***************************************************************************)
EXTENDS Naturals, FiniteSets

CONSTANTS
    Daemons,        \* processes of `walcast serve`
    Tools,          \* processes of `walcast setup` and `walcast teardown`
    Overlaps,       \* may the operator run a teardown and a setup at once?
    MaxDeaths       \* bound: processes that die or are stopped

ASSUME SetupAssumption == Daemons \cap Tools = {} /\ Overlaps \in BOOLEAN /\ MaxDeaths \in Nat

VARIABLES
    publication, slot,   \* whether they exist in the database
    holder,              \* the set with the daemon the slot streams to, or empty
    at,                  \* where each process is
    deaths               \* the bound consumed

setupVars == <<publication, slot, holder, at, deaths>>

Processes == Daemons \cup Tools
Setting == {"wal", "publication", "createPublication", "slot", "createSlot"}
Dropping == {"dropCheck", "dropSlot", "dropPublication"}
Goes(p, where) == at' = [at EXCEPT ![p] = where]
Exits(p) == Goes(p, "off")

-----------------------------------------------------------------------------
(* main(): the command. A daemon that exits before ensureSetup() has not   *)
(* touched the database.                                                   *)
Quiet(places) == \A p \in Processes : at[p] \notin places

(* What the operator minds before a command is run; no guard of the code.  *)
Minded(places) == Overlaps \/ Quiet(places)

RunSetup(p) ==
    /\ at[p] = "off" /\ Minded(Dropping)
    /\ Goes(p, IF p \in Daemons THEN "loading" ELSE "wal")
    /\ UNCHANGED <<publication, slot, holder, deaths>>

(* A configuration that cannot be read, no sink or no database in it.      *)
LoadConfig(p) ==
    /\ at[p] = "loading"
    /\ Goes(p, "plugins") \/ (deaths < MaxDeaths /\ Exits(p))
    /\ deaths' = IF at'[p] = "off" THEN deaths + 1 ELSE deaths
    /\ UNCHANGED <<publication, slot, holder>>

(* Two sinks of one name, a plugin that is not installed or no factory, a  *)
(* factory that rejects its config.                                        *)
LoadSinks(p) ==
    /\ at[p] = "plugins" /\ Minded(Dropping)
    /\ Goes(p, "wal") \/ (deaths < MaxDeaths /\ Exits(p))
    /\ deaths' = IF at'[p] = "off" THEN deaths + 1 ELSE deaths
    /\ UNCHANGED <<publication, slot, holder>>

(* Only `y` or --yes goes on; anything else ends the command. *)
RunTeardown(p) ==
    /\ at[p] = "off" /\ p \in Tools /\ Minded(Setting)
    /\ Goes(p, "dropCheck")
    /\ UNCHANGED <<publication, slot, holder, deaths>>

-----------------------------------------------------------------------------
(* ensureSetup() *)

WalLevel(p) ==
    /\ at[p] = "wal"
    /\ Goes(p, "publication")
    /\ UNCHANGED <<publication, slot, holder, deaths>>

MCheckPublication(p) ==
    /\ at[p] = "publication"
    /\ Goes(p, "createPublication")
    /\ UNCHANGED <<publication, slot, holder, deaths>>

CheckPublication(p) ==
    /\ at[p] = "publication"
    /\ Goes(p, IF publication THEN "slot" ELSE "createPublication")
    /\ UNCHANGED <<publication, slot, holder, deaths>>

(* The loser of a race gets "already exists" and its process exits. *)
CreatePublication(p) ==
    /\ at[p] = "createPublication"
    /\ publication' = TRUE
    /\ IF publication THEN Exits(p) ELSE Goes(p, "slot")
    /\ UNCHANGED <<slot, holder, deaths>>

Ready(p) == IF p \in Daemons THEN "starting" ELSE "off"

CheckSlot(p) ==
    /\ at[p] = "slot"
    /\ Goes(p, IF slot THEN Ready(p) ELSE "createSlot")
    /\ UNCHANGED <<publication, slot, holder, deaths>>

CreateSlot(p) ==
    /\ at[p] = "createSlot"
    /\ slot' = TRUE
    /\ IF slot THEN Exits(p) ELSE Goes(p, Ready(p))
    /\ UNCHANGED <<publication, holder, deaths>>

-----------------------------------------------------------------------------
(* serve(): engine.start() registers and initialises the sinks, its pump   *)
(* connects until the slot is free, and the server listens meanwhile.      *)
EngineStarts(p) ==
    /\ at[p] = "starting"
    /\ Goes(p, "serving")
    /\ UNCHANGED <<publication, slot, holder, deaths>>

StartReplication(p) ==
    /\ at[p] = "serving" /\ holder = {}
    /\ slot /\ publication
    /\ holder' = {p}
    /\ UNCHANGED <<publication, slot, at, deaths>>

(* A signal, a port in use, a sink that does not initialise, a lost        *)
(* database connection, a kill: at any point.                              *)
Dies(p) ==
    /\ at[p] # "off" /\ deaths < MaxDeaths
    /\ Exits(p) /\ deaths' = deaths + 1
    /\ holder' = holder \ {p}
    /\ UNCHANGED <<publication, slot>>

-----------------------------------------------------------------------------
MDropCheck(p) ==
    /\ at[p] = "dropCheck"
    /\ Goes(p, IF slot THEN "dropSlot" ELSE "dropPublication")
    /\ publication' = FALSE
    /\ UNCHANGED <<slot, holder, deaths>>

(* teardown(): the slot first. The server refuses to drop one that is in   *)
(* use, and the command ends there.                                        *)
DropCheck(p) ==
    /\ at[p] = "dropCheck"
    /\ Goes(p, IF slot THEN "dropSlot" ELSE "dropPublication")
    /\ UNCHANGED <<publication, slot, holder, deaths>>

DropSlot(p) ==
    /\ at[p] = "dropSlot"
    /\ IF slot /\ holder = {} THEN slot' = FALSE /\ Goes(p, "dropPublication")
                              ELSE UNCHANGED slot /\ Exits(p)
    /\ UNCHANGED <<publication, holder, deaths>>

DropPublication(p) ==
    /\ at[p] = "dropPublication"
    /\ publication' = FALSE
    /\ Exits(p)
    /\ UNCHANGED <<slot, holder, deaths>>

-----------------------------------------------------------------------------
SetupInit ==
    /\ publication = FALSE /\ slot = FALSE /\ holder = {}
    /\ at = [p \in Processes |-> "off"] /\ deaths = 0

SetupStep(p) ==
    \/ LoadConfig(p) \/ LoadSinks(p) \/ WalLevel(p)
    \/ CheckPublication(p) \/ CreatePublication(p) \/ CheckSlot(p) \/ CreateSlot(p)
    \/ EngineStarts(p) \/ StartReplication(p)

SetupNext ==
    \E p \in Processes : \/ RunSetup(p) \/ SetupStep(p) \/ Dies(p)
                         \/ RunTeardown(p) \/ DropCheck(p) \/ DropSlot(p) \/ DropPublication(p)

SetupSpec == SetupInit /\ [][SetupNext]_setupVars

(* A daemon that has exited is started again by its supervisor. *)
SetupFairSpec ==
    /\ SetupSpec
    /\ \A p \in Processes : WF_setupVars(SetupStep(p) \/ DropCheck(p) \/ DropSlot(p) \/ DropPublication(p))
    /\ \A p \in Daemons : WF_setupVars(RunSetup(p))

-----------------------------------------------------------------------------
SetupTypeOK ==
    /\ {publication, slot} \subseteq BOOLEAN
    /\ holder \subseteq Daemons /\ Cardinality(holder) <= 1
    /\ at \in [Processes -> Setting \cup Dropping \cup {"off", "loading", "plugins", "starting", "serving"}]
    /\ deaths \in 0..MaxDeaths

(* The slot never stands without its publication, whoever died half way    *)
(* through a setup or a teardown: decoding from such a slot fails, and it  *)
(* retains WAL for ever (the order of ensureSetup and of teardown).        *)
SlotHasPublication == slot => publication

(* Setup is idempotent: however the setups of others interleaved with it   *)
(* or were cut off, a daemon that is started over and over gets the slot   *)
(* streaming, unless teardowns go on (ensureSetup, serve).                 *)
StartsServing ==
    \A p \in Daemons : at[p] = "loading" ~> (holder # {} \/ ~Quiet(Dropping))
=============================================================================
