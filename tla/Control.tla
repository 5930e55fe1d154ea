------------------------------ MODULE Control -------------------------------
(***************************************************************************)
(* The control plane: the daemon's HTTP server with its token, and the     *)
(* dashboard that polls it on a timer, acts on a sink and polls again,     *)
(* with requests that overtake each other.                                 *)
(*   packages/walcast/src/daemon/server.ts, apps/ui/src/App.tsx, api.ts,   *)
(*   pages/Sinks.tsx, engine/engine.ts (stats, pause, resume)              *)
(*                                                                         *)
(* One sink stands for all; what its worker does about the status is       *)
(* SinkEngine's subject.                                                   *)
(***************************************************************************)
EXTENDS Naturals, FiniteSets

CONSTANTS
    Requests,      \* identities of requests in flight: bounds how many overlap
    MaxStatusChanges,   \* bound: status changes that do not come from the dashboard
    MaxActs        \* bound: clicks on the button

VARIABLES
    sinkStatus,    \* what the engine's state says
    changes,       \* the bound consumed
    acts,          \* the bound consumed
    page,          \* "closed", "open", or "gate" while the server rejects the token
    token,         \* whether the stored token is the daemon's
    shown,         \* the status on screen, "none" before the first answer
    busy,          \* whether a POST and the poll behind it are under way
    flight         \* requests in flight: what is asked, and the answer once served

controlVars == <<sinkStatus, changes, acts, page, token, shown, busy, flight>>

Statuses == {"running", "paused"}
Polls == {"stats", "refresh"}    \* by the timer, and behind an act
None == [ask |-> "none"]

-----------------------------------------------------------------------------
(* The server: authorized(), handle(), handleApi(). Everything under /api  *)
(* and every plugin route is behind the token.                             *)
Answer(request, status) ==
    CASE ~request.authorized -> "401"
      [] request.ask \in Polls -> status
      [] OTHER -> "200"

(* POST .../pause and .../resume set the status and then write it.         *)
Effect(request, status) ==
    IF request.authorized /\ request.ask \in Statuses THEN request.ask ELSE status

Serve(r) ==
    /\ flight[r] # None /\ "answer" \notin DOMAIN flight[r]
    /\ sinkStatus' = Effect(flight[r], sinkStatus)
    /\ \E answer \in {Answer(flight[r], sinkStatus)} \cup (IF flight[r].ask \in Polls THEN {} ELSE {"404"}) :
        flight' = [flight EXCEPT ![r] = [ask |-> @.ask, authorized |-> @.authorized, answer |-> answer]]
    /\ UNCHANGED <<changes, acts, page, token, shown, busy>>

(* The worker pauses the sink, or another operator calls. *)
StatusChanges ==
    /\ changes < MaxStatusChanges /\ changes' = changes + 1
    /\ \E status \in Statuses \ {sinkStatus} : sinkStatus' = status
    /\ UNCHANGED <<acts, page, token, shown, busy, flight>>

-----------------------------------------------------------------------------
(* The dashboard *)

Send(r, ask) ==
    /\ flight[r] = None
    /\ flight' = [flight EXCEPT ![r] = [ask |-> ask, authorized |-> token]]

Open ==
    /\ page = "closed" /\ page' = "open"
    /\ token' \in BOOLEAN
    /\ UNCHANGED <<sinkStatus, changes, acts, shown, busy, flight>>

(* The timer polls whatever is still under way, and behind the gate too.   *)
Poll ==
    /\ page # "closed"
    /\ \E r \in Requests : Send(r, "stats")
    /\ UNCHANGED <<sinkStatus, changes, acts, page, token, shown, busy>>

MPollAnswered(r) ==
    /\ flight[r].ask \in Polls /\ "answer" \in DOMAIN flight[r]
    /\ flight' = [flight EXCEPT ![r] = None]
    /\ IF flight[r].answer = "401" THEN page' = "gate" /\ UNCHANGED shown
                                   ELSE UNCHANGED page /\ shown' = IF page = "gate" THEN shown ELSE flight[r].answer
    /\ busy' = (busy /\ flight[r].ask # "refresh" /\ flight[r].answer # "401")
    /\ UNCHANGED <<sinkStatus, changes, acts, token>>

(* The answer to a poll is shown, in whatever order answers arrive; a 401  *)
(* raises the gate, which takes the page with its busy button away and     *)
(* which the next good answer opens.                                       *)
PollAnswered(r) ==
    /\ flight[r].ask \in Polls /\ "answer" \in DOMAIN flight[r]
    /\ flight' = [flight EXCEPT ![r] = None]
    /\ IF flight[r].answer = "401" THEN page' = "gate" /\ UNCHANGED shown
                                   ELSE page' = "open" /\ shown' = flight[r].answer
    /\ busy' = (busy /\ flight[r].ask # "refresh" /\ flight[r].answer # "401")
    /\ UNCHANGED <<sinkStatus, changes, acts, token>>

(* TokenGate *)
EnterToken ==
    /\ page = "gate" /\ token' = TRUE
    /\ UNCHANGED <<sinkStatus, changes, acts, page, shown, busy, flight>>

(* act(): the button asks for the opposite of what is shown. *)
Click(r) ==
    /\ page = "open" /\ shown # "none" /\ ~busy /\ acts < MaxActs
    /\ busy' = TRUE /\ acts' = acts + 1
    /\ Send(r, IF shown = "paused" THEN "running" ELSE "paused")
    /\ UNCHANGED <<sinkStatus, changes, page, token, shown>>

(* await refresh(): a poll of its own; a failed POST ends the act. *)
PostAnswered(r) ==
    /\ flight[r].ask \in Statuses /\ "answer" \in DOMAIN flight[r]
    /\ flight' = [flight EXCEPT ![r] = IF flight[r].answer = "200" THEN [ask |-> "refresh", authorized |-> token] ELSE None]
    /\ busy' = (busy /\ flight[r].answer = "200")
    /\ UNCHANGED <<sinkStatus, changes, acts, page, token, shown>>

ControlInit ==
    /\ sinkStatus \in Statuses /\ changes = 0 /\ acts = 0
    /\ page = "closed" /\ token = FALSE /\ shown = "none" /\ busy = FALSE
    /\ flight = [r \in Requests |-> None]

ControlNext ==
    \/ \E r \in Requests : Serve(r) \/ PollAnswered(r) \/ PostAnswered(r) \/ Click(r)
    \/ StatusChanges \/ Open \/ Poll \/ EnterToken

ControlSpec == ControlInit /\ [][ControlNext]_controlVars

(* Requests are served and their answers arrive, the timer goes on, and    *)
(* whoever sits before the gate enters the token.                          *)
ControlFairSpec ==
    /\ ControlSpec
    /\ \A r \in Requests : WF_controlVars(Serve(r) \/ PollAnswered(r) \/ PostAnswered(r))
    /\ WF_controlVars(Poll) /\ WF_controlVars(EnterToken)

-----------------------------------------------------------------------------
ControlTypeOK ==
    /\ sinkStatus \in Statuses /\ shown \in Statuses \cup {"none"}
    /\ page \in {"closed", "open", "gate"} /\ {token, busy} \subseteq BOOLEAN
    /\ changes \in 0..MaxStatusChanges /\ acts \in 0..MaxActs

(* Once the status of a sink stays as it is, the open dashboard comes to   *)
(* show it and goes on showing it: neither an answer overtaken by a later  *)
(* one nor a wrong token leaves it stale for good (poll, act).             *)
DashboardSettles ==
    \A status \in Statuses :
        <>[](page # "closed" /\ sinkStatus = status) => <>[](page = "open" /\ shown = status)
=============================================================================
