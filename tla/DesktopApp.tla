----------------------------- MODULE DesktopApp -----------------------------
(***************************************************************************)
(* The desktop application: one screen at a time, and behind it a balancer *)
(* or an agent that runs in a thread of its own.  A task per runner starts *)
(* it, follows it and posts messages; the event loop takes one message at  *)
(* a time, the user's or a task's, and what it does with it depends on the *)
(* screen.  A message says nothing of the runner it comes from, and a      *)
(* runner that was cancelled goes on posting until it has stopped.         *)
(*                                                                         *)
(* A form is its set of fields whose value is not acceptable and the set   *)
(* of fields an error is shown for; the choice of a model is kept as it    *)
(* is.  A view is the set of messages its buttons and fields can send.     *)
(***************************************************************************)
EXTENDS Naturals, Sequences, FiniteSets

CONSTANTS
    MaxRunners       \* bound: balancers and agents that are ever started

ASSUME DesktopAppAssumption == MaxRunners \in Nat \ {0}

VARIABLES
    \* App
    screen,          \* CurrentScreen
    starting,        \* StartBalancerFormData
    stopping,        \* RunningBalancerData
    invalid,         \* the typed fields of the form that cannot be accepted
    later,           \* add_model_later
    selected,        \* selected_model is some preset
    errors,          \* the fields of the form that show an error
    homeError,       \* HomeData has an error
    shown,           \* the runner whose snapshot is on the screen; 0 for none
    owner,           \* per kind, balancer_cancel and agent_cancel: a runner or 0
    shutdown,        \* the shutdown token is cancelled, the event loop is left
    \* per runner
    kind,            \* "none", "balancer", "agent"
    task,            \* where its task stands
    thread,          \* ServiceThread: "none", "running", "ok", "failed"
    cancelled,       \* its token is cancelled
    outbox,          \* its message to the event loop, a channel of one
    \* history
    overlapped       \* a runner was started before the last of its kind was gone

screenVars == <<screen, starting, stopping, invalid, later, selected, errors, homeError, shown>>
runnerVars == <<kind, task, thread, cancelled, outbox>>
vars == <<screen, starting, stopping, invalid, later, selected, errors, homeError, shown,
          owner, shutdown, kind, task, thread, cancelled, outbox, overlapped>>

Runner == 1 .. MaxRunners
RunnerKind == {"balancer", "agent"}
TypedField == {"address", "slots"}
FormField == TypedField \cup {"model"}
None == 0

TypeOK ==
    /\ screen \in {"Home", "JoinBalancerForm", "StartBalancerForm", "AgentRunning",
                   "RunningBalancer"}
    /\ starting \in BOOLEAN /\ stopping \in BOOLEAN /\ homeError \in BOOLEAN
    /\ invalid \subseteq TypedField
    /\ later \in BOOLEAN /\ selected \in BOOLEAN
    /\ errors \subseteq FormField
    /\ shown \in 0 .. MaxRunners
    /\ owner \in [RunnerKind -> 0 .. MaxRunners]
    /\ shutdown \in BOOLEAN
    /\ kind \in [Runner -> RunnerKind \cup {"none"}]
    /\ task \in [Runner -> {"none", "starting", "announce", "snapshot", "select", "report", "over"}]
    /\ thread \in [Runner -> {"none", "running", "ok", "failed"}]
    /\ cancelled \in [Runner -> BOOLEAN]
    /\ \A r \in Runner :
          /\ Len(outbox[r]) <= 1
          /\ \A i \in DOMAIN outbox[r] : outbox[r][i] \in {"started", "snapshot", "stopped", "failed"}
    /\ overlapped \in BOOLEAN

Init ==
    /\ screen = "Home"
    /\ starting = FALSE
    /\ stopping = FALSE
    /\ invalid = {}
    /\ later = FALSE
    /\ selected = FALSE
    /\ errors = {}
    /\ homeError = FALSE
    /\ shown = None
    /\ owner = [k \in RunnerKind |-> None]
    /\ shutdown = FALSE
    /\ kind = [r \in Runner |-> "none"]
    /\ task = [r \in Runner |-> "none"]
    /\ thread = [r \in Runner |-> "none"]
    /\ cancelled = [r \in Runner |-> FALSE]
    /\ outbox = [r \in Runner |-> <<>>]
    /\ overlapped = FALSE

(***************************************************************************)
(* Views: the messages the screen lets the user send.                      *)
(***************************************************************************)
ViewHome == {"StartBalancer", "JoinBalancer"}

\* The agent's name is optional and always accepted.
ViewJoinBalancerForm == {"SetBalancerAddress", "SetSlotsCount", "Connect", "Cancel"}

\* A form that has been confirmed waits, with all but its button in use; the
\* list of models gives way to a field nothing can be typed in.
ViewStartBalancerForm ==
    {"SetBalancerAddress", "ToggleAddModelLater", "Cancel"}
        \cup (IF starting THEN {} ELSE {"Confirm"})
        \cup (IF later THEN {} ELSE {"SelectModel"})

\* Copying the address and opening the admin panel change nothing here.
ViewRunningBalancer == IF stopping THEN {} ELSE {"Stop"}

ViewAgentRunning == {"Disconnect"}

View ==
    CASE screen = "AgentRunning" -> ViewAgentRunning
      [] screen = "Home" -> ViewHome
      [] screen = "JoinBalancerForm" -> ViewJoinBalancerForm
      [] screen = "StartBalancerForm" -> ViewStartBalancerForm
      [] screen = "RunningBalancer" -> ViewRunningBalancer

\* The user sends a message from a screen, while there is a window.
Sends(on, message) == ~shutdown /\ screen = on /\ message \in View

\* What reaches the application from outside its screens.
Subscription == IF shutdown THEN {} ELSE {"CloseRequested", "ShutdownSignal", "TabPressed"}

(***************************************************************************)
(* Screens.                                                                *)
(***************************************************************************)
ClearForm == invalid' = {} /\ errors' = {} /\ later' = FALSE /\ selected' = FALSE

GoHome(failed) ==
    /\ screen' = "Home"
    /\ homeError' = failed
    /\ starting' = FALSE /\ stopping' = FALSE
    /\ ClearForm
    /\ shown' = None

\* A fresh form: the addresses of a balancer are suggested, nothing else is.
OpenForm(name, missing) ==
    /\ screen' = name
    /\ invalid' = missing
    /\ errors' = {}
    /\ starting' = FALSE
    /\ homeError' = FALSE
    /\ UNCHANGED <<stopping, later, selected, shown, owner, shutdown, runnerVars, overlapped>>

HomeStartBalancer == Sends("Home", "StartBalancer") /\ OpenForm("StartBalancerForm", {})
HomeJoinBalancer == Sends("Home", "JoinBalancer") /\ OpenForm("JoinBalancerForm", TypedField)

\* The user types in a field, which takes its error away.
EditField(field) ==
    /\ \/ field = "address" /\ \E form \in {"StartBalancerForm", "JoinBalancerForm"} :
                                  Sends(form, "SetBalancerAddress")
       \/ field = "slots" /\ Sends("JoinBalancerForm", "SetSlotsCount")
    /\ \E accepted \in BOOLEAN :
          invalid' = IF accepted THEN invalid \ {field} ELSE invalid \cup {field}
    /\ errors' = errors \ {field}
    /\ UNCHANGED <<screen, starting, stopping, later, selected, homeError, shown, owner, shutdown,
                   runnerVars, overlapped>>

SelectModel ==
    /\ Sends("StartBalancerForm", "SelectModel")
    /\ selected' = TRUE
    /\ errors' = errors \ {"model"}
    /\ UNCHANGED <<screen, starting, stopping, invalid, later, homeError, shown, owner, shutdown,
                   runnerVars, overlapped>>

\* Only putting the model off takes its error away.
ToggleAddModelLater ==
    /\ Sends("StartBalancerForm", "ToggleAddModelLater")
    /\ later' = ~later
    /\ errors' = IF later' THEN errors \ {"model"} ELSE errors
    /\ UNCHANGED <<screen, starting, stopping, invalid, selected, homeError, shown, owner,
                   shutdown, runnerVars, overlapped>>

(***************************************************************************)
(* Starting and cancelling runners.                                        *)
(***************************************************************************)
\* A balancer of this application is still bound to its address.
PortInUse == \E r \in Runner : kind[r] = "balancer" /\ thread[r] = "running"

\* The last message of a runner has been handled.
Gone(r) == task[r] \in {"none", "over"} /\ outbox[r] = <<>>

\* A child of the shutdown token becomes the token of the kind.
Spawn(k, first) ==
    \E r \in Runner :
        /\ kind[r] = "none"
        /\ \A earlier \in 1 .. r - 1 : kind[earlier] # "none"
        /\ kind' = [kind EXCEPT ![r] = k]
        /\ task' = [task EXCEPT ![r] = first]
        /\ thread' = IF k = "agent" THEN [thread EXCEPT ![r] = "running"] ELSE thread
        /\ owner' = [owner EXCEPT ![k] = r]
        /\ overlapped' = (overlapped \/ \E other \in Runner : kind[other] = k /\ ~Gone(other))
        /\ UNCHANGED <<cancelled, outbox>>

\* validate_and_confirm: every field that cannot be accepted gets an error,
\* an address whose port is in use among them (the user may have chosen
\* another one); without an error the balancer is started, and the form waits.
ConfirmStart ==
    /\ Sends("StartBalancerForm", "Confirm")
    /\ \E taken \in IF PortInUse THEN {{}, {"address"}} ELSE {{}} :
          /\ errors' = invalid \cup taken \cup (IF later \/ selected THEN {} ELSE {"model"})
          /\ IF errors' = {}
             THEN starting' = TRUE /\ Spawn("balancer", "starting")
             ELSE UNCHANGED <<starting, owner, runnerVars, overlapped>>
    /\ UNCHANGED <<screen, stopping, invalid, later, selected, homeError, shown, shutdown>>

\* The agent's screen has nothing to show yet: it says that it connects.
Connect == screen' = "AgentRunning" /\ errors' = {} /\ shown' = None

ConnectAgent ==
    /\ Sends("JoinBalancerForm", "Connect")
    /\ IF invalid = {}
       THEN Spawn("agent", "snapshot") /\ Connect
       ELSE /\ errors' = invalid
            /\ UNCHANGED <<screen, shown, owner, runnerVars, overlapped>>
    /\ UNCHANGED <<starting, stopping, invalid, later, selected, homeError, shutdown>>

Cancel(k) ==
    cancelled' = IF owner[k] # None THEN [cancelled EXCEPT ![owner[k]] = TRUE] ELSE cancelled

\* Faulty variant: the form is left without cancelling the balancer that starts.
CancelStartFormOnly ==
    /\ Sends("StartBalancerForm", "Cancel")
    /\ GoHome(FALSE)
    /\ UNCHANGED <<owner, shutdown, runnerVars, overlapped>>

CancelStartForm ==
    /\ Sends("StartBalancerForm", "Cancel")
    /\ Cancel("balancer")
    /\ GoHome(FALSE)
    /\ UNCHANGED <<owner, shutdown, kind, task, thread, outbox, overlapped>>

CancelJoinForm ==
    /\ Sends("JoinBalancerForm", "Cancel")
    /\ GoHome(FALSE)
    /\ UNCHANGED <<owner, shutdown, runnerVars, overlapped>>

\* The screen stays until the balancer has stopped.
StopBalancer ==
    /\ Sends("RunningBalancer", "Stop")
    /\ stopping' = TRUE
    /\ Cancel("balancer")
    /\ UNCHANGED <<screen, starting, invalid, later, selected, errors, homeError, shown, owner,
                   shutdown, kind, task, thread, outbox, overlapped>>

\* The screen is left at once.
DisconnectAgent ==
    /\ Sends("AgentRunning", "Disconnect")
    /\ Cancel("agent")
    /\ GoHome(FALSE)
    /\ UNCHANGED <<owner, shutdown, kind, task, thread, outbox, overlapped>>

\* Faulty variant: only the runners whose tokens the application holds are cancelled.
QuitOwned ==
    /\ ~shutdown
    /\ shutdown' = TRUE
    /\ cancelled' = [r \in Runner |-> cancelled[r] \/ \E k \in RunnerKind : owner[k] = r]
    /\ owner' = [k \in RunnerKind |-> None]
    /\ GoHome(FALSE)
    /\ UNCHANGED <<kind, task, thread, outbox, overlapped>>

\* Every token is a child of the shutdown token; the screen was taken out.
Quit ==
    /\ Subscription \cap {"CloseRequested", "ShutdownSignal"} # {}
    /\ shutdown' = TRUE
    /\ cancelled' = [r \in Runner |-> cancelled[r] \/ kind[r] # "none"]
    /\ owner' = [k \in RunnerKind |-> None]
    /\ GoHome(FALSE)
    /\ UNCHANGED <<kind, task, thread, outbox, overlapped>>

(***************************************************************************)
(* The tasks that follow the runners, and the threads of the services.     *)
(***************************************************************************)
\* BalancerRunner::start makes the bundle and its thread, or fails.
StartRunner(r) ==
    /\ task[r] = "starting"
    /\ \/ task' = [task EXCEPT ![r] = "announce"] /\ thread' = [thread EXCEPT ![r] = "running"]
       \/ task' = [task EXCEPT ![r] = "report"] /\ thread' = [thread EXCEPT ![r] = "failed"]
    /\ UNCHANGED <<screenVars, owner, shutdown, kind, cancelled, outbox, overlapped>>

\* A message is sent when the channel has room.
Post(r, message, next) ==
    /\ outbox[r] = <<>>
    /\ outbox' = [outbox EXCEPT ![r] = <<message>>]
    /\ task' = [task EXCEPT ![r] = next]
    /\ UNCHANGED <<screenVars, owner, shutdown, kind, thread, cancelled, overlapped>>

AnnounceBalancer(r) == task[r] = "announce" /\ ~shutdown /\ Post(r, "started", "snapshot")
PostSnapshot(r) == task[r] = "snapshot" /\ ~shutdown /\ Post(r, "snapshot", "select")
PostResult(r) ==
    /\ task[r] = "report"
    /\ ~shutdown
    /\ Post(r, IF thread[r] = "ok" THEN "stopped" ELSE "failed", "over")

\* The select: the pool, the states or the status have changed, or the
\* services have completed.
SelectUpdate(r) ==
    /\ task[r] = "select"
    /\ task' = [task EXCEPT ![r] = "snapshot"]
    /\ UNCHANGED <<screenVars, owner, shutdown, kind, thread, cancelled, outbox, overlapped>>

SelectCompletion(r) ==
    /\ task[r] = "select"
    /\ thread[r] \in {"ok", "failed"}
    /\ task' = [task EXCEPT ![r] = "report"]
    /\ UNCHANGED <<screenVars, owner, shutdown, kind, thread, cancelled, outbox, overlapped>>

\* The services end when their token is cancelled, or when one of them fails.
EndThread(r) ==
    /\ thread[r] = "running"
    /\ cancelled[r]
    /\ thread' = [thread EXCEPT ![r] = "ok"]
    /\ UNCHANGED <<screenVars, owner, shutdown, kind, task, cancelled, outbox, overlapped>>

FailThread(r) ==
    /\ thread[r] = "running"
    /\ thread' = [thread EXCEPT ![r] = "failed"]
    /\ UNCHANGED <<screenVars, owner, shutdown, kind, task, cancelled, outbox, overlapped>>

\* Leaving the event loop drops the task; dropping the runner joins its thread.
DropTask(r) ==
    /\ shutdown
    /\ task[r] \notin {"none", "over"}
    /\ thread[r] # "running"
    /\ task' = [task EXCEPT ![r] = "over"]
    /\ outbox' = [outbox EXCEPT ![r] = <<>>]
    /\ UNCHANGED <<screenVars, owner, shutdown, kind, thread, cancelled, overlapped>>

(***************************************************************************)
(* App::update on a message of a task; one that does not fit the screen is *)
(* logged and lost.                                                        *)
(***************************************************************************)
BalancerStarted ==
    IF screen = "StartBalancerForm"
    THEN /\ screen' = "RunningBalancer"
         /\ stopping' = FALSE
         /\ starting' = FALSE
         /\ ClearForm
         /\ shown' = None
         /\ UNCHANGED <<homeError, owner>>
    ELSE UNCHANGED <<screenVars, owner>>

BalancerFailed ==
    IF screen \in {"StartBalancerForm", "RunningBalancer"}
    THEN GoHome(TRUE) /\ owner' = [owner EXCEPT !["balancer"] = None]
    ELSE UNCHANGED <<screenVars, owner>>

BalancerStopped ==
    IF screen = "RunningBalancer"
    THEN GoHome(FALSE) /\ owner' = [owner EXCEPT !["balancer"] = None]
    ELSE UNCHANGED <<screenVars, owner>>

AgentEnded(failed) ==
    IF screen = "AgentRunning"
    THEN GoHome(failed) /\ owner' = [owner EXCEPT !["agent"] = None]
    ELSE UNCHANGED <<screenVars, owner>>

SnapshotUpdated(r) ==
    /\ shown' = IF screen = (IF kind[r] = "agent" THEN "AgentRunning" ELSE "RunningBalancer")
                THEN r ELSE shown
    /\ UNCHANGED <<screen, starting, stopping, invalid, later, selected, errors, homeError, owner>>

Update(r) ==
    /\ ~shutdown
    /\ outbox[r] # <<>>
    /\ outbox' = [outbox EXCEPT ![r] = <<>>]
    /\ LET message == Head(outbox[r])
       IN  \/ message = "snapshot" /\ SnapshotUpdated(r)
           \/ message = "started" /\ BalancerStarted
           \/ message \in {"failed", "stopped"} /\ kind[r] = "agent" /\ AgentEnded(message = "failed")
           \/ message = "failed" /\ kind[r] = "balancer" /\ BalancerFailed
           \/ message = "stopped" /\ kind[r] = "balancer" /\ BalancerStopped
    /\ UNCHANGED <<shutdown, kind, task, thread, cancelled, overlapped>>

Next ==
    \/ HomeStartBalancer \/ HomeJoinBalancer
    \/ \E field \in TypedField : EditField(field)
    \/ SelectModel \/ ToggleAddModelLater
    \/ ConfirmStart \/ ConnectAgent \/ CancelStartForm \/ CancelJoinForm
    \/ StopBalancer \/ DisconnectAgent \/ Quit
    \/ \E r \in Runner :
          \/ StartRunner(r) \/ AnnounceBalancer(r) \/ PostSnapshot(r) \/ PostResult(r)
          \/ SelectUpdate(r) \/ SelectCompletion(r) \/ EndThread(r) \/ FailThread(r)
          \/ DropTask(r) \/ Update(r)

\* Tasks and threads are scheduled, the event loop takes each task's messages,
\* a cancelled thread ends, and a completed one is noticed although snapshots
\* go on being due: the select is random.
DesktopFairness ==
    \A r \in Runner :
        /\ WF_<<task, outbox>>(\/ StartRunner(r) \/ AnnounceBalancer(r) \/ PostSnapshot(r)
                               \/ PostResult(r) \/ DropTask(r))
        /\ SF_task(SelectCompletion(r))
        /\ WF_thread(EndThread(r))
        /\ WF_outbox(Update(r))

(***************************************************************************)
(* Properties.                                                             *)
(***************************************************************************)
Live(r) == task[r] = "starting" \/ thread[r] = "running"

\* What runs can be stopped: a runner that nobody has cancelled is the one
\* whose token the application has, and the screen is one that cancels it.
\* Except after a runner was started while another of its kind was still to
\* post its last message, which is then taken for the new one's.
RunningIsInReach ==
    \A r \in Runner :
        Live(r) /\ ~cancelled[r] /\ ~overlapped =>
            /\ owner[kind[r]] = r
            /\ screen \in IF kind[r] = "agent"
                          THEN {"AgentRunning"} ELSE {"StartBalancerForm", "RunningBalancer"}

\* What the screen shows is the runner it would stop.
ShownIsStopped ==
    shown # None /\ ~overlapped => owner[kind[shown]] = shown

\* An error at a field is about what the field holds, or about a port that
\* was in use; and a form that waits for its balancer has none that stands
\* for what was confirmed.
ErrorsAreCurrent ==
    /\ errors \subseteq invalid \cup (IF screen = "StartBalancerForm" THEN {"address"} ELSE {})
                          \cup (IF later \/ selected THEN {} ELSE {"model"})
    /\ starting => errors = {}

\* The form does not wait for ever, and neither does the screen of a balancer
\* that was told to stop.  (After an overlap the token may be another's, and
\* the stop then reaches nobody.)
StartEnds == []<>~(starting /\ screen = "StartBalancerForm")
StopEnds == []<>(stopping /\ screen = "RunningBalancer" => overlapped)

\* After the window is closed every thread ends, those the application has
\* lost the token of included.
QuitEndsAll == []<>(shutdown => \A r \in Runner : ~Live(r) /\ task[r] \in {"none", "over"})

=============================================================================
