-------------------------- MODULE InferenceSocket --------------------------
(***************************************************************************)
(* The balancer's end of the inference sockets: the loop that reads a      *)
(* connection, the tasks it spawns for the messages, the registry by which *)
(* a request is stopped, and the watcher that tells the client whether the *)
(* cluster generates tokens at all.                                        *)
(*                                                                         *)
(* What a request does until it ends is Forwarding's: here it may send a   *)
(* token, sends one terminal frame, and ends early when its token is       *)
(* cancelled.  Tasks of a connection run on one thread in the order they   *)
(* were spawned; the mode is set on another.                               *)
(***************************************************************************)
EXTENDS Naturals, Sequences, FiniteSets

CONSTANTS
    MaxSockets,      \* bound: connections
    MaxTasks,        \* bound: requests that are ever accepted
    MaxDisturbances  \* bound: mode changes, failures, departures and shutdowns in all

ASSUME InferenceSocketAssumption ==
    MaxSockets \in Nat \ {0} /\ MaxTasks \in Nat \ {0} /\ MaxDisturbances \in Nat

VARIABLES
    \* BalancerApplicableStateHolder
    mode,            \* ClusterTokenGenerationMode of the state it holds
    modeVersion,     \* the version of its watch channel
    setting,         \* the state is set, the channel is not yet notified
    shutdown,        \* the service's token is cancelled
    \* per connection
    conn,            \* "none", "connecting", "open", "lost", "closed"
    closing,         \* connection_close is cancelled
    inbox,           \* messages of the client
    handlers,        \* spawned tasks of handle_text_message
    registry,        \* RequestCancellationTokens: id to task, or 0
    outbox,          \* frames for the client
    watcher,         \* where the mode watcher stands
    seen,            \* the version its receiver has seen
    lastMode,        \* last_mode
    \* per request task
    task,            \* its connection, id, status and token
    disturbances     \* how many there were

socketVars == <<conn, closing, inbox, handlers, registry, outbox, watcher, seen, lastMode>>
serverVars == <<mode, modeVersion, setting, shutdown, conn, closing, inbox, handlers, registry,
                outbox, watcher, seen, lastMode, task, disturbances>>

Socket == 1 .. MaxSockets
Task == 1 .. MaxTasks
Id == 1 .. MaxTasks
Mode == {"Enabled", "DisabledForEmbeddings"}
Terminal == {"done", "error", "disabled", "foreign"}

Message == [kind : {"request", "stop"}, id : Id]
           \cup [kind : {"invalid", "malformed", "oversize", "close"}, id : {0}]
Frame == [kind : {"token"} \cup Terminal, id : Id]
         \cup [kind : {"TokenGenerationEnabled", "TokenGenerationDisabled"}, id : {0}]

InferenceSocketTypeOK ==
    /\ mode \in Mode /\ modeVersion \in 0 .. MaxDisturbances /\ setting \in BOOLEAN
    /\ shutdown \in BOOLEAN
    /\ conn \in [Socket -> {"none", "connecting", "open", "lost", "closed"}]
    /\ closing \in [Socket -> BOOLEAN]
    /\ inbox \in [Socket -> Seq(Message)]
    /\ handlers \in [Socket -> Seq(Message)]
    /\ registry \in [Socket -> [Id -> 0 .. MaxTasks]]
    /\ outbox \in [Socket -> Seq(Frame)]
    /\ watcher \in [Socket -> {"none", "start", "read", "wait", "reread", "over"}]
    /\ seen \in [Socket -> 0 .. MaxDisturbances]
    /\ lastMode \in [Socket -> Mode]
    /\ disturbances \in 0 .. MaxDisturbances
    /\ task \in [Task -> [socket : 0 .. MaxSockets, id : 0 .. MaxTasks, sent : 0 .. 1,
                          status : {"none", "running", "ended"}, cancelled : BOOLEAN]]

InferenceSocketInit ==
    /\ disturbances = 0
    /\ mode \in Mode
    /\ modeVersion = 0 /\ setting = FALSE /\ shutdown = FALSE
    /\ conn = [s \in Socket |-> IF s = 1 THEN "connecting" ELSE "none"]
    /\ closing = [s \in Socket |-> FALSE]
    /\ inbox = [s \in Socket |-> <<>>]
    /\ handlers = [s \in Socket |-> <<>>]
    /\ registry = [s \in Socket |-> [i \in Id |-> 0]]
    /\ outbox = [s \in Socket |-> <<>>]
    /\ watcher = [s \in Socket |-> "none"]
    /\ seen = [s \in Socket |-> 0]
    /\ lastMode = [s \in Socket |-> "Enabled"]
    /\ task = [t \in Task |-> [socket |-> 0, id |-> 0, sent |-> 0, status |-> "none",
                               cancelled |-> FALSE]]

(***************************************************************************)
(* The applicable state and the watcher of the mode.                       *)
(***************************************************************************)
Disturb ==
    /\ disturbances < MaxDisturbances
    /\ disturbances' = disturbances + 1

\* set_balancer_applicable_state: first the state, then the channel.
SetMode ==
    /\ ~setting /\ Disturb
    /\ mode' \in Mode
    /\ setting' = TRUE
    /\ UNCHANGED <<modeVersion, shutdown, socketVars, task>>

NotifyMode ==
    /\ setting
    /\ modeVersion' = modeVersion + 1
    /\ setting' = FALSE
    /\ UNCHANGED <<mode, shutdown, socketVars, task, disturbances>>

\* A frame is written when the session is open, and lost otherwise.
Written(s, frame) ==
    IF conn[s] = "open" THEN [outbox EXCEPT ![s] = Append(@, frame)] ELSE outbox

NotificationOf(m) ==
    [kind |-> IF m = "Enabled" THEN "TokenGenerationEnabled" ELSE "TokenGenerationDisabled",
     id |-> 0]

\* spawn_token_generation_mode_watcher: subscribe, read, tell of a mode that
\* is disabled.
SubscribeToMode(s) ==
    /\ watcher[s] = "start"
    /\ watcher' = [watcher EXCEPT ![s] = "read"]
    /\ seen' = [seen EXCEPT ![s] = modeVersion]
    /\ UNCHANGED <<mode, modeVersion, setting, shutdown, conn, closing, inbox, handlers, registry,
                   outbox, lastMode, task, disturbances>>

ReadMode(s) ==
    /\ watcher[s] = "read"
    /\ lastMode' = [lastMode EXCEPT ![s] = mode]
    /\ outbox' = IF mode = "DisabledForEmbeddings" THEN Written(s, NotificationOf(mode)) ELSE outbox
    /\ watcher' = [watcher EXCEPT ![s] =
                      IF mode = "DisabledForEmbeddings" /\ conn[s] = "closed" THEN "over" ELSE "wait"]
    /\ UNCHANGED <<mode, modeVersion, setting, shutdown, conn, closing, inbox, handlers, registry,
                   seen, task, disturbances>>

ModeChanged(s) ==
    /\ watcher[s] = "wait"
    /\ seen[s] # modeVersion
    /\ seen' = [seen EXCEPT ![s] = modeVersion]
    /\ watcher' = [watcher EXCEPT ![s] = "reread"]
    /\ UNCHANGED <<mode, modeVersion, setting, shutdown, conn, closing, inbox, handlers, registry,
                   outbox, lastMode, task, disturbances>>

\* A mode that is the last one again is not told.
RereadMode(s) ==
    /\ watcher[s] = "reread"
    /\ lastMode' = [lastMode EXCEPT ![s] = mode]
    /\ outbox' = IF mode # lastMode[s] THEN Written(s, NotificationOf(mode)) ELSE outbox
    /\ watcher' = [watcher EXCEPT ![s] =
                      IF mode # lastMode[s] /\ conn[s] = "closed" THEN "over" ELSE "wait"]
    /\ UNCHANGED <<mode, modeVersion, setting, shutdown, conn, closing, inbox, handlers, registry,
                   seen, task, disturbances>>

EndWatcher(s) ==
    /\ watcher[s] = "wait"
    /\ closing[s]
    /\ watcher' = [watcher EXCEPT ![s] = "over"]
    /\ seen' = [seen EXCEPT ![s] = 0]
    /\ UNCHANGED <<mode, modeVersion, setting, shutdown, conn, closing, inbox, handlers, registry,
                   outbox, lastMode, task, disturbances>>

(***************************************************************************)
(* The loop of a connection.                                               *)
(***************************************************************************)
Accept(s) ==
    /\ conn[s] = "connecting" /\ ~shutdown
    /\ conn' = [conn EXCEPT ![s] = "open"]
    /\ watcher' = [watcher EXCEPT ![s] = "start"]
    /\ UNCHANGED <<mode, modeVersion, setting, shutdown, closing, inbox, handlers, registry, outbox,
                   seen, lastMode, task, disturbances>>

\* The end of the loop cancels connection_close and closes the session.
EndLoop(s) ==
    /\ conn' = [conn EXCEPT ![s] = "closed"]
    /\ closing' = [closing EXCEPT ![s] = TRUE]
    /\ UNCHANGED <<mode, modeVersion, setting, shutdown, handlers, registry, outbox, watcher, seen,
                   lastMode, task, disturbances>>

Serving(s) == conn[s] \in {"open", "lost"}

\* handle_aggregated_message: a text that parses is handled by a task of its
\* own, one that does not is logged; a close and a frame that is too large end
\* the loop.
ReceiveMessage(s) ==
    /\ Serving(s) /\ inbox[s] # <<>>
    /\ inbox' = [inbox EXCEPT ![s] = Tail(@)]
    /\ LET message == Head(inbox[s])
       IN  IF message.kind \in {"close", "oversize"}
           THEN EndLoop(s)
           ELSE /\ handlers' = IF message.kind = "malformed" THEN handlers
                               ELSE [handlers EXCEPT ![s] = Append(@, message)]
                /\ UNCHANGED <<mode, modeVersion, setting, shutdown, conn, closing, registry, outbox,
                               watcher, seen, lastMode, task, disturbances>>

\* A client that is gone without a close fails a ping.
PingFails(s) == conn[s] = "lost" /\ EndLoop(s) /\ UNCHANGED inbox
CloseCancelled(s) == Serving(s) /\ closing[s] /\ EndLoop(s) /\ UNCHANGED inbox
ShutdownCancelled(s) == Serving(s) /\ shutdown /\ EndLoop(s) /\ UNCHANGED inbox

Shutdown ==
    /\ ~shutdown /\ Disturb
    /\ shutdown' = TRUE
    /\ UNCHANGED <<mode, modeVersion, setting, socketVars, task>>

(***************************************************************************)
(* Handlers and requests.                                                  *)
(***************************************************************************)
Fresh(t) == task[t].status = "none" /\ \A earlier \in 1 .. t - 1 : task[earlier].status # "none"

\* RequestCancellationTokens::register; the token is a child of connection_close.
Register(s, id) ==
    IF registry[s][id] # 0
    THEN /\ outbox' = Written(s, [kind |-> "error", id |-> id])
         /\ UNCHANGED <<registry, task, disturbances>>
    ELSE \E t \in Task :
            /\ Fresh(t)
            /\ registry' = [registry EXCEPT ![s][id] = t]
            /\ task' = [task EXCEPT ![t] = [socket |-> s, id |-> id, sent |-> 0,
                                            status |-> "running", cancelled |-> FALSE]]
            /\ UNCHANGED outbox

HandleRequest(s, id) ==
    /\ IF mode = "DisabledForEmbeddings"
       THEN /\ outbox' = Written(s, [kind |-> "disabled", id |-> id])
            /\ UNCHANGED <<registry, task, disturbances>>
       ELSE Register(s, id)
    /\ UNCHANGED closing

\* RequestCancellationTokens::cancel
\* Faulty variant: the message is taken and nothing is cancelled.
HandleStopIgnored(s, id) == UNCHANGED <<outbox, registry, task, closing>>

HandleStop(s, id) ==
    /\ LET t == registry[s][id]
       IN  task' = IF t # 0 THEN [task EXCEPT ![t].cancelled = TRUE] ELSE task
    /\ UNCHANGED <<outbox, registry, closing>>

\* Parameters that do not validate close the connection, and with it every
\* request of it.
HandleInvalid(s) ==
    /\ closing' = [closing EXCEPT ![s] = TRUE]
    /\ UNCHANGED <<outbox, registry, task, disturbances>>

HandleMessage(s) ==
    /\ handlers[s] # <<>>
    /\ handlers' = [handlers EXCEPT ![s] = Tail(@)]
    /\ LET message == Head(handlers[s])
       IN  CASE message.kind = "request" -> HandleRequest(s, message.id)
             [] message.kind = "stop" -> HandleStop(s, message.id)
             [] message.kind = "invalid" -> HandleInvalid(s)
    /\ UNCHANGED <<mode, modeVersion, setting, shutdown, conn, inbox, watcher, seen, lastMode,
                   disturbances>>

\* RequestCancellationTokenGuard::drop removes what is registered under the id.
EndTask(t) ==
    /\ task' = [task EXCEPT ![t] = [@ EXCEPT !.status = "ended", !.sent = 0, !.cancelled = FALSE]]
    /\ registry' = [registry EXCEPT ![task[t].socket][task[t].id] = 0]

Stopped(t) == task[t].cancelled \/ closing[task[t].socket] \/ shutdown

Generate(t) ==
    /\ task[t].status = "running" /\ ~Stopped(t)
    /\ \/ /\ task[t].sent = 0
          /\ outbox' = Written(task[t].socket, [kind |-> "token", id |-> task[t].id])
          /\ task' = [task EXCEPT ![t].sent = 1]
          /\ UNCHANGED registry
       \/ \E kind \in {"done", "foreign"} :
             /\ outbox' = Written(task[t].socket, [kind |-> kind, id |-> task[t].id])
             /\ EndTask(t)
    /\ UNCHANGED <<mode, modeVersion, setting, shutdown, conn, closing, inbox, handlers, watcher,
                   seen, lastMode, disturbances>>

StopTask(t) ==
    /\ task[t].status = "running" /\ Stopped(t)
    /\ EndTask(t)
    /\ UNCHANGED <<mode, modeVersion, setting, shutdown, conn, closing, inbox, handlers, outbox,
                   watcher, seen, lastMode, disturbances>>

\* The network loses a connection; neither side is told.
LoseConnection(s) ==
    /\ conn[s] = "open" /\ Disturb
    /\ conn' = [conn EXCEPT ![s] = "lost"]
    /\ outbox' = [outbox EXCEPT ![s] = <<>>]
    /\ UNCHANGED <<mode, modeVersion, setting, shutdown, closing, inbox, handlers, registry,
                   watcher, seen, lastMode, task>>

ServerNext ==
    \/ SetMode \/ NotifyMode \/ Shutdown
    \/ \E s \in Socket :
          \/ SubscribeToMode(s) \/ ReadMode(s) \/ ModeChanged(s) \/ RereadMode(s) \/ EndWatcher(s)
          \/ Accept(s) \/ ReceiveMessage(s) \/ PingFails(s) \/ CloseCancelled(s)
          \/ ShutdownCancelled(s) \/ HandleMessage(s)
    \/ \E t \in Task : Generate(t) \/ StopTask(t)

ServerFairness ==
    /\ WF_<<setting, modeVersion>>(NotifyMode)
    /\ \A s \in Socket :
          /\ WF_<<watcher, seen>>(SubscribeToMode(s) \/ ReadMode(s) \/ ModeChanged(s) \/ RereadMode(s))
          /\ WF_conn(Accept(s))
          /\ WF_inbox(ReceiveMessage(s))
          /\ WF_conn(PingFails(s) \/ CloseCancelled(s) \/ ShutdownCancelled(s))
          /\ WF_handlers(HandleMessage(s))
    /\ \A t \in Task : WF_task(StopTask(t))

(***************************************************************************)
(* Properties.                                                             *)
(***************************************************************************)
\* A request that runs can be stopped: the registry of its connection has it
\* under its id, and nothing else is registered.
RunningIsStoppable ==
    \A s \in Socket, i \in Id, t \in Task :
        registry[s][i] = t <=> task[t].status = "running" /\ task[t].socket = s /\ task[t].id = i

\* A request ends once a stop of its id is handled, or its connection is gone,
\* a connection whose client vanished included.
StopEndsRequest ==
    \A t \in Task :
        /\ task[t].status = "running"
        /\ \/ conn[task[t].socket] \in {"lost", "closed"}
           \/ /\ handlers[task[t].socket] # <<>>
              /\ Head(handlers[task[t].socket]) = [kind |-> "stop", id |-> task[t].id]
        ~> task[t].status = "ended"

=============================================================================
