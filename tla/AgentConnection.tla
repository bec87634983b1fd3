-------------------------- MODULE AgentConnection --------------------------
(***************************************************************************)
(* The management socket between an agent and the balancer.  The agent     *)
(* registers, reports its status and reconnects when the connection is     *)
(* lost; the balancer keeps a controller with what was reported last,      *)
(* streams the pool to management clients, and asks the agent one-shot     *)
(* questions.  The two ends learn of a lost connection at different times, *)
(* so connections of one agent may overlap at the balancer, and all of     *)
(* them act on the one entry the pool has for the agent's id.              *)
(*                                                                         *)
(* The requests the socket carries are Forwarding's, the desired state is  *)
(* Propagation's, slots_processing is Dispatch's.  The agent's status is   *)
(* two counters: issues, whose changes carry no version, and fields, all   *)
(* the others.                                                             *)
(***************************************************************************)
EXTENDS Naturals, Sequences, FiniteSets

CONSTANTS
    Query,           \* one-shot questions of management clients
    MaxEvents,       \* bound: changes of the status, lost connections and questions
    MaxConnections,  \* bound: how often the agent connects
    MaxQueued        \* bound: messages of the agent that are under way

ASSUME AgentConnectionAssumption ==
    /\ IsFiniteSet(Query)
    /\ MaxEvents \in Nat
    /\ MaxConnections \in Nat \ {0}
    /\ MaxQueued \in Nat \ {0}

VARIABLES
    \* the agent
    reported_status, \* SlotAggregatedStatus: issues, fields and version
    writing,         \* a field has changed and its version has not
    loop,            \* where keep_connection_alive stands
    conn,            \* the number of its connection; 0 before the first
    snapshot,        \* the fields of the snapshot that is being made
    \* the network
    link,            \* per connection: "none", "up", "down"
    upward,          \* per connection, the agent's messages under way
    downward,        \* per connection, the balancer's
    \* the balancer
    session,         \* per connection: "none", "open", "closing", "ended"
    pool,            \* the agent's controller in the pool
    query,           \* per question, its progress
    asked,           \* per question, the connection it was sent on
    reply_senders,         \* the questions whose sender is registered
    delivered,       \* the questions whose answer is in their channel
    unseen,          \* the pool has signalled an update since
    seen,            \* the last snapshot it was sent
    events,          \* how many of them happened, for the bound
    overlapped       \* history: a registration met an older connection

agentSideVars == <<reported_status, writing, loop, conn, snapshot>>
networkVars == <<link, upward, downward>>
queryVars == <<query, asked, reply_senders, delivered>>
agentConnectionVars == <<reported_status, writing, loop, conn, snapshot, link, upward, downward, session, pool,
          query, asked, reply_senders, delivered, unseen, seen, events, overlapped>>

Connection == 1 .. MaxConnections
Counter == 0 .. MaxEvents
Snapshot == [issues : Counter, fields : Counter, version : Counter]
None == [conn |-> 0]                \* no controller, nothing seen, no update
Blank == [issues |-> 0, fields |-> 0]
PoolEntry == [conn : Connection, issues : Counter, fields : Counter, version : Counter]
View(c) == IF c = None THEN None ELSE [conn |-> c.conn, issues |-> c.issues, fields |-> c.fields]

AgentConnectionTypeOK ==
    /\ reported_status \in Snapshot
    /\ writing \in BOOLEAN
    /\ loop \in {"disconnected", "registering", "select", "reporting", "leaving", "stopped"}
    /\ conn \in 0 .. MaxConnections
    /\ snapshot \in [issues : Counter, fields : Counter]
    /\ link \in [Connection -> {"none", "up", "down"}]
    /\ session \in [Connection -> {"none", "open", "closing", "ended"}]
    /\ pool \in PoolEntry \cup {None}
    /\ query \in [Query -> {"idle", "sent", "waiting", "ended"}]
    /\ asked \in [Query -> 0 .. MaxConnections]
    /\ reply_senders = {q \in Query : query[q] = "waiting"}
    /\ delivered \subseteq reply_senders
    /\ \A c \in Connection : Len(upward[c]) <= MaxQueued + Cardinality(Query) + 1

AgentConnectionInit ==
    /\ reported_status = [issues |-> 0, fields |-> 0, version |-> 0]
    /\ writing = FALSE
    /\ loop = "disconnected"
    /\ conn = 0
    /\ snapshot = Blank
    /\ link = [c \in Connection |-> "none"]
    /\ upward = [c \in Connection |-> <<>>]
    /\ downward = [c \in Connection |-> <<>>]
    /\ session = [c \in Connection |-> "none"]
    /\ pool = None
    /\ query = [q \in Query |-> "idle"]
    /\ asked = [q \in Query |-> 0]
    /\ reply_senders = {}
    /\ delivered = {}
    /\ unseen = FALSE
    /\ seen = None
    /\ events = 0
    /\ overlapped = FALSE

\* What happens of its own accord is bounded.
Event == events < MaxEvents /\ events' = events + 1

(***************************************************************************)
(* The agent's reported_status.                                                     *)
(***************************************************************************)
\* register_issue and register_fix change the issues, and no version.
RegisterIssue ==
    /\ Event
    /\ reported_status' = [reported_status EXCEPT !.issues = @ + 1]
    /\ UNCHANGED <<writing, loop, conn, snapshot, networkVars, session, pool, queryVars,
                   seen, unseen, overlapped>>

\* The other setters change a field first and increment the version after it.
SetField ==
    /\ ~writing
    /\ Event
    /\ reported_status' = [reported_status EXCEPT !.fields = @ + 1]
    /\ writing' = TRUE
    /\ UNCHANGED <<loop, conn, snapshot, networkVars, session, pool, queryVars,
                   seen, unseen, overlapped>>

IncrementVersion ==
    /\ writing
    /\ reported_status' = [reported_status EXCEPT !.version = @ + 1]
    /\ writing' = FALSE
    /\ UNCHANGED <<loop, conn, snapshot, networkVars, session, pool, queryVars,
                   seen, unseen, events, overlapped>>

(***************************************************************************)
(* The agent's end of the connection.                                      *)
(***************************************************************************)
\* make_snapshot reads the fields one by one, the version last.
ReadFields == snapshot' = [issues |-> reported_status.issues, fields |-> reported_status.fields]

\* run's ticker: the agent connects, and begins with a snapshot to register with.
Connect ==
    /\ loop = "disconnected"
    /\ conn < MaxConnections
    /\ conn' = conn + 1
    /\ link' = [link EXCEPT ![conn'] = "up"]
    /\ session' = [session EXCEPT ![conn'] = "open"]
    /\ loop' = "registering"
    /\ ReadFields
    /\ UNCHANGED <<reported_status, writing, upward, downward, pool, queryVars, seen, unseen,
                   events, overlapped>>

\* What is written to a connection that is lost is lost.
Write(message) ==
    upward' = IF link[conn] = "up" THEN [upward EXCEPT ![conn] = Append(@, message)] ELSE upward

Report(type) ==
    [type |-> type, issues |-> snapshot.issues, fields |-> snapshot.fields,
     version |-> reported_status.version, query |-> 0]

RegisterWithSnapshot ==
    /\ loop = "registering"
    /\ Write(Report("register"))
    /\ loop' = "select"
    /\ snapshot' = Blank
    /\ UNCHANGED <<reported_status, writing, conn, link, downward, session, pool,
                   queryVars, seen, unseen, events, overlapped>>

\* A change was notified, or a second has passed.
BeginStatusUpdate ==
    /\ loop = "select"
    /\ Len(upward[conn]) < MaxQueued
    /\ loop' = "reporting"
    /\ ReadFields
    /\ UNCHANGED <<reported_status, writing, conn, networkVars, session, pool, queryVars,
                   seen, unseen, events, overlapped>>

SendStatusUpdate ==
    /\ loop = "reporting"
    /\ Write(Report("update"))
    /\ loop' = "select"
    /\ snapshot' = Blank
    /\ UNCHANGED <<reported_status, writing, conn, link, downward, session, pool,
                   queryVars, seen, unseen, events, overlapped>>

\* handle_incoming_message: a question is answered from the holders.
HandleIncomingRequest ==
    /\ loop = "select"
    /\ downward[conn] # <<>>
    /\ downward' = [downward EXCEPT ![conn] = Tail(@)]
    /\ Write([Report("reply") EXCEPT !.query = Head(downward[conn])])
    /\ UNCHANGED <<agentSideVars, link, session, pool, queryVars, seen, unseen,
                   events, overlapped>>

\* The reader sees the end of the connection; the ticker of run connects again.
ConnectionLost ==
    /\ loop = "select"
    /\ link[conn] = "down" \/ session[conn] = "ended"
    /\ loop' = "disconnected"
    /\ link' = [link EXCEPT ![conn] = "down"]
    /\ UNCHANGED <<reported_status, writing, conn, snapshot, upward, downward, session, pool,
                   queryVars, seen, unseen, events, overlapped>>

\* The agent shuts down: it takes leave, flushes what is pending and closes.
Deregister ==
    /\ loop = "select"
    /\ Write(Report("deregister"))
    /\ loop' = "leaving"
    /\ UNCHANGED <<reported_status, writing, conn, snapshot, link, downward, session, pool,
                   queryVars, seen, unseen, events, overlapped>>

CloseSocket ==
    /\ loop = "leaving"
    /\ link' = [link EXCEPT ![conn] = "down"]
    /\ loop' = "stopped"
    /\ UNCHANGED <<reported_status, writing, conn, snapshot, upward, downward, session, pool,
                   queryVars, seen, unseen, events, overlapped>>

Shutdown ==
    /\ loop = "disconnected"
    /\ loop' = "stopped"
    /\ UNCHANGED <<reported_status, writing, conn, snapshot, networkVars, session, pool, queryVars,
                   seen, unseen, events, overlapped>>

\* The network fails, or the agent's process dies and another takes its place.
LoseConnection(c) ==
    /\ link[c] = "up"
    /\ c < MaxConnections
    /\ Event
    /\ link' = [link EXCEPT ![c] = "down"]
    /\ downward' = [downward EXCEPT ![c] = <<>>]
    /\ UNCHANGED <<agentSideVars, upward, session, pool, queryVars, seen, unseen,
                   overlapped>>

(***************************************************************************)
(* The balancer's end: each message in a task of its own, which no await   *)
(* interrupts, in the order of arrival.                                    *)
(***************************************************************************)
Received(c, type) ==
    /\ session[c] = "open"
    /\ upward[c] # <<>>
    /\ Head(upward[c]).type = type
    /\ upward' = [upward EXCEPT ![c] = Tail(@)]

ControllerOf(c, message) ==
    [conn |-> c, issues |-> message.issues, fields |-> message.fields, version |-> message.version]

\* The insert replaces an entry that is there; then the registration is an error,
\* and the connection is closed.
HandleRegisterAgent(c) ==
    /\ Received(c, "register")
    /\ pool' = ControllerOf(c, Head(upward[c]))
    /\ unseen' = (unseen \/ pool = None)
    /\ session' = IF pool = None THEN session ELSE [session EXCEPT ![c] = "closing"]
    /\ overlapped' = (overlapped \/ \E d \in Connection \ {c} : session[d] \in {"open", "closing"})
    /\ UNCHANGED <<agentSideVars, link, downward, queryVars, seen, events>>

\* Faulty variant: a report of the version that is known is taken for an old one.
OutdatedOrEqual(report) == report.version <= pool.version

Outdated(report) == report.version < pool.version

\* set_check and its kin: whether a value is new.
SetCheck(current, value) == current # value
Meaningful(report) == SetCheck(pool.fields, report.fields) \/ SetCheck(pool.issues, report.issues)

\* The controller is looked up by the agent's id, whoever registered it; an older
\* report is discarded, and the pool signals if a newer one has new values.
HandleUpdateAgentStatus(c) ==
    LET report == Head(upward[c])
    IN  /\ Received(c, "update")
        /\ IF pool = None \/ Outdated(report)
           THEN UNCHANGED <<pool, unseen>>
           ELSE /\ pool' = ControllerOf(pool.conn, report)
                /\ unseen' = (unseen \/ Meaningful(report))
        /\ UNCHANGED <<agentSideVars, link, downward, session, queryVars, seen, events, overlapped>>

DeregisterAgent(c) ==
    /\ Received(c, "deregister")
    /\ session' = [session EXCEPT ![c] = "closing"]
    /\ UNCHANGED <<agentSideVars, link, downward, pool, queryVars, seen, unseen,
                   events, overlapped>>

\* An answer whose sender is not registered, yet or any more, is dropped.
ForwardResponse(c) ==
    /\ Received(c, "reply")
    /\ delivered' = delivered \cup ({Head(upward[c]).query} \cap reply_senders)
    /\ UNCHANGED <<agentSideVars, link, downward, session, pool, query, asked, reply_senders,
                   seen, unseen, events, overlapped>>

\* The stream of messages ends, or a ping cannot be sent.
CloseSession(c) ==
    /\ session[c] = "open"
    /\ link[c] = "down"
    /\ session' = [session EXCEPT ![c] = "closing"]
    /\ UNCHANGED <<agentSideVars, networkVars, pool, queryVars, seen, unseen,
                   events, overlapped>>

\* The context is dropped, and with it whatever entry the agent's id has.
EndSession(c) ==
    /\ session[c] = "closing"
    /\ session' = [session EXCEPT ![c] = "ended"]
    /\ upward' = [upward EXCEPT ![c] = <<>>]
    /\ downward' = [downward EXCEPT ![c] = <<>>]
    /\ pool' = None
    /\ unseen' = (unseen \/ pool # None)
    /\ UNCHANGED <<agentSideVars, link, queryVars, seen, events, overlapped>>

(***************************************************************************)
(* One-shot questions: /agent/{id}/model_metadata, chat_template_override. *)
(***************************************************************************)
EndQuery(q) ==
    /\ query' = [query EXCEPT ![q] = "ended"]
    /\ reply_senders' = reply_senders \ {q}
    /\ delivered' = delivered \ {q}
    /\ asked' = [asked EXCEPT ![q] = 0]
    /\ UNCHANGED <<agentSideVars, link, upward, session, pool, seen, unseen, overlapped>>

\* The answers 404, 500, 200, 502 and 504.
AgentNotFound(q) ==
    /\ query[q] = "idle"
    /\ Event
    /\ pool = None
    /\ EndQuery(q)
    /\ UNCHANGED downward

\* The controller's channel has a reader until its session has ended; a refused
\* registration never started one.
SendFails(q) ==
    /\ query[q] = "idle"
    /\ Event
    /\ pool # None
    /\ session[pool.conn] # "open"
    /\ EndQuery(q)
    /\ UNCHANGED downward

\* The question is sent first; its sender is registered after.
SendRpcMessage(q) ==
    /\ query[q] = "idle"
    /\ Event
    /\ pool # None
    /\ session[pool.conn] \in {"open", "closing"}
    /\ downward' = IF link[pool.conn] = "up" /\ session[pool.conn] = "open"
                   THEN [downward EXCEPT ![pool.conn] = Append(@, q)] ELSE downward
    /\ asked' = [asked EXCEPT ![q] = pool.conn]
    /\ query' = [query EXCEPT ![q] = "sent"]
    /\ UNCHANGED <<agentSideVars, link, upward, session, pool, reply_senders, delivered,
                   seen, unseen, overlapped>>

RegisterSender(q) ==
    /\ query[q] = "sent"
    /\ query' = [query EXCEPT ![q] = "waiting"]
    /\ reply_senders' = reply_senders \cup {q}
    /\ UNCHANGED <<agentSideVars, networkVars, session, pool, asked, delivered, seen,
                   unseen, events, overlapped>>

ReceiveAnswer(q) ==
    /\ q \in delivered
    /\ EndQuery(q)
    /\ UNCHANGED <<downward, events>>

AgentGone(q) ==
    /\ query[q] = "waiting"
    /\ session[asked[q]] # "open"
    /\ EndQuery(q)
    /\ UNCHANGED <<downward, events>>

QueryTimeout(q) ==
    /\ query[q] = "waiting"
    /\ EndQuery(q)
    /\ UNCHANGED <<downward, events>>

(***************************************************************************)
(* The snapshot stream: /agents/stream.                                    *)
(***************************************************************************)
\* make_snapshot of the pool: every agent that is in it.
PoolSnapshot == View(pool)

\* The stream is woken, marks the update as seen and takes the next snapshot.
SnapshotsStream ==
    /\ unseen
    /\ unseen' = FALSE
    /\ seen' = PoolSnapshot
    /\ UNCHANGED <<agentSideVars, networkVars, session, pool, queryVars, events, overlapped>>

-----------------------------------------------------------------------------
StatusStep == RegisterIssue \/ SetField

AgentStep ==
    \/ RegisterWithSnapshot
    \/ SendStatusUpdate
    \/ HandleIncomingRequest
    \/ ConnectionLost
    \/ CloseSocket

SessionStep(c) ==
    \/ HandleRegisterAgent(c)
    \/ HandleUpdateAgentStatus(c)
    \/ DeregisterAgent(c)
    \/ ForwardResponse(c)
    \/ CloseSession(c)
    \/ EndSession(c)

\* sleep(TIMEOUT) is one of them.
QueryStep(q) == RegisterSender(q) \/ ReceiveAnswer(q) \/ AgentGone(q) \/ QueryTimeout(q)

Ask(q) == AgentNotFound(q) \/ SendFails(q) \/ SendRpcMessage(q)

AgentConnectionNext ==
    \/ StatusStep
    \/ IncrementVersion
    \/ Connect
    \/ BeginStatusUpdate
    \/ AgentStep
    \/ Deregister
    \/ Shutdown
    \/ \E c \in Connection : LoseConnection(c) \/ SessionStep(c)
    \/ \E q \in Query : Ask(q) \/ QueryStep(q)
    \/ SnapshotsStream

AgentConnectionSpec == AgentConnectionInit /\ [][AgentConnectionNext]_agentConnectionVars

\* Every task is polled; the ticker of the status fires again and again, and a
\* lost connection is noticed at both ends by its pings, sooner or later.
AgentConnectionFairness ==
    /\ WF_agentConnectionVars(IncrementVersion)
    /\ WF_agentConnectionVars(Connect)
    /\ SF_agentConnectionVars(BeginStatusUpdate)
    /\ WF_agentConnectionVars(AgentStep)
    /\ \A c \in Connection : WF_agentConnectionVars(SessionStep(c))
    /\ \A q \in Query : WF_agentConnectionVars(QueryStep(q))
    /\ WF_agentConnectionVars(SnapshotsStream)

-----------------------------------------------------------------------------
(***************************************************************************)
(* Properties.                                                             *)
(***************************************************************************)
Connected == loop \in {"select", "reporting"} /\ link[conn] = "up"

\* An agent that stays connected is seen as it is by a client that watches the
\* pool: no report is lost for good to snapshots that mix two versions, to a
\* report whose version is known already, or to a missed signal.
\* Excepted is an agent one of whose connections met an older one at the
\* balancer: the end of the older one removes the entry of the newer.
StatusIsSeen ==
    <>[](Connected /\ ~overlapped) =>
        <>[](seen = [conn |-> conn, issues |-> reported_status.issues,
                     fields |-> reported_status.fields])

\* An agent that is gone leaves the pool, and the clients that watch it are told
\* (DeregisterAgent, CloseSession, the context's drop).
GoneIsSeen == []<>(loop = "stopped" => seen = None /\ pool = None)

\* Every one-shot question is answered in some way, although its answer may come
\* before its sender is registered, or never.
QueryEnds ==
    \A q \in Query :
        []<>(query[q] \notin {"sent", "waiting"})
=============================================================================
