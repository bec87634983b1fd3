----------------------------- MODULE Lifecycle ------------------------------
(***************************************************************************)
(* The life of a balancer or an agent process: how its services are put    *)
(* together, started and ended.  The command line runs them in the main    *)
(* task; the desktop application and the tests run them in a ServiceThread *)
(* of a runner, which they cancel, await or drop.                          *)
(*                                                                         *)
(* The service manager and the HTTP server are libraries: a service that   *)
(* ends, for whatever reason, ends them all, and a server that is told to  *)
(* stop gracefully takes no connection and waits for those it has.  Both   *)
(* have deadlines: the server gives up its connections, and the manager    *)
(* aborts a service that has not ended in time.                            *)
(***************************************************************************)
EXTENDS Naturals, FiniteSets

CONSTANTS
    Http,           \* services of the balancer that listen for HTTP requests
    Streaming,      \* those whose answers may go on for ever
    Reconciliation, \* the services that end with their channel
    Reporting,      \* the service that reports to StatsD
    Always,         \* services every balancer has
    OfAgent,        \* services of an agent
    MaxConnections  \* bound: open connections of a server

Services == Always \cup Http \cup Reporting \cup OfAgent

\* The bundles: what has no address configured is left out.
BalancerServiceBundles == {Always \cup optional : optional \in SUBSET (Http \cup Reporting)}
AgentServiceBundle == OfAgent

ASSUME LifecycleAssumption ==
    /\ Always \subseteq Http \cup Reconciliation
    /\ Streaming \subseteq Http
    /\ Http \cap (Reporting \cup Reconciliation \cup OfAgent) = {}
    /\ MaxConnections \in Nat

VARIABLES
    program,      \* "balancer" or "agent"
    runs_in,      \* "command" or "thread"
    configured,   \* services of the bundle
    bundle,       \* "none", "made", "failed"
    service,      \* state of each service
    open,         \* open connections of each server
    cancelled_token,     \* the cancellation token
    manager,      \* "none", "running", "ok", "error"
    completion,   \* what the thread's oneshot channel holds
    receiver,     \* who has its receiver
    thread_owner, \* "holds", "drops", "gone"
    metrics       \* the last report to StatsD

threadVars == <<completion, receiver, thread_owner>>
lifecycleVars == <<program, runs_in, configured, bundle, service, open, cancelled_token, manager,
                   threadVars, metrics>>

Ended == {"ok", "failed"}
EndedOrAborted == Ended \cup {"aborted"}
Unclean == {"failed", "aborted"}
Finished == manager \in {"ok", "error"}

\* Every variable has its type.
LifecycleTypeOK ==
    /\ program \in {"balancer", "agent"} /\ runs_in \in {"command", "thread"}
    /\ configured \subseteq Services
    /\ bundle \in {"none", "made", "failed"}
    /\ service \in [Services -> {"absent", "starting", "up", "stopping"} \cup EndedOrAborted]
    /\ open \in [Services -> 0 .. MaxConnections]
    /\ cancelled_token \in BOOLEAN
    /\ manager \in {"none", "running", "ok", "error"}
    /\ completion \in {"pending", "ok", "error", "lost"}
    /\ receiver \in {"kept", "awaited", "dropped", "told ok", "told error"}
    /\ thread_owner \in {"holds", "drops", "gone"}
    /\ metrics \in {"none", "sent", "failed"}

\* The command and its arguments: an HTTP service or the reports are enabled by
\* their address, the inference and the management address have defaults.
LifecycleInit ==
    /\ program \in {"balancer", "agent"}
    /\ runs_in \in {"command", "thread"}
    /\ configured \in IF program = "agent" THEN {AgentServiceBundle} ELSE BalancerServiceBundles
    /\ bundle = "none"
    /\ service = [s \in Services |-> "absent"]
    /\ open = [s \in Services |-> 0]
    /\ cancelled_token = FALSE
    /\ manager = "none"
    /\ completion = "pending" /\ receiver = "kept" /\ thread_owner = "holds"
    /\ metrics = "none"
-----------------------------------------------------------------------------
\* The bundle shares its pools, channels and collections between its services.
\* A balancer's reads the stored state first, which may fail; then nothing runs.
NewBundle ==
    /\ bundle = "none"
    /\ \/ bundle' = "made" /\ UNCHANGED manager
       \/ program = "balancer" /\ bundle' = "failed" /\ manager' = "error"
    /\ UNCHANGED <<program, runs_in, configured, service, open, cancelled_token, threadVars, metrics>>

\* register_bundle and start: every service is a task.
StartManager ==
    /\ bundle = "made" /\ manager = "none"
    /\ manager' = "running"
    /\ service' = [s \in Services |-> IF s \in configured THEN "starting" ELSE "absent"]
    /\ UNCHANGED <<program, runs_in, configured, bundle, open, cancelled_token, threadVars, metrics>>

\* The command runs its services itself,
StartServices == runs_in = "command" /\ StartManager

\* a runner in a thread of its own.
StartRunner == runs_in = "thread" /\ StartManager

Becomes(s, state) == service' = [service EXCEPT ![s] = state]

serviceVars == <<program, runs_in, configured, bundle, cancelled_token, manager, threadVars>>

\* A server that cannot bind its address fails, and so does a socket for StatsD.
RunHttpService(s) ==
    /\ s \in Http \cup Reporting /\ service[s] = "starting"
    /\ Becomes(s, "up") \/ Becomes(s, "failed")
    /\ UNCHANGED <<serviceVars, open, metrics>>

RunLoop(s) ==
    /\ s \notin Http \cup Reporting /\ service[s] = "starting"
    /\ Becomes(s, "up")
    /\ UNCHANGED <<serviceVars, open, metrics>>

OpenConnection(s) ==
    /\ s \in Http /\ service[s] = "up" /\ open[s] < MaxConnections
    /\ open' = [open EXCEPT ![s] = @ + 1]
    /\ UNCHANGED <<serviceVars, service, metrics>>

\* The answer is complete, or the client leaves.
CloseConnection(s) ==
    /\ open[s] > 0
    /\ open' = [open EXCEPT ![s] = @ - 1]
    /\ UNCHANGED <<serviceVars, service, metrics>>

\* A page, a file or a document is sent in one go.
CompleteAnswer(s) == s \notin Streaming /\ CloseConnection(s)

\* The handlers of the services that stream find the token in their AppData.
AppDataHasShutdown(s) == s \in Streaming

\* Faulty variant: a stream of the management service is not told.
CloseConnectionOnShutdownElsewhere(s) ==
    /\ cancelled_token /\ open[s] > 0 /\ AppDataHasShutdown(s) /\ s # "management"
    /\ open' = [open EXCEPT ![s] = @ - 1]
    /\ UNCHANGED <<serviceVars, service, metrics>>

\* Every stream and every socket has the token: it ends when that is cancelled.
CloseConnectionOnShutdown(s) ==
    /\ cancelled_token /\ open[s] > 0 /\ AppDataHasShutdown(s)
    /\ open' = [open EXCEPT ![s] = @ - 1]
    /\ UNCHANGED <<serviceVars, service, metrics>>

\* The server ends on its own, and its connections with it.
ServerEnds(s) ==
    /\ s \in Http /\ service[s] = "up"
    /\ \E end \in Ended : Becomes(s, end)
    /\ open' = [open EXCEPT ![s] = 0]
    /\ UNCHANGED <<serviceVars, metrics>>

\* The token is cancelled: stop(true).
StopServer(s) ==
    /\ s \in Http /\ service[s] = "up" /\ cancelled_token
    /\ Becomes(s, "stopping")
    /\ UNCHANGED <<serviceVars, open, metrics>>

\* Faulty variant: the server is told to stop but not awaited.
ServerStopsAtOnce(s) ==
    /\ service[s] = "stopping"
    /\ \E end \in Ended : Becomes(s, end)
    /\ UNCHANGED <<serviceVars, open, metrics>>

\* Both the server and its stop are awaited.
ServerStops(s) ==
    /\ service[s] = "stopping" /\ open[s] = 0
    /\ \E end \in Ended : Becomes(s, end)
    /\ UNCHANGED <<serviceVars, open, metrics>>

\* The graceful stop of the server has a deadline of its own: the connections that
\* are left are dropped.
DrainTimesOut(s) ==
    /\ service[s] = "stopping" /\ open[s] > 0
    /\ open' = [open EXCEPT ![s] = 0]
    /\ \E end \in Ended : Becomes(s, end)
    /\ UNCHANGED <<serviceVars, metrics>>

\* A loop ends when the token is cancelled, reconciliation also when its channel
\* is closed or, in the balancer, has lagged.
LoopEnds(s) ==
    /\ s \notin Http /\ service[s] = "up"
    /\ \/ cancelled_token /\ Becomes(s, "ok")
       \/ s \in Reconciliation /\ \E end \in Ended : Becomes(s, end)
    /\ UNCHANGED <<serviceVars, open, metrics>>

\* A report that fails is logged; the next tick makes another.
ReportMetrics(s) ==
    /\ s \in Reporting /\ service[s] = "up"
    /\ metrics' \in {"sent", "failed"}
    /\ UNCHANGED <<serviceVars, service, open>>
-----------------------------------------------------------------------------
\* A signal to the process, or cancel() of the runner.
Cancel ==
    /\ ~cancelled_token
    /\ runs_in = "thread" => thread_owner = "holds"
    /\ cancelled_token' = TRUE
    /\ UNCHANGED <<program, runs_in, configured, bundle, service, open, manager, threadVars,
                   metrics>>

\* The service manager: the first service that ends takes the others along.
ManagerCancels ==
    /\ manager = "running" /\ ~cancelled_token
    /\ \E s \in configured : service[s] \in Ended
    /\ cancelled_token' = TRUE
    /\ UNCHANGED <<program, runs_in, configured, bundle, service, open, manager, threadVars,
                   metrics>>

\* A service that runs past the cooperative deadline of a shutdown is aborted where it
\* stands; the connections of a server are not its task's, and may stay.
AbortService(s) ==
    /\ manager = "running" /\ cancelled_token
    /\ service[s] \in {"starting", "up", "stopping"}
    /\ Becomes(s, "aborted")
    /\ UNCHANGED <<serviceVars, open, metrics>>

\* An aborted service makes the end an error, as one that failed does.
RunToCompletion ==
    /\ manager = "running"
    /\ \A s \in configured : service[s] \in EndedOrAborted
    /\ manager' = IF \E s \in configured : service[s] \in Unclean THEN "error" ELSE "ok"
    /\ UNCHANGED <<program, runs_in, configured, bundle, service, open, cancelled_token, threadVars,
                   metrics>>

restVars == <<program, runs_in, configured, bundle, service, open, manager, metrics>>

\* The thread sends the result, which is logged if nobody has the receiver.  A
\* bundle that was not made has no thread.
SendCompletion ==
    /\ runs_in = "thread" /\ bundle = "made" /\ Finished /\ completion = "pending"
    /\ completion' = IF receiver \in {"kept", "awaited"} THEN manager ELSE "lost"
    /\ UNCHANGED <<restVars, cancelled_token, receiver, thread_owner>>

WaitForCompletion ==
    /\ runs_in = "thread" /\ bundle = "made" /\ thread_owner = "holds" /\ receiver = "kept"
    /\ receiver' = "awaited"
    /\ UNCHANGED <<restVars, cancelled_token, completion, thread_owner>>

TakeCompletion ==
    /\ receiver = "awaited" /\ completion \in {"ok", "error"}
    /\ receiver' = IF completion = "ok" THEN "told ok" ELSE "told error"
    /\ UNCHANGED <<restVars, cancelled_token, completion, thread_owner>>

\* The future is dropped, with the receiver in it.
DropWait ==
    /\ receiver = "awaited"
    /\ receiver' = "dropped"
    /\ UNCHANGED <<restVars, cancelled_token, completion, thread_owner>>

\* The runner is dropped: its token is cancelled and its thread is joined.
DropThread ==
    /\ runs_in = "thread" /\ bundle = "made" /\ thread_owner = "holds"
    /\ thread_owner' = "drops"
    /\ cancelled_token' = TRUE
    /\ receiver' = IF receiver = "kept" THEN "dropped" ELSE receiver
    /\ UNCHANGED <<restVars, completion>>

JoinThread ==
    /\ thread_owner = "drops" /\ completion # "pending"
    /\ thread_owner' = "gone"
    /\ UNCHANGED <<restVars, cancelled_token, completion, receiver>>
-----------------------------------------------------------------------------
ServiceStep(s) ==
    RunHttpService(s) \/ RunLoop(s) \/ StopServer(s) \/ ServerStops(s) \/ LoopEnds(s)

ManagerStep ==
    NewBundle \/ StartServices \/ StartRunner \/ ManagerCancels \/ RunToCompletion \/ SendCompletion

OwnerStep == TakeCompletion \/ JoinThread

LifecycleNext ==
    \/ \E s \in Services :
          \/ ServiceStep(s) \/ ServerEnds(s) \/ ReportMetrics(s)
          \/ OpenConnection(s) \/ CloseConnection(s) \/ CloseConnectionOnShutdown(s)
          \/ DrainTimesOut(s) \/ AbortService(s)
    \/ ManagerStep
    \/ OwnerStep
    \/ Cancel \/ WaitForCompletion \/ DropWait \/ DropThread

-----------------------------------------------------------------------------
(***************************************************************************)
(* Properties.                                                             *)
(***************************************************************************)
\* What has ended has left nothing behind, and nothing unclean is hidden: when the
\* manager is done, or the dropped runner's thread is joined, no service runs, only one
\* that was aborted has left connections open, and whoever awaits the completion is told
\* of an error exactly if a service has failed or was aborted (serve_http_until_shutdown,
\* run_service_manager, ServiceThread).
EndIsClean ==
    /\ Finished \/ thread_owner = "gone"
        => \A s \in Services :
              /\ service[s] \in EndedOrAborted \cup {"absent"}
              /\ open[s] > 0 => service[s] = "aborted"
    /\ receiver \in {"told ok", "told error"}
        => (receiver = "told error" <=> \E s \in Services : service[s] \in Unclean)

\* A shutdown, and a service that ends, end the whole program, streams that would
\* go on for ever included, and the owner that drops or awaits it goes on: none of it
\* needs a deadline to pass.
ShutdownEnds ==
    /\ cancelled_token \/ (\E s \in Services : service[s] \in Ended) ~> Finished
    /\ thread_owner = "drops" ~> thread_owner = "gone"
=============================================================================
