--------------------------- MODULE ClusterHarness ---------------------------
(***************************************************************************)
(* The cluster a test runs against: a balancer and its agents, each a      *)
(* process of its own, started one after the other by a test that watches  *)
(* the balancer through the client library.  The ports are picked before   *)
(* the balancer binds them, what the test knows of its agents are the      *)
(* snapshots of a stream, and whatever fails on the way drops what has     *)
(* been started.                                                           *)
(*                                                                         *)
(* A snapshot maps an agent to what the pool has of it; an agent without   *)
(* a controller is "absent".  The processes themselves are external: they  *)
(* do what the other modules of the project say.                           *)
(***************************************************************************)
EXTENDS Naturals, Sequences

CONSTANTS
    MaxAgents,       \* bound: the agents of a cluster
    MaxTrouble       \* bound: processes and connections that are lost

ASSUME ClusterHarnessAssumption == MaxAgents \in Nat \ {0} /\ MaxTrouble \in Nat

VARIABLES
    params,          \* ClusterParams: the desired state, and whether to wait for the slots
    step,            \* where start_subprocess_cluster, and then the test, stands
    result,          \* what it has returned
    ports,           \* "unpicked", "free", "taken" by another program, "bound"
    balancer,        \* its process
    stored,          \* the desired state the balancer has
    agents,          \* per agent, its process and what the balancer knows of it
    spawned,         \* how many of them were started
    feed,            \* the agents' stream: "unopened", "open", "closed"
    behind,          \* the pool has changed since the last snapshot
    snapshots,       \* the snapshot under way
    ready,           \* last_ready_snapshot
    ids,             \* agent_ids
    trouble          \* history: what was lost

harnessVars == <<params, step, result, ports, balancer, stored, agents, spawned, feed, behind,
                 snapshots, ready, ids, trouble>>
testVars == <<params, step, result, spawned, ready, ids>>
balancerVars == <<ports, balancer, stored>>
feedVars == <<feed, behind, snapshots>>

Member == 1 .. MaxAgents
Known == {"registered", "ready", "failing"}
Running == Known \cup {"starting"}
NoSnapshot == [a \in Member |-> "absent"]

HarnessTypeOK ==
    /\ params \in [state : {"none", "empty", "model"}, wait : BOOLEAN]
    /\ step \in {"pick", "spawn_balancer", "health", "put", "watch", "spawn_agent", "until_ready",
                 "until_count", "test", "stop", "over"}
    /\ result \in {"none", "ok", "failed", "disappeared"}
    /\ ports \in {"unpicked", "free", "taken", "bound"}
    /\ balancer \in {"none", "starting", "serving", "ending", "ended"}
    /\ stored \in {"none", "empty", "model"}
    /\ agents \in [Member -> Running \cup {"none", "ending", "ended"}]
    /\ spawned \in 0 .. MaxAgents
    /\ feed \in {"unopened", "open", "closed"}
    /\ behind \in BOOLEAN
    /\ Len(snapshots) <= 1
    /\ ready \in [Member -> Known \cup {"absent"}]
    /\ ids \subseteq Member
    /\ trouble \in 0 .. MaxTrouble

HarnessInit ==
    /\ params \in [state : {"none", "empty", "model"}, wait : BOOLEAN]
    /\ step = "pick" /\ result = "none"
    /\ ports = "unpicked" /\ balancer = "none" /\ stored = "none"
    /\ agents = [a \in Member |-> "none"] /\ spawned = 0
    /\ feed = "unopened" /\ behind = FALSE /\ snapshots = <<>>
    /\ ready = NoSnapshot /\ ids = {}
    /\ trouble = 0

-----------------------------------------------------------------------------
\* Processes.

\* terminate_child, and kill_on_drop: a process that is still there is told to end.
TerminateChild(process) == IF process \in {"none", "ended"} THEN process ELSE "ending"

\* Every SubprocessProcess that the cluster, or the function that makes it, owns.
DropProcesses ==
    /\ balancer' = TerminateChild(balancer)
    /\ agents' = [a \in Member |-> TerminateChild(agents[a])]

\* A step fails: its error is returned, and what was started is dropped.
FailsWith(error) ==
    /\ step' = "over" /\ result' = error
    /\ DropProcesses
    /\ UNCHANGED <<params, ports, stored, spawned, feedVars, ready, ids, trouble>>

Fails == FailsWith("failed")

\* A process that is told to end does, and what it had is freed.
BalancerEnds ==
    /\ balancer = "ending"
    /\ balancer' = "ended"
    /\ ports' = IF ports = "bound" THEN "free" ELSE ports
    /\ feed' = IF feed = "open" THEN "closed" ELSE feed
    /\ behind' = FALSE
    /\ UNCHANGED <<testVars, stored, agents, snapshots, trouble>>

AgentEnds(a) ==
    /\ agents[a] = "ending"
    /\ agents' = [agents EXCEPT ![a] = "ended"]
    /\ behind' = (feed = "open")
    /\ UNCHANGED <<testVars, balancerVars, feed, snapshots, trouble>>

\* Without its port the balancer's services fail, and it exits.
BalancerBinds ==
    /\ balancer = "starting"
    /\ \/ ports = "free" /\ ports' = "bound" /\ balancer' = "serving"
       \/ ports = "taken" /\ balancer' = "ended" /\ UNCHANGED ports
    /\ UNCHANGED <<testVars, stored, agents, feedVars, trouble>>

AgentRegisters(a) ==
    /\ agents[a] = "starting"
    /\ balancer = "serving"
    /\ agents' = [agents EXCEPT ![a] = "registered"]
    /\ behind' = (feed = "open")
    /\ UNCHANGED <<testVars, balancerVars, feed, snapshots, trouble>>

\* An agent has its slots once it has loaded the model it was told to load; an
\* attempt that fails is an issue until the next one succeeds.
AgentLoads(a) ==
    /\ agents[a] \in {"registered", "failing"}
    /\ stored = "model"
    /\ \E outcome \in {"ready", "failing"} :
          /\ agents[a] # outcome
          /\ agents' = [agents EXCEPT ![a] = outcome]
    /\ behind' = (feed = "open")
    /\ UNCHANGED <<testVars, balancerVars, feed, snapshots, trouble>>

Trouble == trouble < MaxTrouble /\ trouble' = trouble + 1

\* Another program is given the port that was picked and let go.
PortIsTaken ==
    /\ ports = "free" /\ balancer \in {"none", "starting"} /\ Trouble
    /\ ports' = "taken"
    /\ UNCHANGED <<testVars, balancer, stored, agents, feedVars>>

BalancerDies ==
    /\ balancer = "serving" /\ Trouble
    /\ balancer' = "ended" /\ ports' = "free"
    /\ feed' = IF feed = "open" THEN "closed" ELSE feed
    /\ behind' = FALSE
    /\ UNCHANGED <<testVars, stored, agents, snapshots>>

\* An agent dies, or is without its connection for a while.
AgentIsLost(a) ==
    /\ agents[a] \in Running /\ Trouble
    /\ \E left \in {"starting", "ended"} : agents' = [agents EXCEPT ![a] = left]
    /\ behind' = (feed = "open")
    /\ UNCHANGED <<testVars, balancerVars, feed, snapshots>>

-----------------------------------------------------------------------------
\* start_subprocess_cluster and Cluster::connect, step by step.

To(next) == step' = next /\ UNCHANGED <<params, result, spawned, ready, ids>>

\* BalancerAddresses::pick: three ports are reserved, read and let go.
Pick ==
    /\ step = "pick"
    /\ \/ /\ ports' = "free"
          /\ To("spawn_balancer")
          /\ UNCHANGED <<balancer, stored, agents, feedVars, trouble>>
       \/ Fails

SpawnBalancer ==
    /\ step = "spawn_balancer"
    /\ \/ /\ balancer' = "starting"
          /\ To("health")
          /\ UNCHANGED <<ports, stored, agents, feedVars, trouble>>
       \/ Fails

\* wait_until_healthy goes on while nobody answers; another program's answer is
\* an error.
WaitUntilHealthy ==
    /\ step = "health"
    /\ \/ /\ balancer = "serving"
          /\ To(IF params.state = "none" THEN "watch" ELSE "put")
          /\ UNCHANGED <<balancerVars, agents, feedVars, trouble>>
       \/ ports = "taken" /\ Fails

\* A call of the client library that the balancer is there for, or not.
Calls(succeeds) == IF balancer = "serving" THEN succeeds ELSE Fails

PutBalancerDesiredState ==
    /\ step = "put"
    /\ Calls(/\ stored' = params.state
             /\ To("watch")
             /\ UNCHANGED <<ports, balancer, agents, feedVars, trouble>>)

\* Both watchers connect; the stream begins with a snapshot.
ConnectWatchers ==
    /\ step = "watch"
    /\ Calls(/\ feed' = "open" /\ behind' = TRUE
             /\ To("spawn_agent")
             /\ UNCHANGED <<balancerVars, agents, snapshots, trouble>>)

\* One agent after the other, and with wait_for_slots_ready each once the one
\* before it has its slots.
SpawnAdditionalAgent ==
    /\ step = "spawn_agent" /\ spawned < MaxAgents
    /\ \/ /\ spawned' = spawned + 1
          /\ agents' = [agents EXCEPT ![spawned + 1] = "starting"]
          /\ step' = IF params.wait THEN "until_ready" ELSE step
          /\ UNCHANGED <<params, result, ready, ids, balancerVars, feedVars, trouble>>
       \/ Fails

\* The agents of the snapshot that the start-up ended with.
StartedWith(snapshot) ==
    /\ ids' = {a \in Member : snapshot[a] # "absent"}
    /\ step' = "test" /\ result' = "ok"

AllSpawned ==
    /\ step = "spawn_agent" /\ spawned = MaxAgents
    /\ IF params.wait THEN StartedWith(ready) ELSE step' = "until_count" /\ UNCHANGED <<result, ids>>
    /\ UNCHANGED <<params, spawned, ready, balancerVars, agents, feedVars, trouble>>

-----------------------------------------------------------------------------
\* The watcher of the agents.

\* The balancer's end of the stream: the pool as it is when the snapshot is made.
SendPoolSnapshot ==
    /\ feed = "open" /\ behind /\ snapshots = <<>>
    /\ snapshots' = <<[a \in Member |-> IF agents[a] \in Known THEN agents[a] ELSE "absent"]>>
    /\ behind' = FALSE
    /\ UNCHANGED <<testVars, balancerVars, agents, feed, trouble>>

\* wait_for_agent_ready is over when the agent has its slots, or has issues.
AgentIsReady(snapshot, a) == snapshot[a] \in {"ready", "failing"}
AgentCount(snapshot) == \A a \in Member : snapshot[a] # "absent"

\* until takes one snapshot after the other until its predicate holds; an agent
\* that has issues then is an error.
UntilAgentReady ==
    /\ step = "until_ready" /\ snapshots # <<>>
    /\ LET snapshot == Head(snapshots)
           newest == spawned
       IN  IF AgentIsReady(snapshot, newest) /\ snapshot[newest] = "failing"
           THEN Fails
           ELSE /\ snapshots' = <<>>
                /\ IF AgentIsReady(snapshot, newest)
                   THEN ready' = snapshot /\ step' = "spawn_agent"
                   ELSE UNCHANGED <<ready, step>>
                /\ UNCHANGED <<params, result, spawned, ids, balancerVars, agents, feed, behind,
                               trouble>>

UntilAgentCount ==
    /\ step = "until_count" /\ snapshots # <<>>
    /\ snapshots' = <<>>
    /\ IF AgentCount(Head(snapshots)) THEN StartedWith(Head(snapshots))
       ELSE UNCHANGED <<step, result, ids>>
    /\ UNCHANGED <<params, spawned, ready, balancerVars, agents, feed, behind, trouble>>

\* The stream is closed, or the observation window is.
UntilFails ==
    /\ step \in {"until_ready", "until_count"}
    /\ Fails

\* The waits of the test itself: for what the other modules have of an agent or of
\* the buffer, as long as the agent is there (until_agent) ...
UntilAgent(a) ==
    /\ step = "test" /\ snapshots # <<>> /\ a \in ids
    /\ IF Head(snapshots)[a] = "absent"
       THEN FailsWith("disappeared")
       ELSE /\ snapshots' = <<>>
            /\ UNCHANGED <<testVars, balancerVars, agents, feed, behind, trouble>>

\* ... and for the slots of all of them, which an agent with issues ends.
SlotsReady(snapshot) ==
    /\ AgentCount(snapshot)
    /\ (\E a \in Member : snapshot[a] = "failing") \/ (\A a \in Member : snapshot[a] = "ready")

WaitForSlotsReady ==
    /\ step = "test" /\ snapshots # <<>>
    /\ IF SlotsReady(Head(snapshots)) /\ \E a \in Member : Head(snapshots)[a] = "failing"
       THEN Fails
       ELSE /\ snapshots' = <<>>
            /\ UNCHANGED <<testVars, balancerVars, agents, feed, behind, trouble>>

-----------------------------------------------------------------------------
\* Cluster::shutdown: the agents in order, each awaited, then the balancer.

EndOfTest ==
    /\ step = "test"
    /\ \/ To("stop") /\ UNCHANGED <<balancerVars, agents, feedVars, trouble>>
       \/ Fails

ShutdownAgent(a) ==
    /\ step = "stop"
    /\ agents[a] \in Running
    /\ \A earlier \in 1 .. a - 1 : agents[earlier] = "ended"
    /\ agents' = [agents EXCEPT ![a] = "ending"]
    /\ UNCHANGED <<testVars, balancerVars, feedVars, trouble>>

ShutdownBalancer ==
    /\ step = "stop"
    /\ \A a \in Member : agents[a] = "ended"
    /\ balancer \notin {"ending", "ended"}
    /\ balancer' = "ending"
    /\ UNCHANGED <<testVars, ports, stored, agents, feedVars, trouble>>

ClusterIsDown ==
    /\ step = "stop"
    /\ balancer = "ended" /\ \A a \in Member : agents[a] = "ended"
    /\ To("over")
    /\ UNCHANGED <<balancerVars, agents, feedVars, trouble>>

HarnessStep ==
    \/ Pick \/ SpawnBalancer \/ WaitUntilHealthy \/ PutBalancerDesiredState \/ ConnectWatchers
    \/ SpawnAdditionalAgent \/ AllSpawned \/ UntilAgentReady \/ UntilAgentCount \/ UntilFails
    \/ EndOfTest \/ ShutdownBalancer \/ ClusterIsDown
    \/ \E a \in Member : ShutdownAgent(a)

ProcessStep == BalancerEnds \/ BalancerBinds \/ \E a \in Member : AgentEnds(a)

HarnessNext ==
    \/ HarnessStep \/ ProcessStep \/ SendPoolSnapshot
    \/ PortIsTaken \/ BalancerDies \/ WaitForSlotsReady
    \/ \E a \in Member : UntilAgent(a)
    \/ \E a \in Member : AgentRegisters(a) \/ AgentLoads(a) \/ AgentIsLost(a)

-----------------------------------------------------------------------------
\* A cluster that is handed to its test is the one that was asked for, unless a
\* process or a connection was lost: the test has the ids of all its agents, and
\* if it waits for slots every agent has them, from the one state that was put
\* (start_subprocess_cluster, wait_for_agent_ready).
ClusterIsReady ==
    step = "test" /\ trouble = 0 =>
        /\ ids = Member
        /\ params.wait => \A a \in Member : agents[a] = "ready"
        /\ stored = params.state

\* An agent the test was given disappears from the snapshots only if its process
\* died or its connection dropped, as until_agent says of it.
DisappearedWasLost == result = "disappeared" => trouble > 0

\* No process is left without somebody who ends it: while the cluster starts and
\* runs the test has it, and when it is over every process was told to end.  The
\* balancer outlives its agents when all goes well.
NoneIsOrphaned ==
    /\ step = "over" => \A process \in {agents[a] : a \in Member} \cup {balancer} :
                           process \in {"none", "ending", "ended"}
    /\ step = "stop" /\ balancer = "ending" => \A a \in Member : agents[a] = "ended"

\* A test comes to its end, and so do its processes, except one whose balancer was
\* gone before it was healthy: the wait for it has no window.
HarnessEnded ==
    \/ step = "over" /\ \A process \in {agents[a] : a \in Member} \cup {balancer} :
                            process \in {"none", "ended"}
    \/ step = "health" /\ balancer = "ended"
=============================================================================
