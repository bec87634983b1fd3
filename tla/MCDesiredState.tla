--------------------------- MODULE MCDesiredState ---------------------------
(***************************************************************************)
(* The three stages of a desired state's way: the state database of the    *)
(* balancer, the propagation to the agents, and the arbiter of an agent.   *)
(* A behaviour exercises one of them and the others stay at rest.          *)
(***************************************************************************)
EXTENDS StateDatabase, Propagation, AgentArbiter

VARIABLE stage

DesiredStateInit ==
    /\ stage \in {"database", "propagation", "arbiter"}
    /\ Init /\ AgentArbiterInit
    /\ \/ stage = "propagation" /\ PropagationInit
       \/ /\ stage # "propagation"
          /\ broadcast = <<>> /\ lagged = FALSE /\ stores = 0 /\ unsent = {} /\ overlapped = {}
          /\ service = "stopped" /\ target = CHOOSE state \in StoredState : TRUE
          /\ on_target = FALSE /\ published = NoStoredState
          /\ agent = [a \in Agent |-> "absent"]
          /\ initial = [a \in Agent |-> NoStoredState] /\ told = initial

DesiredStateNext ==
    /\ UNCHANGED stage
    /\ \/ stage = "database" /\ Next /\ UNCHANGED <<propagationVars, agentArbiterVars>>
       \/ stage = "propagation" /\ PropagationNext /\ UNCHANGED <<vars, agentArbiterVars>>
       \/ stage = "arbiter" /\ AgentArbiterNext /\ UNCHANGED <<vars, propagationVars>>

\* The reconciliation service of the balancer is polled, its ticker fires and select!
\* picks a ready receiver sooner or later; a connection's handler, once started, runs
\* to its end.  The services of an agent are as in AgentArbiterFairness.
DesiredStateSpec ==
    /\ DesiredStateInit
    /\ [][DesiredStateNext]_<<stage, vars, propagationVars, agentArbiterVars>>
    /\ WF_propagationVars(stage = "propagation" /\ ServiceStep)
    /\ SF_propagationVars(stage = "propagation" /\ ReceiveStoredState)
    /\ \A a \in Agent : WF_propagationVars(stage = "propagation" /\ ConnectionStep(a))
    /\ WF_agentArbiterVars(stage = "arbiter" /\ ReconciliationStep)
    /\ WF_agentArbiterVars(stage = "arbiter" /\ ReceiveDesiredState)
    /\ SF_agentArbiterVars(stage = "arbiter" /\ FinishConversion)
    /\ WF_agentArbiterVars(stage = "arbiter" /\ ArbiterStep)
    /\ WF_agentArbiterVars(stage = "arbiter" /\ ReceiveApplicableState)
    /\ SF_agentArbiterVars(stage = "arbiter" /\ SpawnScheduler)
    /\ \A r \in Request : WF_agentArbiterVars(stage = "arbiter" /\ Complete(r))
-----------------------------------------------------------------------------
\* Every variable of the three stages has its type.
DesiredStateTypeOK == TypeOK /\ PropagationTypeOK /\ AgentArbiterTypeOK

\* What was set last arrives at both ends of its way: the balancer publishes it, however
\* sends fail, and an agent that was told of it ends up running it, however conversions
\* and loads fail (the tickers of both reconciliation services, the arbiter's retry).
DesiredStateArrives == LatestIsPublished /\ ConvergesOnDesiredState
=============================================================================
