----------------------------- MODULE Propagation -----------------------------
(***************************************************************************)
(* How a desired state reaches the agents.  The balancer's reconciliation  *)
(* service takes stored states from a broadcast channel, sends each one to *)
(* the agents in the pool and then publishes it in the applicable state    *)
(* holder; an agent that registers is sent what the holder has.  Both run  *)
(* on threads of their own.                                                *)
(*                                                                         *)
(* The channel to an agent is FIFO and the agent converges on the state it *)
(* was sent last (AgentArbiter): told keeps that one only.                 *)
(***************************************************************************)
EXTENDS Naturals, Sequences

CONSTANTS
    Agent,         \* agent connections, each with its own id
    StoredState,   \* desired states
    NoStoredState, \* no state
    Capacity,      \* the capacity of the broadcast channel
    MaxStores      \* bound: how many states are stored

ASSUME PropagationAssumption ==
    /\ StoredState # {} /\ NoStoredState \notin StoredState
    /\ Capacity \in Nat \ {0}
    /\ MaxStores \in Nat

VARIABLES
    broadcast,     \* the stored states the service has yet to receive
    lagged,        \* the channel has dropped a state the service had not received
    service,       \* where the service's loop stands
    target,        \* its balancer_desired_state
    on_target,     \* is_converted_to_applicable_state
    unsent,        \* the agents the pool's iteration has yet to reach
    published,     \* BalancerApplicableStateHolder
    agent,         \* per agent, the progress of its connection
    initial,       \* per agent, the holder's state as its registration read it
    told,          \* per agent, the state it was sent last
    stores,        \* how many states were stored, for the bound
    overlapped     \* history: the agents that registered during a conversion

serviceVars == <<service, target, on_target, unsent, published>>
channelVars == <<broadcast, lagged, stores>>
propagationVars == <<broadcast, lagged, service, target, on_target, unsent, published, agent,
                     initial, told, stores, overlapped>>

Registering == {a \in Agent : agent[a] \in {"inserted", "setting"}}
Pool == {a \in Agent : agent[a] \in {"inserted", "setting", "registered", "closed"}}

PropagationTypeOK ==
    /\ broadcast \in Seq(StoredState)
    /\ lagged \in BOOLEAN
    /\ service \in {"select", "sending", "stopped"}
    /\ target \in StoredState
    /\ on_target \in BOOLEAN
    /\ unsent \in SUBSET Pool
    /\ published \in StoredState \cup {NoStoredState}
    /\ agent \in [Agent -> {"absent", "inserted", "setting", "registered", "closed", "gone"}]
    /\ initial \in [Agent -> StoredState \cup {NoStoredState}]
    /\ told \in [Agent -> StoredState \cup {NoStoredState}]
    /\ stores \in 0 .. MaxStores
    /\ overlapped \in SUBSET Agent

PropagationInit ==
    /\ broadcast = <<>>
    /\ lagged = FALSE
    /\ service = "select"
    /\ target \in StoredState
    /\ on_target = FALSE
    /\ unsent = {}
    /\ published = NoStoredState
    /\ agent = [a \in Agent |-> "absent"]
    /\ initial = [a \in Agent |-> NoStoredState]
    /\ told = [a \in Agent |-> NoStoredState]
    /\ stores = 0
    /\ overlapped = {}

\* The state database broadcasts a stored state; a full channel drops the oldest.
Broadcast(state) ==
    /\ service # "stopped"
    /\ stores < MaxStores
    /\ stores' = stores + 1
    /\ lagged' = (lagged \/ Len(broadcast) = Capacity)
    /\ broadcast' = Append(IF Len(broadcast) = Capacity THEN Tail(broadcast) ELSE broadcast,
                           state)
    /\ UNCHANGED <<serviceVars, agent, initial, told, overlapped>>

(***************************************************************************)
(* The reconciliation service.                                             *)
(***************************************************************************)
\* pool.set_desired_state iterates over the agents that are there.
BeginConversion ==
    /\ service' = "sending"
    /\ unsent' = Pool
    /\ overlapped' = overlapped \cup Registering

\* The next stored state; a receiver that lags gets an error, which ends the service.
ReceiveStoredState ==
    /\ service = "select"
    /\ broadcast # <<>>
    /\ on_target' = FALSE
    /\ \/ /\ lagged
          /\ service' = "stopped"
          /\ UNCHANGED <<broadcast, target, unsent, overlapped>>
       \/ /\ ~lagged
          /\ target' = Head(broadcast)
          /\ broadcast' = Tail(broadcast)
          /\ BeginConversion
    /\ UNCHANGED <<lagged, stores, published, agent, initial, told>>

\* The ticker retries a conversion that failed.
RetrySending ==
    /\ service = "select"
    /\ ~on_target
    /\ BeginConversion
    /\ UNCHANGED <<channelVars, target, on_target, published, agent, initial, told>>

SendDesiredState(a) ==
    /\ service = "sending"
    /\ a \in unsent
    /\ agent[a] # "closed"
    /\ told' = [told EXCEPT ![a] = target]
    /\ unsent' = unsent \ {a}
    /\ UNCHANGED <<channelVars, service, target, on_target, published, agent, initial,
                   overlapped>>

\* Faulty variant: a failed send ends the iteration, and the conversion is done.
SendFailsConverted(a) ==
    /\ service = "sending"
    /\ a \in unsent
    /\ agent[a] = "closed"
    /\ service' = "select"
    /\ unsent' = {}
    /\ published' = target
    /\ on_target' = TRUE
    /\ UNCHANGED <<channelVars, target, agent, initial, told, overlapped>>

\* The first send that fails ends the iteration: nothing is published.
SendFails(a) ==
    /\ service = "sending"
    /\ a \in unsent
    /\ agent[a] = "closed"
    /\ service' = "select"
    /\ unsent' = {}
    /\ UNCHANGED <<channelVars, target, on_target, published, agent, initial, told, overlapped>>

\* All were sent: the state is published.
PublishState ==
    /\ service = "sending"
    /\ unsent = {}
    /\ published' = target
    /\ on_target' = TRUE
    /\ service' = "select"
    /\ UNCHANGED <<channelVars, target, unsent, agent, initial, told, overlapped>>

(***************************************************************************)
(* An agent's connection.                                                  *)
(***************************************************************************)
\* The controller is inserted; an iteration under way may or may not reach it.
RegisterAgent(a) ==
    /\ agent[a] = "absent"
    /\ agent' = [agent EXCEPT ![a] = "inserted"]
    /\ \/ UNCHANGED unsent
       \/ service = "sending" /\ unsent' = unsent \cup {a}
    /\ overlapped' = IF service = "sending" THEN overlapped \cup {a} ELSE overlapped
    /\ UNCHANGED <<channelVars, service, target, on_target, published, initial, told>>

GetAgentDesiredState(a) ==
    /\ agent[a] = "inserted"
    /\ initial' = [initial EXCEPT ![a] = published]
    /\ agent' = [agent EXCEPT ![a] = "setting"]
    /\ UNCHANGED <<channelVars, serviceVars, told, overlapped>>

SetInitialState(a) ==
    /\ agent[a] = "setting"
    /\ told' = [told EXCEPT ![a] = IF initial[a] = NoStoredState THEN @ ELSE initial[a]]
    /\ agent' = [agent EXCEPT ![a] = "registered"]
    /\ UNCHANGED <<channelVars, serviceVars, initial, overlapped>>

\* The connection closes and drops the channel's receiver; then its context
\* removes the controller.
CloseConnection(a) ==
    /\ agent[a] = "registered"
    /\ agent' = [agent EXCEPT ![a] = "closed"]
    /\ UNCHANGED <<channelVars, serviceVars, initial, told, overlapped>>

RemoveAgent(a) ==
    /\ agent[a] = "closed"
    /\ agent' = [agent EXCEPT ![a] = "gone"]
    /\ unsent' = unsent \ {a}
    /\ UNCHANGED <<channelVars, service, target, on_target, published, initial, told, overlapped>>

-----------------------------------------------------------------------------
ServiceStep ==
    \/ ReceiveStoredState
    \/ RetrySending
    \/ \E a \in Agent : SendDesiredState(a) \/ SendFails(a)
    \/ PublishState

ConnectionStep(a) == GetAgentDesiredState(a) \/ SetInitialState(a) \/ RemoveAgent(a)

PropagationNext ==
    \/ \E state \in StoredState : Broadcast(state)
    \/ ServiceStep
    \/ \E a \in Agent : RegisterAgent(a) \/ ConnectionStep(a) \/ CloseConnection(a)

-----------------------------------------------------------------------------
(***************************************************************************)
(* Properties.                                                             *)
(***************************************************************************)
\* Whenever the service has converted the latest state it received, that state
\* is what every registered agent was sent last, through failed sends, retries
\* and registrations; only an agent that registered while a conversion was under
\* way may have got the holder's previous state after the new one, or instead of it.
ConvertedIsTold ==
    service = "select" /\ on_target =>
        /\ published = target
        /\ \A a \in Agent :
               agent[a] = "registered" /\ a \notin overlapped => told[a] = target

\* A connection that is lost in the middle of a conversion does not keep the
\* others from converging: every state that stays the latest is published
\* (set_desired_state's early return, the ticker, the removal).
LatestIsPublished ==
    \A state \in StoredState :
        <>[](broadcast = <<>> /\ target = state /\ service # "stopped") =>
            <>[](published = state)
=============================================================================
