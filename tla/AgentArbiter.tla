---------------------------- MODULE AgentArbiter ----------------------------
(***************************************************************************)
(* How an agent swaps models: the reconciliation service turns the desired *)
(* state the balancer sets into an applicable one, and the arbiter service *)
(* applies it by draining the requests in flight, tearing the scheduler    *)
(* down and spawning another.  The same arbiter loop hands queued requests *)
(* to the scheduler, and the agent's socket counts a request in            *)
(* slots_processing when it queues it.                                     *)
(*                                                                         *)
(* The services are tasks of their own and await in between: each await of *)
(* apply_state and of the conversion is a place where the others step in.  *)
(***************************************************************************)
EXTENDS Integers, FiniteSets, Sequences

CONSTANTS
    Request,       \* the requests the balancer sends to this agent
    AgentState,    \* desired states with a model
    NoModel,       \* a desired state without a model
    NoAgentState,  \* no state at all, and no scheduler
    DesiredSlots,  \* desired_slots_total
    MaxDesired     \* bound: how often the balancer sets a desired state

ASSUME ArbiterAssumption ==
    /\ IsFiniteSet(Request)
    /\ NoModel \notin AgentState
    /\ NoAgentState \notin AgentState \cup {NoModel}
    /\ DesiredSlots \in Nat
    /\ MaxDesired \in Nat

VARIABLES
    desired_rx,       \* the desired states on their way to the reconciliation
    desired,          \* ReconciliationService.agent_desired_state
    converted,        \* is_converted_to_applicable_state
    converting,       \* the reconciliation awaits to_applicable_state
    holder,           \* the value in AgentApplicableStateHolder's channel
    changed,          \* the arbiter's receiver has not seen it
    arbiter,          \* where the arbiter's loop is
    current,          \* the arbiter's agent_applicable_state
    scheduler,        \* the state of the running scheduler's handle, or NoAgentState
    status,           \* state_application_status
    request,          \* per request, where it is
    slots_processing, \* the agent's count of requests in flight
    slots_total,      \* the slots the agent offers
    known_total,      \* the slots_total the balancer was last told
    shutdown,         \* the agent's shutdown token
    sent,             \* how many desired states were set, for the bound
    last,             \* history: the desired state set last
    wiped             \* history: a reset has zeroed the count of live requests

reconcileVars == <<desired_rx, desired, converted, converting, sent, last>>
applyVars == <<arbiter, current, scheduler, status, changed>>
slotVars == <<request, slots_processing, slots_total, known_total>>
agentArbiterVars == <<desired_rx, desired, converted, converting, holder, changed, arbiter,
          current, scheduler, status, request, slots_processing, slots_total,
          known_total, shutdown, sent, last, wiped>>

DesiredState == AgentState \cup {NoModel}
Statuses == {"Applied", "AttemptedAndRetrying", "Fresh", "Stuck"}

\* The requests that hold a SlotGuard.
Queued == {r \in Request : request[r] = "queued"}
Active == {r \in Request : request[r] = "active"}
Guards == Queued \cup Active

AgentArbiterTypeOK ==
    /\ desired_rx \in Seq(DesiredState)
    /\ desired \in DesiredState \cup {NoAgentState}
    /\ converted \in BOOLEAN
    /\ converting \in BOOLEAN
    /\ holder \in DesiredState \cup {NoAgentState}
    /\ changed \in BOOLEAN
    /\ arbiter \in {"select", "drain", "teardown", "reset", "spawn", "mark", "stopped"}
    /\ current \in DesiredState \cup {NoAgentState}
    /\ scheduler \in AgentState \cup {NoAgentState}
    /\ status \in Statuses
    /\ request \in [Request -> {"new", "queued", "active", "completed", "dropped"}]
    /\ slots_processing \in Int
    /\ slots_total \in {0, DesiredSlots}
    /\ known_total \in {0, DesiredSlots}
    /\ shutdown \in BOOLEAN
    /\ sent \in 0 .. MaxDesired
    /\ last \in DesiredState \cup {NoAgentState}
    /\ wiped \in BOOLEAN

AgentArbiterInit ==
    /\ desired_rx = <<>>
    /\ desired = NoAgentState
    /\ converted = FALSE
    /\ converting = FALSE
    /\ holder = NoAgentState
    /\ changed = FALSE
    /\ arbiter = "select"
    /\ current = NoAgentState
    /\ scheduler = NoAgentState
    /\ status = "Fresh"
    /\ request = [r \in Request |-> "new"]
    /\ slots_processing = 0
    /\ slots_total = 0
    /\ known_total = 0
    /\ shutdown = FALSE
    /\ sent = 0
    /\ last = NoAgentState
    /\ wiped = FALSE

(***************************************************************************)
(* The agent's socket.                                                     *)
(***************************************************************************)
SetState(state) ==
    /\ sent < MaxDesired
    /\ sent' = sent + 1
    /\ last' = state
    /\ desired_rx' = Append(desired_rx, state)
    /\ UNCHANGED <<desired, converted, converting, holder, applyVars, slotVars, shutdown,
                   wiped>>

\* A status update reaches the balancer.
UpdateStatus ==
    /\ known_total # slots_total
    /\ known_total' = slots_total
    /\ UNCHANGED <<request, slots_processing, slots_total, reconcileVars, holder, applyVars,
                   shutdown, wiped>>

\* The balancer dispatches a request on what it knows of the agent; making the
\* request takes a slot before it is queued.
GenerateResponses(r) ==
    /\ request[r] = "new"
    /\ Cardinality(Guards) < known_total
    /\ request' = [request EXCEPT ![r] = "queued"]
    /\ slots_processing' = slots_processing + 1
    /\ UNCHANGED <<slots_total, known_total, reconcileVars, holder, applyVars, shutdown, wiped>>

Shutdown ==
    /\ ~shutdown
    /\ shutdown' = TRUE
    /\ UNCHANGED <<reconcileVars, holder, applyVars, slotVars, wiped>>

(***************************************************************************)
(* The reconciliation service.                                             *)
(***************************************************************************)
ReceiveDesiredState ==
    /\ ~converting /\ ~shutdown
    /\ desired_rx # <<>>
    /\ desired' = Head(desired_rx)
    /\ desired_rx' = Tail(desired_rx)
    /\ converted' = FALSE
    /\ converting' = TRUE
    /\ UNCHANGED <<sent, last, holder, applyVars, slotVars, shutdown, wiped>>

\* The ticker retries a conversion that failed.
RetryConversion ==
    /\ ~converting /\ ~shutdown
    /\ ~converted
    /\ converting' = TRUE
    /\ UNCHANGED <<desired_rx, desired, converted, sent, last, holder, applyVars, slotVars,
                   shutdown, wiped>>

\* Faulty variant: a failed conversion is not tried again.
FailConversionForGood ==
    /\ converting
    /\ desired # NoAgentState
    /\ converting' = FALSE
    /\ converted' = TRUE
    /\ UNCHANGED <<desired_rx, desired, sent, last, holder, applyVars, slotVars, shutdown,
                   wiped>>

\* The model cannot be resolved: a download fails, a file is missing.
FailConversion ==
    /\ converting
    /\ desired # NoAgentState
    /\ converting' = FALSE
    /\ UNCHANGED <<desired_rx, desired, converted, sent, last, holder, applyVars, slotVars,
                   shutdown, wiped>>

\* The applicable state is published, which fails when the arbiter has stopped.
FinishConversion ==
    /\ converting
    /\ converting' = FALSE
    /\ \/ /\ arbiter # "stopped"
          /\ holder' = desired
          /\ changed' = TRUE
          /\ converted' = TRUE
       \/ /\ arbiter = "stopped"
          /\ UNCHANGED <<holder, changed, converted>>
    /\ UNCHANGED <<desired_rx, desired, sent, last, arbiter, current, scheduler, status,
                   slotVars, shutdown, wiped>>

(***************************************************************************)
(* The arbiter service: select! is biased towards the shutdown, the ticker *)
(* and a new state, in this order, before the queued requests.             *)
(***************************************************************************)
\* apply_state drains only if there is a scheduler.
BeginApply == arbiter' = IF scheduler # NoAgentState THEN "drain" ELSE "teardown"

\* should_try_to_apply
ShouldTryToApply == status \in {"AttemptedAndRetrying", "Fresh", "Stuck"}

\* The ticker fires while the state is not applied.
RetryApply ==
    /\ arbiter = "select" /\ ~shutdown
    /\ ShouldTryToApply
    /\ status' = IF status = "AttemptedAndRetrying" THEN "Stuck" ELSE "AttemptedAndRetrying"
    /\ BeginApply
    /\ UNCHANGED <<current, scheduler, changed, reconcileVars, holder, slotVars, shutdown,
                   wiped>>

ReceiveApplicableState ==
    /\ arbiter = "select" /\ ~shutdown
    /\ changed
    /\ changed' = FALSE
    /\ current' = holder
    /\ status' = "Fresh"
    /\ BeginApply
    /\ UNCHANGED <<scheduler, reconcileVars, holder, slotVars, shutdown, wiped>>

\* A queued request goes to the scheduler; without one it is dropped.
ForwardCommand(r) ==
    /\ arbiter = "select" /\ ~shutdown /\ ~changed
    /\ request[r] = "queued"
    /\ \/ /\ scheduler # NoAgentState
          /\ request' = [request EXCEPT ![r] = "active"]
          /\ UNCHANGED slots_processing
       \/ /\ scheduler = NoAgentState
          /\ request' = [request EXCEPT ![r] = "dropped"]
          /\ slots_processing' = slots_processing - 1
    /\ UNCHANGED <<slots_total, known_total, reconcileVars, holder, applyVars, shutdown, wiped>>

\* Faulty variant: the drain does not wait.
DrainNothing ==
    /\ arbiter = "drain"
    /\ arbiter' = "teardown"
    /\ UNCHANGED <<current, scheduler, status, changed, reconcileVars, holder, slotVars,
                   shutdown, wiped>>

\* drain_in_flight_requests returns: it re-reads the count after every change.
DrainInFlightRequests ==
    /\ arbiter = "drain"
    /\ slots_processing <= 0 \/ shutdown
    /\ arbiter' = "teardown"
    /\ UNCHANGED <<current, scheduler, status, changed, reconcileVars, holder, slotVars,
                   shutdown, wiped>>

\* The scheduler ends; the requests it still has are dropped with their guards.
EndScheduler ==
    /\ scheduler' = NoAgentState
    /\ request' = [r \in Request |-> IF r \in Active THEN "dropped" ELSE request[r]]
    /\ slots_processing' = slots_processing - Cardinality(Active)

ShutdownArbiterHandle ==
    /\ arbiter = "teardown"
    /\ EndScheduler
    /\ arbiter' = IF current = NoAgentState THEN "mark" ELSE "reset"
    /\ UNCHANGED <<current, status, changed, slots_total, known_total, reconcileVars, holder,
                   shutdown, wiped>>

\* slot_aggregated_status.reset(): both counts become 0, whoever holds a guard.
Reset ==
    /\ arbiter = "reset"
    /\ slots_processing' = 0
    /\ slots_total' = 0
    /\ wiped' = (wiped \/ Guards # {})
    /\ arbiter' = IF current = NoModel THEN "mark" ELSE "spawn"
    /\ UNCHANGED <<current, scheduler, status, changed, request, known_total, reconcileVars,
                   holder, shutdown>>

\* The model loads and the slots are offered.
SpawnScheduler ==
    /\ arbiter = "spawn" /\ ~shutdown
    /\ scheduler' = current
    /\ slots_total' = DesiredSlots
    /\ arbiter' = "mark"
    /\ UNCHANGED <<current, status, changed, request, slots_processing, known_total,
                   reconcileVars, holder, shutdown, wiped>>

\* The model does not load: apply_state returns the error, nothing is marked.
SpawnFails ==
    /\ arbiter = "spawn" /\ ~shutdown
    /\ arbiter' = "select"
    /\ UNCHANGED <<current, scheduler, status, changed, reconcileVars, holder, slotVars,
                   shutdown, wiped>>

\* The shutdown cancels the load.
SpawnCancelled ==
    /\ arbiter = "spawn" /\ shutdown
    /\ arbiter' = "mark"
    /\ UNCHANGED <<current, scheduler, status, changed, reconcileVars, holder, slotVars,
                   shutdown, wiped>>

MarkApplied ==
    /\ arbiter = "mark"
    /\ status' = "Applied"
    /\ arbiter' = "select"
    /\ UNCHANGED <<current, scheduler, changed, reconcileVars, holder, slotVars, shutdown,
                   wiped>>

\* The loop breaks, the scheduler ends, and the channels drop what is queued.
StopArbiter ==
    /\ arbiter = "select" /\ shutdown
    /\ arbiter' = "stopped"
    /\ scheduler' = NoAgentState
    /\ request' = [r \in Request |-> IF r \in Guards THEN "dropped" ELSE request[r]]
    /\ slots_processing' = slots_processing - Cardinality(Guards)
    /\ UNCHANGED <<current, status, changed, slots_total, known_total, reconcileVars, holder,
                   shutdown, wiped>>

\* The scheduler (external to this module) completes a request.
Complete(r) ==
    /\ request[r] = "active"
    /\ request' = [request EXCEPT ![r] = "completed"]
    /\ slots_processing' = slots_processing - 1
    /\ UNCHANGED <<slots_total, known_total, reconcileVars, holder, applyVars, shutdown, wiped>>

-----------------------------------------------------------------------------
ReconciliationStep ==
    \/ ReceiveDesiredState
    \/ RetryConversion
    \/ FailConversion
    \/ FinishConversion

ArbiterStep ==
    \/ RetryApply
    \/ ReceiveApplicableState
    \/ \E r \in Request : ForwardCommand(r)
    \/ DrainInFlightRequests
    \/ ShutdownArbiterHandle
    \/ Reset
    \/ SpawnScheduler
    \/ SpawnFails
    \/ SpawnCancelled
    \/ MarkApplied
    \/ StopArbiter

AgentArbiterNext ==
    \/ \E state \in DesiredState : SetState(state)
    \/ UpdateStatus
    \/ \E r \in Request : GenerateResponses(r) \/ Complete(r)
    \/ Shutdown
    \/ ReconciliationStep
    \/ ArbiterStep

\* Both services are polled and their tickers fire; a scheduler completes its
\* requests; a download and a load that are tried again and again succeed.
AgentArbiterFairness ==
    /\ WF_agentArbiterVars(ReconciliationStep)
    /\ WF_agentArbiterVars(ReceiveDesiredState)
    /\ SF_agentArbiterVars(FinishConversion)
    /\ WF_agentArbiterVars(ArbiterStep)
    /\ WF_agentArbiterVars(ReceiveApplicableState)
    /\ SF_agentArbiterVars(SpawnScheduler)
    /\ \A r \in Request : WF_agentArbiterVars(Complete(r))

AgentArbiterFairSpec ==
    AgentArbiterInit /\ [][AgentArbiterNext]_agentArbiterVars /\ AgentArbiterFairness

-----------------------------------------------------------------------------
(***************************************************************************)
(* Properties.                                                             *)
(***************************************************************************)
\* Whenever the arbiter is back in its loop with the state marked applied, it is
\* the state it holds that runs, after any sequence of failed loads and swaps
\* (apply_state).
AppliedIsRunning ==
    arbiter = "select" /\ status = "Applied" /\ ~shutdown =>
        scheduler = IF current \in AgentState THEN current ELSE NoAgentState

\* The agent offers slots only while it has a scheduler to serve them, apart from
\* the moments between the teardown and the reset (reset, increment_total_slots).
SlotsOnlyWithScheduler ==
    slots_total > 0 /\ scheduler = NoAgentState => arbiter \in {"reset", "stopped"} \/ shutdown

\* The count never exceeds the guards that are alive, so a drain waits for no
\* request that does not exist (SlotGuard, take_slot, release_slot).
NoPhantomSlots == slots_processing <= Cardinality(Guards)

\* A swap interrupts no request, unless a reset has wiped the count of requests
\* that were queued while the previous scheduler was torn down
\* (drain_in_flight_requests, reset).
DrainedBeforeTeardown ==
    arbiter = "teardown" /\ ~shutdown /\ ~wiped => Active = {}

\* A swap is clean: what is applied runs, no slot is offered without a scheduler,
\* none is counted without a request, and no request is interrupted.
SwapIsClean ==
    AppliedIsRunning /\ SlotsOnlyWithScheduler /\ NoPhantomSlots /\ DrainedBeforeTeardown

\* The agent converges on the desired state set last, through conversions and
\* loads that fail and states that overtake each other, as long as requests do
\* not stay queued (ReconciliationService, LlamaCppArbiterService).
ConvergesOnDesiredState ==
    \A state \in AgentState :
        /\ <>[](last = state /\ ~shutdown)
        /\ []<>(Queued = {})
        => <>[](scheduler = state)

\* A swap that begins ends: the drain waits until the requests in flight finish
\* and then tears the scheduler down (the swap tests and drain_in_flight_requests).
SwapCompletes == arbiter = "drain" ~> arbiter # "drain"
=============================================================================
