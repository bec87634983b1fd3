------------------------------ MODULE Dispatch ------------------------------
(***************************************************************************)
(* How the balancer gives a request a slot of an agent.                    *)
(*                                                                         *)
(* AgentControllerPool keeps one AgentController per agent id; each one    *)
(* counts the balancer's own claims in the atomic slots_processing.  A     *)
(* request scans the pool for the least busy agent with capacity, claims   *)
(* a slot of it by compare-and-swap, and otherwise waits in the buffer of  *)
(* BufferedRequestManager until the pool's watch channel signals a change. *)
(* Requests and agent sockets run on different threads, so every atomic    *)
(* load, store, compare-and-swap and watch send is a step of its own.      *)
(*                                                                         *)
(* An agent that reconnects under the same id gets a new AgentController,  *)
(* while requests dispatched earlier keep the old one alive through their  *)
(* slot guards: Controller is the set of these objects, and a controller   *)
(* stands for the web socket connection that registered it, too.           *)
(***************************************************************************)
EXTENDS Integers, FiniteSets

CONSTANTS
    Request,      \* inference requests, each with its own request id
    Controller,   \* AgentController objects, one per agent socket connection
    AgentId,      \* the ids agents register under
    IdOf,         \* the agent id of each controller's connection
    NoController, \* "no entry": an agent id that is absent from the pool
    MaxBuffered,  \* max_buffered_requests of the balancer
    MaxSlots      \* bound: slot counts an agent may report

ASSUME DispatchAssumption ==
    /\ IsFiniteSet(Request)
    /\ IdOf \in [Controller -> AgentId]
    /\ NoController \notin Controller
    /\ MaxBuffered \in Nat
    /\ MaxSlots \in Nat

VARIABLES
    agents,           \* AgentControllerPool.agents
    slots_processing, \* per controller, the balancer's atomic claim counter
    slots_total,      \* per controller, the capacity the agent last reported
    socket,           \* per controller, the progress of its socket's handlers
    pc,               \* per request, where wait_for_available_agent stands
    unscanned,        \* per request, the ids its current scan has yet to visit
    visiting,         \* per request, the entry being inspected, with its snapshot
    best,             \* per request, the best DispatchCandidate of the scan
    holder,           \* per request, the controller its slot guard points to
    buffered,         \* requests that hold a BufferedRequestCountGuard
    notified,         \* buffered requests whose watch receiver has an unseen change
    counter,          \* BufferedRequestCounter.count
    reported,         \* history: the claims each agent reported on registering
    shrunk            \* history: controllers whose slots_total was ever lowered

requestVars == <<pc, unscanned, visiting, best>>
bufferVars  == <<buffered, notified, counter>>
agentVars   == <<agents, slots_total, socket, reported, shrunk>>
vars == <<agents, slots_processing, slots_total, socket, pc, unscanned, visiting,
          best, holder, buffered, notified, counter, reported, shrunk>>

Slots == 0 .. MaxSlots

\* A DispatchCandidate: a controller and the claim count read from it.
Candidate == [controller : Controller \cup {NoController}, snapshot : Int]
NoCandidate == [controller |-> NoController, snapshot |-> 0]

SocketStates == {"absent", "inserted", "registered", "updated", "rejected",
                 "removed", "gone"}
RequestStates == {"new", "scan", "check", "claim", "claimed", "leave", "full",
                  "enter", "parked", "dispatched", "released", "done"}

TypeOK ==
    /\ agents \in [AgentId -> Controller \cup {NoController}]
    /\ slots_processing \in [Controller -> Int]
    /\ slots_total \in [Controller -> Slots]
    /\ socket \in [Controller -> SocketStates]
    /\ pc \in [Request -> RequestStates]
    /\ unscanned \in [Request -> SUBSET AgentId]
    /\ visiting \in [Request -> Candidate]
    /\ best \in [Request -> Candidate]
    /\ holder \in [Request -> Controller \cup {NoController}]
    /\ buffered \in SUBSET Request
    /\ notified \in SUBSET buffered
    /\ counter \in Int
    /\ reported \in [Controller -> Slots]
    /\ shrunk \in SUBSET Controller

Init ==
    /\ agents = [id \in AgentId |-> NoController]
    /\ slots_processing = [c \in Controller |-> 0]
    /\ slots_total = [c \in Controller |-> 0]
    /\ socket = [c \in Controller |-> "absent"]
    /\ pc = [r \in Request |-> "new"]
    /\ unscanned = [r \in Request |-> {}]
    /\ visiting = [r \in Request |-> NoCandidate]
    /\ best = [r \in Request |-> NoCandidate]
    /\ holder = [r \in Request |-> NoController]
    /\ buffered = {}
    /\ notified = {}
    /\ counter = 0
    /\ reported = [c \in Controller |-> 0]
    /\ shrunk = {}

(***************************************************************************)
(* The pool's watch channel.  send_replace marks the value as unseen for   *)
(* every live receiver; only buffered requests hold one.                   *)
(***************************************************************************)
SignalUpdate == notified' = buffered

(***************************************************************************)
(* take_least_busy_agent_controller: a scan over the entries in any order, *)
(* two loads per entry, then the claim.                                    *)
(***************************************************************************)
BeginScan(r) ==
    /\ pc' = [pc EXCEPT ![r] = "scan"]
    /\ unscanned' = [unscanned EXCEPT ![r] = AgentId]
    /\ visiting' = [visiting EXCEPT ![r] = NoCandidate]
    /\ best' = [best EXCEPT ![r] = NoCandidate]

\* A new request takes the quick path first.
Arrive(r) ==
    /\ pc[r] = "new"
    /\ BeginScan(r)
    /\ UNCHANGED <<slots_processing, holder, bufferVars, agentVars>>

\* The client is gone, or the balancer is shutting down, before the first poll.
Decline(r) ==
    /\ pc[r] = "new"
    /\ pc' = [pc EXCEPT ![r] = "done"]
    /\ UNCHANGED <<unscanned, visiting, best, slots_processing, holder, bufferVars,
                   agentVars>>

\* The scan reaches id: an absent entry is skipped, a present one has its
\* claim counter loaded as the snapshot.
VisitEntry(r, id) ==
    /\ pc[r] = "scan"
    /\ id \in unscanned[r]
    /\ unscanned' = [unscanned EXCEPT ![r] = @ \ {id}]
    /\ \/ /\ agents[id] = NoController
          /\ UNCHANGED <<pc, visiting>>
       \/ /\ agents[id] # NoController
          /\ visiting' = [visiting EXCEPT ![r] =
                 [controller |-> agents[id],
                  snapshot   |-> slots_processing[agents[id]]]]
          /\ pc' = [pc EXCEPT ![r] = "check"]
    /\ UNCHANGED <<best, slots_processing, holder, bufferVars, agentVars>>

\* The candidate kept: skip a full agent, keep the current best on a tie.
LeastBusy(current, visited) ==
    IF \/ visited.snapshot >= slots_total[visited.controller]
       \/ /\ current.controller # NoController
          /\ current.snapshot <= visited.snapshot
    THEN current
    ELSE visited

\* slots_total is loaded and compared with the snapshot.
CheckCapacity(r) ==
    /\ pc[r] = "check"
    /\ best' = [best EXCEPT ![r] = LeastBusy(best[r], visiting[r])]
    /\ visiting' = [visiting EXCEPT ![r] = NoCandidate]
    /\ pc' = [pc EXCEPT ![r] = "scan"]
    /\ UNCHANGED <<unscanned, slots_processing, holder, bufferVars, agentVars>>

\* Faulty variant: the wait subscribes only once its scan has found nothing.
FinishScanThenSubscribe(r) ==
    /\ pc[r] = "scan"
    /\ unscanned[r] = {}
    /\ pc' = [pc EXCEPT ![r] =
           IF best[r].controller # NoController THEN "claim"
           ELSE IF r \in buffered THEN "parked" ELSE "full"]
    /\ notified' = notified \ {r}
    /\ UNCHANGED <<unscanned, visiting, best, slots_processing, holder,
                   buffered, counter, agentVars>>

\* The scan ends: claim the best candidate; without one the quick path goes on
\* to the buffer, and a buffered request awaits the next change.
FinishScan(r) ==
    /\ pc[r] = "scan"
    /\ unscanned[r] = {}
    /\ pc' = [pc EXCEPT ![r] =
           IF best[r].controller # NoController THEN "claim"
           ELSE IF r \in buffered THEN "parked" ELSE "full"]
    /\ UNCHANGED <<unscanned, visiting, best, slots_processing, holder,
                   bufferVars, agentVars>>

\* Faulty variant: an increment in place of the compare-and-swap.
ClaimWithoutCompare(r) ==
    LET c == best[r].controller
    IN  /\ pc[r] = "claim"
        /\ slots_processing' = [slots_processing EXCEPT ![c] = @ + 1]
        /\ holder' = [holder EXCEPT ![r] = c]
        /\ pc' = [pc EXCEPT ![r] = "claimed"]
        /\ UNCHANGED <<unscanned, visiting, best, bufferVars, agentVars>>

\* try_claim succeeds: the counter still has the snapshot's value.
ClaimSlot(r) ==
    LET c == best[r].controller
    IN  /\ pc[r] = "claim"
        /\ slots_processing[c] = best[r].snapshot
        /\ slots_processing' = [slots_processing EXCEPT ![c] = best[r].snapshot + 1]
        /\ holder' = [holder EXCEPT ![r] = c]
        /\ pc' = [pc EXCEPT ![r] = "claimed"]
        /\ UNCHANGED <<unscanned, visiting, best, bufferVars, agentVars>>

\* try_claim fails: another claim or release came first; scan again.
ClaimContended(r) ==
    /\ pc[r] = "claim"
    /\ slots_processing[best[r].controller] # best[r].snapshot
    /\ BeginScan(r)
    /\ UNCHANGED <<slots_processing, holder, bufferVars, agentVars>>

\* The claim signals the pool; a buffered request then leaves the buffer.
SignalClaim(r) ==
    /\ pc[r] = "claimed"
    /\ SignalUpdate
    /\ pc' = [pc EXCEPT ![r] = IF r \in buffered THEN "leave" ELSE "dispatched"]
    /\ UNCHANGED <<unscanned, visiting, best, slots_processing, holder,
                   buffered, counter, agentVars>>

(***************************************************************************)
(* wait_for_available_agent: the buffer.                                   *)
(***************************************************************************)
\* Faulty variant: the watch receiver outlives the wait.
LeaveBufferSubscribed(r) ==
    /\ buffered' = buffered \ {r}
    /\ notified' = notified
    /\ counter' = counter - 1

\* The guard's drop, and the watch receiver's.
LeaveBuffer(r) ==
    /\ buffered' = buffered \ {r}
    /\ notified' = notified \ {r}
    /\ counter' = counter - 1

\* The counter is loaded and compared with the limit.
CheckBuffer(r) ==
    /\ pc[r] = "full"
    /\ pc' = [pc EXCEPT ![r] = IF counter >= MaxBuffered THEN "done" ELSE "enter"]
    /\ UNCHANGED <<unscanned, visiting, best, slots_processing, holder,
                   bufferVars, agentVars>>

\* The counter is incremented and the pool's channel subscribed to, and only
\* then is the pool scanned again.
EnterBuffer(r) ==
    /\ pc[r] = "enter"
    /\ counter' = counter + 1
    /\ buffered' = buffered \cup {r}
    /\ UNCHANGED notified
    /\ BeginScan(r)
    /\ UNCHANGED <<slots_processing, holder, agentVars>>

\* changed().await returns at once when the value is unseen, and marks it seen.
Wake(r) ==
    /\ pc[r] = "parked"
    /\ r \in notified
    /\ notified' = notified \ {r}
    /\ BeginScan(r)
    /\ UNCHANGED <<slots_processing, holder, buffered, counter, agentVars>>

\* Found: the wait returns and its guard is dropped.
Dispatched(r) ==
    /\ pc[r] = "leave"
    /\ LeaveBuffer(r)
    /\ pc' = [pc EXCEPT ![r] = "dispatched"]
    /\ UNCHANGED <<unscanned, visiting, best, slots_processing, holder, agentVars>>

\* Faulty variant: a wait that is given up keeps its place in the counter.
GiveUpUncounted(r) ==
    /\ pc[r] = "parked"
    /\ buffered' = buffered \ {r}
    /\ notified' = notified \ {r}
    /\ counter' = counter
    /\ pc' = [pc EXCEPT ![r] = "done"]
    /\ UNCHANGED <<unscanned, visiting, best, slots_processing, holder, agentVars>>

\* The buffered_request_timeout elapses, or the client closes its connection,
\* or the balancer shuts down: the pending wait is dropped.
GiveUp(r) ==
    /\ pc[r] = "parked"
    /\ LeaveBuffer(r)
    /\ pc' = [pc EXCEPT ![r] = "done"]
    /\ UNCHANGED <<unscanned, visiting, best, slots_processing, holder, agentVars>>

(***************************************************************************)
(* AgentControllerSlotGuard::drop, when the request is over.               *)
(***************************************************************************)
\* Faulty variant: the slot is given back to the controller now registered under
\* the agent's id, not to the one the guard was made for.
ReleaseByAgentId(r) ==
    /\ pc[r] = "dispatched"
    /\ slots_processing' = [c \in Controller |->
           IF c = agents[IdOf[holder[r]]] THEN slots_processing[c] - 1
           ELSE slots_processing[c]]
    /\ pc' = [pc EXCEPT ![r] = "released"]
    /\ UNCHANGED <<unscanned, visiting, best, holder, bufferVars, agentVars>>

ReleaseSlot(r) ==
    /\ pc[r] = "dispatched"
    /\ slots_processing' = [slots_processing EXCEPT ![holder[r]] = @ - 1]
    /\ pc' = [pc EXCEPT ![r] = "released"]
    /\ UNCHANGED <<unscanned, visiting, best, holder, bufferVars, agentVars>>

SignalRelease(r) ==
    /\ pc[r] = "released"
    /\ SignalUpdate
    /\ holder' = [holder EXCEPT ![r] = NoController]
    /\ pc' = [pc EXCEPT ![r] = "done"]
    /\ UNCHANGED <<unscanned, visiting, best, slots_processing, buffered, counter,
                   agentVars>>

(***************************************************************************)
(* The agent's socket.                                                     *)
(***************************************************************************)
\* RegisterAgent: a controller with the counts of the agent's own snapshot is
\* inserted.  The insert replaces an entry of the same id even though the
\* registration is then refused.
RegisterAgent(c, processing, total) ==
    /\ socket[c] = "absent"
    /\ slots_processing' = [slots_processing EXCEPT ![c] = processing]
    /\ reported' = [reported EXCEPT ![c] = processing]
    /\ slots_total' = [slots_total EXCEPT ![c] = total]
    /\ agents' = [agents EXCEPT ![IdOf[c]] = c]
    /\ socket' = [socket EXCEPT ![c] =
           IF agents[IdOf[c]] = NoController THEN "inserted" ELSE "rejected"]
    /\ UNCHANGED <<requestVars, holder, bufferVars, shrunk>>

\* UpdateAgentStatus: the controller now registered under the socket's id
\* takes the reported slots_total; its slots_processing is left alone.
UpdateAgentStatus(c, total) ==
    LET target == agents[IdOf[c]]
    IN  /\ socket[c] = "registered"
        /\ target # NoController
        /\ slots_total[target] # total
        /\ slots_total' = [slots_total EXCEPT ![target] = total]
        /\ shrunk' = IF total < slots_total[target] THEN shrunk \cup {target} ELSE shrunk
        /\ socket' = [socket EXCEPT ![c] = "updated"]
        /\ UNCHANGED <<agents, reported, slots_processing, requestVars, holder, bufferVars>>

\* The connection ends, possibly before the agent registered, and its context
\* is dropped: whatever is registered under the id is removed.
RemoveAgent(c) ==
    /\ socket[c] \in {"absent", "registered", "rejected"}
    /\ agents' = [agents EXCEPT ![IdOf[c]] = NoController]
    /\ socket' = [socket EXCEPT ![c] =
           IF agents[IdOf[c]] # NoController THEN "removed" ELSE "gone"]
    /\ UNCHANGED <<slots_total, reported, shrunk, slots_processing, requestVars, holder,
                   bufferVars>>

\* Faulty variant: only a removal signals the pool.
SignalRemovalOnly(c) ==
    /\ socket[c] \in {"inserted", "updated", "removed"}
    /\ notified' = IF socket[c] = "removed" THEN buffered ELSE notified
    /\ socket' = [socket EXCEPT ![c] = IF @ = "removed" THEN "gone" ELSE "registered"]
    /\ UNCHANGED <<agents, slots_total, reported, shrunk, slots_processing, requestVars,
                   holder, buffered, counter>>

\* The handler's send_replace after an insert, an update or a removal.
SignalSocket(c) ==
    /\ socket[c] \in {"inserted", "updated", "removed"}
    /\ SignalUpdate
    /\ socket' = [socket EXCEPT ![c] = IF @ = "removed" THEN "gone" ELSE "registered"]
    /\ UNCHANGED <<agents, slots_total, reported, shrunk, slots_processing, requestVars,
                   holder, buffered, counter>>

-----------------------------------------------------------------------------
\* The steps of a request up to its dispatch, and of its guard's drop.
RequestStep(r) ==
    \/ Arrive(r)
    \/ \E id \in AgentId : VisitEntry(r, id)
    \/ CheckCapacity(r)
    \/ FinishScan(r)
    \/ ClaimSlot(r)
    \/ ClaimContended(r)
    \/ SignalClaim(r)
    \/ CheckBuffer(r)
    \/ EnterBuffer(r)
    \/ Wake(r)
    \/ Dispatched(r)
    \/ SignalRelease(r)

SocketStep(c) ==
    \/ \E processing, total \in Slots : RegisterAgent(c, processing, total)
    \/ \E total \in Slots : UpdateAgentStatus(c, total)
    \/ RemoveAgent(c)
    \/ SignalSocket(c)

Next ==
    \/ \E r \in Request : RequestStep(r) \/ Decline(r) \/ ReleaseSlot(r) \/ GiveUp(r)
    \/ \E c \in Controller : SocketStep(c)

Spec == Init /\ [][Next]_vars

\* The runtime keeps polling ready tasks, and a handler that changed the pool
\* signals it without awaiting.  Nothing makes a request end, an agent come or
\* go, or a buffered request time out.
Fairness ==
    /\ \A r \in Request : WF_vars(RequestStep(r))
    /\ \A c \in Controller : WF_vars(SignalSocket(c))
    /\ \A c \in Controller : WF_vars(socket[c] = "rejected" /\ RemoveAgent(c))

FairSpec == Spec /\ Fairness

-----------------------------------------------------------------------------
(***************************************************************************)
(* Properties.                                                             *)
(***************************************************************************)
\* The requests whose slot guard on c is still to be dropped.
Claims(c) == {r \in Request : holder[r] = c /\ pc[r] # "released"}

HasCapacity(id) ==
    /\ agents[id] # NoController
    /\ slots_processing[agents[id]] < slots_total[agents[id]]

\* A step that may have given id capacity is about to signal the pool, or the
\* refused connection that took over id is about to be removed.
SignalDue(id) ==
    \/ \E c \in Controller : /\ IdOf[c] = id
                            /\ socket[c] \in {"inserted", "updated", "rejected"}
    \/ \E r \in Request : /\ pc[r] = "released"
                          /\ holder[r] \in Controller
                          /\ IdOf[holder[r]] = id

\* slots_processing is exactly what the agent reported on registering plus the
\* slot guards alive on that very controller: compare-and-swap claims and guard
\* drops, interleaved with re-registrations, neither lose nor duplicate a slot
\* (try_claim, AgentControllerSlotGuard::drop).
SlotConservation ==
    \A c \in Controller : slots_processing[c] = reported[c] + Cardinality(Claims(c))

\* Concurrent dispatch never claims beyond the capacity an agent reported,
\* whatever the scans read before: the claims exceed slots_total only where the
\* agent lowered it under them (select_least_busy_with_capacity, try_claim).
NoOversubscription ==
    \A c \in Controller :
        slots_processing[c] > slots_total[c] => c \in shrunk \/ Claims(c) = {}

\* Every way out of the buffer gives back its place: the counter is the number
\* of requests that are in it (BufferedRequestCountGuard).
BufferCounted == counter = Cardinality(buffered)

\* A request that awaits a change with none pending has missed none: no agent
\* has a free slot, unless the step that freed it has yet to signal
\* (wait_for_available_agent subscribes before it scans).
NoLostWakeup ==
    \A r \in Request, id \in AgentId :
        pc[r] = "parked" /\ r \notin notified /\ HasCapacity(id) => SignalDue(id)

\* While some agent keeps a free slot, no request stays in the buffer
\* (wait_for_available_agent's loop).
BufferedRequestServed ==
    \A r \in Request, id \in AgentId :
        <>[]HasCapacity(id) => (r \in buffered ~> r \notin buffered)

-----------------------------------------------------------------------------
(***************************************************************************)
(* What makes the properties above inductive (see RequestProofs).          *)
(***************************************************************************)
\* The pool maps an id to a controller of that id whose connection is open.
PoolShape ==
    \A id \in AgentId :
        agents[id] # NoController =>
            /\ agents[id] \in Controller
            /\ IdOf[agents[id]] = id
            /\ socket[agents[id]] \in {"inserted", "registered", "updated", "rejected"}

\* Nothing refers to a controller that was not created.
Created(c) == c = NoController \/ (c \in Controller /\ socket[c] # "absent")
ReferencesCreated ==
    \A r \in Request : /\ Created(holder[r])
                       /\ Created(best[r].controller)
                       /\ Created(visiting[r].controller)

\* What each place of wait_for_available_agent implies for the request.
RequestShape ==
    \A r \in Request :
        /\ holder[r] # NoController <=> pc[r] \in {"claimed", "leave", "dispatched", "released"}
        /\ pc[r] = "claim" => best[r].controller # NoController
        /\ pc[r] = "check" => visiting[r].controller # NoController
        /\ pc[r] = "parked" => unscanned[r] = {} /\ best[r].controller = NoController
        /\ pc[r] \in {"parked", "leave"} => r \in buffered
        /\ r \in buffered => pc[r] \in {"scan", "check", "claim", "claimed", "leave", "parked"}

\* A candidate had capacity, and still has unless slots_total was lowered.
CandidateHadCapacity ==
    \A r \in Request :
        LET c == best[r].controller
        IN  c \in Controller /\ c \notin shrunk => best[r].snapshot < slots_total[c]

\* A scan that has found no candidate so far and has no change pending passed no
\* agent that has capacity without a signal on its way; the entry under
\* inspection may only have become busier since its snapshot.
ScanMissedNothing ==
    \A r \in buffered \ notified, id \in AgentId :
        /\ pc[r] \in {"scan", "check", "parked"}
        /\ best[r].controller = NoController
        /\ id \notin unscanned[r]
        /\ HasCapacity(id)
        => \/ SignalDue(id)
           \/ /\ pc[r] = "check"
              /\ visiting[r].controller = agents[id]
              /\ slots_processing[agents[id]] >= visiting[r].snapshot

IInv ==
    /\ TypeOK
    /\ PoolShape
    /\ ReferencesCreated
    /\ RequestShape
    /\ CandidateHadCapacity
    /\ ScanMissedNothing
    /\ SlotConservation
    /\ NoOversubscription
    /\ BufferCounted
=============================================================================
